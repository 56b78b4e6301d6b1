------------------------------ MODULE DocsPage ------------------------------
(***************************************************************************)
(* One page of the documentation site in a browser: the code blocks whose  *)
(* imports are folded (docs/_static/js/literalinclude-imports.js) and the  *)
(* figures of Chart.js (docs/_static/js/chartjs.js).                       *)
(*                                                                         *)
(* An action is one task of the browser's event loop. The parser adds the  *)
(* elements while it loads; clicks, DOMContentLoaded, the result of a      *)
(* clipboard write, a timeout and the observer of the theme come in any    *)
(* order, except that the observer runs before the next task.              *)
(***************************************************************************)
EXTENDS Naturals, SequencesExt

CONSTANTS
  None,
  Block,      \* the code blocks of the page
  Pages,      \* the pages considered
  MaxCopies   \* bound: clicks on a copy button

Theme == {"light", "dark"}
Titles == {"collapsed", "expanded"}  \* data-collapsed-title, data-expanded-title

(* A line of a block: its text, and whether a line number is drawn in it.  *)
Line == [text: {"import", "code", "empty"}, number: BOOLEAN]

(* lines: of the rendered file; spans: the theme wraps each in an element  *)
(* with data-line; from: data-imports-from-line, or None; tooltip: of the  *)
(* copy button, or None.                                                   *)
BlockType == [lines: Seq(Line) \ {<<>>}, spans: BOOLEAN,
              from: Nat \cup {None}, tooltip: {"Copy", None}]

(* figures: the id that each figure, in the order of the page, has and     *)
(* that its script looks up. It is a hash of the content.                  *)
ASSUME ConstantsAssumption ==
  /\ \A p \in Pages : p.blocks \in [Block -> BlockType] /\ p.figures \in Seq(Nat)
  /\ MaxCopies \in Nat
  /\ None \notin {"Copy", "Copied!", "Failed to copy"} \cup Theme
  /\ None \notin BOOLEAN

VARIABLES
  page,       \* the page: [blocks, figures]
  ready,      \* DOMContentLoaded was fired
  parsed,     \* the number of figures parsed
  library,    \* the script of Chart.js: "pending", "loaded" or "blocked"
  theme,      \* whether the document has the class dark
  mutated,    \* the observer has a change of class to report
  drawn,      \* [figure -> theme of the chart on its canvas, or None]
  unfolded,   \* [Block -> the wrapper has the class imports-expanded]
  title,      \* [Block -> text of its toggle]
  pressed,    \* [Block -> aria-expanded of its toggle, or None]
  hidden,     \* [Block -> lines with the class imports-hidden-line]
  tooltip,    \* [Block -> data-tooltip of its copy button]
  writes,     \* pending writes to the clipboard: block and text
  timers,     \* running timeouts, the oldest first: block and old tooltip
  clipboard,  \* the last text that was written, with its block, or None
  copies,     \* clicks on copy buttons
  overlapped  \* history: blocks copied again before the tooltip was restored

vars == <<page, ready, parsed, library, theme, mutated, drawn, unfolded, title,
          pressed, hidden, tooltip, writes, timers, clipboard, copies, overlapped>>

scene == <<page, ready, parsed, library, theme, mutated, drawn>>
folds == <<unfolded, title, pressed, hidden>>
copying == <<tooltip, writes, timers, clipboard, copies, overlapped>>

Figure == DOMAIN page.figures
Lines(b) == page.blocks[b].lines
Tooltips == {"Copy", "Copied!", "Failed to copy", None}

(* A text is the sequence of its lines.                                    *)
Copied == [block: Block, text: Seq(Line)]

TypeOK ==
  /\ page \in Pages
  /\ ready \in BOOLEAN /\ mutated \in BOOLEAN
  /\ parsed \in 0 .. Len(page.figures)
  /\ library \in {"pending", "loaded", "blocked"}
  /\ theme \in Theme
  /\ drawn \in [Figure -> Theme \cup {None}]
  /\ unfolded \in [Block -> BOOLEAN]
  /\ title \in [Block -> Titles]
  /\ pressed \in [Block -> BOOLEAN \cup {None}]
  /\ \A b \in Block : hidden[b] \subseteq DOMAIN Lines(b)
  /\ tooltip \in [Block -> Tooltips]
  /\ writes \subseteq Copied
  /\ timers \in Seq([block: Block, old: Tooltips])
  /\ clipboard \in Copied \cup {None}
  /\ copies \in 0 .. MaxCopies
  /\ overlapped \subseteq Block

(* The listeners are registered while the page loads.                      *)
Init ==
  /\ page \in Pages
  /\ ready = FALSE /\ parsed = 0 /\ library = "pending"
  /\ theme \in Theme /\ mutated = FALSE
  /\ drawn = [f \in Figure |-> None]
  /\ unfolded = [b \in Block |-> FALSE]
  /\ title = [b \in Block |-> "collapsed"]
  /\ pressed = [b \in Block |-> None]
  /\ hidden = [b \in Block |-> {}]
  /\ tooltip = [b \in Block |-> page.blocks[b].tooltip]
  /\ writes = {} /\ timers = <<>> /\ clipboard = None
  /\ copies = 0 /\ overlapped = {}

-----------------------------------------------------------------------------
(* Charts. getElementById finds the first figure with an id; a chart that  *)
(* is there is destroyed, so that its canvas is free for the new one.      *)
First(f) == \A g \in 1 .. f - 1 : page.figures[g] # page.figures[f]

RenderOnce ==  \* fault: a chart is not destroyed, its canvas stays in use
  [f \in Figure |->
     IF library = "loaded" /\ f <= parsed /\ First(f) /\ drawn[f] = None
     THEN theme ELSE drawn[f]]

RenderCharts ==
  [f \in Figure |->
     IF library = "loaded" /\ f <= parsed /\ First(f) THEN theme ELSE drawn[f]]

Parse ==
  /\ ~ mutated /\ ~ ready
  /\ parsed < Len(page.figures)
  /\ parsed' = parsed + 1
  /\ UNCHANGED <<page, ready, library, theme, mutated, drawn, folds, copying>>

(* The browser runs or gives up the script of the library.                 *)
LoadLibrary ==
  /\ ~ mutated /\ library = "pending"
  /\ library' \in {"loaded", "blocked"}
  /\ UNCHANGED <<page, ready, parsed, theme, mutated, drawn, folds, copying>>

(* The reader switches the theme, perhaps back again in the same task.     *)
SwitchTheme ==
  /\ theme' \in Theme
  /\ mutated' = TRUE
  /\ UNCHANGED <<page, ready, parsed, library, drawn, folds, copying>>

Observe ==
  /\ mutated
  /\ mutated' = FALSE
  /\ drawn' = RenderCharts
  /\ UNCHANGED <<page, ready, parsed, library, theme, folds, copying>>

-----------------------------------------------------------------------------
(* Code blocks. getImportsStartLine and markImportLines.                   *)
MarkImportLines(b) ==
  LET block == page.blocks[b]
  IN  IF block.spans /\ block.from # None /\ block.from > 1
      THEN {n \in DOMAIN block.lines : n < block.from}
      ELSE {}

SetToggleLabel(b, expanded) ==
  /\ title' = [title EXCEPT ![b] = IF expanded THEN "expanded" ELSE "collapsed"]
  /\ pressed' = [pressed EXCEPT ![b] = expanded]

(* DOMContentLoaded: both listeners. Scripts have run, all is parsed.      *)
ContentLoaded ==
  /\ ~ mutated /\ ~ ready
  /\ parsed = Len(page.figures) /\ library # "pending"
  /\ ready' = TRUE
  /\ drawn' = RenderCharts
  /\ hidden' = [b \in Block |-> MarkImportLines(b)]
  /\ unfolded' = [b \in Block |-> FALSE]
  /\ title' = [b \in Block |-> "collapsed"]
  /\ pressed' = [b \in Block |-> FALSE]
  /\ UNCHANGED <<page, parsed, library, theme, mutated, copying>>

HandleToggleClick(b) ==
  /\ ~ mutated
  /\ unfolded' = [unfolded EXCEPT ![b] = ~ @]
  /\ SetToggleLabel(b, unfolded'[b])
  /\ UNCHANGED <<hidden, scene, copying>>

Empty == [text |-> "empty", number |-> FALSE]

NormalizeTrailingNewline(text) ==
  IF Len(text) > 1 /\ Last(text) = Empty THEN Front(text) ELSE text

GetShownText(b) ==  \* fault: innerText, which leaves out what is not drawn
  LET lines == Lines(b)
      Shown(n) == unfolded[b] \/ n \notin hidden[b]
      Unnumbered(n) == [lines[n] EXCEPT !.number = FALSE]
      shown == SetToSortSeq({n \in DOMAIN lines : Shown(n)}, <)
  IN  [i \in DOMAIN shown |-> Unnumbered(shown[i])]

(* Line numbers are removed from lines in elements of their own; the text  *)
(* of a whole block ends with a newline.                                   *)
GetPreLineText(b) ==
  IF page.blocks[b].spans
  THEN [n \in DOMAIN Lines(b) |-> [Lines(b)[n] EXCEPT !.number = FALSE]]
  ELSE NormalizeTrailingNewline(Append(Lines(b), Empty))

HandleCopyClick(b) ==
  /\ ~ mutated /\ ready
  /\ copies < MaxCopies
  /\ copies' = copies + 1
  /\ writes' = writes \cup
       {[block |-> b, text |-> NormalizeTrailingNewline(GetPreLineText(b))]}
  /\ UNCHANGED <<tooltip, timers, clipboard, overlapped, scene, folds>>

ShowCopyStatusLate(b, ok) ==  \* fault: the old tooltip is read too late
  LET status == IF ok THEN "Copied!" ELSE "Failed to copy"
  IN  /\ tooltip' = [tooltip EXCEPT ![b] = status]
      /\ timers' = Append(timers, [block |-> b, old |-> status])

ShowCopyStatus(b, ok) ==
  /\ tooltip' = [tooltip EXCEPT ![b] = IF ok THEN "Copied!" ELSE "Failed to copy"]
  /\ timers' = Append(timers, [block |-> b, old |-> tooltip[b]])

Restoring == {timers[i].block : i \in DOMAIN timers}

(* The promise of the write is settled.                                    *)
FinishWrite(write, ok) ==
  /\ ~ mutated
  /\ writes' = writes \ {write}
  /\ clipboard' = IF ok THEN write ELSE clipboard
  /\ ShowCopyStatus(write.block, ok)
  /\ overlapped' = IF write.block \in Restoring
                   THEN overlapped \cup {write.block} ELSE overlapped
  /\ UNCHANGED <<copies, scene, folds>>

(* 1800 milliseconds later; timeouts of one length fire in their order.    *)
RestoreTooltip ==
  /\ ~ mutated /\ timers # <<>>
  /\ timers' = Tail(timers)
  /\ tooltip' = IF Head(timers).old = None
                THEN tooltip
                ELSE [tooltip EXCEPT ![Head(timers).block] = Head(timers).old]
  /\ UNCHANGED <<writes, clipboard, copies, overlapped, scene, folds>>

Next ==
  \/ Parse \/ LoadLibrary \/ SwitchTheme \/ Observe \/ ContentLoaded \/ RestoreTooltip
  \/ \E b \in Block : HandleToggleClick(b) \/ HandleCopyClick(b)
  \/ \E write \in writes, ok \in BOOLEAN : FinishWrite(write, ok)

Spec == Init /\ [][Next]_vars
-----------------------------------------------------------------------------
(* "keep full copy" (line 1 of the script): whatever is folded, and        *)
(* whatever happens before the write is done, the clipboard gets the file  *)
(* without line numbers. A block whose numbers are not in elements of      *)
(* their own is the exception.                                             *)
CopiesWhole ==
  clipboard # None =>
    LET lines == Lines(clipboard.block)
        kept == clipboard.text
    IN  /\ \/ Len(kept) = Len(lines)
           \/ Len(kept) = Len(lines) - 1 /\ Last(lines).text = "empty"
        /\ \A n \in DOMAIN kept :
             /\ kept[n].text = lines[n].text
             /\ page.blocks[clipboard.block].spans => ~ kept[n].number

(* A toggle tells what it did, also if it was clicked while the page was   *)
(* still loading; it has a state for a screen reader as soon as it is.     *)
LabelsTrue ==
  \A b \in Block :
    /\ title[b] = IF unfolded[b] THEN "expanded" ELSE "collapsed"
    /\ pressed[b] \in {unfolded[b], None}
    /\ ready => pressed[b] # None

(* The status of a copy goes away again. The exception is a block that is  *)
(* copied again while the status is shown: the status is then remembered   *)
(* as the tooltip to restore.                                              *)
TooltipsReturn ==
  \A b \in Block \ overlapped :
    /\ b \notin Restoring /\ page.blocks[b].tooltip # None =>
         tooltip[b] = page.blocks[b].tooltip
    /\ b \in Restoring => tooltip[b] \in {"Copied!", "Failed to copy"}

(* Once the page is there every chart has the theme of the page, whenever  *)
(* the reader switched; of two equal figures the second one stays empty.   *)
ChartsFollow ==
  ready /\ ~ mutated /\ library = "loaded" =>
    \A f \in Figure : drawn[f] = IF First(f) THEN theme ELSE None

(* Whatever was clicked in whatever order, also while the page was still   *)
(* loading: what it shows agrees with the state that it is in.             *)
PageSettles == LabelsTrue /\ TooltipsReturn /\ ChartsFollow
=============================================================================
