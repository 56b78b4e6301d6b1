--------------------------- MODULE DocsPage_proofs ---------------------------
(***************************************************************************)
(* Proofs about DocsPage, for all pages, any number of blocks, figures and *)
(* copies: type correctness, that what the page shows agrees with the      *)
(* state that it is in, and that copies are whole.                         *)
(***************************************************************************)
EXTENDS DocsPage, TLAPS

(* Figures: the second of two with the same id is never drawn, and charts  *)
(* that the reader sees have the theme unless the observer is about to run.*)
ChartsInv ==
  /\ ready => parsed = Len(page.figures) /\ library # "pending"
  /\ \A f \in Figure : ~ First(f) => drawn[f] = None
  /\ ready /\ ~ mutated /\ library = "loaded" =>
       \A f \in Figure : First(f) => drawn[f] = theme

(* Tooltips: a block that was not copied again has at most one timeout,    *)
(* which remembers the tooltip of the page.                                *)
TimerInv(b) ==
  /\ \A i, j \in DOMAIN timers :
       timers[i].block = b /\ timers[j].block = b => i = j
  /\ \A i \in DOMAIN timers :
       timers[i].block = b =>
         /\ tooltip[b] \in {"Copied!", "Failed to copy"}
         /\ page.blocks[b].tooltip # None =>
              timers[i].old = page.blocks[b].tooltip
  /\ page.blocks[b].tooltip # None
       /\ (\A i \in DOMAIN timers : timers[i].block # b) =>
       tooltip[b] = page.blocks[b].tooltip

(* A copy that is written, or about to be.                                 *)
Whole(copy) ==
  LET lines == Lines(copy.block)
      kept == copy.text
  IN  /\ \/ Len(kept) = Len(lines)
         \/ Len(kept) = Len(lines) - 1 /\ Last(lines).text = "empty"
      /\ \A n \in DOMAIN kept :
           /\ kept[n].text = lines[n].text
           /\ page.blocks[copy.block].spans => ~ kept[n].number

CopiesInv ==
  /\ \A write \in writes : Whole(write)
  /\ clipboard # None => Whole(clipboard)

Inv ==
  /\ TypeOK
  /\ LabelsTrue
  /\ ChartsInv
  /\ \A b \in Block \ overlapped : TimerInv(b)
  /\ CopiesInv

-----------------------------------------------------------------------------
LEMMA PageType ==
  ASSUME TypeOK
  PROVE  /\ page \in Pages /\ page.blocks \in [Block -> BlockType]
         /\ page.figures \in Seq(Nat) /\ Figure = 1 .. Len(page.figures)
         /\ Len(page.figures) \in Nat
<1>1. page \in Pages
  BY DEF TypeOK
<1>2. page.blocks \in [Block -> BlockType] /\ page.figures \in Seq(Nat)
  BY <1>1, ConstantsAssumption
<1> QED BY <1>1, <1>2 DEF Figure

LEMMA LinesType ==
  ASSUME TypeOK, NEW b \in Block
  PROVE  /\ Lines(b) \in Seq(Line) /\ Lines(b) # <<>>
         /\ Len(Lines(b)) \in Nat \ {0}
         /\ DOMAIN Lines(b) = 1 .. Len(Lines(b))
         /\ \A n \in DOMAIN Lines(b) : Lines(b)[n] \in Line
         /\ page.blocks[b].tooltip \in {"Copy", None}
<1>1. page.blocks[b] \in BlockType
  BY PageType
<1>2. Lines(b) \in Seq(Line) /\ Lines(b) # <<>>
      /\ page.blocks[b].tooltip \in {"Copy", None}
  BY <1>1 DEF Lines, BlockType
<1> QED BY <1>2

LEMMA Unnumbered ==
  ASSUME NEW line \in Line
  PROVE  /\ [line EXCEPT !.number = FALSE] \in Line
         /\ [line EXCEPT !.number = FALSE].text = line.text
         /\ ~ [line EXCEPT !.number = FALSE].number
<1>1. [line EXCEPT !.number = FALSE] \in Line
  BY DEF Line
<1>2. [line EXCEPT !.number = FALSE].text = line.text
  BY DEF Line
<1>3. ~ [line EXCEPT !.number = FALSE].number
  BY DEF Line
<1> QED BY <1>1, <1>2, <1>3

LEMMA NormalizedWhole ==
  ASSUME NEW lines \in Seq(Line), lines # <<>>, NEW s \in Seq(Line),
         Len(s) = Len(lines),
         \A n \in 1 .. Len(lines) : s[n].text = lines[n].text
  PROVE  LET kept == NormalizeTrailingNewline(s)
         IN  /\ kept \in Seq(Line)
             /\ \/ Len(kept) = Len(lines)
                \/ Len(kept) = Len(lines) - 1 /\ Last(lines).text = "empty"
             /\ \A n \in DOMAIN kept : n \in 1 .. Len(lines) /\ kept[n] = s[n]
<1>1. CASE Len(s) > 1 /\ Last(s) = Empty
  <2>1. NormalizeTrailingNewline(s) = SubSeq(s, 1, Len(s) - 1)
    BY <1>1 DEF NormalizeTrailingNewline, Front
  <2>2. Last(lines).text = "empty"
    BY <1>1 DEF Last, Empty
  <2> QED BY <1>1, <2>1, <2>2
<1>2. CASE ~ (Len(s) > 1 /\ Last(s) = Empty)
  BY <1>2 DEF NormalizeTrailingNewline
<1> QED BY <1>1, <1>2

(* What is sent to the clipboard, once and for all.                        *)
LEMMA CopyWhole ==
  ASSUME TypeOK, NEW b \in Block
  PROVE  LET copy == [block |-> b,
                      text |-> NormalizeTrailingNewline(GetPreLineText(b))]
         IN  Whole(copy) /\ copy \in Copied
<1> DEFINE lines == Lines(b)
           text == NormalizeTrailingNewline(GetPreLineText(b))
<1>0. /\ lines \in Seq(Line) /\ lines # <<>> /\ Len(lines) \in Nat \ {0}
      /\ \A n \in 1 .. Len(lines) : lines[n] \in Line
  BY LinesType
<1>1. CASE page.blocks[b].spans
  <2> DEFINE s == [n \in 1 .. Len(lines) |-> [lines[n] EXCEPT !.number = FALSE]]
  <2>1. GetPreLineText(b) = s
    BY <1>0, <1>1, LinesType DEF GetPreLineText
  <2>2. ASSUME NEW n \in 1 .. Len(lines)
        PROVE  s[n] \in Line /\ s[n].text = lines[n].text /\ ~ s[n].number
    BY <1>0, Unnumbered
  <2>3. s \in Seq(Line) /\ Len(s) = Len(lines)
    BY <1>0, <2>2
  <2> HIDE DEF s, lines
  <2>4. /\ text \in Seq(Line)
        /\ \/ Len(text) = Len(lines)
           \/ Len(text) = Len(lines) - 1 /\ Last(lines).text = "empty"
        /\ \A n \in DOMAIN text : n \in 1 .. Len(lines) /\ text[n] = s[n]
    BY <1>0, <2>1, <2>2, <2>3, NormalizedWhole
  <2> HIDE DEF text
  <2> QED BY <2>2, <2>4 DEF Whole, Copied, text, lines
<1>2. CASE ~ page.blocks[b].spans
  <2> DEFINE s == Append(lines, Empty)
  <2>1. s \in Seq(Line) /\ Len(s) = Len(lines) + 1 /\ Last(s) = Empty
    BY <1>0 DEF Line, Empty, Last
  <2>2. NormalizeTrailingNewline(s) = SubSeq(s, 1, Len(s) - 1)
    BY <1>0, <2>1 DEF NormalizeTrailingNewline, Front
  <2>3. SubSeq(s, 1, Len(s) - 1) = lines
    BY <1>0, <2>1
  <2>4. GetPreLineText(b) = lines
    BY <1>2, <2>2, <2>3 DEF GetPreLineText
  <2> HIDE DEF s, lines
  <2>5. /\ text \in Seq(Line)
        /\ \/ Len(text) = Len(lines)
           \/ Len(text) = Len(lines) - 1 /\ Last(lines).text = "empty"
        /\ \A n \in DOMAIN text : n \in 1 .. Len(lines) /\ text[n] = lines[n]
    BY <1>0, <2>4, NormalizedWhole
  <2> HIDE DEF text
  <2> QED BY <1>2, <2>5 DEF Whole, Copied, text, lines
<1> QED BY <1>1, <1>2

-----------------------------------------------------------------------------
(* What is drawn after renderCharts().                                     *)
LEMMA Rendered ==
  ASSUME TypeOK, ChartsInv
  PROVE  /\ RenderCharts \in [Figure -> Theme \cup {None}]
         /\ \A f \in Figure : ~ First(f) => RenderCharts[f] = None
         /\ library = "loaded" /\ parsed = Len(page.figures) =>
              \A f \in Figure : First(f) => RenderCharts[f] = theme
<1>1. drawn \in [Figure -> Theme \cup {None}] /\ theme \in Theme
  BY DEF TypeOK
<1>2. Figure = 1 .. Len(page.figures) /\ Len(page.figures) \in Nat
  BY PageType
<1> QED BY <1>1, <1>2 DEF RenderCharts, ChartsInv

(* Tasks of the scene leave copies and tooltips alone.                     *)
LEMMA CopyingKept ==
  ASSUME Inv, UNCHANGED copying, page' = page
  PROVE  /\ \A b \in Block \ overlapped' : TimerInv(b)'
         /\ CopiesInv'
<1>1. \A copy : Whole(copy)' = Whole(copy)
  BY DEF Whole, Lines
<1> QED BY <1>1, ZenonT(60) DEF Inv, copying, TimerInv, CopiesInv

LEMMA SceneKept ==
  ASSUME Inv, UNCHANGED scene
  PROVE  ChartsInv'
BY DEF Inv, scene, ChartsInv, Figure, First

LEMMA FoldsKept ==
  ASSUME Inv, UNCHANGED folds, ready' = ready
  PROVE  LabelsTrue'
BY DEF Inv, folds, LabelsTrue

LEMMA TailFacts ==
  ASSUME NEW S, NEW s \in Seq(S), s # <<>>
  PROVE  /\ Len(s) \in Nat \ {0} /\ DOMAIN s = 1 .. Len(s)
         /\ Head(s) = s[1] /\ s[1] \in S
         /\ Tail(s) \in Seq(S) /\ DOMAIN Tail(s) = 1 .. Len(s) - 1
         /\ \A i \in 1 .. Len(s) - 1 : Tail(s)[i] = s[i + 1]
<1>1. Len(s) \in Nat \ {0} /\ DOMAIN s = 1 .. Len(s)
  OBVIOUS
<1>2. Head(s) = s[1] /\ s[1] \in S
  BY <1>1
<1>3. Tail(s) \in Seq(S) /\ Len(Tail(s)) = Len(s) - 1
  OBVIOUS
<1>4. \A i \in 1 .. Len(s) - 1 : Tail(s)[i] = s[i + 1]
  BY <1>1
<1> QED BY <1>1, <1>2, <1>3, <1>4

LEMMA InvStep == Inv /\ [Next]_vars => Inv'
<1> SUFFICES ASSUME Inv, [Next]_vars PROVE Inv'
  OBVIOUS
<1>0. /\ TypeOK /\ LabelsTrue /\ ChartsInv
      /\ Figure = 1 .. Len(page.figures) /\ Len(page.figures) \in Nat
  BY PageType DEF Inv
<1>a. copies \in 0 .. MaxCopies /\ MaxCopies \in Nat
  BY <1>0, ConstantsAssumption DEF TypeOK
<1>1. CASE Parse
  <2>1. /\ UNCHANGED <<page, ready, library, theme, mutated, drawn>>
        /\ UNCHANGED folds /\ UNCHANGED copying
        /\ ~ ready /\ parsed' = parsed + 1 /\ parsed < Len(page.figures)
    BY <1>1 DEF Parse
  <2>2. TypeOK'
    <3>1. parsed' \in 0 .. Len(page.figures)
      BY <1>0, <2>1 DEF TypeOK
    <3> QED BY <1>0, <2>1, <3>1 DEF TypeOK, folds, copying, Figure, Lines
  <2>3. ChartsInv'
    BY <1>0, <2>1 DEF ChartsInv, Figure, First
  <2> QED BY <2>1, <2>2, <2>3, CopyingKept, FoldsKept DEF Inv
<1>2. CASE LoadLibrary
  <2>1. /\ UNCHANGED <<page, ready, parsed, theme, mutated, drawn>>
        /\ UNCHANGED folds /\ UNCHANGED copying
        /\ library = "pending" /\ library' \in {"loaded", "blocked"}
    BY <1>2 DEF LoadLibrary
  <2>2. TypeOK'
    BY <1>0, <2>1 DEF TypeOK, folds, copying, Figure, Lines
  <2>3. ChartsInv'
    BY <1>0, <2>1 DEF ChartsInv, Figure, First
  <2> QED BY <2>1, <2>2, <2>3, CopyingKept, FoldsKept DEF Inv
<1>3. CASE SwitchTheme
  <2>1. /\ UNCHANGED <<page, ready, parsed, library, drawn>>
        /\ UNCHANGED folds /\ UNCHANGED copying
        /\ theme' \in Theme /\ mutated' = TRUE
    BY <1>3 DEF SwitchTheme
  <2>2. TypeOK'
    BY <1>0, <2>1 DEF TypeOK, folds, copying, Figure, Lines
  <2>3. ChartsInv'
    BY <1>0, <2>1 DEF ChartsInv, Figure, First
  <2> QED BY <2>1, <2>2, <2>3, CopyingKept, FoldsKept DEF Inv
<1>4. CASE Observe
  <2>1. /\ UNCHANGED <<page, ready, parsed, library, theme>>
        /\ UNCHANGED folds /\ UNCHANGED copying
        /\ drawn' = RenderCharts /\ mutated' = FALSE
    BY <1>4 DEF Observe
  <2>2. TypeOK'
    BY <1>0, <2>1, Rendered DEF TypeOK, folds, copying, Figure, Lines
  <2>3. ChartsInv'
    BY <1>0, <2>1, Rendered DEF ChartsInv, Figure, First
  <2> QED BY <2>1, <2>2, <2>3, CopyingKept, FoldsKept DEF Inv
<1>5. CASE ContentLoaded
  <2>1. /\ UNCHANGED <<page, parsed, library, theme, mutated>>
        /\ UNCHANGED copying
        /\ drawn' = RenderCharts /\ ready' = TRUE
        /\ parsed = Len(page.figures) /\ library # "pending"
        /\ hidden' = [b \in Block |-> MarkImportLines(b)]
        /\ unfolded' = [b \in Block |-> FALSE]
        /\ title' = [b \in Block |-> "collapsed"]
        /\ pressed' = [b \in Block |-> FALSE]
    BY <1>5 DEF ContentLoaded
  <2>2. \A b \in Block : hidden'[b] \subseteq DOMAIN Lines(b)'
    BY <2>1 DEF MarkImportLines, Lines
  <2>3. TypeOK'
    BY <1>0, <2>1, <2>2, Rendered DEF TypeOK, copying, Figure, Titles
  <2>4. ChartsInv'
    BY <1>0, <2>1, Rendered DEF ChartsInv, Figure, First
  <2>5. LabelsTrue'
    BY <2>1, ConstantsAssumption DEF LabelsTrue
  <2> QED BY <2>1, <2>3, <2>4, <2>5, CopyingKept DEF Inv
<1>6. ASSUME NEW b \in Block, HandleToggleClick(b) PROVE Inv'
  <2>1. /\ UNCHANGED scene /\ UNCHANGED copying /\ page' = page
        /\ hidden' = hidden
        /\ unfolded' = [unfolded EXCEPT ![b] = ~ unfolded[b]]
        /\ title' = [title EXCEPT ![b] =
                       IF unfolded'[b] THEN "expanded" ELSE "collapsed"]
        /\ pressed' = [pressed EXCEPT ![b] = unfolded'[b]]
    BY <1>6 DEF HandleToggleClick, SetToggleLabel, scene
  <2>2. /\ unfolded \in [Block -> BOOLEAN] /\ title \in [Block -> Titles]
        /\ pressed \in [Block -> BOOLEAN \cup {None}]
    BY <1>0 DEF TypeOK
  <2>3. /\ unfolded'[b] \in BOOLEAN /\ unfolded' \in [Block -> BOOLEAN]
        /\ title' \in [Block -> Titles]
        /\ pressed' \in [Block -> BOOLEAN \cup {None}]
    BY <2>1, <2>2 DEF Titles
  <2>4. TypeOK'
    BY <1>0, <2>1, <2>3 DEF TypeOK, scene, copying, Figure, Lines
  <2>5. LabelsTrue'
    BY <1>0, <2>1, <2>2, <2>3, ConstantsAssumption DEF LabelsTrue, scene
  <2> QED BY <2>1, <2>4, <2>5, CopyingKept, SceneKept DEF Inv
<1>7. ASSUME NEW b \in Block, HandleCopyClick(b) PROVE Inv'
  <2> DEFINE copy == [block |-> b,
                      text |-> NormalizeTrailingNewline(GetPreLineText(b))]
  <2>1. /\ UNCHANGED scene /\ UNCHANGED folds /\ ready' = ready /\ page' = page
        /\ UNCHANGED <<tooltip, timers, clipboard, overlapped>>
        /\ writes' = writes \cup {copy}
        /\ copies < MaxCopies /\ copies' = copies + 1
    BY <1>7 DEF HandleCopyClick, scene
  <2>2. Whole(copy) /\ copy \in Copied
    BY <1>0, CopyWhole
  <2> HIDE DEF copy
  <2>3. TypeOK'
    <3>1. copies' \in 0 .. MaxCopies
      BY <1>a, <2>1
    <3>2. writes' \subseteq Copied
      BY <1>0, <2>1, <2>2 DEF TypeOK
    <3> QED BY <1>0, <2>1, <3>1, <3>2 DEF TypeOK, scene, folds, Figure, Lines
  <2>4. \A c : Whole(c)' = Whole(c)
    BY <2>1 DEF Whole, Lines
  <2>5. CopiesInv'
    BY <2>1, <2>2, <2>4 DEF Inv, CopiesInv
  <2>6. \A c \in Block \ overlapped' : TimerInv(c)'
    BY <2>1, ZenonT(60) DEF Inv, TimerInv
  <2> QED BY <2>1, <2>3, <2>5, <2>6, SceneKept, FoldsKept DEF Inv
<1>8. ASSUME NEW write \in writes, NEW ok \in BOOLEAN, FinishWrite(write, ok)
      PROVE  Inv'
  <2> DEFINE b == write.block
             status == IF ok THEN "Copied!" ELSE "Failed to copy"
             timer == [block |-> b, old |-> tooltip[b]]
  <2>1. /\ UNCHANGED scene /\ UNCHANGED folds /\ ready' = ready /\ page' = page
        /\ copies' = copies /\ writes' = writes \ {write}
        /\ clipboard' = IF ok THEN write ELSE clipboard
        /\ tooltip' = [tooltip EXCEPT ![b] = status]
        /\ timers' = Append(timers, timer)
        /\ overlapped' = IF b \in Restoring THEN overlapped \cup {b} ELSE overlapped
    BY <1>8 DEF FinishWrite, ShowCopyStatus, scene
  <2>2. /\ write \in Copied /\ b \in Block /\ Whole(write)
        /\ tooltip \in [Block -> Tooltips] /\ status \in Tooltips
        /\ timers \in Seq([block: Block, old: Tooltips])
    BY <1>0 DEF TypeOK, Copied, Inv, CopiesInv, Tooltips
  <2>3. timer \in [block: Block, old: Tooltips]
    BY <2>2
  <2> HIDE DEF timer, status
  <2>4. /\ tooltip' \in [Block -> Tooltips]
        /\ timers' \in Seq([block: Block, old: Tooltips])
        /\ Len(timers') = Len(timers) + 1
        /\ \A i \in 1 .. Len(timers) : timers'[i] = timers[i]
        /\ timers'[Len(timers) + 1] = timer
        /\ DOMAIN timers = 1 .. Len(timers) /\ Len(timers) \in Nat
        /\ DOMAIN timers' = 1 .. Len(timers) + 1
    BY <2>1, <2>2, <2>3
  <2>5. TypeOK'
    <3>1. overlapped' \subseteq Block /\ clipboard' \in Copied \cup {None}
          /\ writes' \subseteq Copied
      BY <1>0, <2>1, <2>2 DEF TypeOK
    <3> QED BY <1>0, <2>1, <2>4, <3>1 DEF TypeOK, scene, folds, Figure, Lines
  <2>6. \A c : Whole(c)' = Whole(c)
    BY <2>1 DEF Whole, Lines
  <2>7. CopiesInv'
    BY <2>1, <2>2, <2>6 DEF Inv, CopiesInv
  <2>8. ASSUME NEW c \in Block \ overlapped' PROVE TimerInv(c)'
    <3>1. TimerInv(c) /\ page.blocks' = page.blocks
      BY <2>1, <2>8 DEF Inv
    <3>2. CASE c # b
      <4>1. tooltip'[c] = tooltip[c] /\ timer.block # c
        BY <2>1, <2>2, <3>2 DEF timer
      <4>2. \A i \in DOMAIN timers' :
              timers'[i].block = c => i \in DOMAIN timers /\ timers'[i] = timers[i]
        BY <2>4, <4>1
      <4>3. \A i \in DOMAIN timers : i \in DOMAIN timers' /\ timers'[i] = timers[i]
        BY <2>4
      <4>4. \A i, j \in DOMAIN timers' :
              timers'[i].block = c /\ timers'[j].block = c => i = j
        BY <3>1, <4>2 DEF TimerInv
      <4>5. \A i \in DOMAIN timers' :
              timers'[i].block = c =>
                /\ tooltip'[c] \in {"Copied!", "Failed to copy"}
                /\ page.blocks[c].tooltip # None =>
                     timers'[i].old = page.blocks[c].tooltip
        BY <3>1, <4>1, <4>2 DEF TimerInv
      <4>6. page.blocks[c].tooltip # None
              /\ (\A i \in DOMAIN timers' : timers'[i].block # c) =>
              tooltip'[c] = page.blocks[c].tooltip
        BY <3>1, <4>1, <4>3 DEF TimerInv
      <4> QED BY <2>1, <4>4, <4>5, <4>6 DEF TimerInv
    <3>3. CASE c = b
      <4>1. b \notin Restoring
        BY <2>1, <2>8, <3>3
      <4>2. \A i \in DOMAIN timers : timers[i].block # b
        BY <4>1 DEF Restoring
      <4>3. tooltip'[b] = status /\ status \in {"Copied!", "Failed to copy"}
        BY <2>1, <2>2 DEF status
      <4>4. page.blocks[b].tooltip # None => timer.old = page.blocks[b].tooltip
        BY <3>1, <3>3, <4>2 DEF TimerInv, timer
      <4>5. timer.block = b
        BY DEF timer
      <4>6. \A i \in DOMAIN timers' :
              timers'[i].block = b => i = Len(timers) + 1 /\ timers'[i] = timer
        BY <2>4, <4>2
      <4>7. Len(timers) + 1 \in DOMAIN timers' /\ timers'[Len(timers) + 1].block = b
        BY <2>4, <4>5
      <4> HIDE DEF b
      <4>8. \A i, j \in DOMAIN timers' :
              timers'[i].block = b /\ timers'[j].block = b => i = j
        BY <4>6
      <4>9. \A i \in DOMAIN timers' :
              timers'[i].block = b =>
                /\ tooltip'[b] \in {"Copied!", "Failed to copy"}
                /\ page.blocks[b].tooltip # None =>
                     timers'[i].old = page.blocks[b].tooltip
        BY <4>3, <4>4, <4>6
      <4> QED BY <2>1, <3>3, <4>7, <4>8, <4>9 DEF TimerInv
    <3> QED BY <3>2, <3>3
  <2> QED BY <2>1, <2>5, <2>7, <2>8, SceneKept, FoldsKept DEF Inv
<1>9. CASE RestoreTooltip
  <2> DEFINE b == Head(timers).block
             old == Head(timers).old
  <2>1. /\ UNCHANGED scene /\ UNCHANGED folds /\ ready' = ready /\ page' = page
        /\ UNCHANGED <<writes, clipboard, copies, overlapped>>
        /\ timers # <<>> /\ timers' = Tail(timers)
        /\ tooltip' = IF old = None THEN tooltip ELSE [tooltip EXCEPT ![b] = old]
    BY <1>9 DEF RestoreTooltip, scene
  <2>2. /\ timers \in Seq([block: Block, old: Tooltips])
        /\ tooltip \in [Block -> Tooltips]
    BY <1>0 DEF TypeOK
  <2>3. /\ Len(timers) \in Nat \ {0} /\ DOMAIN timers = 1 .. Len(timers)
        /\ b = timers[1].block /\ old = timers[1].old
        /\ b \in Block /\ old \in Tooltips
        /\ timers' \in Seq([block: Block, old: Tooltips])
        /\ DOMAIN timers' = 1 .. Len(timers) - 1
        /\ \A i \in 1 .. Len(timers) - 1 : timers'[i] = timers[i + 1]
    <3> DEFINE T == [block: Block, old: Tooltips]
    <3>1. timers[1] \in T /\ Head(timers) = timers[1] /\ timers' \in Seq(T)
      BY <2>1, <2>2, TailFacts
    <3>2. Len(timers) \in Nat \ {0} /\ DOMAIN timers = 1 .. Len(timers)
          /\ DOMAIN timers' = 1 .. Len(timers) - 1
          /\ \A i \in 1 .. Len(timers) - 1 : timers'[i] = timers[i + 1]
      BY <2>1, <2>2, TailFacts
    <3> QED BY <3>1, <3>2
  <2> HIDE DEF b, old
  <2>4. tooltip' \in [Block -> Tooltips]
    BY <2>1, <2>2, <2>3
  <2>5. TypeOK'
    BY <1>0, <2>1, <2>3, <2>4 DEF TypeOK, scene, folds, Figure, Lines
  <2>6. \A c : Whole(c)' = Whole(c)
    BY <2>1 DEF Whole, Lines
  <2>7. CopiesInv'
    BY <2>1, <2>6 DEF Inv, CopiesInv
  <2>8. ASSUME NEW c \in Block \ overlapped' PROVE TimerInv(c)'
    <3>1. TimerInv(c) /\ page.blocks' = page.blocks
      BY <2>1, <2>8 DEF Inv
    <3>2. CASE c # b
      <4>1. tooltip'[c] = tooltip[c]
        BY <2>1, <2>2, <3>2
      <4>2. /\ \A i \in DOMAIN timers' : i + 1 \in DOMAIN timers /\ i \in Int
            /\ \A i \in DOMAIN timers : timers[i].block = c =>
                 i - 1 \in DOMAIN timers' /\ timers'[i - 1] = timers[i]
        BY <2>3, <3>2
      <4>3. \A i, j \in DOMAIN timers' :
              timers'[i].block = c /\ timers'[j].block = c => i = j
        <5> SUFFICES ASSUME NEW i \in DOMAIN timers', NEW j \in DOMAIN timers',
                            timers'[i].block = c, timers'[j].block = c
                     PROVE  i = j
          OBVIOUS
        <5>1. /\ i + 1 \in DOMAIN timers /\ timers[i + 1] = timers'[i]
              /\ j + 1 \in DOMAIN timers /\ timers[j + 1] = timers'[j]
          BY <2>3
        <5>2. i + 1 = j + 1
          BY <3>1, <5>1 DEF TimerInv
        <5> QED BY <2>3, <5>2
      <4>4. \A i \in DOMAIN timers' :
              timers'[i].block = c =>
                /\ tooltip'[c] \in {"Copied!", "Failed to copy"}
                /\ page.blocks[c].tooltip # None =>
                     timers'[i].old = page.blocks[c].tooltip
        <5> SUFFICES ASSUME NEW i \in DOMAIN timers', timers'[i].block = c
                     PROVE  /\ tooltip'[c] \in {"Copied!", "Failed to copy"}
                            /\ page.blocks[c].tooltip # None =>
                                 timers'[i].old = page.blocks[c].tooltip
          OBVIOUS
        <5>1. i + 1 \in DOMAIN timers /\ timers[i + 1] = timers'[i]
          BY <2>3
        <5> QED BY <3>1, <4>1, <5>1 DEF TimerInv
      <4>5. page.blocks[c].tooltip # None
              /\ (\A i \in DOMAIN timers' : timers'[i].block # c) =>
              tooltip'[c] = page.blocks[c].tooltip
        BY <3>1, <4>1, <4>2 DEF TimerInv
      <4> QED BY <2>1, <4>3, <4>4, <4>5 DEF TimerInv
    <3>3. CASE c = b
      <4>1. \A i \in DOMAIN timers' : timers'[i].block # c
        <5> SUFFICES ASSUME NEW i \in DOMAIN timers', timers'[i].block = c
                     PROVE  FALSE
          OBVIOUS
        <5>1. i + 1 \in DOMAIN timers /\ timers[i + 1] = timers'[i] /\ i \in Nat \ {0}
          BY <2>3
        <5>2. 1 \in DOMAIN timers /\ timers[1].block = c
          BY <2>3, <3>3
        <5>3. i + 1 = 1
          BY <3>1, <5>1, <5>2 DEF TimerInv
        <5> QED BY <5>1, <5>3
      <4>2. page.blocks[c].tooltip # None => tooltip'[c] = page.blocks[c].tooltip
        <5>1. 1 \in DOMAIN timers /\ timers[1].block = c /\ old = timers[1].old
          BY <2>3, <3>3
        <5>2. page.blocks[c].tooltip # None => old = page.blocks[c].tooltip
          BY <3>1, <5>1 DEF TimerInv
        <5> QED BY <2>1, <2>2, <2>3, <3>3, <5>2
      <4> QED BY <2>1, <4>1, <4>2 DEF TimerInv
    <3> QED BY <3>2, <3>3
  <2> QED BY <2>1, <2>5, <2>7, <2>8, SceneKept, FoldsKept DEF Inv
<1>10. CASE UNCHANGED vars
  <2>1. /\ UNCHANGED scene /\ UNCHANGED folds /\ UNCHANGED copying
        /\ ready' = ready /\ page' = page
    BY <1>10 DEF vars, scene, folds, copying
  <2>2. TypeOK'
    BY <1>0, <1>10 DEF TypeOK, vars, Figure, Lines
  <2> QED BY <2>1, <2>2, CopyingKept, SceneKept, FoldsKept DEF Inv
<1> QED BY <1>1, <1>2, <1>3, <1>4, <1>5, <1>6, <1>7, <1>8, <1>9, <1>10
      DEF Next

LEMMA InvInit == Init => Inv
<1> SUFFICES ASSUME Init PROVE Inv
  OBVIOUS
<1>0. page \in Pages /\ theme \in Theme
  BY DEF Init
<1>1. page.blocks \in [Block -> BlockType] /\ page.figures \in Seq(Nat)
  BY <1>0, ConstantsAssumption
<1>2. Len(page.figures) \in Nat /\ Figure = 1 .. Len(page.figures)
  BY <1>1 DEF Figure
<1>3. TypeOK
  <2>1. \A b \in Block : page.blocks[b].tooltip \in Tooltips
    BY <1>1 DEF BlockType, Tooltips
  <2>2. MaxCopies \in Nat
    BY ConstantsAssumption
  <2>3. tooltip \in [Block -> Tooltips]
    BY <2>1 DEF Init
  <2>4. timers \in Seq([block: Block, old: Tooltips])
    BY DEF Init
  <2>5. drawn \in [Figure -> Theme \cup {None}] /\ parsed \in 0 .. Len(page.figures)
    BY <1>2 DEF Init
  <2>6. /\ unfolded \in [Block -> BOOLEAN] /\ title \in [Block -> Titles]
        /\ pressed \in [Block -> BOOLEAN \cup {None}]
        /\ \A b \in Block : hidden[b] \subseteq DOMAIN Lines(b)
    BY DEF Init, Titles
  <2>7. /\ ready \in BOOLEAN /\ mutated \in BOOLEAN
        /\ library \in {"pending", "loaded", "blocked"}
        /\ writes \subseteq Copied /\ clipboard \in Copied \cup {None}
        /\ overlapped \subseteq Block
    BY DEF Init
  <2>8. copies \in 0 .. MaxCopies
    BY <2>2 DEF Init
  <2> QED BY <1>0, <2>3, <2>4, <2>5, <2>6, <2>7, <2>8 DEF TypeOK
<1>4. LabelsTrue /\ ChartsInv /\ CopiesInv
  BY DEF Init, LabelsTrue, ChartsInv, CopiesInv
<1>5. \A b \in Block \ overlapped : TimerInv(b)
  BY DEF Init, TimerInv
<1> QED BY <1>3, <1>4, <1>5 DEF Inv

LEMMA Invariant == Spec => []Inv
BY InvInit, InvStep, PTL DEF Spec

-----------------------------------------------------------------------------
(* The variables keep their types.                                         *)
THEOREM TypeCorrect == Spec => []TypeOK
<1>1. Inv => TypeOK
  BY DEF Inv
<1> QED BY Invariant, <1>1, PTL

(* The clipboard gets whole files, whatever is folded or happens before    *)
(* the write is done.                                                      *)
THEOREM CopiesWholeHolds == Spec => []CopiesWhole
<1>1. Inv => CopiesWhole
  BY DEF Inv, CopiesInv, CopiesWhole, Whole
<1> QED BY Invariant, <1>1, PTL

(* Toggles, tooltips and charts show the state that the page is in.        *)
THEOREM PageSettlesHolds == Spec => []PageSettles
<1>1. ASSUME Inv, NEW b \in Block \ overlapped
      PROVE  /\ b \notin Restoring /\ page.blocks[b].tooltip # None =>
                  tooltip[b] = page.blocks[b].tooltip
             /\ b \in Restoring => tooltip[b] \in {"Copied!", "Failed to copy"}
  BY <1>1 DEF Inv, TimerInv, Restoring
<1>2. ASSUME Inv PROVE ChartsFollow
  BY <1>2 DEF Inv, ChartsInv, ChartsFollow
<1>3. Inv => PageSettles
  BY <1>1, <1>2 DEF Inv, PageSettles, TooltipsReturn
<1> QED BY Invariant, <1>3, PTL
=============================================================================
