----------------------------- MODULE MCDocsPage -----------------------------
(* Values of the constants of DocsPage for TLC.                            *)
EXTENDS DocsPage

CONSTANTS b1, b2

Numbered(texts) == [n \in DOMAIN texts |-> [text |-> texts[n], number |-> TRUE]]
Plain(texts) == [n \in DOMAIN texts |-> [text |-> texts[n], number |-> FALSE]]

(* Numbered lines in elements of their own next to a block without them;   *)
(* two figures with the same content and a third one.                      *)
MCPages ==
  {[blocks |-> [b \in Block |->
      IF b = b1
      THEN [lines |-> Numbered(<<"import", "empty", "code">>), spans |-> TRUE,
            from |-> 3, tooltip |-> "Copy"]
      ELSE [lines |-> Plain(<<"import", "code", "empty">>), spans |-> FALSE,
            from |-> from, tooltip |-> None]],
    figures |-> <<1, 2, 1>>] : from \in {2, None}}
=============================================================================
