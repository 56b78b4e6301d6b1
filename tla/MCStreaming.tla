---------------------------- MODULE MCStreaming ----------------------------
(* Values of the constants of Streaming for TLC.                           *)
EXTENDS Streaming

CONSTANT MaxItems  \* the longest script

MCYielded == {"event", "invalid", "unserializable"}
MCRaised == {"error", "close"}

(* Every iterator of at most MaxItems items: the last may be an exception. *)
MCScripts ==
  {s \in UNION {[1 .. n -> MCYielded \cup MCRaised] : n \in 0 .. MaxItems} :
     \A i \in 1 .. Len(s) : s[i] \in MCRaised => i = Len(s)}

(* StreamingController, SSEController, docs/examples/streaming, catch-all. *)
MCHandlers ==
  {{}, {"invalid"}, {"invalid", "error"}, {"invalid", "error", "close"}}
=============================================================================
