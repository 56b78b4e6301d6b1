---------------------------- MODULE EventStream ----------------------------
(***************************************************************************)
(* What a streaming response promises to its client: the items of the      *)
(* events producing iterator, each once and in order, whatever pings are   *)
(* mixed in; an item that cannot be sent becomes an error event when the   *)
(* controller handles that error and ends the stream when it does not.     *)
(* Nothing follows the end of the stream or a disconnect.                  *)
(***************************************************************************)
EXTENDS Naturals, Sequences

CONSTANTS
  Scripts,  \* what a producing iterator may do: sequences of Produced
  Handlers  \* what handle_event_error may turn into an event: sets of Failures

Yielded == {"event", "invalid", "unserializable"}  \* the iterator goes on
Raised == {"error", "close"}  \* an exception, StreamingCloseError: it ends
Failures == {"invalid", "error", "close"}  \* reach handle_event_error
Produced == Yielded \cup Raised

VARIABLES
  conf,       \* [script, handles, pings]: fixed by the response
  delivered,  \* the items whose bytes were given to the server, pings left out
  phase       \* open, ended (regularly), failed (with an error) or gone

streamVars == <<conf, delivered, phase>>

Conf == [script: Scripts, handles: Handlers, pings: BOOLEAN]
Sent == [item: Nat, as: {"event", "error_event"}]

AnswerUnhandled(n) ==  \* fault: the handler's event is not the answer
  LET kind == IF n <= Len(conf.script) THEN conf.script[n] ELSE "stop"
  IN  IF kind \in {"event"} \cup conf.handles THEN kind ELSE "end"

(* What becomes of item n. A finished iterator raises StopAsyncIteration.  *)
Answer(n) ==
  LET kind == IF n <= Len(conf.script) THEN conf.script[n] ELSE "stop"
  IN  CASE kind = "event" -> "event"
        [] kind \in conf.handles -> "error_event"
        [] kind \in {"stop", "close"} \ conf.handles -> "end"
        [] OTHER -> "fail"

StreamInit ==
  /\ conf \in Conf
  /\ delivered = << >>
  /\ phase = "open"

Upcoming == Len(delivered) + 1

DeliverNext ==
  /\ phase = "open"
  /\ Answer(Upcoming) \in {"event", "error_event"}
  /\ delivered' = Append(delivered, [item |-> Upcoming, as |-> Answer(Upcoming)])
  /\ UNCHANGED <<conf, phase>>

Finish ==
  /\ phase = "open"
  /\ \/ Answer(Upcoming) = "end" /\ phase' = "ended"
     \/ Answer(Upcoming) = "fail" /\ phase' = "failed"
  /\ UNCHANGED <<conf, delivered>>

Abort ==
  /\ phase = "open"
  /\ phase' = "gone"
  /\ UNCHANGED <<conf, delivered>>

StreamSpec == StreamInit /\ [][DeliverNext \/ Finish \/ Abort]_streamVars
=============================================================================
