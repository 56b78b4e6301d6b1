----------------------------- MODULE Streaming -----------------------------
(***************************************************************************)
(* StreamingResponse (dmr/streaming/stream.py): the tasks of one response, *)
(* in one event loop. The server's handler pulls bytes out of              *)
(* _produce_events() and sends them. With pings, _next_event() runs in a   *)
(* task of its own that outlives the ping it lost the race against;        *)
(* without, it runs inside the handler's task. The client may disconnect   *)
(* while the handler waits for the next event or while it sends.           *)
(*                                                                         *)
(* The producing iterator is an asynchronous generator of the application: *)
(* conf.script says what it does each time it is resumed. Its own cleanup  *)
(* and the awaits inside handle_event_error are single steps.              *)
(***************************************************************************)
EXTENDS Naturals, Sequences

CONSTANTS Scripts, Handlers

VARIABLES
  conf,       \* [script, handles, pings]: the response, never changed
  pos,        \* how many items the iterator has produced
  source,     \* the iterator: idle (may be resumed), running, finished, closed
  fetch,      \* event_task, or the awaited _next_event() when there are no pings
  result,     \* of a done event_task
  timer,      \* ping_task: off (none or cancelled), on, fired
  server,     \* the handler: start, waiting (in anext), sending, over
  delivered,  \* history: the items handed over, pings left out
  phase       \* open, ended, failed, gone, or crashed (RuntimeError in aclose)

vars == <<conf, pos, source, fetch, result, timer, server, delivered, phase>>

(* The abstract stream: to the client a crash is one more disconnect.      *)
ABS == INSTANCE EventStream
         WITH phase <- IF phase = "crashed" THEN "gone" ELSE phase

(* A raised exception ends an asynchronous generator.                      *)
ASSUME ScriptAssumption ==
  /\ Scripts \subseteq Seq(ABS!Produced)
  /\ \A s \in Scripts : \A i \in 1 .. Len(s) : s[i] \in ABS!Raised => i = Len(s)
  /\ Handlers \subseteq SUBSET ABS!Failures

Answers == {"none", "event", "error_event", "end", "fail"}

TypeOK ==
  /\ conf \in ABS!Conf
  /\ pos \in Nat
  /\ source \in {"idle", "running", "finished", "closed"}
  /\ fetch \in {"none", "scheduled", "running", "done"}
  /\ result \in Answers
  /\ timer \in {"off", "on", "fired"}
  /\ server \in {"start", "waiting", "sending", "over"}
  /\ delivered \in Seq(ABS!Sent)
  /\ phase \in {"open", "ended", "failed", "gone", "crashed"}

Init ==
  /\ conf \in ABS!Conf
  /\ pos = 0
  /\ source = "idle"
  /\ fetch = "none"
  /\ result = "none"
  /\ timer = "off"
  /\ server = "start"
  /\ delivered = << >>
  /\ phase = "open"

-----------------------------------------------------------------------------
(* anext(streaming_content): a finished or closed iterator does not run.   *)
Resume ==
  /\ fetch' = "running"
  /\ source' = IF source = "idle" THEN "running" ELSE source

PullKeepingTimer ==  \* fault: a timer only for a new event task
  /\ server \in {"start", "sending"}
  /\ server' = "waiting"
  /\ IF conf.pings
     THEN /\ timer' = IF fetch = "none" THEN "on" ELSE timer
          /\ fetch' = IF fetch = "none" THEN "scheduled" ELSE fetch
          /\ UNCHANGED source
     ELSE Resume /\ UNCHANGED timer
  /\ UNCHANGED <<conf, pos, result, delivered, phase>>

(* The handler asks for the next bytes: a ping generator starts a timer    *)
(* and, unless the last one is still pending, an event task.               *)
Pull ==
  /\ server \in {"start", "sending"}
  /\ server' = "waiting"
  /\ IF conf.pings
     THEN /\ timer' = "on"
          /\ fetch' = IF fetch = "none" THEN "scheduled" ELSE fetch
          /\ UNCHANGED source
     ELSE Resume /\ UNCHANGED timer
  /\ UNCHANGED <<conf, pos, result, delivered, phase>>

(* The event loop runs the event task for the first time.                  *)
StartTask ==
  /\ fetch = "scheduled"
  /\ Resume
  /\ UNCHANGED <<conf, pos, result, timer, server, delivered, phase>>

(* The next item, or the end, if the iterator did run; the error that the  *)
(* cleared validator and controller give once the response is closed.      *)
Outcome ==
  IF source # "running" THEN "end"
  ELSE IF phase # "open" THEN "fail"
  ELSE ABS!Answer(pos + 1)

(* Where the iterator stops by itself: at its next yield, or finished.     *)
Suspended ==
  IF source # "running" THEN source
  ELSE IF pos < Len(conf.script) /\ conf.script[pos + 1] \in ABS!Yielded
       THEN "idle"
       ELSE "finished"

LeftOpen(state) == state  \* fault: the iterator is not closed

(* aclose() of an iterator: finished ones ignore it, running ones refuse.  *)
Closed(state) == IF state = "idle" THEN "closed" ELSE state

(* The generator goes on with an answer: it yields bytes, or it ends and   *)
(* _produce_events closes the response and the iterator.                   *)
HandOver(answer, n, state) ==
  \/ /\ answer \in {"event", "error_event"}
     /\ delivered' = Append(delivered, [item |-> n, as |-> answer])
     /\ server' = "sending"
     /\ source' = state
     /\ UNCHANGED phase
  \/ /\ answer \in {"end", "fail"}
     /\ phase' = IF answer = "end" THEN "ended" ELSE "failed"
     /\ server' = "over"
     /\ source' = Closed(state)
     /\ UNCHANGED delivered

(* The iterator yields or ends; validation and the error handler follow    *)
(* within _next_event(). An event task keeps the answer as its result.     *)
Produce ==
  /\ fetch = "running"
  /\ pos' = IF source = "running" THEN pos + 1 ELSE pos
  /\ IF conf.pings
     THEN /\ fetch' = "done"
          /\ result' = Outcome
          /\ source' = Suspended
          /\ UNCHANGED <<server, delivered, phase>>
     ELSE /\ fetch' = "none"
          /\ HandOver(Outcome, pos + 1, Suspended)
          /\ UNCHANGED result
  /\ UNCHANGED <<conf, timer>>

FireTimer ==
  /\ timer = "on"
  /\ timer' = "fired"
  /\ UNCHANGED <<conf, pos, source, fetch, result, server, delivered, phase>>

TakeEventAgain ==  \* fault: a done event task is not forgotten
  /\ server = "waiting"
  /\ fetch = "done"
  /\ timer' = "off"
  /\ HandOver(result, pos, source)
  /\ UNCHANGED <<conf, pos, fetch, result>>

(* asyncio.wait returns with the event task done: its answer wins, even    *)
(* over a timer that has fired. The task is forgotten, the timer cancelled.*)
TakeEvent ==
  /\ server = "waiting"
  /\ fetch = "done"
  /\ fetch' = "none"
  /\ result' = "none"
  /\ timer' = "off"
  /\ HandOver(result, pos, source)
  /\ UNCHANGED <<conf, pos>>

SendPingFirst ==  \* fault: a fired timer wins and the event task is dropped
  /\ server = "waiting"
  /\ timer = "fired"
  /\ timer' = "off"
  /\ fetch' = "none"
  /\ server' = "sending"
  /\ UNCHANGED <<conf, pos, source, result, delivered, phase>>

(* asyncio.wait returns with the timer alone: the event task is kept.      *)
SendPing ==
  /\ server = "waiting"
  /\ timer = "fired"
  /\ fetch # "done"
  /\ timer' = "off"
  /\ server' = "sending"
  /\ UNCHANGED <<conf, pos, source, fetch, result, delivered, phase>>

(* Disconnected before the first pull: nothing has started.                *)
DisconnectEarly ==
  /\ server = "start"
  /\ server' = "over"
  /\ phase' = "gone"
  /\ UNCHANGED <<conf, pos, source, fetch, result, timer, delivered>>

(* Without pings the handler waits inside the iterator: it is cancelled,   *)
(* and _next_event() turns the cancellation into the end of the stream.    *)
CancelSource ==
  /\ server = "waiting"
  /\ ~ conf.pings
  /\ fetch' = "none"
  /\ source' = IF source = "running" THEN "finished" ELSE source
  /\ server' = "over"
  /\ phase' = "gone"
  /\ UNCHANGED <<conf, pos, result, timer, delivered>>

(* A suspended _produce_events is closed, or with pings asyncio.wait is    *)
(* cancelled: neither touches the event task or the timer. aclose() of an  *)
(* iterator that the event task is running raises RuntimeError.            *)
CloseGenerator ==
  /\ server = "sending" \/ (server = "waiting" /\ conf.pings)
  /\ source' = Closed(source)
  /\ server' = "over"
  /\ phase' = IF source = "running" THEN "crashed" ELSE "gone"
  /\ UNCHANGED <<conf, pos, fetch, result, timer, delivered>>

Disconnect == DisconnectEarly \/ CancelSource \/ CloseGenerator

Next ==
  \/ Pull \/ StartTask \/ Produce \/ FireTimer \/ TakeEvent \/ SendPing
  \/ Disconnect

Spec == Init /\ [][Next]_vars

(* The event loop runs what is ready and timers fire. Nothing makes the    *)
(* application produce or the client read: see Finishes.                   *)
Fairness ==
  /\ WF_vars(StartTask)
  /\ WF_vars(FireTimer)
  /\ WF_vars(TakeEvent \/ SendPing)

FairSpec == Spec /\ Fairness

-----------------------------------------------------------------------------
(* The response delivers what EventStream promises: no event is lost,      *)
(* repeated or reordered by a race between an event task and a ping.       *)
Delivers == ABS!StreamSpec

(* The iterator never runs ahead of the client by more than the one event  *)
(* that became ready behind a ping: nothing is buffered.                   *)
OneAhead == phase = "open" => pos <= Len(delivered) + 1

(* A stream that is over leaves nothing behind: the iterator has ended or  *)
(* is closed (or never ran), no event task and no ping timer is left. A    *)
(* client that disconnects from a response with pings is the exception.    *)
Settled ==
  /\ phase \in {"ended", "failed"} => source # "idle"
  /\ phase \in {"ended", "failed"} \/ (phase = "gone" /\ ~ conf.pings) =>
       /\ source = "idle" => pos = 0
       /\ source # "running"
       /\ fetch = "none"
       /\ timer = "off"

(* "Async clients can disconnect at any time. We always handle this error  *)
(* gracefully" (docs/pages/streaming/common.rst): no disconnect raises out *)
(* of the response into the server.                                        *)
DisconnectIsGraceful == phase # "crashed"

(* Keep alive: with pings the client hears something from time to time,    *)
(* although the application may never produce another event.               *)
KeepAlive == conf.pings /\ server = "waiting" ~> server # "waiting"

(* Pings do not starve events: when the application produces and the       *)
(* client reads, the stream ends.                                          *)
Finishes == WF_vars(Pull) /\ WF_vars(Produce) => <>(phase # "open")
=============================================================================
