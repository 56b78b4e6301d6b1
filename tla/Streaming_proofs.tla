-------------------------- MODULE Streaming_proofs --------------------------
(***************************************************************************)
(* Proofs about Streaming, for every set of scripts and of error handlers, *)
(* with and without pings: the response delivers what EventStream          *)
(* promises, does not run ahead of its client, and leaves nothing behind.  *)
(***************************************************************************)
EXTENDS Streaming, TLAPS

(* While the stream is open, what the iterator has produced is what was    *)
(* delivered, and perhaps the answer that a done event task holds. A       *)
(* finished iterator has nothing to say but the end.                       *)
InOrder ==
  /\ source # "closed"
  /\ source = "finished" => pos >= Len(conf.script)
  /\ fetch # "done" => pos = Len(delivered)
  /\ fetch = "done" =>
       /\ result = ABS!Answer(Len(delivered) + 1)
       /\ pos = Len(delivered) + 1 \/ (pos = Len(delivered) /\ result = "end")

(* Who may be at work: nobody before the first pull, the iterator only in  *)
(* a fetch, and without pings a fetch only while the handler waits for it. *)
Phased ==
  /\ phase = "open" <=> server # "over"
  /\ server = "start" =>
       fetch = "none" /\ source = "idle" /\ pos = 0 /\ timer = "off"
  /\ source = "running" => fetch = "running"
  /\ fetch = "running" => source # "idle"
  /\ ~conf.pings =>
       timer = "off" /\ fetch = IF server = "waiting" THEN "running" ELSE "none"

StreamInv ==
  /\ TypeOK
  /\ Phased
  /\ phase = "open" => InOrder
  /\ Settled

-----------------------------------------------------------------------------
(* The answers of the items.                                               *)

LEMMA ConfTyped ==
  ASSUME conf \in ABS!Conf
  PROVE  /\ conf.script \in Seq(ABS!Produced)
         /\ \A i \in 1 .. Len(conf.script) :
              conf.script[i] \in ABS!Raised => i = Len(conf.script)
         /\ conf.handles \subseteq ABS!Failures
         /\ conf.pings \in BOOLEAN
BY ScriptAssumption DEF ABS!Conf

LEMMA AnswerTyped ==
  ASSUME NEW n PROVE ABS!Answer(n) \in {"event", "error_event", "end", "fail"}
BY DEF ABS!Answer

(* Nothing follows the last item but the end.                              *)
LEMMA PastTheEnd ==
  ASSUME conf \in ABS!Conf, NEW n \in Nat, n > Len(conf.script)
  PROVE  ABS!Answer(n) = "end"
<1>1. "stop" \notin conf.handles
  BY ConfTyped DEF ABS!Failures
<1>2. Len(conf.script) \in Nat
  BY ConfTyped
<1>3. ~(n <= Len(conf.script))
  BY <1>2
<1> QED BY <1>1, <1>3 DEF ABS!Answer

(* An iterator that is resumed while the stream is open gives the answer   *)
(* of the next item, and is finished only when there is none after it.     *)
LEMMA OutcomeIsAnswer ==
  ASSUME StreamInv, phase = "open", fetch = "running"
  PROVE  Outcome = ABS!Answer(Len(delivered) + 1)
<1>1. /\ pos = Len(delivered) /\ pos \in Nat
      /\ source \in {"running", "finished"}
      /\ source = "finished" => pos >= Len(conf.script)
  BY DEF StreamInv, TypeOK, Phased, InOrder
<1>2. CASE source = "running"
  BY <1>1, <1>2 DEF Outcome
<1>3. CASE source = "finished"
  <2>1. conf \in ABS!Conf /\ Len(conf.script) \in Nat
    BY ConfTyped DEF StreamInv, TypeOK
  <2>2. ABS!Answer(pos + 1) = "end"
    BY <1>1, <1>3, <2>1, PastTheEnd
  <2> QED BY <1>1, <1>3, <2>2 DEF Outcome
<1> QED BY <1>1, <1>2, <1>3

LEMMA SuspendedTyped ==
  ASSUME StreamInv, fetch = "running"
  PROVE  /\ Suspended \in {"idle", "finished", "closed"}
         /\ phase = "open" => Suspended # "closed"
         /\ Suspended = "finished" /\ phase = "open" =>
              (IF source = "running" THEN pos + 1 ELSE pos) >= Len(conf.script)
<1>1. /\ source \in {"running", "finished", "closed"}
      /\ phase = "open" => source # "closed"
      /\ phase = "open" /\ source = "finished" => pos >= Len(conf.script)
      /\ pos \in Nat /\ conf \in ABS!Conf
  BY DEF StreamInv, TypeOK, Phased, InOrder
<1>2. /\ Len(conf.script) \in Nat
      /\ \A i \in 1 .. Len(conf.script) :
           /\ conf.script[i] \in ABS!Produced
           /\ conf.script[i] \in ABS!Raised => i = Len(conf.script)
  BY <1>1, ConfTyped
<1>3. CASE source = "running" /\ pos >= Len(conf.script)
  BY <1>1, <1>2, <1>3 DEF Suspended
<1>4. CASE source = "running" /\ pos < Len(conf.script)
  <2>1. pos + 1 \in 1 .. Len(conf.script)
    BY <1>1, <1>2, <1>4
  <2>2. conf.script[pos + 1] \notin ABS!Yielded => pos + 1 = Len(conf.script)
    BY <1>2, <2>1 DEF ABS!Produced
  <2> QED BY <1>1, <1>2, <1>4, <2>2 DEF Suspended
<1>5. CASE source # "running"
  BY <1>1, <1>5 DEF Suspended
<1> QED BY <1>1, <1>2, <1>3, <1>4, <1>5

-----------------------------------------------------------------------------
(* TypeOK /\ who is at work /\ what was delivered is inductive.            *)

LEMMA StreamInit == Init => StreamInv
<1> SUFFICES ASSUME Init PROVE StreamInv
  OBVIOUS
<1>1. TypeOK
  BY DEF Init, TypeOK, Answers
<1>2. Phased /\ Settled
  BY ConfTyped DEF Init, Phased, Settled
<1>3. InOrder
  BY DEF Init, InOrder
<1> QED BY <1>1, <1>2, <1>3 DEF StreamInv

(* An answer is handed over: the next item in order, or the end.           *)
LEMMA HandOverKeeps ==
  ASSUME StreamInv, phase = "open", server = "waiting",
         NEW answer, NEW n, NEW state, HandOver(answer, n, state),
         answer = ABS!Answer(Len(delivered) + 1),
         answer \in {"event", "error_event"} => n = Len(delivered) + 1,
         state \in {"idle", "finished"},
         n \in Nat,
         answer \in {"event", "error_event"} => pos' = n,
         pos' \in Nat,
         state = "finished" => pos' >= Len(conf.script),
         UNCHANGED conf, fetch' = "none", result' \in Answers, timer' = "off"
  PROVE  StreamInv'
<1>1. delivered \in Seq(ABS!Sent) /\ Len(delivered) \in Nat
  BY DEF StreamInv, TypeOK
<1>2. CASE /\ answer \in {"event", "error_event"}
           /\ delivered' = Append(delivered, [item |-> n, as |-> answer])
           /\ server' = "sending"
           /\ source' = state
           /\ UNCHANGED phase
  <2>1. [item |-> n, as |-> answer] \in ABS!Sent
    BY <1>2 DEF ABS!Sent
  <2>2. delivered' \in Seq(ABS!Sent) /\ Len(delivered') = Len(delivered) + 1
    BY <1>1, <1>2, <2>1
  <2>3. TypeOK'
    BY <1>2, <2>2 DEF StreamInv, TypeOK
  <2>4. Phased'
    BY <1>2 DEF StreamInv, Phased
  <2>5. InOrder'
    BY <1>2, <2>2 DEF InOrder
  <2>6. Settled'
    BY <1>2 DEF Settled
  <2> QED BY <2>3, <2>4, <2>5, <2>6 DEF StreamInv
<1>3. CASE /\ answer \in {"end", "fail"}
           /\ phase' = IF answer = "end" THEN "ended" ELSE "failed"
           /\ server' = "over"
           /\ source' = Closed(state)
           /\ UNCHANGED delivered
  <2>1. source' \in {"closed", "finished"}
    BY <1>3 DEF Closed
  <2>2. phase' \in {"ended", "failed"}
    BY <1>3
  <2>3. TypeOK'
    BY <1>3, <2>1, <2>2 DEF StreamInv, TypeOK
  <2>4. Phased'
    BY <1>3, <2>1, <2>2 DEF StreamInv, Phased
  <2>5. Settled'
    BY <2>1, <2>2 DEF Settled
  <2> QED BY <2>2, <2>3, <2>4, <2>5 DEF StreamInv
<1> QED BY <1>2, <1>3 DEF HandOver

LEMMA PullKeeps == ASSUME StreamInv, Pull PROVE StreamInv'
<1>1. /\ server \in {"start", "sending"} /\ server' = "waiting"
      /\ UNCHANGED <<conf, pos, result, delivered, phase>>
      /\ phase = "open" /\ conf.pings \in BOOLEAN
  BY ConfTyped DEF Pull, StreamInv, TypeOK, Phased
<1>2. CASE conf.pings
  <2>1. /\ timer' = "on" /\ UNCHANGED source
        /\ fetch' = IF fetch = "none" THEN "scheduled" ELSE fetch
    BY <1>2 DEF Pull
  <2>2. TypeOK'
    BY <1>1, <2>1 DEF StreamInv, TypeOK
  <2>3. Phased'
    BY <1>1, <1>2, <2>1 DEF StreamInv, Phased
  <2>4. InOrder' /\ Settled'
    BY <1>1, <2>1 DEF StreamInv, InOrder, Settled, ABS!Answer
  <2> QED BY <2>2, <2>3, <2>4 DEF StreamInv
<1>3. CASE ~conf.pings
  <2>1. /\ fetch' = "running" /\ UNCHANGED timer
        /\ source' = IF source = "idle" THEN "running" ELSE source
        /\ fetch = "none"
    BY <1>1, <1>3 DEF Pull, Resume, StreamInv, Phased
  <2>2. TypeOK'
    BY <1>1, <2>1 DEF StreamInv, TypeOK
  <2>3. Phased'
    BY <1>1, <1>3, <2>1 DEF StreamInv, Phased
  <2>4. InOrder' /\ Settled'
    BY <1>1, <2>1 DEF StreamInv, InOrder, Settled
  <2> QED BY <2>2, <2>3, <2>4 DEF StreamInv
<1> QED BY <1>1, <1>2, <1>3

LEMMA StartTaskKeeps == ASSUME StreamInv, StartTask PROVE StreamInv'
<1>1. /\ fetch = "scheduled" /\ fetch' = "running"
      /\ source' = IF source = "idle" THEN "running" ELSE source
      /\ UNCHANGED <<conf, pos, result, timer, server, delivered, phase>>
  BY DEF StartTask, Resume
<1>2. conf.pings
  BY <1>1 DEF StreamInv, Phased
<1>3. TypeOK'
  BY <1>1 DEF StreamInv, TypeOK
<1>4. Phased'
  BY <1>1, <1>2 DEF StreamInv, Phased
<1>5. phase = "open" => InOrder'
  BY <1>1 DEF StreamInv, InOrder
<1>6. Settled'
  BY <1>1, <1>2 DEF StreamInv, Settled
<1> QED BY <1>1, <1>3, <1>4, <1>5, <1>6 DEF StreamInv

(* With pings the answer waits in the event task, else it is handed over.  *)
LEMMA ProduceKeeps == ASSUME StreamInv, Produce PROVE StreamInv'
<1>1. /\ fetch = "running" /\ UNCHANGED <<conf, timer>>
      /\ pos' = IF source = "running" THEN pos + 1 ELSE pos
      /\ source \in {"running", "finished", "closed"}
      /\ pos \in Nat /\ pos' \in Nat /\ conf \in ABS!Conf
      /\ Len(conf.script) \in Nat /\ Len(delivered) \in Nat
  BY ConfTyped DEF Produce, StreamInv, TypeOK, Phased
<1>2. CASE conf.pings
  <2>1. /\ fetch' = "done" /\ result' = Outcome /\ source' = Suspended
        /\ UNCHANGED <<server, delivered, phase>>
    BY <1>2 DEF Produce
  <2>2. Outcome \in Answers
    BY AnswerTyped DEF Outcome, Answers
  <2>3. TypeOK'
    BY <1>1, <2>1, <2>2, SuspendedTyped DEF StreamInv, TypeOK
  <2>4. Phased'
    BY <1>1, <1>2, <2>1, SuspendedTyped DEF StreamInv, Phased
  <2>5. ASSUME phase = "open" PROVE InOrder'
    <3>1. pos = Len(delivered)
      BY <1>1, <2>5 DEF StreamInv, InOrder
    <3>2. result' = ABS!Answer(Len(delivered) + 1)
      BY <1>1, <2>1, <2>5, OutcomeIsAnswer
    <3>3. source # "running" => result' = "end"
      BY <2>1 DEF Outcome
    <3>4. ABS!Answer(Len(delivered) + 1)' = ABS!Answer(Len(delivered) + 1)
      BY <1>1, <2>1 DEF ABS!Answer
    <3> QED BY <1>1, <2>1, <2>5, <3>1, <3>2, <3>3, <3>4, SuspendedTyped DEF InOrder
  <2>6. Settled'
    BY <1>1, <1>2, <2>1 DEF StreamInv, Settled
  <2> QED BY <2>1, <2>3, <2>4, <2>5, <2>6 DEF StreamInv
<1>3. CASE ~conf.pings
  <2>1. /\ fetch' = "none" /\ UNCHANGED result
        /\ HandOver(Outcome, pos + 1, Suspended)
    BY <1>3 DEF Produce
  <2>2. server = "waiting" /\ phase = "open" /\ timer = "off"
    BY <1>1, <1>3 DEF StreamInv, Phased
  <2>3. Outcome = ABS!Answer(Len(delivered) + 1)
    BY <1>1, <2>2, OutcomeIsAnswer
  <2>4. pos = Len(delivered)
    BY <1>1, <2>2 DEF StreamInv, InOrder
  <2>5. Outcome \in {"event", "error_event"} => source = "running"
    BY DEF Outcome
  <2>6. result' \in Answers
    BY <2>1 DEF StreamInv, TypeOK
  <2> QED BY <1>1, <2>1, <2>2, <2>3, <2>4, <2>5, <2>6, SuspendedTyped,
             HandOverKeeps
<1> QED BY <1>1, <1>2, <1>3, ConfTyped

LEMMA TakeEventKeeps == ASSUME StreamInv, TakeEvent PROVE StreamInv'
<1>1. /\ server = "waiting" /\ fetch = "done" /\ phase = "open"
      /\ fetch' = "none" /\ result' = "none" /\ timer' = "off"
      /\ HandOver(result, pos, source) /\ UNCHANGED <<conf, pos>>
  BY DEF TakeEvent, StreamInv, Phased
<1>2. /\ result = ABS!Answer(Len(delivered) + 1)
      /\ result \in {"event", "error_event"} => pos = Len(delivered) + 1
      /\ source = "finished" => pos >= Len(conf.script)
      /\ source \in {"idle", "finished"} /\ pos \in Nat
  BY <1>1 DEF StreamInv, TypeOK, Phased, InOrder
<1> QED BY <1>1, <1>2, HandOverKeeps DEF Answers

(* A client that goes away stops the handler wherever it is.               *)
LEMMA DisconnectKeeps == ASSUME StreamInv, Disconnect PROVE StreamInv'
<1>1. /\ server # "over" /\ server' = "over" /\ phase = "open"
      /\ phase' \in {"gone", "crashed"}
      /\ UNCHANGED <<conf, pos, result, timer, delivered>>
      /\ conf \in ABS!Conf
  BY DEF Disconnect, DisconnectEarly, CancelSource, CloseGenerator, StreamInv,
         TypeOK, Phased
<1>2. CASE DisconnectEarly
  <2>1. UNCHANGED <<source, fetch>> /\ server = "start" /\ phase' = "gone"
    BY <1>2 DEF DisconnectEarly
  <2>2. TypeOK' /\ Phased' /\ Settled'
    BY <1>1, <2>1 DEF StreamInv, TypeOK, Phased, Settled
  <2> QED BY <1>1, <2>2 DEF StreamInv
<1>3. CASE CancelSource
  <2>1. /\ server = "waiting" /\ ~conf.pings /\ phase' = "gone"
        /\ fetch' = "none" /\ fetch = "running" /\ timer = "off"
        /\ source' = IF source = "running" THEN "finished" ELSE source
        /\ source # "idle"
    BY <1>3 DEF CancelSource, StreamInv, Phased
  <2>2. TypeOK' /\ Phased' /\ Settled'
    BY <1>1, <2>1 DEF StreamInv, TypeOK, Phased, Settled
  <2> QED BY <1>1, <2>2 DEF StreamInv
<1>4. CASE CloseGenerator
  <2>1. /\ server = "sending" \/ (server = "waiting" /\ conf.pings)
        /\ UNCHANGED fetch
        /\ source' = IF source = "idle" THEN "closed" ELSE source
    BY <1>4 DEF CloseGenerator, Closed
  <2>2. TypeOK'
    BY <1>1, <2>1 DEF StreamInv, TypeOK
  <2>3. Phased'
    BY <1>1, <2>1 DEF StreamInv, Phased
  <2>4. Settled'
    BY <1>1, <2>1 DEF StreamInv, Phased, Settled
  <2> QED BY <1>1, <2>2, <2>3, <2>4 DEF StreamInv
<1> QED BY <1>2, <1>3, <1>4 DEF Disconnect

LEMMA StreamStep == StreamInv /\ [Next]_vars => StreamInv'
<1> SUFFICES ASSUME StreamInv, [Next]_vars PROVE StreamInv'
  OBVIOUS
<1>1. CASE FireTimer
  <2>1. conf.pings
    BY <1>1 DEF FireTimer, StreamInv, Phased
  <2>2. TypeOK' /\ Phased' /\ Settled'
    BY <1>1, <2>1 DEF FireTimer, StreamInv, TypeOK, Phased, Settled
  <2>3. phase = "open" => InOrder'
    BY <1>1 DEF FireTimer, StreamInv, InOrder, ABS!Answer
  <2> QED BY <1>1, <2>2, <2>3 DEF FireTimer, StreamInv
<1>2. CASE SendPing
  <2>1. conf.pings /\ phase = "open"
    BY <1>2 DEF SendPing, StreamInv, Phased
  <2>2. TypeOK' /\ Phased' /\ Settled'
    BY <1>2, <2>1 DEF SendPing, StreamInv, TypeOK, Phased, Settled
  <2>3. InOrder'
    BY <1>2, <2>1 DEF SendPing, StreamInv, InOrder
  <2> QED BY <2>2, <2>3 DEF StreamInv
<1>3. CASE UNCHANGED vars
  BY <1>3 DEF vars, StreamInv, TypeOK, Phased, InOrder, Settled, ABS!Answer,
              ABS!Conf, ABS!Sent
<1> QED
  BY <1>1, <1>2, <1>3, PullKeeps, StartTaskKeeps, ProduceKeeps, TakeEventKeeps,
     DisconnectKeeps DEF Next

LEMMA StreamInvHolds == Spec => []StreamInv
BY StreamInit, StreamStep, PTL DEF Spec

(* TypeOK holds in every run, whatever the iterator does.                  *)
THEOREM TypeCorrect == Spec => []TypeOK
<1>1. StreamInv => TypeOK
  BY DEF StreamInv
<1> QED BY <1>1, StreamInvHolds, PTL

(* The iterator is at most one item ahead of what was handed over, however *)
(* pings and events race (StreamingResponse._produce_events).              *)
THEOREM OneAheadHolds == Spec => []OneAhead
<1>1. StreamInv => OneAhead
  BY DEF StreamInv, TypeOK, InOrder, OneAhead
<1> QED BY <1>1, StreamInvHolds, PTL

(* A stream that is over, or left by its client without pings, leaves no   *)
(* open iterator, no event task and no timer (the finally clauses and      *)
(* aclose of _produce_events).                                             *)
THEOREM SettledHolds == Spec => []Settled
<1>1. StreamInv => Settled
  BY DEF StreamInv
<1> QED BY <1>1, StreamInvHolds, PTL

-----------------------------------------------------------------------------
(* Streaming implements EventStream, with a crash seen as a disconnect.    *)

LEMMA DeliversInit == Init => ABS!StreamInit
BY DEF Init, ABS!StreamInit

(* A step that hands nothing over and does not end the stream stutters.    *)
LEMMA QuietStutters ==
  ASSUME UNCHANGED <<conf, delivered, phase>> PROVE UNCHANGED ABS!streamVars
BY DEF ABS!streamVars

LEMMA HandOverDelivers ==
  ASSUME phase = "open", NEW answer, NEW n, NEW state,
         HandOver(answer, n, state), UNCHANGED conf,
         answer = ABS!Answer(Len(delivered) + 1),
         answer \in {"event", "error_event"} => n = Len(delivered) + 1
  PROVE  ABS!DeliverNext \/ ABS!Finish
<1>1. CASE /\ answer \in {"event", "error_event"}
           /\ delivered' = Append(delivered, [item |-> n, as |-> answer])
           /\ UNCHANGED phase
  BY <1>1 DEF ABS!DeliverNext, ABS!Upcoming
<1>2. CASE /\ answer \in {"end", "fail"}
           /\ phase' = IF answer = "end" THEN "ended" ELSE "failed"
           /\ UNCHANGED delivered
  BY <1>2 DEF ABS!Finish, ABS!Upcoming
<1> QED BY <1>1, <1>2 DEF HandOver

LEMMA DisconnectAborts ==
  ASSUME StreamInv, Disconnect PROVE ABS!Abort
<1>1. /\ phase = "open" /\ phase' \in {"gone", "crashed"}
      /\ UNCHANGED <<conf, delivered>>
  BY DEF Disconnect, DisconnectEarly, CancelSource, CloseGenerator, StreamInv,
         Phased
<1> QED BY <1>1 DEF ABS!Abort

LEMMA DeliversStep ==
  StreamInv /\ [Next]_vars =>
    [ABS!DeliverNext \/ ABS!Finish \/ ABS!Abort]_(ABS!streamVars)
<1> SUFFICES ASSUME StreamInv, [Next]_vars
             PROVE  \/ ABS!DeliverNext \/ ABS!Finish \/ ABS!Abort
                    \/ UNCHANGED ABS!streamVars
  OBVIOUS
<1>1. CASE Pull \/ StartTask \/ FireTimer \/ SendPing \/ UNCHANGED vars
  <2>1. UNCHANGED <<conf, delivered, phase>>
    BY <1>1 DEF Pull, StartTask, FireTimer, SendPing, vars
  <2> QED BY <2>1, QuietStutters
<1>2. CASE Produce /\ conf.pings
  BY <1>2, QuietStutters DEF Produce
<1>3. CASE Produce /\ ~conf.pings
  <2>1. /\ fetch = "running" /\ phase = "open" /\ UNCHANGED conf
        /\ HandOver(Outcome, pos + 1, Suspended)
    BY <1>3 DEF Produce, StreamInv, Phased
  <2>2. pos = Len(delivered)
    BY <2>1 DEF StreamInv, InOrder
  <2> QED BY <2>1, <2>2, OutcomeIsAnswer, HandOverDelivers
<1>4. CASE TakeEvent
  <2>1. /\ fetch = "done" /\ phase = "open" /\ UNCHANGED conf
        /\ HandOver(result, pos, source)
    BY <1>4 DEF TakeEvent, StreamInv, Phased
  <2>2. /\ result = ABS!Answer(Len(delivered) + 1)
        /\ result \in {"event", "error_event"} => pos = Len(delivered) + 1
    BY <2>1 DEF StreamInv, InOrder
  <2> QED BY <2>1, <2>2, HandOverDelivers
<1> QED BY <1>1, <1>2, <1>3, <1>4, DisconnectAborts DEF Next

(* Every event is delivered once, in order and as the error handler left   *)
(* it, then the stream ends, whatever pings are sent in between and        *)
(* wherever the client goes away: Streaming refines EventStream.           *)
THEOREM DeliversHolds == Spec => Delivers
<1>1. Spec => ABS!StreamInit
  BY DeliversInit DEF Spec
<1> QED
  BY <1>1, StreamInvHolds, DeliversStep, PTL
     DEF Spec, Delivers, ABS!StreamSpec

(* What EventStream promises, spelled out: the delivered items are the     *)
(* first ones, each once and with its answer, and a stream that ended or   *)
(* failed stopped at the item that ends or fails it.                       *)
Exact ==
  /\ \A i \in 1 .. Len(delivered) :
       delivered[i] = [item |-> i, as |-> ABS!Answer(i)]
  /\ phase = "ended" => ABS!Answer(Len(delivered) + 1) = "end"
  /\ phase = "failed" => ABS!Answer(Len(delivered) + 1) = "fail"

(* Every step of the abstract stream keeps it exact.                       *)
LEMMA ExactStep ==
  ASSUME TypeOK, Exact,
         [ABS!DeliverNext \/ ABS!Finish \/ ABS!Abort]_(ABS!streamVars)
  PROVE  Exact'
<1>1. delivered \in Seq(ABS!Sent) /\ Len(delivered) \in Nat
  BY DEF TypeOK
<1>2. ASSUME UNCHANGED conf, NEW n PROVE ABS!Answer(n)' = ABS!Answer(n)
  BY <1>2 DEF ABS!Answer
<1>3. CASE ABS!DeliverNext
  <2> DEFINE new == [item |-> Len(delivered) + 1,
                     as |-> ABS!Answer(Len(delivered) + 1)]
  <2>1. /\ delivered' = Append(delivered, new) /\ UNCHANGED conf
        /\ phase = "open" /\ phase' \notin {"ended", "failed"}
        /\ new \in ABS!Sent
    BY <1>1, <1>3 DEF ABS!DeliverNext, ABS!Upcoming, ABS!Sent
  <2> HIDE DEF new
  <2>2. /\ Len(delivered') = Len(delivered) + 1
        /\ delivered'[Len(delivered) + 1] = new
        /\ \A i \in 1 .. Len(delivered) : delivered'[i] = delivered[i]
    BY <1>1, <2>1
  <2>3. \A i \in 1 .. Len(delivered') :
          delivered'[i] = [item |-> i, as |-> ABS!Answer(i)]
    <3>1. 1 .. Len(delivered') = 1 .. Len(delivered) \cup {Len(delivered) + 1}
      BY <1>1, <2>2
    <3>2. new = [item |-> Len(delivered) + 1, as |-> ABS!Answer(Len(delivered) + 1)]
      BY DEF new
    <3> QED BY <2>2, <3>1, <3>2, Zenon DEF Exact
  <2> QED BY <1>2, <2>1, <2>3 DEF Exact
<1>4. CASE ABS!Finish
  BY <1>2, <1>4 DEF ABS!Finish, ABS!Upcoming, Exact
<1>5. CASE ABS!Abort
  BY <1>2, <1>5 DEF ABS!Abort, Exact
<1>6. CASE UNCHANGED ABS!streamVars
  BY <1>2, <1>6 DEF ABS!streamVars, Exact
<1> QED BY <1>3, <1>4, <1>5, <1>6

(* No event is lost, sent twice or out of order: what the client was given *)
(* are the first items of the iterator with their answers, and the stream  *)
(* ended or failed exactly at the item that does so (_next_event).         *)
THEOREM ExactHolds == Spec => []Exact
<1>1. Init => Exact
  BY DEF Init, Exact
<1>2. StreamInv /\ Exact /\ [Next]_vars => Exact'
  BY DeliversStep, ExactStep DEF StreamInv
<1> QED BY <1>1, <1>2, StreamInvHolds, PTL DEF Spec
=============================================================================
