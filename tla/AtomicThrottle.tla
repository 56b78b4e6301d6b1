--------------------------- MODULE AtomicThrottle ---------------------------
(***************************************************************************)
(* What a throttle promises to the requests of an endpoint: each one that  *)
(* asks is decided in a single step, on one object per cache key that      *)
(* never expires, by the rule of the key, at a second no earlier than      *)
(* those of the requests admitted before it. There are no locks, no cache  *)
(* and no timeouts. DjangoCacheThrottle implements it.                     *)
(***************************************************************************)
EXTENDS ThrottleAlgorithms

CONSTANTS
  Worker,   \* threads or tasks that serve requests
  Key,      \* cache keys: records that hold the rule of their throttle
  MaxClock  \* bound: the last second of the modelled time

VARIABLES
  clock,
  object,    \* [Key -> what its requests have used of the quota, or None]
  admitted,  \* [Key -> [second -> requests admitted at or after it]]
  answer,    \* [Worker -> idle, waiting, or what its request was answered]
  asks       \* [Worker -> the key it waits for, None between two throttles]

throttleVars == <<clock, object, admitted, answer, asks>>

Seconds == 0 .. MaxClock

ThrottleInit ==
  /\ clock = 0
  /\ object = [k \in Key |-> None]
  /\ admitted = [k \in Key |-> [s \in Seconds |-> 0]]
  /\ answer = [w \in Worker |-> "idle"]
  /\ asks = [w \in Worker |-> None]

(* A request arrives, and the first throttle may apply to it.              *)
Begin(w) ==
  /\ answer[w] = "idle"
  /\ answer' = [answer EXCEPT ![w] = "waiting"]
  /\ \E k \in Key \cup {None} : asks' = [asks EXCEPT ![w] = k]
  /\ UNCHANGED <<clock, object, admitted>>

(* It comes to a throttle that applies to it.                              *)
Ask(w) ==
  /\ answer[w] = "waiting" /\ asks[w] = None
  /\ \E k \in Key : asks' = [asks EXCEPT ![w] = k]
  /\ UNCHANGED <<clock, object, admitted, answer>>

(* The second in which an object was opened or last charged.               *)
Stamp(k, obj) ==
  IF k.algorithm = SimpleRate THEN obj.time - k.duration ELSE obj.time

(* A decision as of second t: now or earlier, but after all that it counts.*)
Timely(k, t) ==
  /\ t \in 0 .. clock
  /\ object[k] # None => Stamp(k, object[k]) <= t
  /\ \A s \in Seconds : s > t => admitted[k][s] = 0

(* Key k has room for a request of second t, which is charged for it.      *)
Charge(k, t) ==
  LET obj == Prepared(k, object[k], t)
  IN  /\ Timely(k, t)
      /\ Admits(k, obj)
      /\ object' = [object EXCEPT ![k] = Charged(k, obj)]

Admit(w) ==
  /\ answer[w] = "waiting" /\ asks[w] # None
  /\ \E t \in Seconds :
       /\ Charge(asks[w], t)
       /\ admitted' = [admitted EXCEPT ![asks[w]] =
                         [s \in Seconds |-> IF s <= t THEN @[s] + 1 ELSE @[s]]]
  /\ \E k \in Key \cup {None} : asks' = [asks EXCEPT ![w] = k]
  /\ UNCHANGED <<clock, answer>>

(* A request is refused only when the key has no room for it right now.    *)
Refuse(w) ==
  /\ answer[w] = "waiting" /\ asks[w] # None
  /\ ~ Admits(asks[w], Prepared(asks[w], object[asks[w]], clock))
  /\ answer' = [answer EXCEPT ![w] = "rejected"]
  /\ asks' = [asks EXCEPT ![w] = None]
  /\ UNCHANGED <<clock, object, admitted>>

(* A request that fails may have been charged, but only when it had room.  *)
Abandon(w) ==
  /\ answer[w] = "waiting"
  /\ \/ UNCHANGED object
     \/ asks[w] # None /\ \E t \in Seconds : Charge(asks[w], t)
  /\ answer' = [answer EXCEPT ![w] = "failed"]
  /\ asks' = [asks EXCEPT ![w] = None]
  /\ UNCHANGED <<clock, admitted>>

(* No throttle is left to ask.                                             *)
LetThrough(w) ==
  /\ answer[w] = "waiting" /\ asks[w] = None
  /\ answer' = [answer EXCEPT ![w] = "admitted"]
  /\ UNCHANGED <<clock, object, admitted, asks>>

Finish(w) ==
  /\ answer[w] \in {"admitted", "rejected", "failed"}
  /\ answer' = [answer EXCEPT ![w] = "idle"]
  /\ UNCHANGED <<clock, object, admitted, asks>>

Elapse ==
  /\ clock' = clock + 1
  /\ UNCHANGED <<object, admitted, answer, asks>>

ThrottleNext ==
  \/ Elapse
  \/ \E w \in Worker :
       \/ Begin(w) \/ Ask(w) \/ Admit(w) \/ Refuse(w) \/ Abandon(w)
       \/ LetThrough(w) \/ Finish(w)

ThrottleSpec == ThrottleInit /\ [][ThrottleNext]_throttleVars
=============================================================================
