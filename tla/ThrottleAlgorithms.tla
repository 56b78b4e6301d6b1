------------------------ MODULE ThrottleAlgorithms ------------------------
(***************************************************************************)
(* The two rate limiting algorithms of dmr/throttling/algorithms.py, as    *)
(* operators on the cached state. The code's access() is split into what   *)
(* it computes first (Prepared), its check (Admits) and what it stores     *)
(* (Charged); the report helpers give the values of the two headers.       *)
(*                                                                         *)
(* A rule is any record with the fields algorithm, max and duration (the   *)
(* max_requests and duration_in_seconds of a throttle). The history list   *)
(* of CachedRateLimit always has exactly one element: it is that element.  *)
(***************************************************************************)
EXTENDS Integers

CONSTANT None  \* Python's None: no cached object, no cache key, no lock owner

SimpleRate == "SimpleRate"
LeakyBucket == "LeakyBucket"
Algorithms == {SimpleRate, LeakyBucket}

CachedRateLimit == [history: Int, time: Int]

SimplePreparedSliding(rule, obj, now) ==  \* fault: every access opens a window
  [history |-> 0, time |-> now + rule.duration]

(* SimpleRate._process_cache: an absent or ended window starts a new one. *)
SimplePrepared(rule, obj, now) ==
  IF obj = None \/ obj.time <= now
  THEN [history |-> 0, time |-> now + rule.duration]
  ELSE obj

(* What is left in the bucket after it leaked for the elapsed seconds.     *)
Leaked(rule, obj, now) ==
  LET level == obj.history - (now - obj.time) * rule.max
  IN  IF level > 0 THEN level ELSE 0

(* LeakyBucket._process_cache and the leak that opens access().            *)
LeakyPrepared(rule, obj, now) ==
  [history |-> IF obj = None THEN 0 ELSE Leaked(rule, obj, now), time |-> now]

Prepared(rule, obj, now) ==
  IF rule.algorithm = SimpleRate
  THEN SimplePrepared(rule, obj, now)
  ELSE LeakyPrepared(rule, obj, now)

AdmitsOneMore(rule, obj) ==  \* fault: the check is off by one request
  IF rule.algorithm = SimpleRate
  THEN obj.history <= rule.max
  ELSE obj.history <= rule.max * rule.duration

(* The check of access(); otherwise it raises TooManyRequestsError.        *)
Admits(rule, obj) ==
  IF rule.algorithm = SimpleRate
  THEN obj.history < rule.max
  ELSE obj.history + rule.duration <= rule.max * rule.duration

(* The level is kept in units of 1/duration of a request.                  *)
Cost(rule) == IF rule.algorithm = SimpleRate THEN 1 ELSE rule.duration

Charged(rule, obj) == [obj EXCEPT !.history = @ + Cost(rule)]

FloorDiv(dividend, divisor) == dividend \div divisor  \* fault: rounds down

CeilDiv(dividend, divisor) == (dividend + divisor - 1) \div divisor

(* The reset value of _report_usage: Retry-After and X-RateLimit-Reset.    *)
Reset(rule, obj, now) ==
  IF rule.algorithm = SimpleRate
  THEN obj.time - now
  ELSE CeilDiv(rule.duration, rule.max)

(* What report_usage looks at: it does not let the bucket leak first.      *)
Reported(rule, obj, now) ==
  IF rule.algorithm = SimpleRate
  THEN SimplePrepared(rule, obj, now)
  ELSE IF obj = None THEN [history |-> 0, time |-> now] ELSE obj

RemainingRoundedUp(rule, obj) ==  \* fault: a started request counts as free
  IF rule.algorithm = SimpleRate
  THEN rule.max - obj.history
  ELSE CeilDiv(rule.max * rule.duration - obj.history, rule.duration)

(* The remaining value of _report_usage: X-RateLimit-Remaining.            *)
Remaining(rule, obj) ==
  IF rule.algorithm = SimpleRate
  THEN rule.max - obj.history
  ELSE (rule.max * rule.duration - obj.history) \div rule.duration
=============================================================================
