--------------------------- MODULE RedisThrottle ---------------------------
(***************************************************************************)
(* Throttling over Redis: SyncRedis and AsyncRedis                         *)
(* (dmr/throttling/backends/redis.py) with the scripts of                  *)
(* dmr/throttling/lua.py, for one throttle and one cache key (keys do not  *)
(* touch each other).                                                      *)
(*                                                                         *)
(* A script runs at once and on the clock of the Redis server, which       *)
(* counts in ticks and answers TIME and TTL in whole seconds. The headers  *)
(* are computed later and elsewhere: by the worker, with the clock of its  *)
(* own host. A call may fail before or after the script has run. The lock  *)
(* of the endpoint is left out: it orders calls that Redis orders anyway.  *)
(***************************************************************************)
EXTENDS ThrottleAlgorithms, Naturals

CONSTANTS
  Worker,     \* threads, tasks and processes that serve requests
  Rules,      \* the throttles considered, each with its own key
  PerSecond,  \* ticks per second
  Skew,       \* [Worker -> ticks its host is ahead of the Redis server]
  MaxClock    \* bound: the last tick of the modelled time

Time == 0 .. MaxClock
RuleType == [algorithm: Algorithms, max: Nat \ {0}, duration: Nat \ {0}]
Entry == [value: Nat, last: Nat, deadline: Nat]
Reply == [ok: BOOLEAN, value: Nat, time: Nat]

ASSUME ConstantsAssumption ==
  /\ Rules \subseteq RuleType
  /\ PerSecond \in Nat \ {0}
  /\ Skew \in [Worker -> Int]
  /\ MaxClock \in Nat
  /\ None \notin Entry
  /\ None \notin CachedRateLimit

VARIABLES
  clock,    \* of the Redis server, in ticks
  rule,     \* the throttle: max_requests, duration_in_seconds, algorithm
  stored,   \* what Redis has under the key, or None
  pc,       \* [Worker -> where its request is]
  reply,    \* [Worker -> script_result of incr()]
  opens,    \* history: [Worker -> tick from which the state that its script met
            \*           leaves room again]
  granted   \* history: [Time -> requests granted at or after it]

vars == <<clock, rule, stored, pc, reply, opens, granted>>

PC == {"idle", "incr", "replied", "granted", "rejected", "reported", "broken", "lost"}

TypeOK ==
  /\ clock \in Time
  /\ rule \in RuleType
  /\ stored \in Entry \cup {None}
  /\ pc \in [Worker -> PC]
  /\ reply \in [Worker -> Reply]
  /\ opens \in [Worker -> Nat]
  /\ granted \in [Time -> Nat]

NoReply == [ok |-> FALSE, value |-> 0, time |-> 0]

Init ==
  /\ clock = 0
  /\ rule \in Rules
  /\ stored = None
  /\ pc = [w \in Worker |-> "idle"]
  /\ reply = [w \in Worker |-> NoReply]
  /\ opens = [w \in Worker |-> 0]
  /\ granted = [t \in Time |-> 0]

-----------------------------------------------------------------------------
Second(t) == t \div PerSecond  \* TIME, and int(time.time())

Live == stored # None /\ stored.deadline > clock

WholeSeconds(ticks) == ticks \div PerSecond  \* fault: the TTL is rounded down

(* TTL rounds what is left to the nearest second.                          *)
TTL(ticks) == (2 * ticks + PerSecond) \div (2 * PerSecond)

(* What a script does: the reply, the new entry, whether it lets a request *)
(* in, and when there is room again if it does not.                        *)
Result(ok, value, time, entry, room) ==
  [reply |-> [ok |-> ok, value |-> value, time |-> time],
   entry |-> entry, room |-> room]

SimpleWriteLate ==  \* fault: the counter is compared before it is incremented
  LET count == IF Live THEN stored.value + 1 ELSE 1
      deadline == IF count = 1 THEN clock + rule.duration * PerSecond
                               ELSE stored.deadline
      Counting(n) == [value |-> n, last |-> 0, deadline |-> deadline]
      allowed == count - 1 <= rule.max
  IN  Result(allowed, IF allowed THEN count ELSE rule.max,
             Second(clock) + TTL(deadline - clock),
             Counting(IF allowed THEN count ELSE count - 1), deadline)

(* SIMPLE_RATE: INCR, EXPIRE of the first request, DECR of one too many.   *)
SimpleWrite ==
  LET count == IF Live THEN stored.value + 1 ELSE 1
      deadline == IF count = 1 THEN clock + rule.duration * PerSecond
                               ELSE stored.deadline
      expire_at == Second(clock) + TTL(deadline - clock)
      Counting(n) == [value |-> n, last |-> 0, deadline |-> deadline]
  IN  IF count > rule.max
      THEN Result(FALSE, rule.max, expire_at, Counting(count - 1), deadline)
      ELSE Result(TRUE, count, expire_at, Counting(count), deadline)

LeakyWriteBelowZero ==  \* fault: the bucket leaks what it does not hold
  LET now == Second(clock)
      level == IF Live THEN stored.value - (now - stored.last) * rule.max ELSE 0
      capacity == rule.max * rule.duration
      excess == level + rule.duration - capacity
  IN  IF excess > 0
      THEN Result(FALSE, level, capacity, stored,
                  (now + CeilDiv(excess, rule.max)) * PerSecond)
      ELSE Result(TRUE, level + rule.duration, capacity,
                  [value |-> level + rule.duration, last |-> now,
                   deadline |-> clock + 2 * rule.duration * PerSecond],
                  clock)

(* LEAKY_BUCKET: seconds leak, a request is added when it fits.            *)
LeakyWrite ==
  LET now == Second(clock)
      level == IF Live
               THEN Leaked(rule, [history |-> stored.value, time |-> stored.last], now)
               ELSE 0
      capacity == rule.max * rule.duration
      excess == level + rule.duration - capacity
  IN  IF excess > 0
      THEN Result(FALSE, level, capacity, stored,
                  (now + CeilDiv(excess, rule.max)) * PerSecond)
      ELSE Result(TRUE, level + rule.duration, capacity,
                  [value |-> level + rule.duration, last |-> now,
                   deadline |-> clock + 2 * rule.duration * PerSecond],
                  clock)

Write == IF rule.algorithm = SimpleRate THEN SimpleWrite ELSE LeakyWrite

(* With view_only a script changes nothing; the counter of a window that   *)
(* has ended is nil, and comparing it is an error.                         *)
ViewFails == rule.algorithm = SimpleRate /\ ~ Live
-----------------------------------------------------------------------------
Goto(w, step) == pc' = [pc EXCEPT ![w] = step]

Arrive(w) ==
  /\ pc[w] = "idle"
  /\ Goto(w, "incr")
  /\ UNCHANGED <<clock, rule, stored, reply, opens, granted>>

Execute ==
  /\ stored' = Write.entry
  /\ granted' = [t \in Time |->
                   IF Write.reply.ok /\ t <= clock THEN granted[t] + 1 ELSE granted[t]]

(* incr(): the script runs and its result comes back.                      *)
Incr(w) ==
  /\ pc[w] = "incr"
  /\ Execute
  /\ reply' = [reply EXCEPT ![w] = Write.reply]
  /\ opens' = [opens EXCEPT ![w] = Write.room]
  /\ Goto(w, "replied")
  /\ UNCHANGED <<clock, rule>>

(* The connection breaks: the client raises, the script may have run.      *)
Lose(w) ==
  /\ pc[w] = "incr"
  /\ Execute \/ UNCHANGED <<stored, granted>>
  /\ Goto(w, "lost")
  /\ UNCHANGED <<clock, rule, reply, opens>>

(* The rest of incr(): a rejection raises with its headers.                *)
Decide(w) ==
  /\ pc[w] = "replied"
  /\ Goto(w, IF reply[w].ok THEN "granted" ELSE "rejected")
  /\ UNCHANGED <<clock, rule, stored, reply, opens, granted>>

(* ThrottlingReport after the endpoint has run: get() with view_only.      *)
Report(w) ==
  /\ pc[w] = "granted"
  /\ Goto(w, IF ViewFails THEN "broken" ELSE "reported")
  /\ UNCHANGED <<clock, rule, stored, reply, opens, granted>>

Respond(w) ==
  /\ pc[w] \in {"granted", "rejected", "reported", "broken", "lost"}
  /\ Goto(w, "idle")
  /\ reply' = [reply EXCEPT ![w] = NoReply]
  /\ opens' = [opens EXCEPT ![w] = 0]
  /\ UNCHANGED <<clock, rule, stored, granted>>

Tick ==
  /\ clock < MaxClock
  /\ clock' = clock + 1
  /\ UNCHANGED <<rule, stored, pc, reply, opens, granted>>

Next ==
  \/ Tick
  \/ \E w \in Worker :
       \/ Arrive(w) \/ Incr(w) \/ Lose(w) \/ Decide(w) \/ Report(w) \/ Respond(w)

Spec == Init /\ [][Next]_vars
-----------------------------------------------------------------------------
(* What the throttle promises, whatever is lost and whoever asks:          *)
(* no more than max requests in a window, fewer than two windows' worth in *)
(* any shorter interval, and the slope of the leaky bucket over every      *)
(* interval, up to the seconds its script counts in.                       *)
WindowQuota ==
  rule.algorithm = SimpleRate /\ Live =>
    /\ granted[stored.deadline - rule.duration * PerSecond] <= stored.value
    /\ stored.value <= rule.max

BurstBound ==
  \A t \in Time :
    rule.algorithm = SimpleRate /\ clock < t + rule.duration * PerSecond =>
      granted[t] <= 2 * rule.max

LeakyBound ==
  \A t \in Time :
    rule.algorithm = LeakyBucket /\ t <= clock =>
      rule.duration * granted[t] <=
        rule.max * (rule.duration + Second(clock) - Second(t))

QuotaKept == WindowQuota /\ BurstBound /\ LeakyBound

(* The headers of a rejection, computed when the worker gets to it.        *)
HostSecond(w) == Second(clock + Skew[w])
Shown(w) ==
  Reported(rule, [history |-> reply[w].value, time |-> reply[w].time], HostSecond(w))
RetryAfter(w) == Reset(rule, Shown(w), HostSecond(w))

(* Seconds are rounded twice, TTL once; a host may be ahead.               *)
Slack(w) ==
  (PerSecond - 1) + (PerSecond - 1) \div 2 + (IF Skew[w] > 0 THEN Skew[w] ELSE 0)

(* A rejected client that waits for Retry-After is early by no more than   *)
(* the rounding and the skew; X-RateLimit-Remaining is 0, unless the       *)
(* window is over on the host; and a report fails only when the window in  *)
(* which its request was counted has ended.                                *)
HeadersTruthful ==
  \A w \in Worker :
    /\ pc[w] = "replied" /\ ~ reply[w].ok =>
         /\ RetryAfter(w) >= 1
         /\ clock + RetryAfter(w) * PerSecond + Slack(w) >= opens[w]
         /\ \/ Remaining(rule, Shown(w)) = 0
            \/ rule.algorithm = SimpleRate /\ HostSecond(w) >= reply[w].time
    /\ pc[w] = "broken" => rule.algorithm = SimpleRate /\ opens[w] <= clock
=============================================================================
