--------------------- MODULE DjangoCacheThrottle_proofs ---------------------
(***************************************************************************)
(* Proofs about DjangoCacheThrottle, for every number of workers, clients, *)
(* endpoints and throttles, every quota and every length of the run: type  *)
(* correctness, and, when no two Endpoint objects share a cache key, the   *)
(* quota of a fixed window, the bounds over sliding intervals, and that a  *)
(* throttle is as good as one that decides in a single step.               *)
(***************************************************************************)
EXTENDS DjangoCacheThrottle, TLAPS

Holding == {"locked", "fetched", "store"}

(* What a worker has, depending on where it is.                            *)
WorkerType(w) ==
  /\ pc[w] # "idle" => req[w] \in Request
  /\ pc[w] \in Holding => req[w].rule \in RuleIndex
  /\ pc[w] = "store" => seen[w] \in CachedRateLimit

TypeInv == TypeOK /\ \A w \in Worker : WorkerType(w)

LEMMA KeyOfType ==
  ASSUME NEW w \in Worker, req[w] \in Request, req[w].rule \in RuleIndex
  PROVE  /\ KeyOf(w) \in Key
         /\ RuleOf(w) \in RuleType
         /\ KeyOf(w).algorithm = RuleOf(w).algorithm
         /\ KeyOf(w).max = RuleOf(w).max
         /\ KeyOf(w).duration = RuleOf(w).duration
<1>1. RuleOf(w) \in RuleType
  BY ConstantsAssumption DEF RuleOf, RuleType
<1>2. req[w].endpoint \in Endpoint /\ req[w].client \in Client
  BY DEF Request
<1>3. KeyOf(w) \in Key
  BY <1>2 DEF KeyOf, KeyValue, Key
<1> QED BY <1>1, <1>3 DEF KeyOf, FullCacheKey, RuleOf

LEMMA ComputedTypes ==
  ASSUME NEW rule \in RuleType, NEW obj \in CachedRateLimit \cup {None},
         NEW now \in Time
  PROVE  /\ Prepared(rule, obj, now) \in CachedRateLimit
         /\ Charged(rule, Prepared(rule, obj, now)) \in CachedRateLimit
<1>1. now \in Int /\ rule.max \in Int /\ rule.duration \in Int
  BY ConstantsAssumption DEF Time, RuleType
<1>2. Prepared(rule, obj, now) \in CachedRateLimit
  BY <1>1 DEF Prepared, SimplePrepared, LeakyPrepared, Leaked, CachedRateLimit
<1>3. Charged(rule, Prepared(rule, obj, now)) \in CachedRateLimit
  BY <1>1, <1>2 DEF Charged, Cost, CachedRateLimit
<1> QED BY <1>2, <1>3

LEMMA CountedType ==
  ASSUME NEW since \in [Time -> Nat], NEW t \in Time
  PROVE  Counted(since, t) \in [Time -> Nat]
BY DEF Counted

LEMMA WriteType ==
  ASSUME TypeInv, NEW w \in Worker, pc[w] = "store", Write(w)
  PROVE  /\ cache' \in [Key -> Entry \cup {None}]
         /\ charged' \in [Endpoint -> [Key -> Nat]]
<1> USE DEF TypeInv, TypeOK
<1>1. req[w] \in Request /\ req[w].rule \in RuleIndex
      /\ seen[w] \in CachedRateLimit
  BY DEF WorkerType, Holding
<1>2. KeyOf(w) \in Key /\ RuleOf(w) \in RuleType
  BY <1>1, KeyOfType
<1>3. clock + RuleOf(w).duration \in Int
  BY <1>2, ConstantsAssumption DEF RuleType, Time
<1>4. cache' \in [Key -> Entry \cup {None}]
  BY <1>1, <1>2, <1>3 DEF Write, Entry, CachedRateLimit
<1>5. req[w].endpoint \in Endpoint
  BY <1>1 DEF Request
<1>6. charged[req[w].endpoint] \in [Key -> Nat]
  BY <1>5
<1>7. charged' \in [Endpoint -> [Key -> Nat]]
  BY <1>2, <1>5, <1>6 DEF Write, RuleType
<1> QED BY <1>4, <1>7

-----------------------------------------------------------------------------
LEMMA TypeStep == TypeInv /\ [Next]_vars => TypeInv'
<1> SUFFICES ASSUME TypeInv, [Next]_vars PROVE TypeInv'
  OBVIOUS
<1> USE DEF TypeInv, TypeOK
<1>0. ASSUME NEW w \in Worker, pc[w] \in Holding
      PROVE  /\ req[w] \in Request /\ req[w].rule \in RuleIndex
             /\ KeyOf(w) \in Key /\ RuleOf(w) \in RuleType
             /\ req[w].endpoint \in Endpoint
             /\ Release(w) => lock' \in [Endpoint -> Worker \cup {None}]
  <2>1. req[w] \in Request /\ req[w].rule \in RuleIndex
    BY <1>0 DEF WorkerType, Holding
  <2>2. KeyOf(w) \in Key /\ RuleOf(w) \in RuleType
    BY <2>1, KeyOfType
  <2>3. req[w].endpoint \in Endpoint
    BY <2>1 DEF Request
  <2> QED BY <2>1, <2>2, <2>3 DEF Release
<1>1. CASE Tick
  BY <1>1, ConstantsAssumption DEF Tick, Time, WorkerType, Holding, Request
<1>2. ASSUME NEW w \in Worker, Arrive(w) PROVE TypeInv'
  BY <1>2, ConstantsAssumption
     DEF Arrive, WorkerType, Holding, PC, Request, Time, RuleIndex
<1>3. ASSUME NEW w \in Worker, Skip(w) PROVE TypeInv'
  <2>1. req[w] \in Request
    BY <1>3 DEF Skip, WorkerType
  <2>2. req'[w] \in Request
    BY <1>3, <2>1 DEF Skip, Request
  <2> QED BY <1>3, <2>2 DEF Skip, WorkerType, Holding
<1>4. ASSUME NEW w \in Worker, Pass(w) PROVE TypeInv'
  BY <1>4 DEF Pass, WorkerType, Holding, PC
<1>5. ASSUME NEW w \in Worker, Acquire(w) PROVE TypeInv'
  <2>1. req[w] \in Request /\ req[w].rule \in RuleIndex
    BY <1>5, ConstantsAssumption DEF Acquire, WorkerType, Request, RuleIndex
  <2>2. lock' \in [Endpoint -> Worker \cup {None}]
    BY <1>5, <2>1 DEF Acquire, Request
  <2> QED BY <1>5, <2>1, <2>2 DEF Acquire, WorkerType, Holding, PC
<1>6. ASSUME NEW w \in Worker, Get(w) PROVE TypeInv'
  <2>1. KeyOf(w) \in Key
    BY <1>0, <1>6 DEF Get, Holding
  <2>2. Live(cache[KeyOf(w)]) \in CachedRateLimit \cup {None}
    BY <2>1 DEF Live, Entry, CachedRateLimit
  <2> QED BY <1>6, <2>2 DEF Get, WorkerType, Holding, PC
<1>7. ASSUME NEW w \in Worker, Grant(w) PROVE TypeInv'
  <2>1. req[w] \in Request /\ req[w].rule \in RuleIndex
        /\ RuleOf(w) \in RuleType
    BY <1>0, <1>7 DEF Grant, Holding
  <2>2. seen'[w] \in CachedRateLimit
    BY <1>7, <2>1, ComputedTypes DEF Grant
  <2>3. req'[w] \in Request /\ req'[w].rule = req[w].rule
    BY <1>7, <2>1 DEF Grant, Request
  <2> QED BY <1>7, <2>1, <2>2, <2>3 DEF Grant, WorkerType, Holding, PC
<1>8. ASSUME NEW w \in Worker, Reject(w) PROVE TypeInv'
  <2>1. req[w] \in Request /\ lock' \in [Endpoint -> Worker \cup {None}]
    BY <1>0, <1>8 DEF Reject, Holding
  <2> QED BY <1>8, <2>1 DEF Reject, WorkerType, Holding, PC
<1>9. ASSUME NEW w \in Worker, Store(w) PROVE TypeInv'
  <2>1. /\ req[w] \in Request /\ KeyOf(w) \in Key
        /\ lock' \in [Endpoint -> Worker \cup {None}]
    BY <1>0, <1>9 DEF Store, Holding
  <2>2. /\ cache' \in [Key -> Entry \cup {None}]
        /\ charged' \in [Endpoint -> [Key -> Nat]]
    BY <1>9, WriteType DEF Store
  <2>3. Counted(admitted[KeyOf(w)], req[w].now) \in [Time -> Nat]
    BY <2>1, CountedType DEF Request
  <2>4. admitted' \in [Key -> [Time -> Nat]]
    BY <1>9, <2>1, <2>3 DEF Store
  <2>5. req'[w] \in Request
    <3>1. req'[w] = [req[w] EXCEPT !.rule = @ + 1, !.now = 0]
      BY <1>9 DEF Store
    <3>2. req[w].rule + 1 \in Nat \ {0}
      BY <2>1 DEF Request
    <3>3. 0 \in Time
      BY ConstantsAssumption DEF Time
    <3> HIDE DEF TypeInv, TypeOK
    <3> QED BY <2>1, <3>1, <3>2, <3>3 DEF Request
  <2> QED BY <1>9, <2>1, <2>2, <2>4, <2>5 DEF Store, WorkerType, Holding, PC
<1>10. ASSUME NEW w \in Worker, FailWaiting(w) PROVE TypeInv'
  BY <1>10 DEF FailWaiting, WorkerType, Holding, PC
<1>11. ASSUME NEW w \in Worker, FailGet(w) PROVE TypeInv'
  <2>1. req[w] \in Request /\ lock' \in [Endpoint -> Worker \cup {None}]
    BY <1>0, <1>11 DEF FailGet, Holding
  <2> QED BY <1>11, <2>1 DEF FailGet, WorkerType, Holding, PC
<1>12. ASSUME NEW w \in Worker, FailStore(w) PROVE TypeInv'
  <2>1. req[w] \in Request /\ lock' \in [Endpoint -> Worker \cup {None}]
    BY <1>0, <1>12 DEF FailStore, Holding
  <2>2. /\ cache' \in [Key -> Entry \cup {None}]
        /\ charged' \in [Endpoint -> [Key -> Nat]]
    BY <1>12, WriteType DEF FailStore
  <2> QED BY <1>12, <2>1, <2>2 DEF FailStore, WorkerType, Holding, PC
<1>13. ASSUME NEW w \in Worker, Respond(w) PROVE TypeInv'
  BY <1>13 DEF Respond, WorkerType, Holding, PC
<1>14. CASE UNCHANGED vars
  BY <1>14 DEF vars, WorkerType
<1> QED
  BY <1>1, <1>2, <1>3, <1>4, <1>5, <1>6, <1>7, <1>8, <1>9, <1>10, <1>11,
     <1>12, <1>13, <1>14 DEF Next, Advance, Fail

LEMMA TypeInit == Init => TypeInv
BY ConstantsAssumption DEF Init, TypeInv, TypeOK, WorkerType, Holding, PC, Time

(* Every variable keeps the type that the code gives it, whatever the      *)
(* interleaving of the workers, the clock and the failing calls.           *)
THEOREM TypeCorrect == Spec => []TypeOK
<1>1. TypeInv => TypeOK
  BY DEF TypeInv
<1> QED BY TypeInit, TypeStep, <1>1, PTL DEF Spec

-----------------------------------------------------------------------------
(* The second in which an object was last opened or charged, or before it. *)
Opened(rule, obj) ==
  IF rule.algorithm = SimpleRate THEN obj.time - rule.duration ELSE obj.time

(* A fixed window counts the requests since it was opened; in the two      *)
(* windows up to its end there are at most max more.                       *)
CountsWindow(rule, obj, since) ==
  /\ obj.history <= rule.max
  /\ \A s \in Time :
       /\ s >= obj.time => since[s] = 0
       /\ s >= obj.time - rule.duration => since[s] <= obj.history
       /\ s > obj.time - 2 * rule.duration => since[s] <= rule.max + obj.history

(* A bucket holds what was poured into it less what has leaked since.      *)
CountsLevel(rule, obj, since) ==
  /\ obj.history <= rule.max * rule.duration
  /\ \A s \in Time :
       /\ s > obj.time => since[s] = 0
       /\ s <= obj.time =>
            rule.duration * since[s] <= obj.history + rule.max * (obj.time - s)

(* The object accounts for every request admitted up to second now.        *)
Accounts(rule, obj, since, now) ==
  /\ obj.history >= 0
  /\ Opened(rule, obj) \in 0 .. now
  /\ IF rule.algorithm = SimpleRate
     THEN CountsWindow(rule, obj, since)
     ELSE CountsLevel(rule, obj, since)

(* An entry lives at least until it means nothing any more.                *)
LivesLongEnough(rule, entry) ==
  IF rule.algorithm = SimpleRate
  THEN entry.time <= entry.expires
  ELSE entry.time + rule.duration <= entry.expires

KeyInv(k) ==
  IF cache[k] = None
  THEN \A s \in Time : admitted[k][s] = 0
  ELSE /\ Accounts(k, cache[k], admitted[k], clock)
       /\ LivesLongEnough(k, cache[k])

(* The local copy is still what the cache holds, and what is about to be   *)
(* stored accounts for the request that is about to be let through.        *)
WorkerInv(w) ==
  /\ pc[w] \in Holding => lock[req[w].endpoint] = w
  /\ pc[w] = "fetched" =>
       LET entry == cache[KeyOf(w)]
       IN  IF seen[w] = None
           THEN entry = None \/ entry.expires <= clock
           ELSE /\ entry # None
                /\ seen[w] = [history |-> entry.history, time |-> entry.time]
  /\ pc[w] = "store" =>
       /\ req[w].now \in 0 .. clock
       /\ Accounts(KeyOf(w), seen[w],
                   Counted(admitted[KeyOf(w)], req[w].now), clock)

QuotaInv == (\A k \in Key : KeyInv(k)) /\ (\A w \in Worker : WorkerInv(w))

LEMMA KeyType == \A k \in Key : k.max \in Nat \ {0} /\ k.duration \in Nat \ {0}
                                 /\ k.algorithm \in Algorithms
BY ConstantsAssumption DEF Key, FullCacheKey, RuleType

LEMMA DrainedBucket ==
  ASSUME NEW m \in Nat, NEW d \in Nat, NEW h \in Int, NEW t \in Int,
         h <= m * d, t >= d
  PROVE  h - t * m <= 0
<1>1. t * m = d * m + (t - d) * m
  OBVIOUS
<1>2. (t - d) * m >= 0
  OBVIOUS
<1>3. d * m = m * d
  OBVIOUS
<1>4. t * m \in Int /\ d * m \in Int /\ (t - d) * m \in Int
  OBVIOUS
<1> QED BY <1>1, <1>2, <1>3, <1>4

(* From an expired entry the algorithm computes what it would from None.   *)
LEMMA ExpiredIsNone ==
  ASSUME TypeInv, NEW k \in Key, cache[k] # None, KeyInv(k),
         NEW now \in Time, cache[k].expires <= now
  PROVE  Prepared(k, None, now) =
           Prepared(k, [history |-> cache[k].history, time |-> cache[k].time], now)
<1> DEFINE h == cache[k].history
           t == cache[k].time
<1>1. cache[k] \in Entry
  BY DEF TypeInv, TypeOK
<1>2. h \in Int /\ t \in Int /\ cache[k].expires \in Int
  BY <1>1 DEF Entry
<1>3. /\ k.max \in Nat \ {0} /\ k.duration \in Nat \ {0}
      /\ now \in Int
  BY KeyType, ConstantsAssumption DEF Time
<1>4. [history |-> h, time |-> t] # None
  BY <1>2, ConstantsAssumption
<1>5. CASE k.algorithm = SimpleRate
  <2>1. t <= now
    BY <1>2, <1>3, <1>5 DEF KeyInv, LivesLongEnough
  <2> QED BY <1>5, <2>1 DEF Prepared, SimplePrepared
<1>6. CASE k.algorithm # SimpleRate
  <2>1. now - t >= k.duration /\ h <= k.max * k.duration
    BY <1>2, <1>3, <1>6 DEF KeyInv, LivesLongEnough, Accounts, CountsLevel
  <2>2. h - (now - t) * k.max <= 0
    BY <1>2, <1>3, <2>1, DrainedBucket
  <2>3. Leaked(k, [history |-> h, time |-> t], now) = 0
    BY <1>2, <1>3, <2>2 DEF Leaked
  <2> QED BY <1>4, <1>6, <2>3 DEF Prepared, LeakyPrepared
<1> QED BY <1>5, <1>6

-----------------------------------------------------------------------------
LEMMA CountedValue ==
  ASSUME NEW since \in [Time -> Nat], NEW t \in Time, NEW s \in Time
  PROVE  /\ Counted(since, t)[s] = IF s <= t THEN since[s] + 1 ELSE since[s]
         /\ Counted(since, t)[s] >= since[s]
         /\ since[s] \in Nat /\ Counted(since, t)[s] \in Nat
         /\ s \in Int /\ t \in Int
BY ConstantsAssumption DEF Counted, Time

LEMMA ChargeWindow ==
  ASSUME NEW rule, rule.max \in Nat \ {0}, rule.duration \in Nat \ {0},
         rule.algorithm = SimpleRate,
         NEW h \in Int, NEW t \in Int, NEW since \in [Time -> Nat],
         NEW now \in Time,
         Accounts(rule, [history |-> h, time |-> t], since, now),
         Admits(rule, Prepared(rule, [history |-> h, time |-> t], now)),
         [history |-> h, time |-> t] # None
  PROVE  Accounts(rule,
                  Charged(rule, Prepared(rule, [history |-> h, time |-> t], now)),
                  Counted(since, now), now)
<1> DEFINE obj == [history |-> h, time |-> t]
<1>1. now \in Int /\ now >= 0
  BY ConstantsAssumption DEF Time
<1>2. /\ h >= 0 /\ h <= rule.max /\ t - rule.duration \in 0 .. now
      /\ \A s \in Time :
           /\ s >= t => since[s] = 0
           /\ s >= t - rule.duration => since[s] <= h
           /\ s > t - 2 * rule.duration => since[s] <= rule.max + h
  BY DEF Accounts, Opened, CountsWindow
<1>3. CASE t <= now
  <2>1. Charged(rule, Prepared(rule, obj, now))
          = [history |-> 1, time |-> now + rule.duration]
    BY <1>3 DEF Charged, Cost, Prepared, SimplePrepared
  <2>2. ASSUME NEW s \in Time
        PROVE  /\ s >= now + rule.duration => Counted(since, now)[s] = 0
               /\ s >= now => Counted(since, now)[s] <= 1
               /\ s > now - rule.duration =>
                    Counted(since, now)[s] <= rule.max + 1
    <3>1. s > now - rule.duration => since[s] <= rule.max
      BY <1>1, <1>2, <1>3, CountedValue
    <3> QED BY <1>1, <1>2, <1>3, <3>1, CountedValue
  <2>3. CountsWindow(rule, [history |-> 1, time |-> now + rule.duration],
                     Counted(since, now))
    <3>2. 1 <= rule.max
      OBVIOUS
    <3> DEFINE opened == [history |-> 1, time |-> now + rule.duration]
    <3>3. /\ opened.history = 1 /\ opened.time = now + rule.duration
          /\ opened.time - rule.duration = now
          /\ opened.time - 2 * rule.duration = now - rule.duration
      BY <1>1
    <3> HIDE DEF opened
    <3>4. CountsWindow(rule, opened, Counted(since, now))
      BY <2>2, <3>2, <3>3 DEF CountsWindow
    <3> QED BY <3>4 DEF opened
  <2> QED BY <1>1, <2>1, <2>3 DEF Accounts, Opened
<1>4. CASE t > now
  <2>1. Prepared(rule, obj, now) = obj
    BY <1>1, <1>4 DEF Prepared, SimplePrepared
  <2>2. Charged(rule, Prepared(rule, obj, now)) = [history |-> h + 1, time |-> t]
    BY <2>1 DEF Charged, Cost
  <2>3. h + 1 <= rule.max
    BY <2>1 DEF Admits
  <2>4. ASSUME NEW s \in Time
        PROVE  /\ s >= t => Counted(since, now)[s] = 0
               /\ s >= t - rule.duration => Counted(since, now)[s] <= h + 1
               /\ s > t - 2 * rule.duration =>
                    Counted(since, now)[s] <= rule.max + (h + 1)
    BY <1>1, <1>2, <1>4, CountedValue
  <2>5. CountsWindow(rule, [history |-> h + 1, time |-> t], Counted(since, now))
    BY <2>3, <2>4 DEF CountsWindow
  <2> QED BY <1>2, <2>2, <2>5 DEF Accounts, Opened
<1> QED BY <1>1, <1>3, <1>4

LEMMA Distribute ==
  ASSUME NEW m \in Int, NEW a \in Int, NEW b \in Int
  PROVE  m * (a + b) = m * a + m * b /\ m * a \in Int /\ m * b \in Int
OBVIOUS

LEMMA ChargeBucket ==
  ASSUME NEW rule, rule.max \in Nat \ {0}, rule.duration \in Nat \ {0},
         rule.algorithm # SimpleRate,
         NEW h \in Int, NEW t \in Int, NEW since \in [Time -> Nat],
         NEW now \in Time,
         Accounts(rule, [history |-> h, time |-> t], since, now),
         Admits(rule, Prepared(rule, [history |-> h, time |-> t], now)),
         [history |-> h, time |-> t] # None
  PROVE  Accounts(rule,
                  Charged(rule, Prepared(rule, [history |-> h, time |-> t], now)),
                  Counted(since, now), now)
<1> DEFINE obj == [history |-> h, time |-> t]
           left == Leaked(rule, obj, now)
           d == rule.duration
           m == rule.max
<1>1. now \in Int /\ now >= 0 /\ m \in Int /\ d \in Int /\ d > 0 /\ m > 0
  BY ConstantsAssumption DEF Time
<1>2. /\ h >= 0 /\ t \in 0 .. now
      /\ \A s \in Time : /\ s > t => since[s] = 0
                         /\ s <= t => d * since[s] <= h + m * (t - s)
  BY DEF Accounts, Opened, CountsLevel
<1>3. /\ left \in Int /\ left >= 0 /\ (now - t) * m \in Int
      /\ left >= h - (now - t) * m
  BY <1>1 DEF Leaked
<1>4. Prepared(rule, obj, now) = [history |-> left, time |-> now]
  BY DEF Prepared, LeakyPrepared
<1>5. Charged(rule, Prepared(rule, obj, now)) = [history |-> left + d, time |-> now]
  BY <1>4 DEF Charged, Cost
<1>6. left + d <= m * d
  BY <1>4 DEF Admits
<1>7. ASSUME NEW s \in Time
      PROVE  /\ s > now => Counted(since, now)[s] = 0
             /\ s <= now =>
                  d * Counted(since, now)[s] <= (left + d) + m * (now - s)
  <2>1. s \in Int /\ since[s] \in Nat
    BY CountedValue
  <2>2. s > now => Counted(since, now)[s] = 0
    BY <1>1, <1>2, <2>1, CountedValue
  <2>3. ASSUME s <= now PROVE d * Counted(since, now)[s] = d * since[s] + d
    <3>1. Counted(since, now)[s] = since[s] + 1
      BY <2>3, CountedValue
    <3> QED BY <1>1, <2>1, <3>1
  <2>4. ASSUME s > t, s <= now
        PROVE  d * Counted(since, now)[s] <= (left + d) + m * (now - s)
    <3>1. d * since[s] = 0
      BY <1>1, <1>2, <2>4
    <3>2. m * (now - s) >= 0 /\ m * (now - s) \in Int
      BY <1>1, <2>1, <2>4
    <3> QED BY <1>1, <1>3, <2>3, <2>4, <3>1, <3>2
  <2>5. ASSUME s <= t
        PROVE  d * Counted(since, now)[s] <= (left + d) + m * (now - s)
    <3>1. m * (now - s) = m * (now - t) + m * (t - s)
      <4>1. now - s = (now - t) + (t - s)
        BY <1>1, <1>2, <2>1
      <4> QED BY <1>1, <1>2, <2>1, <4>1, Distribute
    <3>2. m * (now - t) = (now - t) * m
      BY <1>1
    <3>3. d * since[s] <= h + m * (t - s)
      BY <1>2, <2>5
    <3>4. /\ d * since[s] \in Int /\ m * (t - s) \in Int
          /\ m * (now - t) \in Int /\ s <= now
      BY <1>1, <1>2, <2>1, <2>5
    <3> HIDE DEF left
    <3> QED BY <1>1, <1>3, <2>3, <3>1, <3>2, <3>3, <3>4
  <2> QED BY <1>1, <1>2, <2>1, <2>2, <2>4, <2>5
<1>8. CountsLevel(rule, [history |-> left + d, time |-> now], Counted(since, now))
  BY <1>6, <1>7 DEF CountsLevel
<1> QED BY <1>1, <1>3, <1>5, <1>8 DEF Accounts, Opened

LEMMA SameRule ==
  ASSUME NEW r, NEW k, r.algorithm = k.algorithm, r.max = k.max,
         r.duration = k.duration, NEW obj, NEW now
  PROVE  /\ Prepared(r, obj, now) = Prepared(k, obj, now)
         /\ Admits(r, obj) <=> Admits(k, obj)
         /\ Charged(r, obj) = Charged(k, obj)
BY DEF Prepared, SimplePrepared, LeakyPrepared, Leaked, Admits, Charged, Cost

(* What the object accounted for before it is stored again, whatever the   *)
(* fetched copy was: nothing yet, expired by now, or live.                 *)
LEMMA PreparedFrom ==
  ASSUME TypeInv, NEW k \in Key, KeyInv(k), NEW copy,
         IF copy = None
         THEN cache[k] = None \/ cache[k].expires <= clock
         ELSE /\ cache[k] # None
              /\ copy = [history |-> cache[k].history, time |-> cache[k].time]
  PROVE  \E h \in Int, t \in Int :
           /\ Accounts(k, [history |-> h, time |-> t], admitted[k], clock)
           /\ Prepared(k, copy, clock)
                = Prepared(k, [history |-> h, time |-> t], clock)
<1>1. /\ k.max \in Nat \ {0} /\ k.duration \in Nat \ {0}
      /\ clock \in Int /\ clock >= 0 /\ clock \in Time
  BY KeyType, ConstantsAssumption DEF Time, TypeInv, TypeOK
<1>2. CASE cache[k] = None /\ k.algorithm = SimpleRate
  <2> DEFINE obj == [history |-> 0, time |-> clock + k.duration]
  <2>1. \A s \in Time : admitted[k][s] = 0
    BY <1>2 DEF KeyInv
  <2>2. copy = None
    BY <1>2
  <2>3. Prepared(k, copy, clock) = obj /\ Prepared(k, obj, clock) = obj
    BY <1>1, <1>2, <2>2, ConstantsAssumption DEF Prepared, SimplePrepared
  <2>4. Opened(k, obj) = clock /\ obj.history = 0
    BY <1>1, <1>2 DEF Opened
  <2>5. CountsWindow(k, obj, admitted[k])
    BY <1>1, <2>1, <2>4 DEF CountsWindow
  <2>6. Accounts(k, obj, admitted[k], clock)
    BY <1>1, <1>2, <2>4, <2>5 DEF Accounts
  <2>7. clock + k.duration \in Int
    BY <1>1
  <2> QED BY <2>3, <2>6, <2>7
<1>3. CASE cache[k] = None /\ k.algorithm # SimpleRate
  <2> DEFINE obj == [history |-> 0, time |-> clock]
  <2>1. \A s \in Time : admitted[k][s] = 0
    BY <1>3 DEF KeyInv
  <2>2. copy = None
    BY <1>3
  <2>3. obj # None
    BY <1>1, ConstantsAssumption
  <2>4. Prepared(k, copy, clock) = obj /\ Prepared(k, obj, clock) = obj
    BY <1>1, <1>3, <2>2, <2>3 DEF Prepared, LeakyPrepared, Leaked
  <2>5. ASSUME NEW s \in Time, s <= clock
        PROVE  k.duration * admitted[k][s] <= 0 + k.max * (clock - s)
    <3>1. s \in Int /\ admitted[k][s] = 0
      BY <2>1, ConstantsAssumption DEF Time
    <3>2. k.max * (clock - s) >= 0 /\ k.duration * 0 = 0
      BY <1>1, <2>5, <3>1
    <3> QED BY <1>1, <3>1, <3>2
  <2>6. k.max * k.duration >= 0
    BY <1>1
  <2>7. CountsLevel(k, obj, admitted[k])
    BY <2>1, <2>5, <2>6 DEF CountsLevel
  <2>8. Accounts(k, obj, admitted[k], clock)
    BY <1>1, <1>3, <2>7 DEF Accounts, Opened
  <2> QED BY <1>1, <2>4, <2>8
<1>4. CASE cache[k] # None
  <2> DEFINE obj == [history |-> cache[k].history, time |-> cache[k].time]
  <2>1. cache[k].history \in Int /\ cache[k].time \in Int
    BY <1>4 DEF TypeInv, TypeOK, Entry
  <2>2. Accounts(k, obj, admitted[k], clock)
    BY <1>4 DEF KeyInv, Accounts, Opened, CountsWindow, CountsLevel
  <2>3. Prepared(k, copy, clock) = Prepared(k, obj, clock)
    BY <1>1, <1>4, ExpiredIsNone
  <2> QED BY <2>1, <2>2, <2>3
<1> QED BY <1>2, <1>3, <1>4

LEMMA GrantAccounts ==
  ASSUME TypeInv, QuotaInv, NEW w \in Worker, Grant(w)
  PROVE  Accounts(KeyOf(w), seen'[w], Counted(admitted[KeyOf(w)], clock), clock)
<1> DEFINE k == KeyOf(w)
<1>1. /\ req[w] \in Request /\ req[w].rule \in RuleIndex
      /\ w \in DOMAIN seen /\ clock \in Time
  BY DEF Grant, TypeInv, TypeOK, WorkerType, Holding
<1>2. /\ k \in Key /\ k.algorithm = RuleOf(w).algorithm
      /\ k.max = RuleOf(w).max /\ k.duration = RuleOf(w).duration
  BY <1>1, KeyOfType
<1>3. /\ k.max \in Nat \ {0} /\ k.duration \in Nat \ {0}
      /\ admitted[k] \in [Time -> Nat] /\ KeyInv(k)
  BY <1>2, KeyType DEF TypeInv, TypeOK, QuotaInv
<1>4. PICK h \in Int, t \in Int :
        /\ Accounts(k, [history |-> h, time |-> t], admitted[k], clock)
        /\ Prepared(k, seen[w], clock)
             = Prepared(k, [history |-> h, time |-> t], clock)
  <2>1. IF seen[w] = None
        THEN cache[k] = None \/ cache[k].expires <= clock
        ELSE /\ cache[k] # None
             /\ seen[w] = [history |-> cache[k].history, time |-> cache[k].time]
    BY DEF QuotaInv, WorkerInv, Grant
  <2> HIDE DEF k
  <2> QED BY <1>2, <1>3, <2>1, PreparedFrom
<1>5. /\ Admits(k, Prepared(k, seen[w], clock))
      /\ seen'[w] = Charged(k, Prepared(k, seen[w], clock))
  <2>1. /\ Admits(RuleOf(w), Prepared(RuleOf(w), seen[w], clock))
        /\ seen'[w] = Charged(RuleOf(w), Prepared(RuleOf(w), seen[w], clock))
    BY <1>1 DEF Grant
  <2> HIDE DEF k
  <2> QED BY <1>2, <2>1, SameRule
<1>6. [history |-> h, time |-> t] # None
  BY ConstantsAssumption
<1> HIDE DEF k
<1>7. Accounts(k, seen'[w], Counted(admitted[k], clock), clock)
  BY <1>1, <1>3, <1>4, <1>5, <1>6, ChargeWindow, ChargeBucket
<1> QED BY <1>7 DEF k

-----------------------------------------------------------------------------
(* Two workers never work on one cache key at the same time.               *)
LEMMA Exclusion ==
  ASSUME UniqueKeys, TypeInv, QuotaInv, NEW v \in Worker, NEW w \in Worker,
         pc[v] \in Holding, pc[w] \in Holding, KeyOf(v) = KeyOf(w)
  PROVE  v = w
<1>1. req[v].endpoint \in Endpoint /\ req[w].endpoint \in Endpoint
  BY DEF TypeInv, WorkerType, Request, Holding
<1>2. /\ OperationId[req[v].endpoint] = OperationId[req[w].endpoint]
      /\ Method[req[v].endpoint] = Method[req[w].endpoint]
  BY DEF KeyOf, FullCacheKey
<1>3. req[v].endpoint = req[w].endpoint
  BY <1>1, <1>2 DEF UniqueKeys
<1> QED BY <1>3 DEF QuotaInv, WorkerInv

LEMMA AccountsLater ==
  ASSUME NEW rule, NEW obj, NEW since, NEW now \in Int, NEW later \in Int,
         Accounts(rule, obj, since, now), now <= later
  PROVE  Accounts(rule, obj, since, later)
BY DEF Accounts

(* A worker that does not move keeps its part of the invariant, unless it  *)
(* holds a lock and its lock or its cache entry changes.                   *)
LEMMA OtherWorker ==
  ASSUME TypeInv, TypeInv', NEW v \in Worker, WorkerInv(v), clock <= clock',
         pc'[v] = pc[v], req'[v] = req[v], seen'[v] = seen[v],
         pc[v] \in Holding =>
           /\ lock'[req[v].endpoint] = lock[req[v].endpoint]
           /\ cache'[KeyOf(v)] = cache[KeyOf(v)]
           /\ admitted'[KeyOf(v)] = admitted[KeyOf(v)]
  PROVE  WorkerInv(v)'
<1>1. KeyOf(v)' = KeyOf(v)
  BY DEF KeyOf, KeyValue
<1>2. clock \in Int /\ clock' \in Int
  BY ConstantsAssumption DEF TypeInv, TypeOK, Time
<1>3. pc[v] \in Holding => KeyOf(v) \in Key
  BY KeyOfType DEF TypeInv, WorkerType, Holding
<1>4. pc[v] \in Holding /\ cache[KeyOf(v)] # None =>
        cache[KeyOf(v)].expires \in Int
  BY <1>3 DEF TypeInv, TypeOK, Entry
<1>5. /\ pc[v] \in Holding => lock'[req'[v].endpoint] = v
      /\ pc[v] = "fetched" =>
           LET entry == cache'[KeyOf(v)']
           IN  IF seen'[v] = None
               THEN entry = None \/ entry.expires <= clock'
               ELSE /\ entry # None
                    /\ seen'[v] = [history |-> entry.history, time |-> entry.time]
  BY <1>1, <1>2, <1>4 DEF WorkerInv, Holding
<1>6. pc[v] = "store" =>
        /\ req'[v].now \in 0 .. clock'
        /\ Accounts(KeyOf(v)', seen'[v],
                    Counted(admitted'[KeyOf(v)'], req'[v].now), clock')
  BY <1>1, <1>2, AccountsLater DEF WorkerInv, Holding
<1> QED BY <1>5, <1>6 DEF WorkerInv

(* A key whose entry and admissions stay keeps its part as time passes.    *)
LEMMA OtherKey ==
  ASSUME TypeInv, TypeInv', NEW k \in Key, KeyInv(k), clock <= clock',
         cache'[k] = cache[k], admitted'[k] = admitted[k]
  PROVE  KeyInv(k)'
<1>1. clock \in Int /\ clock' \in Int
  BY ConstantsAssumption DEF TypeInv, TypeOK, Time
<1> QED BY <1>1, AccountsLater DEF KeyInv

(* The entry that Write stores: it accounts for the admissions, and it     *)
(* outlives what it describes.                                             *)
LEMMA WriteKey ==
  ASSUME TypeInv, NEW w \in Worker, pc[w] = "store", Write(w), clock' = clock,
         WorkerInv(w), NEW k \in Key, k = KeyOf(w),
         Accounts(k, seen[w], admitted'[k], clock)
  PROVE  KeyInv(k)'
<1> DEFINE entry == [history |-> seen[w].history, time |-> seen[w].time,
                     expires |-> clock + RuleOf(w).duration]
<1>1. /\ k.max \in Nat \ {0} /\ k.duration \in Nat \ {0}
      /\ RuleOf(w).duration = k.duration
      /\ clock \in Int
      /\ seen[w] \in CachedRateLimit
  <2>1. k.max \in Nat \ {0} /\ k.duration \in Nat \ {0}
    BY KeyType
  <2>2. /\ req[w] \in Request /\ req[w].rule \in RuleIndex
        /\ seen[w] \in CachedRateLimit
    BY DEF TypeInv, WorkerType, Holding
  <2>3. clock \in Int
    BY ConstantsAssumption DEF TypeInv, TypeOK, Time
  <2> QED BY <2>1, <2>2, <2>3, KeyOfType
<1>2. entry # None
  BY <1>1, ConstantsAssumption DEF CachedRateLimit
<1>3. cache'[k] = entry
  BY DEF Write, TypeInv, TypeOK
<1>4. Accounts(k, entry, admitted'[k], clock')
  <2>1. entry.history = seen[w].history /\ entry.time = seen[w].time
    OBVIOUS
  <2> HIDE DEF entry
  <2>2. Accounts(k, seen[w], admitted'[k], clock')
    OBVIOUS
  <2> QED BY <2>1, <2>2 DEF Accounts, Opened, CountsWindow, CountsLevel
<1>5. LivesLongEnough(k, entry)
  <2>1. Opened(k, seen[w]) <= clock /\ Opened(k, seen[w]) \in Int
    BY <1>1 DEF Accounts
  <2>2. seen[w].time \in Int
    BY <1>1 DEF CachedRateLimit
  <2> QED BY <1>1, <2>1, <2>2 DEF LivesLongEnough, Opened
<1> HIDE DEF entry
<1> QED BY <1>2, <1>3, <1>4, <1>5 DEF KeyInv

LEMMA QuotaStep ==
  ASSUME UniqueKeys, TypeInv, QuotaInv, [Next]_vars
  PROVE  QuotaInv'
<1>0. TypeInv' /\ clock \in Int
  BY TypeStep, ConstantsAssumption DEF TypeInv, TypeOK, Time
<1> USE <1>0
<1>a. ASSUME clock' = clock, cache' = cache, admitted' = admitted
      PROVE  \A k \in Key : KeyInv(k)'
  BY <1>a, OtherKey DEF QuotaInv
<1>b. ASSUME NEW w \in Worker, NEW v \in Worker, v # w, clock' = clock,
             pc'[v] = pc[v], req'[v] = req[v], seen'[v] = seen[v],
             cache' = cache, admitted' = admitted,
             pc[v] \in Holding => lock'[req[v].endpoint] = lock[req[v].endpoint]
      PROVE  WorkerInv(v)'
  BY <1>b, OtherWorker DEF QuotaInv
<1>c. ASSUME NEW w \in Worker, pc[w] \in Holding, Release(w),
             NEW v \in Worker, v # w, pc[v] \in Holding
      PROVE  lock'[req[v].endpoint] = lock[req[v].endpoint]
  <2>1. req[v].endpoint # req[w].endpoint
    BY <1>c DEF QuotaInv, WorkerInv
  <2> QED BY <1>c, <2>1 DEF Release, TypeInv, TypeOK
<1>1. CASE Tick
  <2>1. clock <= clock'
    BY <1>1 DEF Tick
  <2> QED BY <1>1, <2>1, OtherKey, OtherWorker DEF Tick, QuotaInv
<1>2. ASSUME NEW w \in Worker, Arrive(w) \/ Pass(w) \/ Skip(w)
                               \/ FailWaiting(w) \/ Respond(w)
      PROVE  QuotaInv'
  <2>1. /\ clock' = clock /\ cache' = cache /\ admitted' = admitted
        /\ lock' = lock /\ pc'[w] \notin Holding
        /\ \A v \in Worker : v # w => /\ pc'[v] = pc[v] /\ req'[v] = req[v]
                                     /\ seen'[v] = seen[v]
    BY <1>2 DEF Arrive, Pass, Skip, FailWaiting, Respond, Holding,
                TypeInv, TypeOK
  <2>2. WorkerInv(w)'
    BY <2>1 DEF WorkerInv, Holding
  <2> QED BY <1>a, <1>b, <2>1, <2>2 DEF QuotaInv
<1>3. ASSUME NEW w \in Worker, Acquire(w) PROVE QuotaInv'
  <2>1. /\ clock' = clock /\ cache' = cache /\ admitted' = admitted
        /\ pc'[w] = "locked" /\ req' = req
        /\ \A v \in Worker : v # w => pc'[v] = pc[v] /\ seen'[v] = seen[v]
    BY <1>3 DEF Acquire, TypeInv, TypeOK
  <2>2. req[w].endpoint \in Endpoint
    BY <1>3 DEF Acquire, TypeInv, WorkerType, Request
  <2>3. WorkerInv(w)'
    BY <1>3, <2>1, <2>2 DEF Acquire, WorkerInv, Holding, TypeInv, TypeOK
  <2>4. ASSUME NEW v \in Worker, v # w, pc[v] \in Holding
        PROVE  lock'[req[v].endpoint] = lock[req[v].endpoint]
    <3>1. lock[req[v].endpoint] = v /\ v # None
      BY <2>4, ConstantsAssumption DEF QuotaInv, WorkerInv
    <3> QED BY <1>3, <3>1 DEF Acquire, TypeInv, TypeOK
  <2> QED BY <1>a, <1>b, <2>1, <2>3, <2>4 DEF QuotaInv
<1>4. ASSUME NEW w \in Worker, Get(w) PROVE QuotaInv'
  <2>1. /\ clock' = clock /\ cache' = cache /\ admitted' = admitted
        /\ pc'[w] = "fetched" /\ req' = req /\ lock' = lock
        /\ seen'[w] = Live(cache[KeyOf(w)])
        /\ \A v \in Worker : v # w => pc'[v] = pc[v] /\ seen'[v] = seen[v]
    BY <1>4 DEF Get, TypeInv, TypeOK
  <2>2. KeyOf(w)' = KeyOf(w)
    BY <2>1 DEF KeyOf, KeyValue
  <2>3. KeyOf(w) \in Key
    BY <1>4, KeyOfType DEF Get, TypeInv, WorkerType, Holding
  <2>4. cache[KeyOf(w)] # None =>
          [history |-> cache[KeyOf(w)].history,
           time |-> cache[KeyOf(w)].time] # None
    BY <2>3, ConstantsAssumption DEF TypeInv, TypeOK, Entry
  <2>5. lock[req[w].endpoint] = w
    BY <1>4 DEF Get, QuotaInv, WorkerInv, Holding
  <2>6. WorkerInv(w)'
    BY <2>1, <2>2, <2>4, <2>5 DEF WorkerInv, Live
  <2> QED BY <1>a, <1>b, <2>1, <2>6 DEF QuotaInv
<1>5. ASSUME NEW w \in Worker, Grant(w) PROVE QuotaInv'
  <2>1. /\ clock' = clock /\ cache' = cache /\ admitted' = admitted
        /\ pc'[w] = "store" /\ lock' = lock
        /\ \A v \in Worker : v # w => /\ pc'[v] = pc[v] /\ seen'[v] = seen[v]
                                     /\ req'[v] = req[v]
    BY <1>5 DEF Grant, TypeInv, TypeOK
  <2>2. req[w] \in Request
    BY <1>5 DEF Grant, TypeInv, WorkerType
  <2>3. req'[w].now = clock /\ KeyOf(w)' = KeyOf(w)
        /\ req'[w].endpoint = req[w].endpoint
    BY <1>5, <2>2 DEF Grant, TypeInv, TypeOK, Request, KeyOf, KeyValue
  <2>4. Accounts(KeyOf(w), seen'[w], Counted(admitted[KeyOf(w)], clock), clock)
    BY <1>5, GrantAccounts
  <2>5. lock[req[w].endpoint] = w
    BY <1>5 DEF Grant, QuotaInv, WorkerInv, Holding
  <2>6. clock \in 0 .. clock
    BY ConstantsAssumption DEF TypeInv, TypeOK, Time
  <2>7. WorkerInv(w)'
    BY <2>1, <2>3, <2>4, <2>5, <2>6 DEF WorkerInv
  <2> QED BY <1>a, <1>b, <2>1, <2>7 DEF QuotaInv
<1>6. ASSUME NEW w \in Worker, Reject(w) \/ FailGet(w)
      PROVE  QuotaInv'
  <2>1. /\ clock' = clock /\ cache' = cache /\ admitted' = admitted
        /\ pc'[w] \notin Holding /\ req' = req /\ Release(w)
        /\ pc[w] \in Holding
        /\ \A v \in Worker : v # w => pc'[v] = pc[v] /\ seen'[v] = seen[v]
    BY <1>6 DEF Reject, FailGet, Holding, TypeInv, TypeOK
  <2>2. WorkerInv(w)'
    BY <2>1 DEF WorkerInv, Holding
  <2> QED BY <1>a, <1>b, <1>c, <2>1, <2>2 DEF QuotaInv
<1>7. ASSUME NEW w \in Worker, Store(w) \/ FailStore(w)
      PROVE  QuotaInv'
  <2>1. /\ clock' = clock /\ pc'[w] \notin Holding /\ Release(w)
        /\ pc[w] = "store" /\ pc[w] \in Holding
        /\ \A v \in Worker : v # w => /\ pc'[v] = pc[v] /\ seen'[v] = seen[v]
                                     /\ req'[v] = req[v]
    BY <1>7 DEF Store, FailStore, Holding, TypeInv, TypeOK
  <2>2. WorkerInv(w)'
    BY <2>1 DEF WorkerInv, Holding
  <2> DEFINE k == KeyOf(w)
  <2>3. /\ k \in Key /\ req[w].now \in Time /\ admitted[k] \in [Time -> Nat]
        /\ WorkerInv(w)
    <3>1. req[w] \in Request /\ req[w].rule \in RuleIndex
      BY <2>1 DEF TypeInv, WorkerType, Holding
    <3> QED BY <3>1, KeyOfType DEF TypeInv, TypeOK, Request, QuotaInv
  <2>4. Accounts(k, seen[w], Counted(admitted[k], req[w].now), clock)
    BY <2>1, <2>3 DEF WorkerInv
  <2>5. Accounts(k, seen[w], admitted[k], clock)
    <3>1. /\ k.max \in Nat \ {0} /\ k.duration \in Nat \ {0}
          /\ seen[w].history \in Int /\ seen[w].time \in Int
      BY <2>1, <2>3, KeyType DEF TypeInv, WorkerType, CachedRateLimit
    <3> HIDE DEF k
    <3>2. ASSUME NEW s \in Time
          PROVE  /\ Counted(admitted[k], req[w].now)[s] >= admitted[k][s]
                 /\ Counted(admitted[k], req[w].now)[s] \in Nat
                 /\ admitted[k][s] \in Nat /\ s \in Int
                 /\ k.duration * Counted(admitted[k], req[w].now)[s]
                      >= k.duration * admitted[k][s]
                 /\ k.duration * Counted(admitted[k], req[w].now)[s] \in Int
                 /\ k.duration * admitted[k][s] \in Int
                 /\ k.max * (seen[w].time - s) \in Int
      <4>1. /\ Counted(admitted[k], req[w].now)[s] >= admitted[k][s]
            /\ Counted(admitted[k], req[w].now)[s] \in Nat
            /\ admitted[k][s] \in Nat /\ s \in Int
        BY <2>3, CountedValue
      <4> QED BY <3>1, <4>1
    <3>3. CASE k.algorithm = SimpleRate
      BY <2>4, <3>1, <3>2, <3>3 DEF Accounts, CountsWindow
    <3>4. CASE k.algorithm # SimpleRate
      BY <2>4, <3>1, <3>2, <3>4 DEF Accounts, CountsLevel
    <3> QED BY <3>3, <3>4
  <2>6. /\ \A j \in Key : j # k => cache'[j] = cache[j] /\ admitted'[j] = admitted[j]
        /\ \/ Write(w)
           \/ cache'[k] = cache[k] /\ admitted'[k] = admitted[k]
        /\ Accounts(k, seen[w], admitted'[k], clock)
    BY <1>7, <2>3, <2>4, <2>5 DEF Store, FailStore, Write, TypeInv, TypeOK
  <2>7. ASSUME NEW j \in Key PROVE KeyInv(j)'
    <3>1. CASE j # k \/ ~ Write(w)
      <4>1. cache'[j] = cache[j] /\ admitted'[j] = admitted[j]
        BY <2>6, <3>1
      <4> QED BY <2>1, <4>1, OtherKey DEF QuotaInv
    <3>2. CASE j = k /\ Write(w)
      BY <2>1, <2>3, <2>6, <3>2, WriteKey
    <3> QED BY <3>1, <3>2
  <2>8. ASSUME NEW v \in Worker, v # w PROVE WorkerInv(v)'
    <3>1. ASSUME pc[v] \in Holding
          PROVE  /\ cache'[KeyOf(v)] = cache[KeyOf(v)]
                 /\ admitted'[KeyOf(v)] = admitted[KeyOf(v)]
      <4>1. KeyOf(v) # k
        BY <2>1, <2>8, <3>1, Exclusion
      <4>2. KeyOf(v) \in Key
        BY <3>1, KeyOfType DEF TypeInv, WorkerType, Holding
      <4> QED BY <2>6, <4>1, <4>2
    <3> QED BY <1>c, <2>1, <2>8, <3>1, OtherWorker DEF QuotaInv
  <2> QED BY <2>2, <2>7, <2>8 DEF QuotaInv
<1>8. CASE UNCHANGED vars
  <2>1. /\ clock' = clock /\ cache' = cache /\ admitted' = admitted
        /\ lock' = lock /\ pc' = pc /\ req' = req /\ seen' = seen
    BY <1>8 DEF vars
  <2> QED BY <1>a, <2>1, OtherWorker DEF QuotaInv
<1> QED
  BY <1>1, <1>2, <1>3, <1>4, <1>5, <1>6, <1>7, <1>8 DEF Next, Advance, Fail

LEMMA QuotaInit == Init => QuotaInv
BY DEF Init, QuotaInv, KeyInv, WorkerInv, Holding

LEMMA QuotaInvariant ==
  ASSUME UniqueKeys PROVE Spec => [](TypeInv /\ QuotaInv)
<1>1. TypeInv /\ QuotaInv /\ [Next]_vars => (TypeInv /\ QuotaInv)'
  BY TypeStep, QuotaStep
<1> QED BY TypeInit, QuotaInit, <1>1, PTL DEF Spec

-----------------------------------------------------------------------------
(* No update of a fixed window's counter is lost and the window never      *)
(* admits more than max requests: the lock of the Endpoint object is       *)
(* enough, as long as the cache keys of two such objects differ.           *)
THEOREM WindowQuotaHolds ==
  ASSUME UniqueKeys PROVE Spec => []WindowQuota
<1>1. TypeInv /\ QuotaInv => WindowQuota
  <2> SUFFICES ASSUME TypeInv, QuotaInv, NEW k \in Key,
                      k.algorithm = SimpleRate, cache[k] # None
               PROVE  /\ admitted[k][cache[k].time - k.duration] <= cache[k].history
                      /\ cache[k].history <= k.max
    BY DEF WindowQuota
  <2>1. Accounts(k, cache[k], admitted[k], clock)
    BY DEF QuotaInv, KeyInv
  <2>2. clock \in 0 .. MaxClock /\ MaxClock \in Nat
    BY ConstantsAssumption DEF TypeInv, TypeOK, Time
  <2>3. cache[k].time - k.duration \in Time
    BY <2>1, <2>2 DEF Accounts, Opened, Time
  <2>4. CountsWindow(k, cache[k], admitted[k])
    BY <2>1 DEF Accounts
  <2>5. cache[k].time - k.duration >= cache[k].time - k.duration
    BY <2>3 DEF Time
  <2> QED BY <2>3, <2>4, <2>5 DEF CountsWindow
<1> QED BY QuotaInvariant, <1>1, PTL

(* A fixed window bursts to at most twice its quota within its duration.   *)
THEOREM BurstBoundHolds ==
  ASSUME UniqueKeys PROVE Spec => []BurstBound
<1>1. TypeInv /\ QuotaInv => BurstBound
  <2> SUFFICES ASSUME TypeInv, QuotaInv, NEW k \in Key, NEW s \in Time,
                      k.algorithm = SimpleRate, clock < s + k.duration
               PROVE  admitted[k][s] <= 2 * k.max
    BY DEF BurstBound
  <2>1. /\ k.max \in Nat \ {0} /\ k.duration \in Nat \ {0}
        /\ s \in Int /\ clock \in Int
    BY KeyType, ConstantsAssumption DEF TypeInv, TypeOK, Time
  <2>2. admitted[k][s] \in Nat
    BY DEF TypeInv, TypeOK
  <2>3. CASE cache[k] = None
    BY <2>1, <2>3 DEF QuotaInv, KeyInv
  <2>4. CASE cache[k] # None
    <3>1. Accounts(k, cache[k], admitted[k], clock)
      BY <2>4 DEF QuotaInv, KeyInv
    <3>2. cache[k].history \in Int /\ cache[k].time \in Int
      BY <2>4 DEF TypeInv, TypeOK, Entry
    <3>3. s > cache[k].time - 2 * k.duration
      BY <2>1, <3>1, <3>2 DEF Accounts, Opened
    <3> QED BY <2>1, <2>2, <3>1, <3>2, <3>3 DEF Accounts, CountsWindow
  <2> QED BY <2>3, <2>4
<1> QED BY QuotaInvariant, <1>1, PTL

(* Over every interval a leaky bucket admits at most what it can hold and  *)
(* what leaks out in the meantime.                                         *)
THEOREM LeakyBoundHolds ==
  ASSUME UniqueKeys PROVE Spec => []LeakyBound
<1>1. TypeInv /\ QuotaInv => LeakyBound
  <2> SUFFICES ASSUME TypeInv, QuotaInv, NEW k \in Key, NEW s \in Time,
                      k.algorithm = LeakyBucket, s <= clock
               PROVE  k.duration * admitted[k][s] <= k.max * (k.duration + clock - s)
    BY DEF LeakyBound
  <2> DEFINE d == k.duration
             m == k.max
             a == admitted[k][s]
  <2>1. /\ m \in Nat \ {0} /\ d \in Nat \ {0} /\ s \in Int /\ clock \in Int
    BY KeyType, ConstantsAssumption DEF TypeInv, TypeOK, Time
  <2>2. a \in Nat
    BY DEF TypeInv, TypeOK
  <2>3. /\ m * (d + clock - s) = m * d + m * (clock - s)
        /\ m * d >= 0 /\ m * (clock - s) >= 0
        /\ m * d \in Int /\ m * (clock - s) \in Int
    BY <2>1
  <2>4. ASSUME a = 0 PROVE d * a <= m * (d + clock - s)
    <3>1. d * a = 0
      BY <2>1, <2>4
    <3> QED BY <2>3, <3>1
  <2>5. ASSUME cache[k] # None, s <= cache[k].time
        PROVE  d * a <= m * (d + clock - s)
    <3> DEFINE t == cache[k].time
               h == cache[k].history
    <3>1. CountsLevel(k, cache[k], admitted[k]) /\ t <= clock
      BY <2>1, <2>5 DEF QuotaInv, KeyInv, Accounts, Opened,
                        LeakyBucket, SimpleRate
    <3>2. h \in Int /\ t \in Int
      BY <2>5 DEF TypeInv, TypeOK, Entry
    <3>3. d * a <= h + m * (t - s) /\ h <= m * d
      BY <2>5, <3>1 DEF CountsLevel
    <3>4. m * (clock - s) = m * (clock - t) + m * (t - s) /\ m * (clock - t) >= 0
          /\ m * (clock - t) \in Int /\ m * (t - s) \in Int /\ d * a \in Int
      <4>1. clock - s = (clock - t) + (t - s)
        BY <2>1, <3>2
      <4>2. m * (clock - t) >= 0
        BY <2>1, <3>1, <3>2
      <4> QED BY <2>1, <2>2, <3>2, <4>1, <4>2, Distribute
    <3> HIDE DEF t, h, m, d, a
    <3> QED BY <2>3, <3>2, <3>3, <3>4
  <2>6. cache[k] = None => a = 0
    BY DEF QuotaInv, KeyInv
  <2>7. cache[k] # None /\ s > cache[k].time => a = 0
    BY <2>1 DEF QuotaInv, KeyInv, Accounts, CountsLevel, LeakyBucket, SimpleRate
  <2>8. cache[k] # None => cache[k].time \in Int
    BY DEF TypeInv, TypeOK, Entry
  <2> QED BY <2>1, <2>4, <2>5, <2>6, <2>7, <2>8
<1> QED BY QuotaInvariant, <1>1, PTL

(* Whatever the algorithm would compute now from an expired entry, it      *)
(* computes from None as well.                                             *)
ExpiryUnobservable ==
  \A k \in Key :
    cache[k] # None /\ Live(cache[k]) = None =>
      Prepared(k, cache[k], clock) = Prepared(k, None, clock)

(* The timeout that is given to the cache (_DjangoCache._set) never        *)
(* changes a decision.                                                     *)
THEOREM ExpiryUnobservableHolds ==
  ASSUME UniqueKeys PROVE Spec => []ExpiryUnobservable
<1>1. TypeInv /\ QuotaInv => ExpiryUnobservable
  <2> SUFFICES ASSUME TypeInv, QuotaInv, NEW k \in Key,
                      cache[k] # None, Live(cache[k]) = None
               PROVE  Prepared(k, cache[k], clock) = Prepared(k, None, clock)
    BY DEF ExpiryUnobservable
  <2> DEFINE obj == [history |-> cache[k].history, time |-> cache[k].time]
  <2>1. cache[k] \in Entry /\ obj # None /\ clock \in Time
    BY ConstantsAssumption DEF TypeInv, TypeOK, Entry
  <2>2. cache[k].expires <= clock
    BY <2>1 DEF Live
  <2>3. Prepared(k, None, clock) = Prepared(k, obj, clock)
    BY <2>1, <2>2, ExpiredIsNone DEF QuotaInv
  <2>4. Prepared(k, obj, clock) = Prepared(k, cache[k], clock)
    <3>1. CASE k.algorithm # SimpleRate
      BY <2>1, <3>1 DEF Prepared, LeakyPrepared, Leaked
    <3>2. CASE k.algorithm = SimpleRate
      <4>1. cache[k].time <= clock
        BY <2>1, <2>2, <3>2, KeyType, ConstantsAssumption
           DEF QuotaInv, KeyInv, LivesLongEnough, Entry, Time
      <4> QED BY <3>2, <4>1 DEF Prepared, SimplePrepared
    <3> QED BY <3>1, <3>2
  <2> QED BY <2>3, <2>4
<1> QED BY QuotaInvariant, <1>1, PTL

-----------------------------------------------------------------------------
(* Get, decide and set are one step: the refinement of AtomicThrottle.     *)

(* What a worker is about to store is the charge of a request that the     *)
(* object of its key had room for, as of a second after all it counts.     *)
CommitInv(w) ==
  pc[w] = "store" =>
    LET k == KeyOf(w)
        t == req[w].now
        obj == Prepared(k, Object[k], t)
    IN  /\ ABS!Timely(k, t)
        /\ Admits(k, obj)
        /\ seen[w] = Charged(k, obj)

NoneLater == \A k \in Key, s \in Time : s > clock => admitted[k][s] = 0

AtomicInv ==
  /\ NoneLater
  /\ \A w \in Worker : CommitInv(w)
  /\ \A w \in Worker : pc[w] \in Holding => KeyValue(w) # None

(* Both modules extend the same algorithms.                                *)
LEMMA SameAlgorithms ==
  ASSUME NEW rule, NEW obj, NEW now
  PROVE  /\ ABS!Prepared(rule, obj, now) = Prepared(rule, obj, now)
         /\ ABS!Admits(rule, obj) <=> Admits(rule, obj)
         /\ ABS!Charged(rule, obj) = Charged(rule, obj)
<1>1. ABS!Prepared(rule, obj, now) = Prepared(rule, obj, now)
  BY DEF ABS!Prepared, ABS!SimplePrepared, ABS!LeakyPrepared, ABS!Leaked,
         ABS!SimpleRate, Prepared, SimplePrepared, LeakyPrepared, Leaked,
         SimpleRate
<1>2. ABS!Admits(rule, obj) <=> Admits(rule, obj)
  BY DEF ABS!Admits, ABS!SimpleRate, Admits, SimpleRate
<1>3. ABS!Charged(rule, obj) = Charged(rule, obj)
  BY DEF ABS!Charged, ABS!Cost, ABS!SimpleRate, Charged, Cost, SimpleRate
<1> QED BY <1>1, <1>2, <1>3

Moves(w) ==
  \/ Arrive(w) \/ Acquire(w) \/ Skip(w) \/ Pass(w) \/ Get(w) \/ Grant(w)
  \/ Reject(w) \/ Store(w) \/ FailWaiting(w) \/ FailGet(w) \/ FailStore(w)
  \/ Respond(w)

(* A step of one worker leaves the others where they are, and only storing *)
(* touches a cache entry: the one of its key.                              *)
LEMMA OneMoves ==
  ASSUME TypeInv, NEW w \in Worker, Moves(w)
  PROVE  /\ UNCHANGED clock
         /\ \A v \in Worker \ {w} :
              pc'[v] = pc[v] /\ req'[v] = req[v] /\ seen'[v] = seen[v]
         /\ pc[w] # "store" => UNCHANGED <<cache, admitted>>
         /\ pc[w] = "store" =>
              \A k \in Key \ {KeyOf(w)} :
                cache'[k] = cache[k] /\ admitted'[k] = admitted[k]
<1> USE DEF TypeInv, TypeOK
<1>1. CASE Store(w)
  BY <1>1 DEF Store, Write
<1>2. CASE FailStore(w)
  BY <1>2 DEF FailStore, Write
<1>3. CASE Arrive(w) \/ Acquire(w) \/ Skip(w) \/ Pass(w)
  BY <1>3 DEF Arrive, Acquire, Skip, Pass
<1>4. CASE Get(w) \/ Grant(w) \/ Reject(w)
  BY <1>4 DEF Get, Grant, Reject
<1>5. CASE FailWaiting(w) \/ FailGet(w) \/ Respond(w)
  BY <1>5 DEF FailWaiting, FailGet, Respond
<1> QED BY <1>1, <1>2, <1>3, <1>4, <1>5 DEF Moves

LEMMA NextMoves ==
  ASSUME [Next]_vars
  PROVE  Tick \/ (\E w \in Worker : Moves(w)) \/ UNCHANGED vars
BY DEF Next, Advance, Fail, Moves

LEMMA CommitFrame ==
  ASSUME TypeInv, TypeInv', NEW v \in Worker, CommitInv(v), clock <= clock',
         pc'[v] = pc[v], req'[v] = req[v], seen'[v] = seen[v],
         pc[v] = "store" =>
           /\ cache'[KeyOf(v)] = cache[KeyOf(v)]
           /\ admitted'[KeyOf(v)] = admitted[KeyOf(v)]
  PROVE  CommitInv(v)'
<1> SUFFICES ASSUME pc[v] = "store" PROVE CommitInv(v)'
  BY DEF CommitInv
<1> DEFINE k == KeyOf(v)
<1>1. KeyOf(v)' = k
  BY DEF KeyOf, KeyValue
<1>2. k \in Key
  BY KeyOfType DEF TypeInv, WorkerType, Holding
<1>3. Object'[k] = Object[k]
  BY <1>2 DEF Object, Unpacked
<1>4. clock \in Int /\ clock' \in Int
  BY ConstantsAssumption DEF TypeInv, TypeOK, Time
<1>5. /\ ABS!Timely(k, req[v].now)
      /\ Admits(k, Prepared(k, Object[k], req[v].now))
      /\ seen[v] = Charged(k, Prepared(k, Object[k], req[v].now))
  BY DEF CommitInv
<1>6. /\ req[v].now \in 0 .. clock
      /\ Object[k] # None => ABS!Stamp(k, Object[k]) <= req[v].now
      /\ \A s \in ABS!Seconds : s > req[v].now => admitted[k][s] = 0
  BY <1>5 DEF ABS!Timely
<1>7. /\ req'[v].now \in 0 .. clock'
      /\ Object'[k] # None => ABS!Stamp(k, Object'[k]) <= req'[v].now
      /\ \A s \in ABS!Seconds : s > req'[v].now => admitted'[k][s] = 0
  BY <1>3, <1>4, <1>6 DEF k
<1> HIDE DEF k
<1> QED BY <1>1, <1>3, <1>5, <1>7 DEF CommitInv, ABS!Timely

(* The fetched copy decides as the stored entry does, expired or not.      *)
LEMMA CopyDecides ==
  ASSUME TypeInv, QuotaInv, NEW w \in Worker, pc[w] = "fetched"
  PROVE  /\ KeyOf(w) \in Key
         /\ Prepared(KeyOf(w), seen[w], clock)
              = Prepared(KeyOf(w), Object[KeyOf(w)], clock)
<1> DEFINE k == KeyOf(w)
<1>1. k \in Key
  BY KeyOfType DEF TypeInv, WorkerType, Holding
<1>2. Object[k] = IF cache[k] = None THEN None
                  ELSE [history |-> cache[k].history, time |-> cache[k].time]
  BY <1>1 DEF Object, Unpacked
<1>3. IF seen[w] = None
      THEN cache[k] = None \/ cache[k].expires <= clock
      ELSE /\ cache[k] # None
           /\ seen[w] = [history |-> cache[k].history, time |-> cache[k].time]
  BY DEF QuotaInv, WorkerInv
<1>4. KeyInv(k) /\ clock \in Time
  BY <1>1 DEF QuotaInv, TypeInv, TypeOK
<1> HIDE DEF k
<1>5. Prepared(k, seen[w], clock) = Prepared(k, Object[k], clock)
  <2>1. CASE seen[w] # None \/ cache[k] = None
    BY <1>2, <1>3, <2>1
  <2>2. CASE seen[w] = None /\ cache[k] # None
    BY <1>1, <1>2, <1>3, <1>4, <2>2, ExpiredIsNone
  <2> QED BY <2>1, <2>2
<1> QED BY <1>1, <1>5 DEF k

(* Nothing that a key counts is later than now.                            *)
LEMMA TimelyNow ==
  ASSUME TypeInv, QuotaInv, NoneLater, NEW k \in Key
  PROVE  ABS!Timely(k, clock)
<1>1. clock \in 0 .. clock
  BY ConstantsAssumption DEF TypeInv, TypeOK, Time
<1>2. ASSUME Object[k] # None PROVE ABS!Stamp(k, Object[k]) <= clock
  <2>1. /\ cache[k] # None
        /\ Object[k] = [history |-> cache[k].history, time |-> cache[k].time]
    BY <1>2 DEF Object, Unpacked
  <2>2. ABS!Stamp(k, Object[k]) = Opened(k, cache[k])
    BY <2>1 DEF ABS!Stamp, ABS!SimpleRate, SimpleRate, Opened
  <2>3. Opened(k, cache[k]) \in 0 .. clock
    BY <2>1 DEF QuotaInv, KeyInv, Accounts
  <2> QED BY <1>1, <2>2, <2>3
<1>3. \A s \in ABS!Seconds : s > clock => admitted[k][s] = 0
  BY DEF NoneLater, ABS!Seconds, Time
<1> QED BY <1>1, <1>2, <1>3 DEF ABS!Timely

LEMMA GrantCommits ==
  ASSUME TypeInv, QuotaInv, NoneLater, NEW w \in Worker, Grant(w)
  PROVE  CommitInv(w)'
<1> DEFINE k == KeyOf(w)
           obj == Prepared(k, Object[k], clock)
<1>1. /\ pc[w] = "fetched" /\ req[w] \in Request /\ req[w].rule \in RuleIndex
      /\ w \in DOMAIN seen /\ w \in DOMAIN req
  BY DEF Grant, TypeInv, TypeOK, WorkerType, Holding
<1>2. k \in Key /\ Prepared(k, seen[w], clock) = obj
  BY <1>1, CopyDecides
<1>3. req'[w].now = clock /\ KeyOf(w)' = k
  BY <1>1 DEF Grant, Request, KeyOf, KeyValue
<1>4. Admits(k, obj) /\ seen'[w] = Charged(k, obj)
  <2>1. /\ Admits(RuleOf(w), Prepared(RuleOf(w), seen[w], clock))
        /\ seen'[w] = Charged(RuleOf(w), Prepared(RuleOf(w), seen[w], clock))
    BY <1>1 DEF Grant
  <2>2. /\ RuleOf(w).algorithm = k.algorithm /\ RuleOf(w).max = k.max
        /\ RuleOf(w).duration = k.duration
    BY <1>1, KeyOfType
  <2> QED BY <1>2, <2>1, <2>2, SameRule
<1>5. ABS!Timely(k, clock)
  BY <1>2, TimelyNow
<1>6. UNCHANGED <<clock, cache, admitted>> /\ Object' = Object
  BY DEF Grant, Object
<1>7. ABS!Timely(k, clock)'
  BY <1>3, <1>5, <1>6 DEF ABS!Timely
<1> QED BY <1>3, <1>4, <1>6, <1>7 DEF CommitInv

LEMMA AtomicInvStep ==
  ASSUME UniqueKeys, TypeInv, TypeInv', QuotaInv, AtomicInv, [Next]_vars
  PROVE  AtomicInv'
<1>1. clock \in Int /\ clock' \in Int
  BY ConstantsAssumption DEF TypeInv, TypeOK, Time
<1>2. CASE Tick \/ UNCHANGED vars
  <2>1. clock <= clock' /\ UNCHANGED <<cache, lock, pc, req, seen, admitted>>
    BY <1>1, <1>2 DEF Tick, vars
  <2>2. NoneLater'
    BY <1>1, <2>1 DEF AtomicInv, NoneLater, Time
  <2>3. ASSUME NEW v \in Worker PROVE CommitInv(v)'
    BY <2>1, CommitFrame DEF AtomicInv
  <2>4. \A v \in Worker : pc'[v] \in Holding => KeyValue(v)' # None
    BY <2>1 DEF AtomicInv, KeyValue
  <2> QED BY <2>2, <2>3, <2>4 DEF AtomicInv
<1>3. ASSUME NEW w \in Worker, Moves(w) PROVE AtomicInv'
  <2>1. /\ UNCHANGED clock
        /\ \A v \in Worker \ {w} :
             pc'[v] = pc[v] /\ req'[v] = req[v] /\ seen'[v] = seen[v]
        /\ pc[w] # "store" => UNCHANGED <<cache, admitted>>
        /\ pc[w] = "store" =>
             \A k \in Key \ {KeyOf(w)} :
               cache'[k] = cache[k] /\ admitted'[k] = admitted[k]
    BY <1>3, OneMoves
  <2>2. ASSUME NEW v \in Worker \ {w} PROVE CommitInv(v)'
    <3>1. CASE pc[w] = "store" /\ pc[v] = "store"
      <4>1. KeyOf(v) # KeyOf(w)
        BY <3>1, Exclusion DEF Holding
      <4>2. KeyOf(v) \in Key
        BY <3>1, KeyOfType DEF TypeInv, WorkerType, Holding
      <4> QED BY <1>1, <2>1, <3>1, <4>1, <4>2, CommitFrame DEF AtomicInv
    <3>2. CASE ~(pc[w] = "store" /\ pc[v] = "store")
      BY <1>1, <2>1, <3>2, CommitFrame DEF AtomicInv
    <3> QED BY <3>1, <3>2
  <2>3. CommitInv(w)'
    <3>1. CASE Grant(w)
      BY <3>1, GrantCommits DEF AtomicInv
    <3>2. CASE ~Grant(w)
      <4>1. pc'[w] # "store"
        BY <1>3, <3>2 DEF Moves, Arrive, Acquire, Skip, Pass, Get, Reject, Store,
           FailWaiting, FailGet, FailStore, Respond, TypeInv, TypeOK
      <4> QED BY <4>1 DEF CommitInv
    <3> QED BY <3>1, <3>2
  <2>4. NoneLater'
    <3>1. CASE Store(w)
      <4>1. /\ req[w].now \in 0 .. clock /\ req[w].now \in Time
            /\ KeyOf(w) \in Key
        BY <3>1, KeyOfType
           DEF Store, QuotaInv, WorkerInv, TypeInv, WorkerType, Holding, Request
      <4>2. admitted'[KeyOf(w)] = Counted(admitted[KeyOf(w)], req[w].now)
        BY <3>1, <4>1 DEF Store, TypeInv, TypeOK
      <4>3. ASSUME NEW s \in Time, s > clock
            PROVE  admitted'[KeyOf(w)][s] = 0
        <5>1. admitted[KeyOf(w)][s] = 0 /\ ~(s <= req[w].now)
          BY <1>1, <4>1, <4>3, ConstantsAssumption DEF AtomicInv, NoneLater, Time
        <5> QED BY <4>2, <5>1 DEF Counted
      <4> QED BY <2>1, <3>1, <4>3 DEF Store, AtomicInv, NoneLater
    <3>2. CASE ~Store(w)
      <4>1. UNCHANGED admitted
        BY <1>3, <3>2 DEF Moves, Arrive, Acquire, Skip, Pass, Get, Grant, Reject,
           FailWaiting, FailGet, FailStore, Respond
      <4> QED BY <2>1, <4>1 DEF AtomicInv, NoneLater
    <3> QED BY <3>1, <3>2
  <2>5. ASSUME NEW v \in Worker, pc'[v] \in Holding PROVE KeyValue(v)' # None
    <3>1. CASE v # w
      BY <2>1, <2>5, <3>1 DEF AtomicInv, KeyValue
    <3>2. CASE v = w
      <4>1. Acquire(w) \/ Get(w) \/ Grant(w)
        BY <1>3, <2>5, <3>2 DEF Moves, Arrive, Skip, Pass, Reject, Store,
           FailWaiting, FailGet, FailStore, Respond, Holding, TypeInv, TypeOK
      <4>2. KeyValue(w) # None
        BY <4>1 DEF Acquire, Get, Grant, AtomicInv, Holding
      <4>3. req[w] \in Request /\ w \in DOMAIN req
        BY <4>1 DEF Acquire, Get, Grant, TypeInv, TypeOK, WorkerType
      <4>4. KeyValue(w)' = KeyValue(w)
        BY <4>1, <4>3 DEF Acquire, Get, Grant, KeyValue, Request
      <4> QED BY <3>2, <4>2, <4>4
    <3> QED BY <3>1, <3>2
  <2> QED BY <2>2, <2>3, <2>4, <2>5 DEF AtomicInv
<1> QED BY <1>2, <1>3, NextMoves

LEMMA AtomicInvariant ==
  ASSUME UniqueKeys PROVE Spec => [](TypeInv /\ QuotaInv /\ AtomicInv)
<1>1. Init => AtomicInv
  BY DEF Init, AtomicInv, NoneLater, CommitInv, Holding
<1>2. TypeInv /\ TypeInv' /\ QuotaInv /\ AtomicInv /\ [Next]_vars => AtomicInv'
  BY AtomicInvStep
<1> QED BY QuotaInvariant, <1>1, <1>2, PTL DEF Spec

-----------------------------------------------------------------------------
(* The abstract variables, when one worker moves or one entry is written.  *)
LEMMA AnswerOf ==
  ASSUME NEW w \in Worker, \A v \in Worker \ {w} : pc'[v] = pc[v]
  PROVE  Answer' = [Answer EXCEPT ![w] =
                      IF pc'[w] \in Waiting THEN "waiting" ELSE pc'[w]]
BY DEF Answer

LEMMA AsksOf ==
  ASSUME NEW w \in Worker,
         \A v \in Worker \ {w} : pc'[v] = pc[v] /\ req'[v] = req[v]
  PROVE  Asks' = [Asks EXCEPT ![w] = IF Applies(w)' THEN KeyOf(w)' ELSE None]
<1>1. ASSUME NEW v \in Worker \ {w} PROVE Asks'[v] = Asks[v]
  BY DEF Asks, Applies, KeyOf, KeyValue
<1>2. Asks'[w] = IF Applies(w)' THEN KeyOf(w)' ELSE None
  BY DEF Asks
<1> QED BY <1>1, <1>2 DEF Asks

LEMMA ObjectOf ==
  ASSUME NEW k \in Key, \A j \in Key \ {k} : cache'[j] = cache[j]
  PROVE  Object' = [Object EXCEPT ![k] = Unpacked(cache'[k])]
BY DEF Object, Unpacked

(* The key that a worker asks is one of the keys, and not None.            *)
LEMMA AsksKey ==
  ASSUME TypeInv, NEW w \in Worker, Applies(w)
  PROVE  /\ KeyOf(w) \in Key /\ KeyOf(w) # None
         /\ Asks[w] = KeyOf(w) /\ Answer[w] = "waiting"
         /\ req[w].rule \in RuleIndex
<1>1. req[w] \in Request /\ req[w].rule \in RuleIndex
  BY ConstantsAssumption
     DEF Applies, Waiting, TypeInv, WorkerType, Request, RuleIndex
<1>2. KeyOf(w) \in Key
  BY <1>1, KeyOfType
<1> QED BY <1>1, <1>2, KeyAssumption DEF Asks, Answer, Applies

LEMMA HoldingApplies ==
  ASSUME TypeInv, AtomicInv, NEW w \in Worker, pc[w] \in Holding
  PROVE  Applies(w)
BY ConstantsAssumption
   DEF Applies, Waiting, Holding, TypeInv, WorkerType, RuleIndex, AtomicInv

LEMMA AsksNextKey ==
  ASSUME TypeInv', NEW w \in Worker
  PROVE  (IF Applies(w)' THEN KeyOf(w)' ELSE None) \in Key \cup {None}
<1> SUFFICES ASSUME Applies(w)' PROVE KeyOf(w)' \in Key
  OBVIOUS
<1>1. req'[w] \in Request /\ req'[w].rule \in RuleIndex
  BY ConstantsAssumption
     DEF Applies, Waiting, TypeInv, WorkerType, Request, RuleIndex
<1>2. req'[w].endpoint \in Endpoint /\ req'[w].client \in Client
  BY <1>1 DEF Request
<1> QED BY <1>1, <1>2 DEF KeyOf, KeyValue, Key

(* A request that does not wait, or waits for no throttle, asks nothing.   *)
LEMMA AsksNothing ==
  ASSUME NEW w \in Worker, ~Applies(w) PROVE Asks[w] = None
BY DEF Asks

-----------------------------------------------------------------------------
(* Every step is one of AtomicThrottle, or a stutter.                      *)
LEMMA StuttersUnless ==
  ASSUME UNCHANGED <<clock, cache, admitted>>, Answer' = Answer, Asks' = Asks
  PROVE  UNCHANGED ABS!throttleVars
BY DEF ABS!throttleVars, Object

LEMMA ArriveBegins ==
  ASSUME TypeInv, TypeInv', NEW w \in Worker, Arrive(w)
  PROVE  ABS!Begin(w)
<1>1. /\ Answer' = [Answer EXCEPT ![w] = "waiting"] /\ Answer[w] = "idle"
  <2>1. pc'[w] = "check" /\ pc[w] = "idle"
    BY DEF Arrive, TypeInv, TypeOK
  <2> QED BY <2>1, AnswerOf, OneMoves DEF Moves, Answer, Waiting
<1>2. \E k \in Key \cup {None} : Asks' = [Asks EXCEPT ![w] = k]
  BY AsksOf, AsksNextKey, OneMoves DEF Moves
<1>3. UNCHANGED <<clock, Object, admitted>>
  BY DEF Arrive, Object
<1> QED BY <1>1, <1>2, <1>3 DEF ABS!Begin

LEMMA SkipAsks ==
  ASSUME TypeInv, TypeInv', NEW w \in Worker, Skip(w)
  PROVE  ABS!Ask(w) \/ UNCHANGED ABS!throttleVars
<1>1. pc' = pc /\ pc[w] = "check" /\ UNCHANGED <<clock, cache, admitted>>
  BY DEF Skip
<1>2. Answer' = Answer /\ Answer[w] = "waiting" /\ Object' = Object
  BY <1>1 DEF Answer, Waiting, Object
<1>3. Asks[w] = None
  BY AsksNothing DEF Skip, Applies
<1>4. PICK k \in Key \cup {None} : Asks' = [Asks EXCEPT ![w] = k]
  BY AsksOf, AsksNextKey, OneMoves DEF Moves
<1>5. CASE k = None
  <2>1. Asks' = Asks
    BY <1>3, <1>4, <1>5 DEF Asks
  <2> QED BY <1>1, <1>2, <2>1, StuttersUnless
<1>6. CASE k \in Key
  BY <1>1, <1>2, <1>3, <1>4, <1>6 DEF ABS!Ask
<1> QED BY <1>5, <1>6

LEMMA PassLets ==
  ASSUME TypeInv, NEW w \in Worker, Pass(w)
  PROVE  ABS!LetThrough(w)
<1>1. /\ pc[w] = "check" /\ pc'[w] = "admitted" /\ req' = req
      /\ ~(req[w].rule <= NumRules) /\ UNCHANGED <<clock, cache, admitted>>
  BY ConstantsAssumption DEF Pass, TypeInv, TypeOK, WorkerType, Request
<1>2. Answer' = [Answer EXCEPT ![w] = "admitted"] /\ Answer[w] = "waiting"
  BY <1>1, AnswerOf, OneMoves DEF Moves, Answer, Waiting
<1>3. Asks[w] = None /\ ~Applies(w)'
  BY <1>1, AsksNothing DEF Applies
<1>4. Asks' = Asks
  BY <1>3, AsksOf, OneMoves DEF Moves, Asks
<1> QED BY <1>1, <1>2, <1>3, <1>4 DEF ABS!LetThrough, Object

LEMMA HoldingStutters ==
  ASSUME TypeInv, TypeInv', NEW w \in Worker, Acquire(w) \/ Get(w) \/ Grant(w)
  PROVE  UNCHANGED ABS!throttleVars
<1>1. /\ pc[w] \in Waiting /\ pc'[w] \in Waiting
      /\ UNCHANGED <<clock, cache, admitted>>
  BY DEF Acquire, Get, Grant, Waiting, TypeInv, TypeOK
<1>2. Answer' = Answer
  BY <1>1, AnswerOf, OneMoves DEF Moves, Answer
<1>3. req'[w].rule = req[w].rule /\ KeyOf(w)' = KeyOf(w)
      /\ KeyValue(w)' = KeyValue(w)
  <2>1. req[w] \in Request /\ w \in DOMAIN req
    BY DEF Acquire, Get, Grant, TypeInv, TypeOK, WorkerType
  <2> QED BY <2>1 DEF Acquire, Get, Grant, KeyOf, KeyValue, Request
<1>4. Applies(w)' <=> Applies(w)
  BY <1>1, <1>3 DEF Applies
<1>5. Asks' = Asks
  BY <1>3, <1>4, AsksOf, OneMoves DEF Moves, Asks
<1> QED BY <1>1, <1>2, <1>5, StuttersUnless

LEMMA RejectRefuses ==
  ASSUME TypeInv, QuotaInv, AtomicInv, NEW w \in Worker, Reject(w)
  PROVE  ABS!Refuse(w)
<1> DEFINE k == KeyOf(w)
<1>1. /\ pc[w] = "fetched" /\ pc'[w] = "rejected" /\ pc[w] \in Holding
      /\ UNCHANGED <<clock, cache, admitted>>
  BY DEF Reject, TypeInv, TypeOK, Holding
<1>2. k \in Key /\ k # None /\ Asks[w] = k /\ Answer[w] = "waiting"
  BY <1>1, HoldingApplies, AsksKey
<1>3. ~Admits(k, Prepared(k, Object[k], clock))
  <2>1. ~Admits(RuleOf(w), Prepared(RuleOf(w), seen[w], clock))
    BY DEF Reject
  <2>2. /\ RuleOf(w).algorithm = k.algorithm /\ RuleOf(w).max = k.max
        /\ RuleOf(w).duration = k.duration
    BY <1>1, KeyOfType DEF TypeInv, WorkerType, Holding
  <2> QED BY <1>1, <2>1, <2>2, SameRule, CopyDecides
<1>4. Answer' = [Answer EXCEPT ![w] = "rejected"]
  BY <1>1, AnswerOf, OneMoves DEF Moves, Waiting
<1>5. Asks' = [Asks EXCEPT ![w] = None]
  BY <1>1, AsksOf, OneMoves DEF Moves, Applies, Waiting
<1> HIDE DEF k
<1>6. ~ABS!Admits(k, ABS!Prepared(k, Object[k], clock))
  BY <1>3, SameAlgorithms
<1> QED BY <1>1, <1>2, <1>4, <1>5, <1>6 DEF ABS!Refuse, Object

(* The charge of a worker at store, seen from the abstract object.         *)
LEMMA WriteCharges ==
  ASSUME TypeInv, AtomicInv, NEW w \in Worker, pc[w] = "store", Write(w),
         UNCHANGED clock
  PROVE  ABS!Charge(KeyOf(w), req[w].now)
<1> DEFINE k == KeyOf(w)
           t == req[w].now
<1>1. k \in Key /\ seen[w] \in CachedRateLimit
  BY KeyOfType DEF TypeInv, WorkerType, Holding
<1>2. /\ ABS!Timely(k, t)
      /\ Admits(k, Prepared(k, Object[k], t))
      /\ seen[w] = Charged(k, Prepared(k, Object[k], t))
  BY DEF AtomicInv, CommitInv
<1>3. /\ cache'[k] = [history |-> seen[w].history, time |-> seen[w].time,
                      expires |-> clock + RuleOf(w).duration]
      /\ \A j \in Key \ {k} : cache'[j] = cache[j]
  BY <1>1 DEF Write, TypeInv, TypeOK
<1>4. cache'[k] # None
  <2>1. RuleOf(w) \in RuleType
    BY KeyOfType DEF TypeInv, WorkerType, Holding
  <2>2. clock + RuleOf(w).duration \in Int
    BY <2>1, ConstantsAssumption DEF TypeInv, TypeOK, Time, RuleType
  <2> QED BY <1>1, <1>3, <2>2, ConstantsAssumption DEF CachedRateLimit
<1>5. Unpacked(cache'[k]) = seen[w]
  BY <1>1, <1>3, <1>4 DEF Unpacked, CachedRateLimit
<1>6. Object' = [Object EXCEPT ![k] = seen[w]]
  BY <1>1, <1>3, <1>5, ObjectOf
<1> HIDE DEF k, t
<1>7. ABS!Charge(k, t)
  BY <1>2, <1>6, SameAlgorithms DEF ABS!Charge
<1> QED BY <1>7 DEF k, t

LEMMA StoreAdmits ==
  ASSUME TypeInv, TypeInv', AtomicInv, NEW w \in Worker, Store(w)
  PROVE  ABS!Admit(w)
<1> DEFINE k == KeyOf(w)
           t == req[w].now
<1>1. /\ pc[w] = "store" /\ pc'[w] = "check" /\ pc[w] \in Holding
      /\ UNCHANGED clock /\ Write(w) /\ t \in Time
  BY DEF Store, TypeInv, TypeOK, WorkerType, Holding, Request
<1>2. k \in Key /\ k # None /\ Asks[w] = k /\ Answer[w] = "waiting"
  BY <1>1, HoldingApplies, AsksKey
<1>3. ABS!Charge(k, t)
  BY <1>1, WriteCharges
<1>4. admitted' = [admitted EXCEPT ![k] = Counted(admitted[k], t)]
  BY DEF Store
<1>5. Answer' = Answer
  BY <1>1, AnswerOf, OneMoves DEF Moves, Answer, Waiting
<1>6. \E j \in Key \cup {None} : Asks' = [Asks EXCEPT ![w] = j]
  BY AsksOf, AsksNextKey, OneMoves DEF Moves
<1> HIDE DEF k, t
<1>7. \E s \in ABS!Seconds :
        /\ ABS!Charge(Asks[w], s)
        /\ admitted' = [admitted EXCEPT ![Asks[w]] =
                          [r \in ABS!Seconds |-> IF r <= s THEN @[r] + 1 ELSE @[r]]]
  BY <1>1, <1>2, <1>3, <1>4 DEF Counted, Time, ABS!Seconds
<1> QED BY <1>1, <1>2, <1>5, <1>6, <1>7 DEF ABS!Admit

LEMMA FailAbandons ==
  ASSUME TypeInv, AtomicInv, NEW w \in Worker,
         FailWaiting(w) \/ FailGet(w) \/ FailStore(w)
  PROVE  ABS!Abandon(w)
<1>1. /\ pc[w] \in Waiting /\ pc'[w] = "failed"
      /\ UNCHANGED <<clock, admitted>>
  BY DEF FailWaiting, FailGet, FailStore, Waiting, TypeInv, TypeOK
<1>2. Answer' = [Answer EXCEPT ![w] = "failed"] /\ Answer[w] = "waiting"
  BY <1>1, AnswerOf, OneMoves DEF Moves, Waiting, Answer
<1>3. Asks' = [Asks EXCEPT ![w] = None]
  BY <1>1, AsksOf, OneMoves DEF Moves, Applies, Waiting
<1>4. \/ UNCHANGED Object
      \/ Asks[w] # None /\ \E t \in ABS!Seconds : ABS!Charge(Asks[w], t)
  <2>1. CASE UNCHANGED cache
    BY <2>1 DEF Object
  <2>2. CASE pc[w] = "store" /\ Write(w)
    <3>1. KeyOf(w) # None /\ Asks[w] = KeyOf(w)
      BY <2>2, HoldingApplies, AsksKey DEF Holding
    <3>2. req[w].now \in ABS!Seconds
      BY <2>2 DEF TypeInv, WorkerType, Request, ABS!Seconds, Time
    <3> QED BY <1>1, <2>2, <3>1, <3>2, WriteCharges
  <2> QED BY <2>1, <2>2 DEF FailWaiting, FailGet, FailStore
<1> QED BY <1>1, <1>2, <1>3, <1>4 DEF ABS!Abandon

LEMMA RespondFinishes ==
  ASSUME TypeInv, NEW w \in Worker, Respond(w)
  PROVE  ABS!Finish(w)
<1>1. /\ pc[w] \in {"admitted", "rejected", "failed"} /\ pc'[w] = "idle"
      /\ UNCHANGED <<clock, cache, admitted>>
  BY DEF Respond, TypeInv, TypeOK
<1>2. Answer' = [Answer EXCEPT ![w] = "idle"] /\ Answer[w] = pc[w]
  BY <1>1, AnswerOf, OneMoves DEF Moves, Waiting, Answer
<1>3. Asks' = Asks
  BY <1>1, AsksOf, OneMoves DEF Moves, Applies, Waiting, Asks
<1> QED BY <1>1, <1>2, <1>3 DEF ABS!Finish, Object

LEMMA AtomicStep ==
  ASSUME TypeInv, TypeInv', QuotaInv, AtomicInv, [Next]_vars
  PROVE  [ABS!ThrottleNext]_(ABS!throttleVars)
<1>1. CASE Tick
  <2>1. ABS!Elapse
    BY <1>1 DEF Tick, ABS!Elapse, Object, Answer, Asks, Applies, KeyOf, KeyValue
  <2> QED BY <2>1 DEF ABS!ThrottleNext
<1>2. CASE UNCHANGED vars
  BY <1>2 DEF vars, ABS!throttleVars, Object, Answer, Asks, Applies, KeyOf, KeyValue
<1>3. ASSUME NEW w \in Worker, Moves(w)
      PROVE  [ABS!ThrottleNext]_(ABS!throttleVars)
  BY <1>3, ArriveBegins, SkipAsks, PassLets, HoldingStutters, RejectRefuses,
     StoreAdmits, FailAbandons, RespondFinishes DEF Moves, ABS!ThrottleNext
<1> QED BY <1>1, <1>2, <1>3, NextMoves

LEMMA AtomicInit == Init => ABS!ThrottleInit
BY DEF Init, ABS!ThrottleInit, ABS!Seconds, Time, Object, Unpacked, Answer,
       Asks, Applies, Waiting

(* With distinct endpoint keys, requests are admitted and rejected as by   *)
(* a throttle that decides in one step on an object that never expires:    *)
(* the lock of SyncThrottle.__call__ makes get, access and set atomic, and *)
(* the timeout of _DjangoCache._set decides nothing.                       *)
THEOREM AtomicHolds ==
  ASSUME UniqueKeys PROVE Spec => Atomic
<1>1. TypeInv /\ TypeInv' /\ QuotaInv /\ AtomicInv /\ [Next]_vars
        => [ABS!ThrottleNext]_(ABS!throttleVars)
  BY AtomicStep
<1>2. Spec => ABS!ThrottleInit
  BY AtomicInit DEF Spec
<1> QED
  BY AtomicInvariant, <1>1, <1>2, PTL DEF Spec, Atomic, ABS!ThrottleSpec

-----------------------------------------------------------------------------
LEMMA Quotient ==
  ASSUME NEW a \in Int, NEW b \in Nat \ {0}
  PROVE  /\ a \div b \in Int
         /\ b * (a \div b) <= a
         /\ a < b * (a \div b) + b
OBVIOUS

(* The object that the algorithm starts from, within its quota.            *)
LEMMA LiveWithinQuota ==
  ASSUME TypeInv, QuotaInv, NEW k \in Key
  PROVE  \/ Live(cache[k]) = None
         \/ /\ Live(cache[k]) \in CachedRateLimit
            /\ Live(cache[k]).history \in 0 .. k.max * Cost(k)
            /\ k.algorithm # SimpleRate => Live(cache[k]).time <= clock
<1> SUFFICES ASSUME cache[k] # None, cache[k].expires > clock
             PROVE  /\ Live(cache[k]) \in CachedRateLimit
                    /\ Live(cache[k]).history \in 0 .. k.max * Cost(k)
                    /\ k.algorithm # SimpleRate => Live(cache[k]).time <= clock
  BY ConstantsAssumption DEF Live, TypeInv, TypeOK, Entry, Time
<1> DEFINE h == cache[k].history
           t == cache[k].time
<1>1. /\ k.max \in Nat \ {0} /\ k.duration \in Nat \ {0} /\ clock \in Int
  BY KeyType, ConstantsAssumption DEF TypeInv, TypeOK, Time
<1>2. h \in Int /\ t \in Int /\ cache[k].expires \in Int
  BY DEF TypeInv, TypeOK, Entry
<1>3. Live(cache[k]) = [history |-> h, time |-> t]
  BY <1>1, <1>2 DEF Live
<1>4. Accounts(k, cache[k], admitted[k], clock)
  BY DEF QuotaInv, KeyInv
<1>5. CASE k.algorithm = SimpleRate
  <2>1. h \in 0 .. k.max * Cost(k)
    BY <1>1, <1>2, <1>4, <1>5 DEF Accounts, CountsWindow, Cost
  <2> QED BY <1>2, <1>3, <1>5, <2>1 DEF CachedRateLimit
<1>6. CASE k.algorithm # SimpleRate
  <2>1. k.max * k.duration \in Nat
    BY <1>1
  <2>2. h \in 0 .. k.max * Cost(k)
    BY <1>2, <1>4, <1>6, <2>1 DEF Accounts, CountsLevel, Cost
  <2>3. t <= clock
    BY <1>1, <1>2, <1>4, <1>6 DEF Accounts, Opened
  <2> QED BY <1>2, <1>3, <2>2, <2>3 DEF CachedRateLimit
<1> QED BY <1>5, <1>6

(* A rejected client that comes back alone after Retry-After is admitted,  *)
(* and Retry-After is at least one second: for a bucket it is the time in  *)
(* which one request leaks out, rounded up.                                *)
THEOREM RetryAfterSufficesHolds ==
  ASSUME UniqueKeys PROVE Spec => []RetryAfterSuffices
<1>1. TypeInv /\ QuotaInv => RetryAfterSuffices
  <2> DEFINE live(k) == Live(cache[k])
             obj(k) == Prepared(k, live(k), clock)
             wait(k) == Reset(k, obj(k), clock)
  <2> SUFFICES ASSUME TypeInv, QuotaInv, NEW k \in Key, ~ Admits(k, obj(k))
               PROVE  /\ wait(k) >= 1
                      /\ Admits(k, Prepared(k, live(k), clock + wait(k)))
    BY DEF RetryAfterSuffices
  <2> DEFINE d == k.duration
             m == k.max
             h == live(k).history
             t == live(k).time
  <2>1. /\ m \in Nat \ {0} /\ d \in Nat \ {0} /\ clock \in Int
    BY KeyType, ConstantsAssumption DEF TypeInv, TypeOK, Time
  <2>2. d <= m * d /\ m * d \in Nat
    BY <2>1
  <2>3. live(k) # None
    BY <2>1, <2>2 DEF Prepared, SimplePrepared, LeakyPrepared, Admits
  <2>4. /\ h \in Int /\ t \in Int /\ h \in 0 .. m * Cost(k)
        /\ k.algorithm # SimpleRate => t <= clock
    BY <2>3, LiveWithinQuota DEF CachedRateLimit
  <2>5. CASE k.algorithm = SimpleRate
    <3>1. obj(k) = live(k) /\ t > clock
      BY <2>1, <2>4, <2>5 DEF Prepared, SimplePrepared, Admits
    <3>2. wait(k) = t - clock
      BY <2>5, <3>1 DEF Reset
    <3>3. Prepared(k, live(k), clock + wait(k)).history = 0
      BY <2>1, <2>4, <2>5, <3>2 DEF Prepared, SimplePrepared
    <3> HIDE DEF live, obj, wait
    <3> QED BY <2>1, <2>4, <2>5, <3>1, <3>2, <3>3 DEF Admits
  <2>6. CASE k.algorithm # SimpleRate
    <3> DEFINE c == CeilDiv(d, m)
               e == clock - t
               rest == h - (clock + c - t) * m
    <3>1. wait(k) = c
      BY <2>6 DEF Reset
    <3>2. c \in Int /\ d <= m * c
      <4>1. d + m - 1 \in Int
        BY <2>1
      <4>2. c \in Int /\ d + m - 1 < m * c + m
        BY <2>1, <4>1, Quotient DEF CeilDiv
      <4>3. m * c \in Int
        BY <2>1, <4>2
      <4> HIDE DEF c
      <4> QED BY <2>1, <4>2, <4>3
    <3>3. c >= 1
      <4> HIDE DEF c
      <4>1. SUFFICES ASSUME c <= 0 PROVE FALSE
        BY <3>2
      <4>2. m * c <= 0
        BY <2>1, <3>2, <4>1
      <4> QED BY <2>1, <3>2, <4>2
    <3>4. h <= m * d
      BY <2>1, <2>4, <2>6 DEF Cost
    <3>5. rest + d <= m * d /\ rest \in Int
      <4> HIDE DEF c
      <4>1. (clock + c - t) * m = m * (clock - t) + m * c
        BY <2>1, <2>4, <3>2
      <4>2. m * (clock - t) >= 0 /\ m * (clock - t) \in Int /\ m * c \in Int
        BY <2>1, <2>4, <2>6, <3>2
      <4> QED BY <2>1, <2>2, <2>4, <3>2, <3>4, <4>1, <4>2
    <3>6. Prepared(k, live(k), clock + c).history = IF rest > 0 THEN rest ELSE 0
      <4> HIDE DEF live, c
      <4> QED BY <2>1, <2>3, <2>4, <2>6, <3>2, <3>5 DEF Prepared, LeakyPrepared, Leaked
    <3> HIDE DEF live, wait, c, rest
    <3> QED BY <2>1, <2>2, <2>6, <3>1, <3>3, <3>5, <3>6 DEF Admits
  <2> QED BY <2>5, <2>6
<1> QED BY QuotaInvariant, <1>1, PTL

(* As many requests as X-RateLimit-Remaining reports would be admitted at  *)
(* once: the header never promises more than the algorithm then grants.    *)
THEOREM RemainingHonestHolds ==
  ASSUME UniqueKeys PROVE Spec => []RemainingHonest
<1>1. TypeInv /\ QuotaInv => RemainingHonest
  <2> DEFINE live(k) == Live(cache[k])
             obj(k) == Prepared(k, live(k), clock)
             left(k) == Remaining(k, Reported(k, live(k), clock))
  <2> SUFFICES ASSUME TypeInv, QuotaInv, NEW k \in Key
               PROVE  /\ left(k) >= 0
                      /\ left(k) > 0 =>
                           Admits(k, [obj(k) EXCEPT !.history = @ + (left(k) - 1) * Cost(k)])
    BY DEF RemainingHonest
  <2> DEFINE d == k.duration
             m == k.max
             h == obj(k).history
  <2>1. /\ m \in Nat \ {0} /\ d \in Nat \ {0} /\ clock \in Int
        /\ m * d \in Nat
    BY KeyType, ConstantsAssumption DEF TypeInv, TypeOK, Time
  <2>2. obj(k) = [history |-> h, time |-> obj(k).time]
    <3>1. live(k) = None \/ live(k) \in CachedRateLimit
      BY LiveWithinQuota
    <3> QED BY <3>1 DEF Prepared, SimplePrepared, LeakyPrepared, CachedRateLimit
  <2>3. [obj(k) EXCEPT !.history = @ + (left(k) - 1) * Cost(k)].history
          = h + (left(k) - 1) * Cost(k)
    <3> HIDE DEF obj, left
    <3> QED BY <2>2
  <2>4. CASE k.algorithm = SimpleRate
    <3>1. h \in 0 .. m
      BY <2>1, <2>4, LiveWithinQuota DEF Prepared, SimplePrepared, Cost
    <3>2. left(k) = m - h
      BY <2>4 DEF Remaining, Reported, Prepared
    <3> HIDE DEF obj, left
    <3> QED BY <2>1, <2>3, <2>4, <3>1, <3>2 DEF Admits, Cost
  <2>5. CASE k.algorithm # SimpleRate
    <3> DEFINE r == Reported(k, live(k), clock).history
    <3>1. r \in 0 .. m * d /\ h \in Int /\ h <= r
      <4>1. CASE live(k) = None
        BY <2>1, <2>5, <4>1 DEF Reported, Prepared, LeakyPrepared
      <4>2. CASE live(k) # None
        <5> DEFINE g == live(k).history
                   u == live(k).time
        <5>1. g \in 0 .. m * d /\ g \in Int /\ u \in Int /\ u <= clock
          BY <2>1, <2>5, <4>2, LiveWithinQuota DEF Cost, CachedRateLimit
        <5>2. r = g
          BY <2>5, <4>2 DEF Reported
        <5>3. (clock - u) * m >= 0 /\ (clock - u) * m \in Int
          BY <2>1, <5>1
        <5>4. h = IF g - (clock - u) * m > 0 THEN g - (clock - u) * m ELSE 0
          BY <2>5, <4>2 DEF Prepared, LeakyPrepared, Leaked
        <5> HIDE DEF live, obj
        <5> QED BY <2>1, <5>1, <5>2, <5>3, <5>4
      <4> QED BY <4>1, <4>2
    <3>2. left(k) = (m * d - r) \div d
      BY <2>5 DEF Remaining
    <3>3. left(k) \in Int /\ d * left(k) <= m * d - r /\ m * d - r < d * left(k) + d
      <4> HIDE DEF r, left
      <4>1. m * d - r \in Int
        BY <2>1, <3>1
      <4> QED BY <2>1, <3>2, <4>1, Quotient
    <3>4. left(k) >= 0
      <4> HIDE DEF r, left
      <4>1. SUFFICES ASSUME left(k) <= -1 PROVE FALSE
        BY <3>3
      <4>2. d * left(k) <= d * (-1)
        BY <2>1, <3>3, <4>1
      <4> QED BY <2>1, <3>1, <3>3, <4>2
    <3>5. h + (left(k) - 1) * Cost(k) + d <= m * d
      <4> HIDE DEF r, left, obj
      <4>1. Cost(k) = d
        BY <2>5 DEF Cost
      <4>2. (left(k) - 1) * d = d * left(k) - d /\ d * left(k) \in Int
        BY <2>1, <3>3
      <4> QED BY <2>1, <3>1, <3>3, <4>1, <4>2
    <3> HIDE DEF obj, left
    <3> QED BY <2>3, <2>5, <3>4, <3>5 DEF Admits
  <2> QED BY <2>4, <2>5
<1> QED BY QuotaInvariant, <1>1, PTL

-----------------------------------------------------------------------------
(* The charges of an endpoint, which never go down, bound what the object  *)
(* of a key holds, as long as no other endpoint writes it.                 *)
Owns(e, k) == k.operation_id = OperationId[e] /\ k.method = Method[e]

KeyCharged(e, k) ==
  /\ charged[e][k] <= k.max
  /\ Owns(e, k) /\ cache[k] # None =>
       cache[k].history <= charged[e][k] * Cost(k)

Charges(w) == charged[req[w].endpoint][KeyOf(w)]

WorkerCharged(w) ==
  /\ pc[w] = "store" => seen[w].history <= (Charges(w) + 1) * Cost(KeyOf(w))
  /\ pc[w] = "rejected" => /\ req[w].rule \in RuleIndex
                           /\ Charges(w) >= RuleOf(w).max

ChargedInv ==
  /\ \A e \in Endpoint, k \in Key : KeyCharged(e, k)
  /\ \A w \in Worker : WorkerCharged(w)

LEMMA CostType == \A k \in Key : Cost(k) \in Nat \ {0}
BY KeyType DEF Cost

LEMMA ProductOrder ==
  ASSUME NEW a \in Int, NEW b \in Int, NEW c \in Nat, a <= b
  PROVE  a * c <= b * c /\ a * c \in Int /\ b * c \in Int
<1>1. (b - a) * c >= 0
  OBVIOUS
<1>2. b * c = a * c + (b - a) * c
  OBVIOUS
<1> QED BY <1>1, <1>2

LEMMA ServedKey ==
  ASSUME TypeInv, NEW w \in Worker, req[w] \in Request,
         req[w].rule \in RuleIndex
  PROVE  /\ req[w].endpoint \in Endpoint /\ KeyOf(w) \in Key
         /\ Owns(req[w].endpoint, KeyOf(w))
         /\ Charges(w) \in Nat
         /\ RuleOf(w).max = KeyOf(w).max /\ RuleOf(w).max \in Nat
<1>1. req[w].endpoint \in Endpoint
  BY DEF Request
<1>2. KeyOf(w) \in Key /\ RuleOf(w).max = KeyOf(w).max /\ RuleOf(w).max \in Nat
  BY KeyOfType DEF RuleType
<1>3. Owns(req[w].endpoint, KeyOf(w))
  BY DEF Owns, KeyOf, FullCacheKey
<1> QED BY <1>1, <1>2, <1>3 DEF Charges, TypeInv, TypeOK

(* A worker that takes no step keeps its bounds: charges only grow.        *)
LEMMA ChargesGrow ==
  ASSUME TypeInv, TypeInv', NEW w \in Worker, WorkerCharged(w),
         req'[w] = req[w], pc'[w] = pc[w], seen'[w] = seen[w],
         \A e \in Endpoint, k \in Key : charged'[e][k] >= charged[e][k]
  PROVE  WorkerCharged(w)'
<1> SUFFICES ASSUME pc[w] \in {"store", "rejected"} PROVE WorkerCharged(w)'
  BY DEF WorkerCharged
<1>1. req[w] \in Request /\ req[w].rule \in RuleIndex
  BY DEF TypeInv, WorkerType, Holding, WorkerCharged
<1>2. /\ req[w].endpoint \in Endpoint /\ KeyOf(w) \in Key /\ Charges(w) \in Nat
      /\ RuleOf(w).max \in Nat
  BY <1>1, ServedKey
<1>3. KeyOf(w)' = KeyOf(w) /\ RuleOf(w)' = RuleOf(w)
  BY DEF KeyOf, KeyValue, RuleOf
<1>4. Charges(w)' \in Nat /\ Charges(w)' >= Charges(w)
  BY <1>2, <1>3 DEF Charges, TypeInv, TypeOK
<1>5. CASE pc[w] = "store"
  <2>1. seen[w].history \in Int
    BY <1>5 DEF TypeInv, WorkerType, CachedRateLimit
  <2> DEFINE c == Cost(KeyOf(w))
  <2>2. (Charges(w) + 1) * c <= (Charges(w)' + 1) * c
        /\ (Charges(w) + 1) * c \in Int /\ (Charges(w)' + 1) * c \in Int
    <3> DEFINE a == Charges(w) + 1
               b == Charges(w)' + 1
    <3>1. c \in Nat /\ a \in Int /\ b \in Int /\ a <= b
      BY <1>2, <1>4, CostType
    <3> HIDE DEF a, b, c
    <3>2. a * c <= b * c /\ a * c \in Int /\ b * c \in Int
      BY <3>1, ProductOrder
    <3> QED BY <3>2 DEF a, b
  <2>3. seen[w].history <= (Charges(w) + 1) * c
    BY <1>5 DEF WorkerCharged
  <2>4. seen'[w].history <= (Charges(w)' + 1) * c
    <3> HIDE DEF c
    <3> QED BY <2>1, <2>2, <2>3
  <2>5. Cost(KeyOf(w))' = c
    BY <1>3 DEF Cost
  <2> QED BY <1>5, <2>4, <2>5 DEF WorkerCharged
<1>6. CASE pc[w] = "rejected"
  BY <1>2, <1>3, <1>4, <1>6, <1>1 DEF WorkerCharged
<1> QED BY <1>5, <1>6

(* What the algorithm starts from is within the charges.                   *)
LEMMA PreparedWithinCharges ==
  ASSUME TypeInv, QuotaInv, ChargedInv, NEW w \in Worker, pc[w] = "fetched"
  PROVE  /\ Prepared(KeyOf(w), seen[w], clock) \in CachedRateLimit
         /\ Prepared(KeyOf(w), seen[w], clock).history
              <= Charges(w) * Cost(KeyOf(w))
<1> DEFINE k == KeyOf(w)
           obj == Prepared(k, seen[w], clock)
           bound == Charges(w) * Cost(k)
<1>1. /\ req[w] \in Request /\ req[w].rule \in RuleIndex
      /\ seen[w] \in CachedRateLimit \cup {None}
  BY DEF TypeInv, TypeOK, WorkerType, Holding
<1>2. /\ req[w].endpoint \in Endpoint /\ k \in Key
      /\ Owns(req[w].endpoint, k) /\ Charges(w) \in Nat
  BY <1>1, ServedKey
<1>3. /\ k.max \in Nat \ {0} /\ k.duration \in Nat \ {0} /\ clock \in Int
      /\ bound \in Nat
  <2>1. Cost(k) \in Nat
    BY <1>2, CostType
  <2>2. bound \in Nat
    <3> HIDE DEF k
    <3> QED BY <1>2, <2>1
  <2> QED BY <1>2, <2>2, KeyType, ConstantsAssumption DEF TypeInv, TypeOK, Time
<1>4. CASE seen[w] = None
  <2> HIDE DEF bound, k
  <2>1. obj.history = 0 /\ obj \in CachedRateLimit
    BY <1>3, <1>4 DEF Prepared, SimplePrepared, LeakyPrepared, CachedRateLimit
  <2> QED BY <1>3, <2>1 DEF bound, k
<1>5. CASE seen[w] # None
  <2> DEFINE h == seen[w].history
             t == seen[w].time
  <2>1. /\ cache[k] # None
        /\ seen[w] = [history |-> cache[k].history, time |-> cache[k].time]
    BY <1>5 DEF QuotaInv, WorkerInv
  <2>2. h \in Int /\ t \in Int
    BY <1>1, <1>5 DEF CachedRateLimit
  <2>3. h <= bound
    BY <1>2, <2>1 DEF ChargedInv, KeyCharged, Charges
  <2>4. k.algorithm # SimpleRate => t <= clock
    BY <1>2, <1>3, <2>1 DEF QuotaInv, KeyInv, Accounts, Opened
  <2> HIDE DEF bound, k
  <2>5. CASE k.algorithm = SimpleRate
    <3>1. obj \in CachedRateLimit /\ obj.history \in {0, h}
      BY <1>1, <1>3, <1>5, <2>2, <2>5
         DEF Prepared, SimplePrepared, CachedRateLimit
    <3> HIDE DEF obj
    <3> QED BY <1>3, <2>2, <2>3, <3>1 DEF bound, k, obj
  <2>6. CASE k.algorithm # SimpleRate
    <3>1. (clock - t) * k.max >= 0 /\ (clock - t) * k.max \in Int
      BY <1>3, <2>2, <2>4, <2>6
    <3>2. obj = [history |-> IF h - (clock - t) * k.max > 0
                             THEN h - (clock - t) * k.max ELSE 0,
                 time |-> clock]
      BY <1>5, <2>6, <2>2, <1>3, <3>1 DEF Prepared, LeakyPrepared, Leaked
    <3>3. obj.history <= bound /\ obj \in CachedRateLimit
      <4> HIDE DEF obj
      <4> QED BY <1>3, <2>2, <2>3, <3>1, <3>2 DEF CachedRateLimit
    <3> QED BY <3>3 DEF bound, k
  <2> QED BY <2>5, <2>6 DEF k
<1> QED BY <1>4, <1>5

(* A write stores an object within the charges that count it.              *)
LEMMA WriteCharged ==
  ASSUME UniqueKeys, TypeInv, TypeInv', QuotaInv, ChargedInv,
         NEW w \in Worker, pc[w] = "store", Write(w)
  PROVE  /\ \A e \in Endpoint, k \in Key : charged'[e][k] >= charged[e][k]
         /\ \A e \in Endpoint, k \in Key : KeyCharged(e, k)'
<1> DEFINE key == KeyOf(w)
           mine == req[w].endpoint
           h == seen[w].history
           n == Charges(w)
<1>1. req[w] \in Request /\ req[w].rule \in RuleIndex
      /\ seen[w] \in CachedRateLimit
  BY DEF TypeInv, WorkerType, Holding
<1>2. /\ mine \in Endpoint /\ key \in Key /\ Owns(mine, key) /\ n \in Nat
      /\ RuleOf(w).max = key.max /\ key.max \in Nat /\ h \in Int
  BY <1>1, ServedKey DEF CachedRateLimit
<1>3. charged \in [Endpoint -> [Key -> Nat]] /\ charged' \in [Endpoint -> [Key -> Nat]]
      /\ cache \in [Key -> Entry \cup {None}]
  BY DEF TypeInv, TypeOK
<1>4. n <= key.max /\ n = charged[mine][key]
  BY <1>2 DEF ChargedInv, KeyCharged, Charges
<1>5. ASSUME NEW e \in Endpoint, NEW k \in Key, ~ (e = mine /\ k = key)
      PROVE  charged'[e][k] = charged[e][k]
  <2> HIDE DEF key, mine
  <2> QED BY <1>2, <1>3, <1>5 DEF Write, key, mine
<1>6. charged'[mine][key] = IF n < key.max THEN n + 1 ELSE n
  BY <1>2, <1>3, <1>4 DEF Write
<1>7. ASSUME NEW e \in Endpoint, NEW k \in Key
      PROVE  charged'[e][k] >= charged[e][k] /\ charged'[e][k] <= k.max
  <2>1. charged[e][k] \in Nat /\ charged[e][k] <= k.max
    BY <1>3 DEF ChargedInv, KeyCharged
  <2> HIDE DEF key, mine, n
  <2> QED BY <1>2, <1>4, <1>5, <1>6, <2>1
<1>8. cache'[key].history = h /\ \A k \in Key \ {key} : cache'[k] = cache[k]
  BY <1>2, <1>3 DEF Write
<1>9. h <= charged'[mine][key] * Cost(key)
  <2>1. h <= (n + 1) * Cost(key)
    BY DEF ChargedInv, WorkerCharged
  <2>2. h <= key.max * Cost(key)
    <3>1. Accounts(key, seen[w], Counted(admitted[key], req[w].now), clock)
      BY DEF QuotaInv, WorkerInv
    <3> HIDE DEF key
    <3> QED BY <1>2, <3>1 DEF Accounts, CountsWindow, CountsLevel, Cost
  <2> HIDE DEF key, mine, n, h
  <2> QED BY <1>2, <1>4, <1>6, <2>1, <2>2
<1>10. ASSUME NEW e \in Endpoint, NEW k \in Key, Owns(e, k), cache'[k] # None
       PROVE  cache'[k].history <= charged'[e][k] * Cost(k)
  <2>1. CASE k = key
    <3>1. e = mine
      BY <1>2, <1>10, <2>1 DEF Owns, UniqueKeys
    <3> QED BY <1>8, <1>9, <2>1, <3>1
  <2>2. CASE k # key
    <3>1. cache'[k] = cache[k] /\ charged'[e][k] = charged[e][k]
      BY <1>5, <1>8, <2>2
    <3>2. KeyCharged(e, k)
      BY DEF ChargedInv
    <3> QED BY <1>10, <3>1, <3>2 DEF KeyCharged
  <2> QED BY <2>1, <2>2
<1>11. ASSUME NEW e \in Endpoint, NEW k \in Key PROVE KeyCharged(e, k)'
  <2>1. Owns(e, k)' = Owns(e, k) /\ Cost(k)' = Cost(k)
    BY DEF Owns, Cost
  <2> QED BY <1>7, <1>10, <2>1 DEF KeyCharged
<1> QED BY <1>7, <1>11

LEMMA ChargedStep ==
  ASSUME UniqueKeys, TypeInv, TypeInv', QuotaInv, ChargedInv, [Next]_vars
  PROVE  ChargedInv'
<1>0. ASSUME cache' = cache, charged' = charged
      PROVE  /\ \A e \in Endpoint, k \in Key : charged'[e][k] >= charged[e][k]
             /\ \A e \in Endpoint, k \in Key : KeyCharged(e, k)'
  <2>1. charged \in [Endpoint -> [Key -> Nat]]
    BY DEF TypeInv, TypeOK
  <2> QED BY <1>0, <2>1 DEF ChargedInv, KeyCharged, Owns, Cost
<1>1. ASSUME NEW w \in Worker,
             \A e \in Endpoint, k \in Key : charged'[e][k] >= charged[e][k],
             \A e \in Endpoint, k \in Key : KeyCharged(e, k)',
             \A v \in Worker \ {w} :
               req'[v] = req[v] /\ pc'[v] = pc[v] /\ seen'[v] = seen[v],
             WorkerCharged(w)'
      PROVE  ChargedInv'
  <2>1. ASSUME NEW v \in Worker PROVE WorkerCharged(v)'
    BY <1>1, ChargesGrow DEF ChargedInv
  <2> QED BY <1>1, <2>1 DEF ChargedInv
<1>2. CASE Tick \/ UNCHANGED vars
  <2>1. /\ cache' = cache /\ charged' = charged
        /\ req' = req /\ pc' = pc /\ seen' = seen
    BY <1>2 DEF Tick, vars
  <2>2. ASSUME NEW v \in Worker PROVE WorkerCharged(v)'
    BY <1>0, <2>1, ChargesGrow DEF ChargedInv
  <2> QED BY <1>0, <2>1, <2>2 DEF ChargedInv
<1>3. ASSUME NEW w \in Worker,
             Arrive(w) \/ Skip(w) \/ Pass(w) \/ Acquire(w) \/ Get(w)
               \/ FailWaiting(w) \/ FailGet(w) \/ Respond(w)
      PROVE  ChargedInv'
  <2>1. cache' = cache /\ charged' = charged
    BY <1>3 DEF Arrive, Skip, Pass, Acquire, Get, FailWaiting, FailGet, Respond
  <2>2. /\ pc \in [Worker -> PC] /\ req \in [Worker -> Request \cup {None}]
        /\ seen \in [Worker -> CachedRateLimit \cup {None}]
    BY DEF TypeInv, TypeOK
  <2>3. \A v \in Worker \ {w} :
          req'[v] = req[v] /\ pc'[v] = pc[v] /\ seen'[v] = seen[v]
    BY <1>3, <2>2
       DEF Arrive, Skip, Pass, Acquire, Get, FailWaiting, FailGet, Respond
  <2>4. pc'[w] \notin {"store", "rejected"}
    BY <1>3, <2>2
       DEF Arrive, Skip, Pass, Acquire, Get, FailWaiting, FailGet, Respond
  <2> QED BY <1>0, <1>1, <2>1, <2>3, <2>4 DEF WorkerCharged
<1>4. ASSUME NEW w \in Worker, Grant(w) PROVE ChargedInv'
  <2> DEFINE k == KeyOf(w)
             obj == Prepared(k, seen[w], clock)
  <2>1. /\ cache' = cache /\ charged' = charged /\ pc[w] = "fetched"
        /\ pc'[w] = "store"
    BY <1>4 DEF Grant, TypeInv, TypeOK
  <2>2. \A v \in Worker \ {w} :
          req'[v] = req[v] /\ pc'[v] = pc[v] /\ seen'[v] = seen[v]
    BY <1>4 DEF Grant, TypeInv, TypeOK
  <2>3. req[w] \in Request /\ req[w].rule \in RuleIndex
    BY <2>1 DEF TypeInv, WorkerType, Holding
  <2>4. /\ RuleOf(w).algorithm = k.algorithm /\ RuleOf(w).max = k.max
        /\ RuleOf(w).duration = k.duration /\ k \in Key /\ Charges(w) \in Nat
    BY <2>3, KeyOfType, ServedKey
  <2>5. seen'[w] = Charged(k, obj)
    <3>1. seen'[w] = Charged(RuleOf(w), Prepared(RuleOf(w), seen[w], clock))
      BY <1>4 DEF Grant, TypeInv, TypeOK
    <3> QED BY <2>4, <3>1, SameRule
  <2>6. /\ req'[w].endpoint = req[w].endpoint /\ req'[w].client = req[w].client
        /\ req'[w].rule = req[w].rule
    BY <1>4, <2>3 DEF Grant, Request, TypeInv, TypeOK
  <2>7. KeyOf(w)' = k /\ Charges(w)' = Charges(w)
    BY <2>1, <2>6 DEF KeyOf, KeyValue, Charges
  <2>8. obj \in CachedRateLimit /\ obj.history <= Charges(w) * Cost(k)
    BY <2>1, PreparedWithinCharges
  <2>9. Cost(k) \in Nat
    BY <2>4, CostType
  <2>10. seen'[w].history <= (Charges(w) + 1) * Cost(k)
    <3>1. Charged(k, obj).history = obj.history + Cost(k) /\ obj.history \in Int
      <4> HIDE DEF obj, k
      <4> QED BY <2>8 DEF Charged, CachedRateLimit
    <3>2. (Charges(w) + 1) * Cost(k) = Charges(w) * Cost(k) + Cost(k)
          /\ Charges(w) * Cost(k) \in Int
      <4> HIDE DEF k
      <4> QED BY <2>4, <2>9
    <3> HIDE DEF obj, k
    <3> QED BY <2>5, <2>8, <2>9, <3>1, <3>2
  <2>11. WorkerCharged(w)'
    <3>1. Cost(KeyOf(w))' = Cost(k)
      BY <2>7 DEF Cost
    <3> HIDE DEF k
    <3> QED BY <2>1, <2>7, <2>10, <3>1 DEF WorkerCharged
  <2> QED BY <1>0, <1>1, <2>1, <2>2, <2>11
<1>5. ASSUME NEW w \in Worker, Reject(w) PROVE ChargedInv'
  <2> DEFINE k == KeyOf(w)
             obj == Prepared(k, seen[w], clock)
             d == k.duration
             m == k.max
             n == Charges(w)
  <2>1. /\ cache' = cache /\ charged' = charged /\ pc[w] = "fetched"
        /\ pc'[w] = "rejected" /\ req' = req
    BY <1>5 DEF Reject, TypeInv, TypeOK
  <2>2. \A v \in Worker \ {w} :
          req'[v] = req[v] /\ pc'[v] = pc[v] /\ seen'[v] = seen[v]
    BY <1>5 DEF Reject, TypeInv, TypeOK
  <2>3. req[w] \in Request /\ req[w].rule \in RuleIndex
    BY <2>1 DEF TypeInv, WorkerType, Holding
  <2>4. /\ RuleOf(w).algorithm = k.algorithm /\ RuleOf(w).max = m
        /\ RuleOf(w).duration = d /\ k \in Key /\ n \in Nat
    BY <2>3, KeyOfType, ServedKey
  <2>5. ~ Admits(k, obj)
    BY <1>5, <2>4, SameRule DEF Reject
  <2>6. obj.history \in Int /\ obj.history <= n * Cost(k)
    BY <2>1, PreparedWithinCharges DEF CachedRateLimit
  <2>7. m \in Nat \ {0} /\ d \in Nat \ {0}
    BY <2>4, KeyType
  <2>8. n >= m
    <3>1. CASE k.algorithm = SimpleRate
      <4>1. obj.history >= m
        BY <2>5, <2>6, <2>7, <3>1 DEF Admits
      <4>2. obj.history <= n
        BY <2>4, <2>6, <3>1 DEF Cost
      <4> HIDE DEF obj, m, n
      <4> QED BY <2>4, <2>6, <2>7, <4>1, <4>2
    <3>2. CASE k.algorithm # SimpleRate
      <4>1. obj.history + d > m * d
        BY <2>5, <2>6, <2>7, <3>2 DEF Admits
      <4>2. obj.history <= n * d
        BY <2>6, <3>2 DEF Cost
      <4> HIDE DEF obj, m, n, d
      <4>3. SUFFICES ASSUME n + 1 <= m PROVE FALSE
        BY <2>4, <2>7
      <4>4. (n + 1) * d <= m * d /\ m * d \in Int
        BY <2>4, <2>7, <4>3, ProductOrder
      <4>5. (n + 1) * d = n * d + d /\ n * d \in Int
        BY <2>4, <2>7
      <4> QED BY <2>6, <2>7, <4>1, <4>2, <4>4, <4>5
    <3> QED BY <3>1, <3>2
  <2>9. RuleOf(w)' = RuleOf(w) /\ Charges(w)' = n
    BY <2>1 DEF RuleOf, Charges, KeyOf, KeyValue
  <2>10. WorkerCharged(w)'
    <3> HIDE DEF m, n
    <3> QED BY <2>1, <2>3, <2>4, <2>8, <2>9 DEF WorkerCharged
  <2> QED BY <1>0, <1>1, <2>1, <2>2, <2>10
<1>6. ASSUME NEW w \in Worker, Store(w) \/ FailStore(w) PROVE ChargedInv'
  <2>1. \A v \in Worker \ {w} :
          req'[v] = req[v] /\ pc'[v] = pc[v] /\ seen'[v] = seen[v]
    BY <1>6 DEF Store, FailStore, TypeInv, TypeOK
  <2>2. WorkerCharged(w)'
    BY <1>6 DEF Store, FailStore, TypeInv, TypeOK, WorkerCharged
  <2>3. pc[w] = "store" /\ (Write(w) \/ (cache' = cache /\ charged' = charged))
    BY <1>6 DEF Store, FailStore
  <2>4. /\ \A e \in Endpoint, k \in Key : charged'[e][k] >= charged[e][k]
        /\ \A e \in Endpoint, k \in Key : KeyCharged(e, k)'
    BY <1>0, <2>3, WriteCharged
  <2> QED BY <1>1, <2>1, <2>2, <2>4
<1> QED BY <1>2, <1>3, <1>4, <1>5, <1>6 DEF Next, Advance, Fail

LEMMA ChargedInit ==
  ASSUME Init PROVE ChargedInv
<1>1. \A k \in Key : 0 <= k.max
  BY KeyType
<1> QED BY <1>1 DEF Init, ChargedInv, KeyCharged, WorkerCharged

(* As long as cache keys are unique, a request is only rejected after max  *)
(* charges of its own endpoint: no traffic of another one uses up quota.   *)
THEOREM RejectedByOwnTrafficHolds ==
  ASSUME UniqueKeys PROVE Spec => []RejectedByOwnTraffic
<1>1. Init => ChargedInv
  BY ChargedInit
<1>2. TypeInv /\ TypeInv' /\ QuotaInv /\ ChargedInv /\ [Next]_vars => ChargedInv'
  BY ChargedStep
<1>3. ChargedInv => RejectedByOwnTraffic
  BY DEF ChargedInv, WorkerCharged, RejectedByOwnTraffic, Charges
<1> QED BY <1>1, <1>2, <1>3, QuotaInvariant, PTL DEF Spec
=============================================================================
