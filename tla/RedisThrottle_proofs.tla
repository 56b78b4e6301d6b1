------------------------ MODULE RedisThrottle_proofs ------------------------
(***************************************************************************)
(* Proofs about RedisThrottle, for every throttle, every number of workers *)
(* and hosts, every skew and resolution of the clocks and every length of  *)
(* the run.                                                                *)
(***************************************************************************)
EXTENDS RedisThrottle, TLAPS

Window == rule.duration * PerSecond

(* What Redis holds for a fixed window ...                                 *)
SimpleEntry ==
  rule.algorithm = SimpleRate /\ stored # None =>
    /\ stored.value \in 1 .. rule.max
    /\ stored.deadline <= clock + Window /\ Window <= stored.deadline

(* ... and for a bucket: it is empty when its key expires.                 *)
LeakyEntry ==
  rule.algorithm = LeakyBucket /\ stored # None =>
    /\ stored.value <= rule.max * rule.duration
    /\ stored.last <= Second(clock)
    /\ (stored.last + 2 * rule.duration) * PerSecond <= stored.deadline

StoreInv == TypeOK /\ SimpleEntry /\ LeakyEntry

(* How the requests granted relate to what is stored.                      *)
Counts ==
  /\ \A s, t \in Time : s <= t => granted[t] <= granted[s]
  /\ \A t \in Time : clock < t => granted[t] = 0

Windows ==
  rule.algorithm = SimpleRate =>
    IF Live
    THEN /\ granted[stored.deadline - Window] <= stored.value
         /\ \A t \in Time :
              t <= stored.deadline - Window /\ clock < t + Window =>
                granted[t] <= rule.max + stored.value
    ELSE /\ granted[clock] = 0
         /\ \A t \in Time : clock < t + Window => granted[t] <= rule.max

Level(now) ==
  IF stored = None THEN 0
  ELSE Leaked(rule, [history |-> stored.value, time |-> stored.last], now)

Slopes ==
  rule.algorithm = LeakyBucket =>
    \A t \in Time :
      t <= clock =>
        rule.duration * granted[t] <=
          rule.max * (Second(clock) - Second(t)) + Level(Second(clock))

QuotaInv == StoreInv /\ Counts /\ Windows /\ Slopes

-----------------------------------------------------------------------------
(* Arithmetic.                                                             *)
LEMMA Division ==
  ASSUME NEW a \in Int, NEW b \in Nat \ {0}
  PROVE  /\ a \div b \in Int
         /\ b * (a \div b) <= a
         /\ a < b * (a \div b) + b
OBVIOUS

LEMMA DivisionNat ==
  ASSUME NEW a \in Nat, NEW b \in Nat \ {0}
  PROVE  a \div b \in Nat
OBVIOUS

LEMMA QuotientOrder ==
  ASSUME NEW p \in Int, NEW q \in Int, NEW b \in Nat \ {0}, b * p < b * q + b
  PROVE  p <= q
<1>1. SUFFICES ASSUME p >= q + 1 PROVE FALSE
  OBVIOUS
<1>2. b * p >= b * (q + 1)
  BY <1>1
<1> QED BY <1>2

LEMMA DivisionOrder ==
  ASSUME NEW a \in Int, NEW c \in Int, NEW b \in Nat \ {0}, a <= c
  PROVE  a \div b <= c \div b
<1>1. b * (a \div b) < b * (c \div b) + b /\ a \div b \in Int /\ c \div b \in Int
  BY Division
<1> QED BY <1>1, QuotientOrder
(* TTL is off by less than half a second, and a window has one.            *)
LEMMA Rounding ==
  ASSUME NEW ticks \in Nat
  PROVE  /\ TTL(ticks) \in Nat
         /\ ticks <= PerSecond * TTL(ticks) + (PerSecond - 1) \div 2
<1> DEFINE a == 2 * ticks + PerSecond
           b == 2 * PerSecond
           h == (PerSecond - 1) \div 2
<1>1. PerSecond \in Nat \ {0} /\ a \in Nat /\ b \in Nat \ {0} /\ PerSecond - 1 \in Nat
  BY ConstantsAssumption
<1>2. a < b * (a \div b) + b /\ a \div b \in Nat
  <2> HIDE DEF a, b
  <2> QED BY <1>1, Division, DivisionNat
<1>3. PerSecond - 1 < 2 * h + 2 /\ h \in Int
  BY <1>1
<1>4. b * (a \div b) = 2 * (PerSecond * (a \div b)) /\ PerSecond * (a \div b) \in Int
  <2> DEFINE d == a \div b
  <2>1. d \in Nat
    BY <1>2
  <2> HIDE DEF d
  <2>2. b * d = 2 * (PerSecond * d) /\ PerSecond * d \in Int
    BY <1>1, <2>1
  <2> QED BY <2>2 DEF d
<1>5. TTL(ticks) = a \div b
  BY DEF TTL
<1> DEFINE q == PerSecond * (a \div b)
<1>6. 2 * ticks + PerSecond < 2 * q + 2 * PerSecond /\ q \in Int
  <2> HIDE DEF q
  <2> QED BY <1>2, <1>4 DEF q
<1>7. ticks <= q + h
  <2> HIDE DEF q, h
  <2> QED BY <1>1, <1>3, <1>6
<1> QED BY <1>2, <1>5, <1>7

LEMMA SecondType == ASSUME TypeOK PROVE Second(clock) \in Nat
<1>1. clock \in Nat /\ PerSecond \in Nat \ {0}
  BY ConstantsAssumption DEF TypeOK, Time
<1> QED BY <1>1, DivisionNat DEF Second

LEMMA WindowType == ASSUME TypeOK PROVE Window \in Nat \ {0} /\ Window >= PerSecond
<1>1. rule.duration \in Nat \ {0} /\ PerSecond \in Nat \ {0}
  BY ConstantsAssumption DEF TypeOK, RuleType
<1>2. (rule.duration - 1) * PerSecond \in Nat
  BY <1>1
<1>3. rule.duration * PerSecond = (rule.duration - 1) * PerSecond + PerSecond
  BY <1>1
<1> QED BY <1>1, <1>2, <1>3 DEF Window

-----------------------------------------------------------------------------
(* The scripts, case by case.                                              *)
LEMMA SimpleCases ==
  ASSUME rule.algorithm = SimpleRate
  PROVE  LET count == IF Live THEN stored.value + 1 ELSE 1
             deadline == IF count = 1 THEN clock + Window ELSE stored.deadline
             expire_at == Second(clock) + TTL(deadline - clock)
         IN  /\ Write.room = deadline
             /\ IF count > rule.max
                THEN /\ Write.entry = [value |-> count - 1, last |-> 0,
                                       deadline |-> deadline]
                     /\ Write.reply = [ok |-> FALSE, value |-> rule.max, time |-> expire_at]
                ELSE /\ Write.entry = [value |-> count, last |-> 0, deadline |-> deadline]
                     /\ Write.reply = [ok |-> TRUE, value |-> count, time |-> expire_at]
<1> DEFINE count == IF Live THEN stored.value + 1 ELSE 1
           deadline == IF count = 1 THEN clock + Window ELSE stored.deadline
           expire_at == Second(clock) + TTL(deadline - clock)
<1>1. Write =
        IF count > rule.max
        THEN Result(FALSE, rule.max, expire_at,
                    [value |-> count - 1, last |-> 0, deadline |-> deadline], deadline)
        ELSE Result(TRUE, count, expire_at,
                    [value |-> count, last |-> 0, deadline |-> deadline], deadline)
  BY Zenon DEF Write, SimpleWrite, Window
<1> HIDE DEF count, deadline, expire_at
<1>2. /\ Write.room = deadline
      /\ IF count > rule.max
         THEN /\ Write.entry = [value |-> count - 1, last |-> 0, deadline |-> deadline]
              /\ Write.reply = [ok |-> FALSE, value |-> rule.max, time |-> expire_at]
         ELSE /\ Write.entry = [value |-> count, last |-> 0, deadline |-> deadline]
              /\ Write.reply = [ok |-> TRUE, value |-> count, time |-> expire_at]
  BY <1>1 DEF Result
<1> QED BY <1>2 DEF count, deadline, expire_at

LEMMA SimpleOpen ==
  ASSUME StoreInv, rule.algorithm = SimpleRate, ~ Live
  PROVE  /\ Write.entry = [value |-> 1, last |-> 0, deadline |-> clock + Window]
         /\ Write.entry \in Entry
         /\ Write.reply = [ok |-> TRUE, value |-> 1,
                           time |-> Second(clock) + TTL(Window)]
         /\ Write.room = clock + Window
<1> DEFINE count == IF Live THEN stored.value + 1 ELSE 1
           deadline == IF count = 1 THEN clock + Window ELSE stored.deadline
           expire_at == Second(clock) + TTL(deadline - clock)
<1>c. /\ Write.room = deadline
      /\ IF count > rule.max
         THEN /\ Write.entry = [value |-> count - 1, last |-> 0, deadline |-> deadline]
              /\ Write.reply = [ok |-> FALSE, value |-> rule.max, time |-> expire_at]
         ELSE /\ Write.entry = [value |-> count, last |-> 0, deadline |-> deadline]
              /\ Write.reply = [ok |-> TRUE, value |-> count, time |-> expire_at]
  BY SimpleCases
<1>1. rule.max \in Nat \ {0} /\ clock \in Nat /\ Window \in Nat
  BY WindowType DEF StoreInv, TypeOK, RuleType, Time
<1>2. ~ (1 > rule.max) /\ clock + Window \in Nat
  BY <1>1
<1>d. count = 1 /\ deadline = clock + Window /\ deadline - clock = Window
  BY <1>1, <1>2
<1> HIDE DEF count, deadline
<1>e. expire_at = Second(clock) + TTL(Window)
  BY <1>d
<1> HIDE DEF expire_at
<1>3. Write.entry = [value |-> 1, last |-> 0, deadline |-> clock + Window]
  BY <1>2, <1>c, <1>d, <1>e
<1>4. Write.reply = [ok |-> TRUE, value |-> 1,
                     time |-> Second(clock) + TTL(Window)]
      /\ Write.room = clock + Window
  BY <1>2, <1>c, <1>d, <1>e
<1> QED BY <1>2, <1>3, <1>4 DEF Entry

LEMMA SimpleGrant ==
  ASSUME StoreInv, rule.algorithm = SimpleRate, Live, stored.value < rule.max
  PROVE  /\ Write.entry = [value |-> stored.value + 1, last |-> 0,
                           deadline |-> stored.deadline]
         /\ Write.entry \in Entry
         /\ Write.reply = [ok |-> TRUE, value |-> stored.value + 1,
                           time |-> Second(clock) + TTL(stored.deadline - clock)]
         /\ Write.room = stored.deadline
<1> DEFINE count == IF Live THEN stored.value + 1 ELSE 1
           deadline == IF count = 1 THEN clock + Window ELSE stored.deadline
           expire_at == Second(clock) + TTL(deadline - clock)
<1>c. /\ Write.room = deadline
      /\ IF count > rule.max
         THEN /\ Write.entry = [value |-> count - 1, last |-> 0, deadline |-> deadline]
              /\ Write.reply = [ok |-> FALSE, value |-> rule.max, time |-> expire_at]
         ELSE /\ Write.entry = [value |-> count, last |-> 0, deadline |-> deadline]
              /\ Write.reply = [ok |-> TRUE, value |-> count, time |-> expire_at]
  BY SimpleCases
<1>1. rule.max \in Nat \ {0} /\ stored.value \in 1 .. rule.max /\ stored.deadline \in Nat
  BY DEF StoreInv, TypeOK, RuleType, SimpleEntry, Entry, Live
<1>2. stored.value + 1 # 1 /\ ~ (stored.value + 1 > rule.max)
      /\ stored.value + 1 \in Nat
  BY <1>1
<1>d. count = stored.value + 1 /\ deadline = stored.deadline
  BY <1>2
<1> HIDE DEF count, deadline
<1>e. expire_at = Second(clock) + TTL(stored.deadline - clock)
  BY <1>d
<1> HIDE DEF expire_at
<1>3. Write.entry = [value |-> stored.value + 1, last |-> 0, deadline |-> stored.deadline]
  BY <1>2, <1>c, <1>d, <1>e
<1>4. Write.reply = [ok |-> TRUE, value |-> stored.value + 1,
                     time |-> Second(clock) + TTL(stored.deadline - clock)]
      /\ Write.room = stored.deadline
  BY <1>2, <1>c, <1>d, <1>e
<1> QED BY <1>1, <1>2, <1>3, <1>4 DEF Entry

LEMMA SimpleReject ==
  ASSUME StoreInv, rule.algorithm = SimpleRate, Live, ~ (stored.value < rule.max)
  PROVE  /\ Write.entry = [value |-> stored.value, last |-> 0,
                           deadline |-> stored.deadline]
         /\ Write.entry \in Entry
         /\ Write.reply = [ok |-> FALSE, value |-> rule.max,
                           time |-> Second(clock) + TTL(stored.deadline - clock)]
         /\ Write.room = stored.deadline
<1> DEFINE count == IF Live THEN stored.value + 1 ELSE 1
           deadline == IF count = 1 THEN clock + Window ELSE stored.deadline
           expire_at == Second(clock) + TTL(deadline - clock)
<1>c. /\ Write.room = deadline
      /\ IF count > rule.max
         THEN /\ Write.entry = [value |-> count - 1, last |-> 0, deadline |-> deadline]
              /\ Write.reply = [ok |-> FALSE, value |-> rule.max, time |-> expire_at]
         ELSE /\ Write.entry = [value |-> count, last |-> 0, deadline |-> deadline]
              /\ Write.reply = [ok |-> TRUE, value |-> count, time |-> expire_at]
  BY SimpleCases
<1>1. rule.max \in Nat \ {0} /\ stored.value \in 1 .. rule.max /\ stored.deadline \in Nat
  BY DEF StoreInv, TypeOK, RuleType, SimpleEntry, Entry, Live
<1>2. stored.value + 1 # 1 /\ stored.value + 1 > rule.max
      /\ stored.value + 1 - 1 = stored.value
  BY <1>1
<1>d. count > rule.max /\ count - 1 = stored.value /\ deadline = stored.deadline
  BY <1>1, <1>2
<1> HIDE DEF count, deadline
<1>e. expire_at = Second(clock) + TTL(stored.deadline - clock)
  BY <1>d
<1> HIDE DEF expire_at
<1>3. Write.entry = [value |-> stored.value, last |-> 0, deadline |-> stored.deadline]
  BY <1>c, <1>d, <1>e
<1>4. Write.reply = [ok |-> FALSE, value |-> rule.max,
                     time |-> Second(clock) + TTL(stored.deadline - clock)]
      /\ Write.room = stored.deadline
  BY <1>c, <1>d, <1>e
<1> QED BY <1>1, <1>3, <1>4 DEF Entry

(* A key that has expired held an empty bucket.                            *)
LEMMA LevelFacts ==
  ASSUME StoreInv, rule.algorithm = LeakyBucket
  PROVE  /\ Level(Second(clock)) \in 0 .. rule.max * rule.duration
         /\ ~ Live => Level(Second(clock)) = 0
<1>1. rule.max \in Nat \ {0} /\ rule.duration \in Nat \ {0} /\ Second(clock) \in Nat
      /\ rule.max * rule.duration \in Nat /\ clock \in Nat /\ PerSecond \in Nat \ {0}
  BY SecondType, ConstantsAssumption DEF StoreInv, TypeOK, RuleType, Time
<1>2. CASE stored = None
  BY <1>1, <1>2 DEF Level
<1>3. CASE stored # None
  <2>1. stored.value \in Nat /\ stored.last \in Nat /\ stored.deadline \in Nat
        /\ stored.value <= rule.max * rule.duration /\ stored.last <= Second(clock)
        /\ (stored.last + 2 * rule.duration) * PerSecond <= stored.deadline
    BY <1>3 DEF StoreInv, TypeOK, Entry, LeakyEntry
  <2> DEFINE elapsed == Second(clock) - stored.last
             leak == elapsed * rule.max
  <2>2. elapsed \in Nat /\ leak \in Nat
    BY <1>1, <2>1
  <2>3. Level(Second(clock)) = IF stored.value - leak > 0 THEN stored.value - leak ELSE 0
    BY <1>3 DEF Level, Leaked
  <2>4. Level(Second(clock)) \in 0 .. rule.max * rule.duration
    <3> HIDE DEF leak
    <3> QED BY <1>1, <2>1, <2>2, <2>3
  <2>5. ASSUME ~ Live PROVE Level(Second(clock)) = 0
    <3>1. stored.deadline <= clock
      BY <1>1, <1>3, <2>1, <2>5 DEF Live
    <3> DEFINE drained == stored.last + 2 * rule.duration
    <3>2. drained \in Nat /\ PerSecond * drained <= clock
      BY <1>1, <2>1, <3>1
    <3>3. clock < PerSecond * Second(clock) + PerSecond
      BY <1>1, Division DEF Second
    <3>4. PerSecond * drained \in Int /\ PerSecond * Second(clock) \in Int
      BY <1>1, <3>2
    <3>5. drained <= Second(clock)
      <4>1. PerSecond * drained < PerSecond * Second(clock) + PerSecond
        BY <1>1, <3>2, <3>3, <3>4
      <4> HIDE DEF drained
      <4> QED BY <1>1, <3>2, <4>1, QuotientOrder
    <3>6. elapsed >= 2 * rule.duration
      BY <1>1, <2>1, <3>5
    <3>7. leak >= 2 * rule.duration * rule.max
      <4> HIDE DEF elapsed
      <4> QED BY <1>1, <2>2, <3>6
    <3>8. leak >= rule.max * rule.duration
      <4>1. 2 * rule.duration * rule.max = 2 * (rule.max * rule.duration)
        BY <1>1
      <4> HIDE DEF leak
      <4> QED BY <1>1, <2>2, <3>7, <4>1
    <3> HIDE DEF leak
    <3> QED BY <1>1, <2>1, <2>2, <2>3, <3>8
  <2> QED BY <2>4, <2>5
<1> QED BY <1>2, <1>3

LEMMA LeakyCases ==
  ASSUME StoreInv, rule.algorithm = LeakyBucket
  PROVE  LET level == Level(Second(clock))
             excess == level + rule.duration - rule.max * rule.duration
         IN  IF excess > 0
             THEN /\ Write.entry = stored
                  /\ Write.reply = [ok |-> FALSE, value |-> level,
                                    time |-> rule.max * rule.duration]
                  /\ Write.room = (Second(clock) + CeilDiv(excess, rule.max)) * PerSecond
             ELSE /\ Write.entry = [value |-> level + rule.duration,
                                    last |-> Second(clock),
                                    deadline |-> clock + 2 * rule.duration * PerSecond]
                  /\ Write.reply = [ok |-> TRUE, value |-> level + rule.duration,
                                    time |-> rule.max * rule.duration]
                  /\ Write.room = clock
<1> DEFINE now == Second(clock)
           level == IF Live
                    THEN Leaked(rule, [history |-> stored.value, time |-> stored.last], now)
                    ELSE 0
<1>1. level = Level(now)
  BY LevelFacts DEF Level, Live
<1>2. Write = LeakyWrite
  BY DEF Write, SimpleRate, LeakyBucket
<1> HIDE DEF level
<1>3. LeakyWrite =
        LET capacity == rule.max * rule.duration
            excess == level + rule.duration - capacity
        IN  IF excess > 0
            THEN Result(FALSE, level, capacity, stored,
                        (now + CeilDiv(excess, rule.max)) * PerSecond)
            ELSE Result(TRUE, level + rule.duration, capacity,
                        [value |-> level + rule.duration, last |-> now,
                         deadline |-> clock + 2 * rule.duration * PerSecond],
                        clock)
  BY DEF LeakyWrite, level
<1> QED BY <1>1, <1>2, <1>3 DEF Result
LEMMA CeilFacts ==
  ASSUME NEW n \in Nat \ {0}, NEW m \in Nat \ {0}
  PROVE  CeilDiv(n, m) \in Nat \ {0}
<1>1. n + m - 1 \in Nat /\ n + m - 1 >= m
  OBVIOUS
<1>2. CeilDiv(n, m) \in Nat /\ n + m - 1 < m * CeilDiv(n, m) + m
  BY <1>1, Division, DivisionNat DEF CeilDiv
<1>3. CeilDiv(n, m) # 0
  BY <1>1, <1>2
<1> QED BY <1>2, <1>3

LEMMA RuleFacts ==
  ASSUME TypeOK
  PROVE  /\ rule.max \in Nat \ {0} /\ rule.duration \in Nat \ {0}
         /\ rule.max * rule.duration \in Nat
         /\ rule.algorithm = SimpleRate \/ rule.algorithm = LeakyBucket
         /\ PerSecond \in Nat \ {0}
         /\ clock \in Nat /\ Second(clock) \in Nat
         /\ Window \in Nat \ {0}
<1>1. rule.max \in Nat \ {0} /\ rule.duration \in Nat \ {0}
      /\ rule.algorithm \in Algorithms /\ clock \in Nat
  BY DEF TypeOK, RuleType, Time
<1>2. rule.max * rule.duration \in Nat
  BY <1>1
<1>3. PerSecond \in Nat \ {0} /\ Second(clock) \in Nat /\ Window \in Nat \ {0}
  BY SecondType, WindowType, ConstantsAssumption
<1> HIDE DEF Window
<1> QED BY <1>1, <1>2, <1>3 DEF Algorithms

LEMMA ResultType ==
  ASSUME StoreInv
  PROVE  Write.entry \in Entry \cup {None} /\ Write.reply \in Reply /\ Write.room \in Nat
<1> USE RuleFacts DEF StoreInv
<1>1. CASE rule.algorithm = SimpleRate /\ ~ Live
  <2>1. TTL(Window) \in Nat
    BY Rounding
  <2>2. Write.entry \in Entry /\ Write.room = clock + Window
        /\ Write.reply = [ok |-> TRUE, value |-> 1, time |-> Second(clock) + TTL(Window)]
    BY <1>1, SimpleOpen
  <2> QED BY <2>1, <2>2 DEF Reply
<1>2. CASE rule.algorithm = SimpleRate /\ Live
  <2>1. stored.deadline - clock \in Nat /\ stored.value \in Nat /\ stored.deadline \in Nat
    BY <1>2 DEF Live, TypeOK, Entry
  <2>2. TTL(stored.deadline - clock) \in Nat
    BY <2>1, Rounding
  <2>3. CASE stored.value < rule.max
    <3>1. Write.entry \in Entry /\ Write.room = stored.deadline
          /\ Write.reply = [ok |-> TRUE, value |-> stored.value + 1,
                            time |-> Second(clock) + TTL(stored.deadline - clock)]
      BY <1>2, <2>3, SimpleGrant
    <3> QED BY <2>1, <2>2, <3>1 DEF Reply
  <2>4. CASE ~ (stored.value < rule.max)
    <3>1. Write.entry \in Entry /\ Write.room = stored.deadline
          /\ Write.reply = [ok |-> FALSE, value |-> rule.max,
                            time |-> Second(clock) + TTL(stored.deadline - clock)]
      BY <1>2, <2>4, SimpleReject
    <3> QED BY <2>1, <2>2, <3>1 DEF Reply
  <2> QED BY <2>3, <2>4
<1>3. CASE rule.algorithm = LeakyBucket
  <2> DEFINE level == Level(Second(clock))
             excess == level + rule.duration - rule.max * rule.duration
  <2>1. level \in Nat
    BY <1>3, LevelFacts
  <2>2. level + rule.duration \in Nat /\ clock + 2 * rule.duration * PerSecond \in Nat
    BY <2>1
  <2>3. CASE excess > 0
    <3>1. excess \in Nat \ {0}
      <4> HIDE DEF level
      <4> QED BY <2>1, <2>3
    <3>2. CeilDiv(excess, rule.max) \in Nat
      <4> HIDE DEF excess
      <4> QED BY <3>1, CeilFacts
    <3>3. (Second(clock) + CeilDiv(excess, rule.max)) * PerSecond \in Nat
      <4> HIDE DEF excess
      <4> QED BY <3>2
    <3>4. /\ Write.entry = stored
          /\ Write.reply = [ok |-> FALSE, value |-> level, time |-> rule.max * rule.duration]
          /\ Write.room = (Second(clock) + CeilDiv(excess, rule.max)) * PerSecond
      BY <1>3, <2>3, LeakyCases
    <3> HIDE DEF level, excess
    <3> QED BY <2>1, <3>3, <3>4 DEF Reply, TypeOK
  <2>4. CASE ~ (excess > 0)
    <3>1. /\ Write.entry = [value |-> level + rule.duration, last |-> Second(clock),
                            deadline |-> clock + 2 * rule.duration * PerSecond]
          /\ Write.reply = [ok |-> TRUE, value |-> level + rule.duration,
                            time |-> rule.max * rule.duration]
          /\ Write.room = clock
      BY <1>3, <2>4, LeakyCases
    <3> HIDE DEF level, excess
    <3> QED BY <2>2, <3>1 DEF Reply, Entry
  <2> QED BY <2>3, <2>4
<1> QED BY <1>1, <1>2, <1>3

-----------------------------------------------------------------------------
LEMMA ExecuteStore ==
  ASSUME StoreInv, Execute, UNCHANGED <<clock, rule>>
  PROVE  /\ stored' \in Entry \cup {None} /\ granted' \in [Time -> Nat]
         /\ SimpleEntry' /\ LeakyEntry'
<1> USE RuleFacts DEF StoreInv
<1>1. stored' = Write.entry /\ stored' \in Entry \cup {None}
  BY ResultType DEF Execute
<1>2. granted' \in [Time -> Nat]
  BY DEF Execute, TypeOK
<1>3. Window' = Window
  BY DEF Window
<1>4. SimpleEntry'
  <2>1. CASE rule.algorithm = SimpleRate /\ ~ Live
    <3>1. stored' = [value |-> 1, last |-> 0, deadline |-> clock + Window]
      BY <1>1, <2>1, SimpleOpen
    <3> QED BY <1>3, <3>1 DEF SimpleEntry
  <2>2. CASE rule.algorithm = SimpleRate /\ Live
    <3>1. /\ stored.value \in 1 .. rule.max
          /\ stored.deadline <= clock + Window /\ Window <= stored.deadline
      BY <2>2 DEF SimpleEntry, Live
    <3>2. CASE stored.value < rule.max
      <4>1. stored' = [value |-> stored.value + 1, last |-> 0, deadline |-> stored.deadline]
        BY <1>1, <2>2, <3>2, SimpleGrant
      <4> QED BY <1>3, <3>1, <3>2, <4>1 DEF SimpleEntry
    <3>3. CASE ~ (stored.value < rule.max)
      <4>1. stored' = [value |-> stored.value, last |-> 0, deadline |-> stored.deadline]
        BY <1>1, <2>2, <3>3, SimpleReject
      <4> QED BY <1>3, <3>1, <4>1 DEF SimpleEntry
    <3> QED BY <3>2, <3>3
  <2>3. CASE rule.algorithm # SimpleRate
    BY <2>3 DEF SimpleEntry
  <2> QED BY <2>1, <2>2, <2>3
<1>5. LeakyEntry'
  <2> SUFFICES ASSUME rule.algorithm = LeakyBucket PROVE LeakyEntry'
    BY DEF LeakyEntry
  <2> DEFINE level == Level(Second(clock))
             excess == level + rule.duration - rule.max * rule.duration
  <2>1. level \in Nat
    BY LevelFacts
  <2>2. CASE excess > 0
    <3>1. stored' = stored
      BY <1>1, <2>2, LeakyCases
    <3> QED BY <3>1 DEF LeakyEntry, Second
  <2>3. CASE ~ (excess > 0)
    <3>1. stored' = [value |-> level + rule.duration, last |-> Second(clock),
                     deadline |-> clock + 2 * rule.duration * PerSecond]
      BY <1>1, <2>3, LeakyCases
    <3>2. level + rule.duration <= rule.max * rule.duration
      <4> HIDE DEF level
      <4> QED BY <2>1, <2>3
    <3>3. (Second(clock) + 2 * rule.duration) * PerSecond <= clock + 2 * rule.duration * PerSecond
      <4>1. PerSecond * Second(clock) <= clock
        BY Division DEF Second
      <4>2. (Second(clock) + 2 * rule.duration) * PerSecond
              = PerSecond * Second(clock) + 2 * rule.duration * PerSecond
        OBVIOUS
      <4>3. PerSecond * Second(clock) \in Int /\ 2 * rule.duration * PerSecond \in Int
        OBVIOUS
      <4> QED BY <4>1, <4>2, <4>3
    <3>4. Second(clock)' = Second(clock)
      BY DEF Second
    <3> HIDE DEF level
    <3> QED BY <3>1, <3>2, <3>3, <3>4 DEF LeakyEntry
  <2> QED BY <2>2, <2>3
<1> QED BY <1>1, <1>2, <1>4, <1>5
LEMMA StoreInit == Init => StoreInv
BY ConstantsAssumption DEF Init, StoreInv, TypeOK, SimpleEntry, LeakyEntry, Time, PC,
   Reply, NoReply

LEMMA StoreStep == StoreInv /\ [Next]_vars => StoreInv'
<1> SUFFICES ASSUME StoreInv, [Next]_vars PROVE StoreInv'
  OBVIOUS
<1> USE DEF StoreInv, Goto
<1>a. ASSUME TypeOK', UNCHANGED <<clock, rule, stored>> PROVE StoreInv'
  BY <1>a DEF SimpleEntry, LeakyEntry, Second, Window
<1>1. CASE Tick
  <2>1. TypeOK'
    BY <1>1, ConstantsAssumption DEF Tick, TypeOK, Time
  <2>2. clock' = clock + 1 /\ UNCHANGED <<rule, stored>>
    BY <1>1 DEF Tick
  <2>3. Second(clock) <= Second(clock')
    <3>1. clock \in Int /\ clock' \in Int /\ clock <= clock' /\ PerSecond \in Nat \ {0}
      BY <2>2, RuleFacts
    <3> QED BY <3>1, DivisionOrder DEF Second
  <2>4. SimpleEntry'
    BY <2>2, RuleFacts DEF SimpleEntry, Window, TypeOK, Entry
  <2>5. Second(clock') \in Int /\ Second(clock)' = Second(clock')
    BY <2>1, <2>2, SecondType, RuleFacts, Division DEF Second
  <2>6. LeakyEntry'
    <3>1. stored # None => stored.last \in Int
      BY DEF TypeOK, Entry
    <3>2. Second(clock) \in Int
      BY RuleFacts
    <3> QED BY <2>2, <2>3, <2>5, <3>1, <3>2 DEF LeakyEntry
  <2> QED BY <2>1, <2>4, <2>6
<1>2. ASSUME NEW w \in Worker, Incr(w) PROVE StoreInv'
  <2>1. Write.reply \in Reply /\ Write.room \in Nat
    BY ResultType
  <2>2. stored' \in Entry \cup {None} /\ granted' \in [Time -> Nat]
        /\ SimpleEntry' /\ LeakyEntry'
    BY <1>2, ExecuteStore DEF Incr
  <2>3. TypeOK'
    BY <1>2, <2>1, <2>2 DEF Incr, TypeOK, PC
  <2> QED BY <2>2, <2>3
<1>3. ASSUME NEW w \in Worker, Lose(w) PROVE StoreInv'
  <2>1. CASE Execute
    <3>1. stored' \in Entry \cup {None} /\ granted' \in [Time -> Nat]
          /\ SimpleEntry' /\ LeakyEntry'
      BY <1>3, <2>1, ExecuteStore DEF Lose
    <3>2. TypeOK'
      BY <1>3, <3>1 DEF Lose, TypeOK, PC
    <3> QED BY <3>1, <3>2
  <2>2. CASE UNCHANGED <<stored, granted>>
    BY <1>a, <1>3, <2>2 DEF Lose, TypeOK, PC
  <2> QED BY <1>3, <2>1, <2>2 DEF Lose
<1>4. ASSUME NEW w \in Worker, Arrive(w) \/ Decide(w) \/ Report(w) \/ Respond(w)
      PROVE  StoreInv'
  <2>1. TypeOK'
    <3>1. pc' \in [Worker -> PC]
      BY <1>4 DEF Arrive, Decide, Report, Respond, TypeOK, PC
    <3>2. reply' \in [Worker -> Reply] /\ opens' \in [Worker -> Nat]
      <4>1. CASE Respond(w)
        <5>1. NoReply \in Reply
          BY DEF NoReply, Reply
        <5> QED BY <4>1, <5>1 DEF Respond, TypeOK
      <4>2. CASE Arrive(w) \/ Decide(w) \/ Report(w)
        BY <4>2 DEF Arrive, Decide, Report, TypeOK
      <4> QED BY <1>4, <4>1, <4>2
    <3>3. UNCHANGED <<clock, rule, stored, granted>>
      BY <1>4 DEF Arrive, Decide, Report, Respond
    <3> QED BY <3>1, <3>2, <3>3 DEF TypeOK
  <2> QED BY <1>a, <1>4, <2>1 DEF Arrive, Decide, Report, Respond
<1>5. CASE UNCHANGED vars
  BY <1>a, <1>5 DEF vars, TypeOK
<1> QED BY <1>1, <1>2, <1>3, <1>4, <1>5 DEF Next

(* TypeOK holds in every run, whatever the constants are.                  *)
THEOREM TypeCorrect == Spec => []TypeOK
<1>1. StoreInv => TypeOK
  BY DEF StoreInv
<1> QED BY <1>1, StoreInit, StoreStep, PTL DEF Spec

-----------------------------------------------------------------------------
LEMMA ExecuteQuota ==
  ASSUME QuotaInv, StoreInv', Execute, UNCHANGED <<clock, rule>>
  PROVE  QuotaInv'
<1> USE RuleFacts
<1>t. StoreInv /\ TypeOK /\ granted \in [Time -> Nat] /\ clock \in Time /\ clock \in Nat
  BY DEF QuotaInv, StoreInv, TypeOK, Time
<1>1. /\ stored' = Write.entry
      /\ \A t \in Time : granted'[t] = IF Write.reply.ok /\ t <= clock
                                       THEN granted[t] + 1 ELSE granted[t]
  BY DEF Execute
<1>n. \A t \in Time : granted[t] \in Nat /\ t \in Nat
  BY <1>t DEF Time
<1>c. /\ \A s, t \in Time : s <= t => granted[t] <= granted[s]
      /\ \A t \in Time : clock < t => granted[t] = 0
  BY DEF QuotaInv, Counts
<1>2. Counts'
  BY <1>t, <1>1, <1>n, <1>c DEF Counts
<1>3. Windows'
  <2> SUFFICES ASSUME rule.algorithm = SimpleRate PROVE Windows'
    BY DEF Windows
  <2>w. Window' = Window /\ Window \in Nat \ {0} /\ rule.max \in Nat \ {0}
    BY <1>t DEF Window
  <2>1. CASE ~ Live
    <3>1. stored' = [value |-> 1, last |-> 0, deadline |-> clock + Window]
          /\ Write.reply.ok /\ stored' \in Entry
      BY <1>t, <1>1, <2>1, SimpleOpen
    <3>2. granted[clock] = 0 /\ \A t \in Time : clock < t + Window => granted[t] <= rule.max
      BY <2>1 DEF QuotaInv, Windows
    <3>3. stored'.value = 1 /\ stored'.deadline = clock + Window
          /\ stored'.deadline - Window = clock
      BY <1>t, <2>w, <3>1
    <3>4. granted'[clock] <= 1
      BY <1>t, <1>1, <1>n, <3>2
    <3>5. stored' # None
      BY <3>1, ConstantsAssumption
    <3>6. Live'
      BY <1>t, <2>w, <3>3, <3>5 DEF Live
    <3>7. \A t \in Time : clock < t + Window => granted'[t] <= rule.max + 1
      BY <1>t, <1>1, <1>n, <2>w, <3>2
    <3> QED BY <2>w, <3>3, <3>4, <3>6, <3>7 DEF Windows
  <2>2. CASE Live
    <3>1. /\ granted[stored.deadline - Window] <= stored.value
          /\ \A t \in Time :
               t <= stored.deadline - Window /\ clock < t + Window =>
                 granted[t] <= rule.max + stored.value
      BY <2>2 DEF QuotaInv, Windows
    <3>2. stored.value \in Nat /\ stored.deadline \in Nat /\ clock < stored.deadline
          /\ stored.deadline <= clock + Window /\ Window <= stored.deadline
      BY <1>t, <2>2 DEF StoreInv, SimpleEntry, Live, TypeOK, Entry
    <3>3. stored.deadline - Window \in Time /\ stored.deadline - Window <= clock
      <4>1. clock <= MaxClock /\ MaxClock \in Nat
        BY <1>t, ConstantsAssumption DEF Time
      <4>2. stored.deadline - Window \in Nat /\ stored.deadline - Window <= clock
        BY <1>t, <2>w, <3>2
      <4> QED BY <1>t, <4>1, <4>2 DEF Time
    <3>4. CASE stored.value < rule.max
      <4>1. stored' = [value |-> stored.value + 1, last |-> 0, deadline |-> stored.deadline]
            /\ Write.reply.ok /\ stored' \in Entry
        BY <1>t, <1>1, <2>2, <3>4, SimpleGrant
      <4>2. stored'.value = stored.value + 1 /\ stored'.deadline = stored.deadline
        BY <4>1
      <4>3. Live'
        BY <3>2, <4>1, ConstantsAssumption DEF Live
      <4> QED BY <1>t, <1>1, <1>n, <2>w, <3>1, <3>2, <3>3, <4>1, <4>2, <4>3 DEF Windows
    <3>5. CASE ~ (stored.value < rule.max)
      <4>1. stored' = [value |-> stored.value, last |-> 0, deadline |-> stored.deadline]
            /\ ~ Write.reply.ok /\ stored' \in Entry
        BY <1>t, <1>1, <2>2, <3>5, SimpleReject
      <4>2. stored'.value = stored.value /\ stored'.deadline = stored.deadline
        BY <4>1
      <4>3. Live'
        BY <3>2, <4>1, ConstantsAssumption DEF Live
      <4> QED BY <1>t, <1>1, <1>n, <2>w, <3>1, <3>2, <3>3, <4>1, <4>2, <4>3 DEF Windows
    <3> QED BY <3>4, <3>5
  <2> QED BY <2>1, <2>2
<1>4. Slopes'
  <2> SUFFICES ASSUME rule.algorithm = LeakyBucket, NEW t \in Time, t <= clock
               PROVE  rule.duration * granted'[t] <=
                        rule.max * (Second(clock) - Second(t)) + Level(Second(clock))'
    BY DEF Slopes, Second
  <2> DEFINE level == Level(Second(clock))
             excess == level + rule.duration - rule.max * rule.duration
             slope == rule.max * (Second(clock) - Second(t))
  <2>0. rule.duration * granted[t] <= slope + level
    BY DEF QuotaInv, Slopes
  <2>1. level \in Nat
    BY <1>t, LevelFacts
  <2>s. slope \in Int /\ Second(clock)' = Second(clock)
    BY <1>t, <1>n, Division DEF Second
  <2>2. CASE excess > 0
    <3>1. stored' = stored /\ ~ Write.reply.ok
      BY <1>t, <1>1, <2>2, LeakyCases
    <3>2. Level(Second(clock))' = level
      BY <2>s, <3>1 DEF Level
    <3>3. granted'[t] = granted[t]
      BY <1>1, <3>1
    <3> QED BY <2>0, <3>2, <3>3
  <2>3. CASE ~ (excess > 0)
    <3>1. /\ stored' = [value |-> level + rule.duration, last |-> Second(clock),
                        deadline |-> clock + 2 * rule.duration * PerSecond]
          /\ Write.reply.ok
      BY <1>t, <1>1, <2>3, LeakyCases
    <3>2. stored' # None
      <4>1. stored' \in Entry
        <5>1. level + rule.duration \in Nat /\ Second(clock) \in Nat
              /\ clock + 2 * rule.duration * PerSecond \in Nat
          BY <1>t, <2>1
        <5> HIDE DEF level
        <5> QED BY <3>1, <5>1 DEF Entry
      <4> QED BY <4>1, ConstantsAssumption
    <3>3. Level(Second(clock))' = level + rule.duration
      <4>1. stored'.value = level + rule.duration /\ stored'.last = Second(clock)
        BY <3>1
      <4>2. level + rule.duration > 0 /\ (Second(clock) - Second(clock)) * rule.max = 0
        BY <1>t, <2>1
      <4> HIDE DEF level
      <4> QED BY <1>t, <2>1, <2>s, <3>2, <4>1, <4>2 DEF Level, Leaked
    <3>4. granted'[t] = granted[t] + 1
      BY <1>1, <3>1
    <3>5. rule.duration * (granted[t] + 1) = rule.duration * granted[t] + rule.duration
          /\ rule.duration * granted[t] \in Int
      BY <1>t, <1>n
    <3> HIDE DEF level, slope
    <3>6. rule.duration * granted'[t] <= slope + (level + rule.duration)
      BY <1>t, <2>0, <2>1, <2>s, <3>4, <3>5
    <3> QED BY <3>3, <3>6 DEF slope
  <2> QED BY <2>2, <2>3
<1> QED BY <1>2, <1>3, <1>4 DEF QuotaInv

(* In a bucket, the passing of time is worth what leaks in it.             *)
LEMMA LevelDrop ==
  ASSUME StoreInv, rule.algorithm = LeakyBucket, NEW now \in Nat, NEW later \in Nat,
         now <= later, stored # None => stored.last <= now
  PROVE  /\ Level(later) \in Nat /\ Level(now) \in Nat
         /\ Level(now) <= Level(later) + rule.max * (later - now)
<1>1. rule.max \in Nat \ {0}
  BY RuleFacts DEF StoreInv
<1>2. CASE stored = None
  BY <1>1, <1>2 DEF Level
<1>3. CASE stored # None
  <2>1. stored.value \in Nat /\ stored.last \in Nat /\ stored.last <= now
    BY <1>3 DEF StoreInv, TypeOK, Entry
  <2> DEFINE leaked == (now - stored.last) * rule.max
             leak == (later - stored.last) * rule.max
             drop == rule.max * (later - now)
  <2>2. leaked \in Nat /\ leak \in Nat /\ drop \in Nat
    BY <1>1, <2>1
  <2>3. leak = leaked + drop
    BY <1>1, <2>1
  <2>4. /\ Level(now) = IF stored.value - leaked > 0 THEN stored.value - leaked ELSE 0
        /\ Level(later) = IF stored.value - leak > 0 THEN stored.value - leak ELSE 0
    BY <1>3 DEF Level, Leaked
  <2> HIDE DEF leaked, leak, drop
  <2>5. Level(later) \in Nat /\ Level(now) \in Nat /\ Level(now) <= Level(later) + drop
    BY <2>1, <2>2, <2>3, <2>4
  <2> QED BY <2>5 DEF drop
<1> QED BY <1>2, <1>3

LEMMA TickQuota == ASSUME QuotaInv, StoreInv', Tick PROVE QuotaInv'
<1>r. /\ rule.max \in Nat \ {0} /\ rule.duration \in Nat \ {0} /\ clock \in Nat
      /\ PerSecond \in Nat \ {0} /\ Second(clock) \in Nat /\ Window \in Nat \ {0}
  BY RuleFacts DEF QuotaInv, StoreInv
<1> USE <1>r
<1>t. /\ StoreInv /\ TypeOK /\ granted \in [Time -> Nat]
      /\ clock \in Time /\ clock' \in Time /\ clock \in Nat
      /\ clock' = clock + 1 /\ UNCHANGED <<rule, stored, granted>>
  BY DEF QuotaInv, StoreInv, TypeOK, Time, Tick
<1>n. \A t \in Time : granted[t] \in Nat /\ t \in Nat
  BY <1>t DEF Time
<1>c. /\ \A s, t \in Time : s <= t => granted[t] <= granted[s]
      /\ \A t \in Time : clock < t => granted[t] = 0
  BY DEF QuotaInv, Counts
<1>1. Counts'
  BY <1>t, <1>n, <1>c DEF Counts
<1>2. granted[clock + 1] = 0
  BY <1>t, <1>c
<1>3. Windows'
  <2> SUFFICES ASSUME rule.algorithm = SimpleRate PROVE Windows'
    BY <1>t DEF Windows
  <2>w. Window' = Window /\ Window \in Nat \ {0} /\ rule.max \in Nat \ {0}
    BY <1>t DEF Window
  <2>1. CASE ~ Live
    <3>1. stored # None => stored.deadline \in Nat
      BY <1>t DEF TypeOK, Entry
    <3>2. ~ Live'
      BY <1>t, <2>1, <3>1 DEF Live
    <3>3. \A t \in Time : clock < t + Window => granted[t] <= rule.max
      BY <2>1 DEF QuotaInv, Windows
    <3> QED BY <1>t, <1>n, <1>2, <2>w, <3>2, <3>3 DEF Windows
  <2>2. CASE Live
    <3>1. /\ granted[stored.deadline - Window] <= stored.value
          /\ \A t \in Time :
               t <= stored.deadline - Window /\ clock < t + Window =>
                 granted[t] <= rule.max + stored.value
      BY <2>2 DEF QuotaInv, Windows
    <3>2. /\ stored # None /\ stored.value \in 1 .. rule.max /\ stored.deadline \in Nat
          /\ clock < stored.deadline
          /\ stored.deadline <= clock + Window /\ Window <= stored.deadline
      BY <1>t, <2>2 DEF StoreInv, SimpleEntry, Live, TypeOK, Entry
    <3>3. CASE Live'
      BY <1>t, <1>n, <2>w, <3>1, <3>2, <3>3 DEF Windows
    <3>4. CASE ~ Live'
      <4>1. stored.deadline = clock + 1
        <5>1. ~ (stored.deadline > clock + 1)
          BY <1>t, <3>2, <3>4, Zenon DEF Live
        <5> QED BY <1>t, <3>2, <5>1
      <4> DEFINE opening == stored.deadline - Window
      <4>2. opening \in Time
        <5>1. clock <= MaxClock /\ MaxClock \in Nat
          BY <1>t, ConstantsAssumption DEF Time
        <5>2. opening \in Nat /\ opening <= clock
          BY <1>t, <2>w, <3>2
        <5> QED BY <1>t, <5>1, <5>2 DEF Time
      <4>3. ASSUME NEW t \in Time, clock + 1 < t + Window PROVE granted[t] <= rule.max
        <5>1. opening <= t
          BY <1>n, <2>w, <3>2, <4>1, <4>3
        <5>2. granted[t] <= granted[opening] /\ granted[opening] <= stored.value
          BY <1>c, <3>1, <4>2, <5>1
        <5>3. granted[t] \in Nat /\ granted[opening] \in Nat
          BY <1>n, <4>2
        <5> HIDE DEF opening
        <5> QED BY <3>2, <5>2, <5>3
      <4> QED BY <1>t, <1>2, <2>w, <3>4, <4>3 DEF Windows
    <3> QED BY <3>3, <3>4
  <2> QED BY <2>1, <2>2
<1>4. Slopes'
  <2> SUFFICES ASSUME rule.algorithm = LeakyBucket PROVE Slopes'
    BY <1>t DEF Slopes
  <2> DEFINE now == Second(clock)
             later == Second(clock + 1)
  <2>1. now \in Nat /\ later \in Nat /\ now <= later
    <3>1. clock + 1 \in Nat /\ clock \in Int /\ clock + 1 \in Int /\ clock <= clock + 1
      BY <1>t
    <3>2. now \in Nat /\ later \in Nat
      BY <3>1, DivisionNat DEF Second
    <3> QED BY <3>1, <3>2, DivisionOrder DEF Second
  <2>2. stored # None => stored.last <= now
    BY <1>t DEF StoreInv, LeakyEntry
  <2>3. /\ Level(later) \in Nat /\ Level(now) \in Nat
        /\ Level(now) <= Level(later) + rule.max * (later - now)
    BY <1>t, <2>1, <2>2, LevelDrop
  <2>4. Second(clock)' = later /\ Level(Second(clock))' = Level(later)
    BY <1>t DEF Second, Level
  <2>5. ASSUME NEW t \in Time, t <= clock + 1
        PROVE  rule.duration * granted[t] <= rule.max * (later - Second(t)) + Level(later)
    <3>0. Second(t) \in Nat
      <4>1. t \in Nat
        BY <1>n
      <4> QED BY <4>1, DivisionNat DEF Second
    <3>1. CASE t = clock + 1
      <4>1. later = Second(t)
        BY <3>1
      <4> HIDE DEF later
      <4>2. rule.duration * granted[t] = 0 /\ rule.max * (later - Second(t)) = 0
        BY <1>2, <2>1, <3>1, <4>1
      <4> QED BY <2>3, <4>2
    <3>2. CASE t <= clock
      <4>1. rule.duration * granted[t] <= rule.max * (now - Second(t)) + Level(now)
        BY <3>2 DEF QuotaInv, Slopes
      <4> HIDE DEF now, later
      <4> DEFINE then == Second(t)
      <4>a. then \in Nat
        BY <3>0
      <4> HIDE DEF then
      <4>2. rule.max * (later - then) = rule.max * (now - then) + rule.max * (later - now)
        BY <2>1, <4>a
      <4>3. rule.max * (now - then) \in Int /\ rule.max * (later - now) \in Int
        BY <2>1, <4>a
      <4>4. granted[t] \in Nat /\ rule.duration * granted[t] \in Int
        BY <1>n
      <4>5. rule.duration * granted[t] <= rule.max * (now - then) + Level(now)
        BY <4>1 DEF then
      <4>6. rule.duration * granted[t] <= rule.max * (later - then) + Level(later)
        BY <2>3, <4>2, <4>3, <4>4, <4>5
      <4> QED BY <4>6 DEF then
    <3> QED BY <1>t, <1>n, <2>5, <3>1, <3>2
  <2> HIDE DEF now, later
  <2>6. \A t \in Time : Second(t)' = Second(t)
    BY DEF Second
  <2> QED BY <1>t, <2>4, <2>5, <2>6 DEF Slopes
<1> QED BY <1>1, <1>3, <1>4 DEF QuotaInv

LEMMA QuotaInit == Init => QuotaInv
<1> SUFFICES ASSUME Init PROVE QuotaInv
  OBVIOUS
<1>1. StoreInv
  BY StoreInit
<1>2. /\ clock = 0 /\ stored = None /\ granted = [t \in Time |-> 0]
      /\ rule.max \in Nat \ {0} /\ rule.duration \in Nat \ {0} /\ PerSecond \in Nat \ {0}
  BY <1>1, RuleFacts DEF StoreInv, Init
<1>3. Counts
  BY <1>2 DEF Counts
<1>4. Windows
  <2>1. ~ Live /\ clock \in Time
    BY <1>1, <1>2 DEF Live, StoreInv, TypeOK
  <2>2. granted[clock] = 0 /\ \A t \in Time : granted[t] <= rule.max
    BY <1>2, <2>1
  <2> QED BY <2>1, <2>2 DEF Windows
<1>5. Slopes
  <2> SUFFICES ASSUME NEW t \in Time, t <= clock
               PROVE  rule.duration * granted[t] <=
                        rule.max * (Second(clock) - Second(t)) + Level(Second(clock))
    BY DEF Slopes
  <2>1. t = 0 /\ granted[t] = 0
    BY <1>2 DEF Time
  <2>2. Second(clock) \in Nat
    BY <1>1, RuleFacts DEF StoreInv
  <2>3. rule.duration * granted[t] = 0 /\ rule.max * (Second(clock) - Second(t)) = 0
    BY <1>2, <2>1, <2>2
  <2>4. Level(Second(clock)) = 0
    BY <1>2 DEF Level
  <2> QED BY <2>3, <2>4
<1> QED BY <1>1, <1>3, <1>4, <1>5 DEF QuotaInv

LEMMA QuotaStep == QuotaInv /\ [Next]_vars => QuotaInv'
<1> SUFFICES ASSUME QuotaInv, [Next]_vars PROVE QuotaInv'
  OBVIOUS
<1>s. StoreInv'
  BY StoreStep DEF QuotaInv
<1>a. ASSUME UNCHANGED <<clock, rule, stored, granted>> PROVE QuotaInv'
  <2>1. Live' <=> Live
    BY <1>a DEF Live
  <2>2. Level(Second(clock))' = Level(Second(clock))
    BY <1>a DEF Level, Second
  <2>3. Counts'
    BY <1>a DEF QuotaInv, Counts
  <2>4. Windows'
    BY <1>a, <2>1 DEF QuotaInv, Windows, Window
  <2>5. Slopes'
    <3>1. \A t \in Time : Second(t)' = Second(t)
      BY DEF Second
    <3>2. Second(clock)' = Second(clock)
      BY <1>a DEF Second
    <3> QED BY <1>a, <2>2, <3>1, <3>2 DEF QuotaInv, Slopes
  <2> QED BY <1>s, <2>3, <2>4, <2>5 DEF QuotaInv
<1>1. CASE Tick
  BY <1>s, <1>1, TickQuota
<1>2. ASSUME NEW w \in Worker, Incr(w) PROVE QuotaInv'
  BY <1>s, <1>2, ExecuteQuota DEF Incr
<1>3. ASSUME NEW w \in Worker, Lose(w) PROVE QuotaInv'
  BY <1>s, <1>a, <1>3, ExecuteQuota DEF Lose
<1>4. ASSUME NEW w \in Worker, Arrive(w) \/ Decide(w) \/ Report(w) \/ Respond(w)
      PROVE  QuotaInv'
  BY <1>a, <1>4 DEF Arrive, Decide, Report, Respond
<1>5. CASE UNCHANGED vars
  BY <1>a, <1>5 DEF vars
<1> QED BY <1>1, <1>2, <1>3, <1>4, <1>5 DEF Next

LEMMA QuotaImplied == QuotaInv => QuotaKept
<1> SUFFICES ASSUME QuotaInv PROVE QuotaKept
  OBVIOUS
<1>r. /\ rule.max \in Nat \ {0} /\ rule.duration \in Nat \ {0} /\ clock \in Nat
      /\ Second(clock) \in Nat /\ Window \in Nat \ {0}
  BY RuleFacts DEF QuotaInv, StoreInv
<1>n. granted \in [Time -> Nat] /\ \A t \in Time : t \in Nat
  BY DEF QuotaInv, StoreInv, TypeOK, Time
<1>1. WindowQuota
  <2> SUFFICES ASSUME rule.algorithm = SimpleRate, Live PROVE WindowQuota
    BY DEF WindowQuota
  <2>1. stored.value \in 1 .. rule.max
    BY DEF QuotaInv, StoreInv, SimpleEntry, Live
  <2>2. granted[stored.deadline - Window] <= stored.value
    BY DEF QuotaInv, Windows
  <2> QED BY <1>r, <2>1, <2>2 DEF WindowQuota, Window
<1>2. BurstBound
  <2> SUFFICES ASSUME NEW t \in Time, rule.algorithm = SimpleRate, clock < t + Window
               PROVE  granted[t] <= 2 * rule.max
    BY DEF BurstBound, Window
  <2>n. t \in Nat /\ granted[t] \in Nat
    BY <1>n
  <2>1. CASE ~ Live
    <3>1. granted[t] <= rule.max
      BY <2>1 DEF QuotaInv, Windows
    <3> QED BY <1>r, <2>n, <3>1
  <2>2. CASE Live
    <3>1. stored.value \in 1 .. rule.max /\ stored.deadline \in Nat
          /\ stored.deadline <= clock + Window /\ Window <= stored.deadline
      BY <2>2 DEF QuotaInv, StoreInv, TypeOK, Entry, SimpleEntry, Live
    <3> DEFINE opening == stored.deadline - Window
    <3>2. /\ granted[opening] <= stored.value
          /\ t <= opening => granted[t] <= rule.max + stored.value
      BY <2>2 DEF QuotaInv, Windows
    <3>3. opening \in Time
      <4>1. clock <= MaxClock /\ MaxClock \in Nat
        BY ConstantsAssumption DEF QuotaInv, StoreInv, TypeOK, Time
      <4>2. opening \in Nat /\ opening <= clock
        BY <1>r, <3>1
      <4> QED BY <1>r, <4>1, <4>2 DEF Time
    <3>4. opening <= t => granted[t] <= granted[opening]
      BY <3>3 DEF QuotaInv, Counts
    <3>5. opening \in Nat /\ granted[opening] \in Nat
      BY <1>n, <3>3
    <3> HIDE DEF opening
    <3> QED BY <1>r, <2>n, <3>1, <3>2, <3>4, <3>5
  <2> QED BY <2>1, <2>2
<1>3. LeakyBound
  <2> SUFFICES ASSUME NEW t \in Time, rule.algorithm = LeakyBucket, t <= clock
               PROVE  rule.duration * granted[t] <=
                        rule.max * (rule.duration + Second(clock) - Second(t))
    BY DEF LeakyBound
  <2> DEFINE now == Second(clock)
             then == Second(t)
             level == Level(now)
  <2>1. rule.duration * granted[t] <= rule.max * (now - then) + level
    BY DEF QuotaInv, Slopes
  <2>2. level \in Nat /\ level <= rule.max * rule.duration
    BY <1>r, LevelFacts DEF QuotaInv
  <2>3. now \in Nat /\ then \in Nat /\ PerSecond \in Nat \ {0}
    <3>1. t \in Nat /\ PerSecond \in Nat \ {0}
      BY <1>n, ConstantsAssumption
    <3> QED BY <1>r, <3>1, DivisionNat DEF Second
  <2>4. granted[t] \in Nat
    BY <1>n
  <2> HIDE DEF now, then, level
  <2>5. rule.max * (rule.duration + now - then)
          = rule.max * (now - then) + rule.max * rule.duration
    BY <1>r, <2>3
  <2>6. /\ rule.max * (now - then) \in Int /\ rule.max * rule.duration \in Int
        /\ rule.duration * granted[t] \in Int
    BY <1>r, <2>3, <2>4
  <2>7. rule.duration * granted[t] <= rule.max * (rule.duration + now - then)
    BY <2>1, <2>2, <2>5, <2>6
  <2> QED BY <2>7 DEF now, then
<1> QED BY <1>1, <1>2, <1>3 DEF QuotaKept

(* Whatever calls are lost, and on whatever clock: no window, no interval  *)
(* and no slope gets more requests than the throttle allows.               *)
THEOREM QuotaKeptHolds == Spec => []QuotaKept
BY QuotaInit, QuotaStep, QuotaImplied, PTL DEF Spec

-----------------------------------------------------------------------------
(* What a worker that waits to build its headers knows.                    *)
Ceiling == CeilDiv(rule.duration, rule.max)

RejectionFacts(w) ==
  IF rule.algorithm = SimpleRate
  THEN /\ reply[w].value = rule.max
       /\ opens[w] <= PerSecond * reply[w].time + (PerSecond - 1) + (PerSecond - 1) \div 2
       /\ opens[w] <= clock + Window
  ELSE /\ reply[w].value <= rule.max * rule.duration
       /\ rule.max * rule.duration < reply[w].value + rule.duration
       /\ opens[w] <= clock + Ceiling * PerSecond

WorkerInv(w) ==
  /\ pc[w] = "replied" /\ ~ reply[w].ok => RejectionFacts(w)
  /\ pc[w] \in {"replied", "granted"} /\ rule.algorithm = SimpleRate /\ opens[w] > clock =>
       stored # None /\ stored.deadline = opens[w]
  /\ pc[w] = "broken" => rule.algorithm = SimpleRate /\ opens[w] <= clock

HeadersInv == StoreInv /\ \A w \in Worker : WorkerInv(w)

LEMMA CeilingFacts ==
  ASSUME TypeOK
  PROVE  Ceiling \in Nat \ {0} /\ Ceiling * PerSecond \in Nat
<1>1. Ceiling \in Nat \ {0}
  BY RuleFacts, CeilFacts DEF Ceiling
<1> HIDE DEF Ceiling
<1> QED BY <1>1, RuleFacts

(* What a script that rejects tells its worker.                            *)
LEMMA RejectedNow ==
  ASSUME StoreInv, ~ Write.reply.ok
  PROVE  IF rule.algorithm = SimpleRate
         THEN /\ Write.reply.value = rule.max
              /\ Write.room <= PerSecond * Write.reply.time
                                 + (PerSecond - 1) + (PerSecond - 1) \div 2
              /\ Write.room <= clock + Window
         ELSE /\ Write.reply.value <= rule.max * rule.duration
              /\ rule.max * rule.duration < Write.reply.value + rule.duration
              /\ Write.room <= clock + Ceiling * PerSecond
<1>r. /\ rule.max \in Nat \ {0} /\ rule.duration \in Nat \ {0} /\ clock \in Nat
      /\ PerSecond \in Nat \ {0} /\ Second(clock) \in Nat /\ Window \in Nat \ {0}
      /\ rule.algorithm = SimpleRate \/ rule.algorithm = LeakyBucket
  BY RuleFacts DEF StoreInv
<1>1. CASE rule.algorithm = SimpleRate
  <2>1. Live /\ ~ (stored.value < rule.max)
    <3>1. CASE ~ Live
      BY <1>1, <3>1, SimpleOpen
    <3>2. CASE Live /\ stored.value < rule.max
      BY <1>1, <3>2, SimpleGrant
    <3> QED BY <3>1, <3>2
  <2> DEFINE left == stored.deadline - clock
             half == (PerSecond - 1) \div 2
             ttl == TTL(left)
             now == Second(clock)
  <2>2. /\ Write.reply = [ok |-> FALSE, value |-> rule.max, time |-> now + ttl]
        /\ Write.room = stored.deadline
    BY <1>1, <2>1, SimpleReject
  <2>3. /\ stored.deadline \in Nat /\ left \in Nat
        /\ stored.deadline <= clock + Window
    BY <1>r, <1>1, <2>1 DEF StoreInv, TypeOK, Entry, SimpleEntry, Live
  <2>4. ttl \in Nat /\ left <= PerSecond * ttl + half
    <3> HIDE DEF left
    <3> QED BY <2>3, Rounding
  <2>5. clock < PerSecond * now + PerSecond /\ half \in Int /\ now \in Nat
    BY <1>r, Division DEF Second
  <2> HIDE DEF half, ttl, now
  <2>6. PerSecond * (now + ttl) = PerSecond * now + PerSecond * ttl
        /\ PerSecond * now \in Int /\ PerSecond * ttl \in Int
    BY <1>r, <2>4, <2>5
  <2>7. stored.deadline <= PerSecond * (now + ttl) + (PerSecond - 1) + half
    BY <1>r, <2>3, <2>4, <2>5, <2>6
  <2>8. Write.room <= PerSecond * Write.reply.time + (PerSecond - 1) + half
    BY <2>2, <2>7
  <2> QED BY <1>1, <2>2, <2>3, <2>8 DEF half
<1>2. CASE rule.algorithm = LeakyBucket
  <2> DEFINE level == Level(Second(clock))
             excess == level + rule.duration - rule.max * rule.duration
             now == Second(clock)
             wait == CeilDiv(excess, rule.max)
  <2>1. level \in Nat /\ level <= rule.max * rule.duration
    BY <1>r, <1>2, LevelFacts
  <2>2. excess > 0
    <3>1. CASE ~ (excess > 0)
      <4>1. Write.reply.ok
        <5>1. Write.reply = [ok |-> TRUE, value |-> level + rule.duration,
                             time |-> rule.max * rule.duration]
          BY <1>2, <3>1, LeakyCases
        <5> HIDE DEF level
        <5> QED BY <5>1
      <4> QED BY <4>1
    <3> QED BY <3>1
  <2>3. /\ Write.reply = [ok |-> FALSE, value |-> level, time |-> rule.max * rule.duration]
        /\ Write.room = (now + wait) * PerSecond
    BY <1>2, <2>2, LeakyCases
  <2>c. rule.max * rule.duration \in Nat
    BY <1>r
  <2> HIDE DEF level
  <2>4. excess \in Nat \ {0} /\ excess <= rule.duration
    BY <1>r, <2>1, <2>2, <2>c
  <2>5. rule.max * rule.duration < level + rule.duration
    BY <1>r, <2>1, <2>2, <2>c
  <2> HIDE DEF excess
  <2>6. wait \in Nat /\ wait <= Ceiling
    <3>1. wait \in Nat
      BY <1>r, <2>4, CeilFacts
    <3>2. excess + rule.max - 1 \in Int /\ rule.duration + rule.max - 1 \in Int
          /\ excess + rule.max - 1 <= rule.duration + rule.max - 1
      BY <1>r, <2>4
    <3>3. (excess + rule.max - 1) \div rule.max <= (rule.duration + rule.max - 1) \div rule.max
      BY <1>r, <3>2, DivisionOrder
    <3> QED BY <3>1, <3>3 DEF Ceiling, CeilDiv
  <2>7. PerSecond * now <= clock
    BY <1>r, Division DEF Second
  <2>8. now \in Nat /\ Ceiling \in Nat
    BY <1>r, CeilingFacts DEF StoreInv
  <2> HIDE DEF wait, now
  <2>9. wait * PerSecond <= Ceiling * PerSecond
    <3>1. Ceiling - wait \in Nat
      BY <2>6, <2>8
    <3>2. (Ceiling - wait) * PerSecond >= 0
      BY <1>r, <3>1
    <3>3. (Ceiling - wait) * PerSecond = Ceiling * PerSecond - wait * PerSecond
      BY <1>r, <2>6, <2>8
    <3>4. Ceiling * PerSecond \in Int /\ wait * PerSecond \in Int
      BY <1>r, <2>6, <2>8
    <3> QED BY <3>2, <3>3, <3>4
  <2>10. (now + wait) * PerSecond <= clock + Ceiling * PerSecond
    <3>1. (now + wait) * PerSecond = PerSecond * now + wait * PerSecond
          /\ PerSecond * now \in Int /\ wait * PerSecond \in Int
          /\ Ceiling * PerSecond \in Int
      BY <1>r, <2>6, <2>8
    <3> QED BY <1>r, <2>7, <2>9, <3>1
  <2> QED BY <1>2, <2>1, <2>3, <2>5, <2>10 DEF SimpleRate, LeakyBucket
<1> QED BY <1>r, <1>1, <1>2

(* A live key keeps its deadline, and an entry written is live.            *)
LEMMA KeepsDeadline ==
  ASSUME StoreInv, rule.algorithm = SimpleRate
  PROVE  /\ Write.entry \in Entry /\ Write.entry # None
         /\ Write.room = Write.entry.deadline
         /\ Live => Write.entry.deadline = stored.deadline
<1>1. CASE ~ Live
  <2>1. Write.entry \in Entry /\ Write.room = clock + Window
        /\ Write.entry = [value |-> 1, last |-> 0, deadline |-> clock + Window]
    BY <1>1, SimpleOpen
  <2> QED BY <1>1, <2>1, ConstantsAssumption
<1>2. CASE Live /\ stored.value < rule.max
  <2>1. Write.entry \in Entry /\ Write.room = stored.deadline
        /\ Write.entry = [value |-> stored.value + 1, last |-> 0, deadline |-> stored.deadline]
    BY <1>2, SimpleGrant
  <2> QED BY <2>1, ConstantsAssumption
<1>3. CASE Live /\ ~ (stored.value < rule.max)
  <2>1. Write.entry \in Entry /\ Write.room = stored.deadline
        /\ Write.entry = [value |-> stored.value, last |-> 0, deadline |-> stored.deadline]
    BY <1>3, SimpleReject
  <2> QED BY <2>1, ConstantsAssumption
<1> QED BY <1>1, <1>2, <1>3

(* What the others know survives a script and the passing of time.         *)
LEMMA OthersKeep ==
  ASSUME StoreInv, StoreInv', NEW w \in Worker, WorkerInv(w), rule' = rule,
         \/ Execute /\ clock' = clock
         \/ stored' = stored /\ clock' \in {clock, clock + 1},
         pc'[w] = pc[w], reply'[w] = reply[w], opens'[w] = opens[w]
  PROVE  WorkerInv(w)'
<1>1. clock \in Nat /\ clock' \in Nat /\ clock <= clock' /\ opens[w] \in Nat
      /\ Window \in Nat /\ Ceiling * PerSecond \in Nat
  BY RuleFacts, CeilingFacts DEF StoreInv, TypeOK, Time
<1>2. Window' = Window /\ Ceiling' = Ceiling
  BY DEF Window, Ceiling
<1> HIDE DEF Window, Ceiling
<1>3. pc[w] = "replied" /\ ~ reply[w].ok => RejectionFacts(w)'
  BY <1>1, <1>2 DEF WorkerInv, RejectionFacts
<1>4. ASSUME pc[w] \in {"replied", "granted"}, rule.algorithm = SimpleRate,
             opens[w] > clock'
      PROVE  stored' # None /\ stored'.deadline = opens[w]
  <2>1. opens[w] > clock
    BY <1>1, <1>4
  <2>2. stored # None /\ stored.deadline = opens[w]
    BY <1>4, <2>1 DEF WorkerInv
  <2>3. CASE Execute
    <3>1. Live
      BY <2>1, <2>2 DEF Live
    <3>2. stored' = Write.entry
      BY <2>3 DEF Execute
    <3> QED BY <1>4, <2>2, <3>1, <3>2, KeepsDeadline
  <2> QED BY <2>2, <2>3
<1>5. pc[w] = "broken" => rule.algorithm = SimpleRate /\ opens[w] <= clock'
  BY <1>1 DEF WorkerInv
<1> QED BY <1>3, <1>4, <1>5 DEF WorkerInv

LEMMA HeadersStep == HeadersInv /\ [Next]_vars => HeadersInv'
<1> SUFFICES ASSUME HeadersInv, [Next]_vars PROVE HeadersInv'
  OBVIOUS
<1>s. StoreInv /\ StoreInv' /\ \A v \in Worker : WorkerInv(v)
  BY StoreStep DEF HeadersInv
<1>t. pc \in [Worker -> PC] /\ reply \in [Worker -> Reply] /\ opens \in [Worker -> Nat]
      /\ clock \in Nat
  BY <1>s DEF StoreInv, TypeOK, Time
<1>1. CASE Tick
  <2>1. \A v \in Worker : WorkerInv(v)'
    BY <1>s, <1>1, OthersKeep DEF Tick
  <2> QED BY <1>s, <2>1 DEF HeadersInv
<1>2. ASSUME NEW w \in Worker, Incr(w) PROVE HeadersInv'
  <2>1. ASSUME NEW v \in Worker, v # w PROVE WorkerInv(v)'
    <3>1. pc'[v] = pc[v] /\ reply'[v] = reply[v] /\ opens'[v] = opens[v]
      BY <1>t, <1>2, <2>1 DEF Incr, Goto
    <3>2. Execute /\ clock' = clock /\ rule' = rule
      BY <1>2 DEF Incr
    <3> QED BY <1>s, <3>1, <3>2, OthersKeep
  <2>2. WorkerInv(w)'
    <3>1. /\ pc'[w] = "replied" /\ reply'[w] = Write.reply /\ opens'[w] = Write.room
          /\ stored' = Write.entry /\ clock' = clock /\ rule' = rule
      BY <1>t, <1>2 DEF Incr, Goto, Execute
    <3>2. Window' = Window /\ Ceiling' = Ceiling
      BY <3>1 DEF Window, Ceiling
    <3>3. ~ Write.reply.ok => RejectionFacts(w)'
      <4> HIDE DEF Window, Ceiling
      <4> QED BY <1>s, <3>1, <3>2, RejectedNow DEF RejectionFacts
    <3>4. rule.algorithm = SimpleRate => stored' # None /\ stored'.deadline = opens'[w]
      BY <1>s, <3>1, KeepsDeadline
    <3> QED BY <3>1, <3>3, <3>4 DEF WorkerInv
  <2> QED BY <1>s, <2>1, <2>2 DEF HeadersInv
<1>3. ASSUME NEW w \in Worker, Lose(w) PROVE HeadersInv'
  <2>0. /\ clock' = clock /\ rule' = rule /\ reply' = reply /\ opens' = opens
        /\ Execute \/ stored' = stored
    BY <1>3 DEF Lose
  <2>1. ASSUME NEW v \in Worker, v # w PROVE WorkerInv(v)'
    <3>1. pc'[v] = pc[v]
      BY <1>t, <1>3, <2>1 DEF Lose, Goto
    <3> QED BY <1>s, <2>0, <3>1, OthersKeep
  <2>2. pc'[w] = "lost"
    BY <1>t, <1>3 DEF Lose, Goto
  <2>3. WorkerInv(w)'
    BY <2>2 DEF WorkerInv
  <2> QED BY <1>s, <2>1, <2>3 DEF HeadersInv
<1>4. ASSUME NEW w \in Worker, Arrive(w) \/ Decide(w) \/ Report(w) \/ Respond(w)
      PROVE  HeadersInv'
  <2>0. clock' = clock /\ rule' = rule /\ stored' = stored
    BY <1>4 DEF Arrive, Decide, Report, Respond
  <2>1. ASSUME NEW v \in Worker, v # w PROVE WorkerInv(v)'
    <3>1. pc'[v] = pc[v] /\ reply'[v] = reply[v] /\ opens'[v] = opens[v]
      BY <1>t, <1>4, <2>1 DEF Arrive, Decide, Report, Respond, Goto
    <3> QED BY <1>s, <2>0, <3>1, OthersKeep
  <2>2. CASE Arrive(w) \/ Respond(w)
    <3>1. pc'[w] \in {"incr", "idle"}
      BY <1>t, <2>2 DEF Arrive, Respond, Goto
    <3>2. WorkerInv(w)'
      BY <3>1 DEF WorkerInv
    <3> QED BY <1>s, <2>1, <3>2 DEF HeadersInv
  <2>3. CASE Decide(w)
    <3>1. /\ pc[w] = "replied" /\ pc'[w] \in {"granted", "rejected"}
          /\ opens' = opens
      BY <1>t, <2>3 DEF Decide, Goto
    <3>2. WorkerInv(w)'
      BY <1>s, <2>0, <3>1 DEF WorkerInv
    <3> QED BY <1>s, <2>1, <3>2 DEF HeadersInv
  <2>4. CASE Report(w)
    <3>1. /\ pc[w] = "granted" /\ opens' = opens
          /\ pc'[w] = IF ViewFails THEN "broken" ELSE "reported"
      BY <1>t, <2>4 DEF Report, Goto
    <3>2. ASSUME ViewFails PROVE rule.algorithm = SimpleRate /\ opens[w] <= clock
      <4>1. rule.algorithm = SimpleRate /\ ~ Live
        BY <3>2 DEF ViewFails
      <4>2. opens[w] \in Nat
        BY <1>t
      <4>3. opens[w] > clock => FALSE
        BY <1>s, <3>1, <4>1 DEF WorkerInv, Live
      <4> QED BY <1>t, <4>1, <4>2, <4>3
    <3>3. WorkerInv(w)'
      BY <2>0, <3>1, <3>2 DEF WorkerInv
    <3> QED BY <1>s, <2>1, <3>3 DEF HeadersInv
  <2> QED BY <1>4, <2>2, <2>3, <2>4
<1>5. CASE UNCHANGED vars
  <2>1. \A v \in Worker : WorkerInv(v)'
    BY <1>s, <1>5, OthersKeep DEF vars
  <2> QED BY <1>s, <2>1 DEF HeadersInv
<1> QED BY <1>1, <1>2, <1>3, <1>4, <1>5 DEF Next

LEMMA HeadersImplied == HeadersInv => HeadersTruthful
<1> SUFFICES ASSUME HeadersInv, NEW w \in Worker
             PROVE  /\ pc[w] = "replied" /\ ~ reply[w].ok =>
                         /\ RetryAfter(w) >= 1
                         /\ clock + RetryAfter(w) * PerSecond + Slack(w) >= opens[w]
                         /\ \/ Remaining(rule, Shown(w)) = 0
                            \/ rule.algorithm = SimpleRate /\ HostSecond(w) >= reply[w].time
                    /\ pc[w] = "broken" => rule.algorithm = SimpleRate /\ opens[w] <= clock
  BY DEF HeadersTruthful
<1>r. /\ rule.max \in Nat \ {0} /\ rule.duration \in Nat \ {0} /\ clock \in Nat
      /\ PerSecond \in Nat \ {0} /\ Window \in Nat \ {0} /\ Ceiling \in Nat \ {0}
      /\ rule.algorithm = SimpleRate \/ rule.algorithm = LeakyBucket
  BY RuleFacts, CeilingFacts DEF HeadersInv, StoreInv
<1>w. WorkerInv(w) /\ reply[w] \in Reply /\ opens[w] \in Nat /\ Skew[w] \in Int
  BY ConstantsAssumption DEF HeadersInv, StoreInv, TypeOK
<1> DEFINE value == reply[w].value
           time == reply[w].time
           host == HostSecond(w)
           obj == [history |-> value, time |-> time]
           half == (PerSecond - 1) \div 2
           ahead == IF Skew[w] > 0 THEN Skew[w] ELSE 0
<1>v. value \in Nat /\ time \in Nat
  BY <1>w DEF Reply
<1>h. host \in Int /\ PerSecond * host <= clock + Skew[w]
  <2>1. clock + Skew[w] \in Int
    BY <1>r, <1>w
  <2> QED BY <1>r, <2>1, Division DEF HostSecond, Second
<1>f. half \in Nat
  <2>1. PerSecond - 1 \in Nat
    BY <1>r
  <2> QED BY <2>1, DivisionNat
<1>o. obj # None
  <2>1. obj \in CachedRateLimit
    BY <1>v DEF CachedRateLimit
  <2> QED BY <2>1, ConstantsAssumption
<1>s. Slack(w) = (PerSecond - 1) + half + ahead /\ ahead \in Nat /\ Skew[w] <= ahead
  BY <1>w DEF Slack
<1>1. ASSUME pc[w] = "replied", ~ reply[w].ok
      PROVE  /\ RetryAfter(w) >= 1
             /\ clock + RetryAfter(w) * PerSecond + Slack(w) >= opens[w]
             /\ \/ Remaining(rule, Shown(w)) = 0
                \/ rule.algorithm = SimpleRate /\ host >= time
  <2>0. RejectionFacts(w)
    BY <1>1, <1>w DEF WorkerInv
  <2>1. CASE rule.algorithm = SimpleRate
    <3>1. /\ value = rule.max
          /\ opens[w] <= PerSecond * time + (PerSecond - 1) + half
          /\ opens[w] <= clock + Window
      BY <2>0, <2>1 DEF RejectionFacts
    <3>2. Shown(w) = IF obj = None \/ obj.time <= host
                     THEN [history |-> 0, time |-> host + rule.duration]
                     ELSE obj
      BY <2>1 DEF Shown, Reported, SimplePrepared
    <3> HIDE DEF host, half, ahead
    <3>3. CASE time <= host
      <4>1. Shown(w) = [history |-> 0, time |-> host + rule.duration]
        BY <3>2, <3>3
      <4>2. RetryAfter(w) = rule.duration
        BY <1>r, <1>h, <2>1, <4>1 DEF RetryAfter, Reset, host
      <4> QED BY <1>r, <1>f, <1>h, <1>s, <1>v, <1>w, <2>1, <3>1, <3>3, <4>2 DEF Window
    <3>4. CASE ~ (time <= host)
      <4>1. Shown(w) = obj
        BY <1>o, <3>2, <3>4
      <4>2. RetryAfter(w) = time - host
        BY <2>1, <4>1 DEF RetryAfter, Reset, host
      <4>3. Remaining(rule, Shown(w)) = 0
        BY <1>r, <2>1, <3>1, <4>1 DEF Remaining
      <4>4. (time - host) * PerSecond = PerSecond * time - PerSecond * host
            /\ PerSecond * time \in Int /\ PerSecond * host \in Int
        BY <1>r, <1>h, <1>v
      <4>5. clock + (time - host) * PerSecond + Slack(w) >= opens[w]
        BY <1>r, <1>f, <1>h, <1>s, <1>w, <3>1, <4>4
      <4> HIDE DEF time
      <4> QED BY <1>h, <1>v, <3>4, <4>2, <4>3, <4>5
    <3> QED BY <3>3, <3>4
  <2>2. CASE rule.algorithm = LeakyBucket
    <3>1. /\ value <= rule.max * rule.duration
          /\ rule.max * rule.duration < value + rule.duration
          /\ opens[w] <= clock + Ceiling * PerSecond
      BY <2>0, <2>2 DEF RejectionFacts, SimpleRate, LeakyBucket
    <3>2. Shown(w) = obj
      BY <1>o, <2>2 DEF Shown, Reported, SimpleRate, LeakyBucket
    <3>3. RetryAfter(w) = Ceiling
      BY <2>2 DEF RetryAfter, Reset, SimpleRate, LeakyBucket, Ceiling
    <3>4. Remaining(rule, Shown(w)) = (rule.max * rule.duration - value) \div rule.duration
      BY <2>2, <3>2 DEF Remaining, SimpleRate, LeakyBucket
    <3> DEFINE room == rule.max * rule.duration - value
    <3>5. room \in Nat /\ room < rule.duration
      <4>1. rule.max * rule.duration \in Nat
        BY <1>r
      <4> HIDE DEF value
      <4> QED BY <1>r, <1>v, <3>1, <4>1
    <3> HIDE DEF room
    <3>6. room \div rule.duration = 0
      BY <1>r, <3>5
    <3>7. Ceiling * PerSecond \in Int
      BY <1>r
    <3> HIDE DEF half, ahead, Ceiling
    <3>8. clock + Ceiling * PerSecond + Slack(w) >= opens[w]
      BY <1>r, <1>f, <1>s, <1>w, <3>1, <3>7
    <3> QED BY <1>r, <3>3, <3>4, <3>6, <3>8 DEF room
  <2> QED BY <1>r, <2>1, <2>2
<1>2. pc[w] = "broken" => rule.algorithm = SimpleRate /\ opens[w] <= clock
  BY <1>w DEF WorkerInv
<1> QED BY <1>1, <1>2

LEMMA HeadersInit == Init => HeadersInv
BY StoreInit DEF Init, HeadersInv, WorkerInv

(* Whoever rounds and however far its clock is off: the headers of a       *)
(* rejection are early by the slack at most, and a report fails only after *)
(* the window of its request.                                              *)
THEOREM HeadersTruthfulHolds == Spec => []HeadersTruthful
BY HeadersInit, HeadersStep, HeadersImplied, PTL DEF Spec
=============================================================================
