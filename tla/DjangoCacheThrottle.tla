------------------------ MODULE DjangoCacheThrottle ------------------------
(***************************************************************************)
(* Throttling of requests through a Django cache: SyncThrottle and         *)
(* AsyncThrottle (dmr/throttling/base.py) over the SyncDjangoCache and     *)
(* AsyncDjangoCache backends (dmr/throttling/backends/django_cache.py).    *)
(*                                                                         *)
(* A worker is a thread or a task that serves one request at a time. It    *)
(* goes through the throttles of its endpoint in order; each takes the     *)
(* lock of the Endpoint object, reads the cached object, decides, writes   *)
(* the charged object back and releases the lock. Reading and writing are  *)
(* two calls to the cache, with time passing and other workers running in  *)
(* between. A second process is a second set of Endpoint objects that      *)
(* carry the same operation ids (the cache may be shared, a lock is not).  *)
(***************************************************************************)
EXTENDS ThrottleAlgorithms, Naturals

CONSTANTS
  Worker,       \* threads or tasks that serve requests
  Endpoint,     \* Endpoint objects: each has its own lock
  Client,       \* who sends requests
  OperationId,  \* [Endpoint -> id]: metadata.operation_id, None by default
  Method,       \* [Endpoint -> method]: metadata.method
  NumRules,     \* number of throttles of an endpoint
  Rule,         \* [1..NumRules -> [algorithm, max, duration]]
  CacheKey,     \* [1..NumRules -> [Client -> key value or None]]
  MaxClock      \* bound: the last second of the modelled time

Time == 0 .. MaxClock
RuleIndex == 1 .. NumRules
RuleType == [algorithm: Algorithms, max: Nat \ {0}, duration: Nat \ {0}]

(* max_requests and duration_in_seconds are positive in every use; None is *)
(* not a worker and not a cached object.                                   *)
ASSUME ConstantsAssumption ==
  /\ NumRules \in Nat \ {0}
  /\ MaxClock \in Nat
  /\ Rule \in [RuleIndex -> RuleType]
  /\ None \notin Worker
  /\ None \notin [history: Int, time: Int]
  /\ None \notin [history: Int, time: Int, expires: Int]

VARIABLES
  clock,     \* int(time.time()), one clock for the processes and the cache
  cache,     \* [Key -> stored object with its expiry time, or None]
  lock,      \* [Endpoint -> the worker that holds its lock, or None]
  pc,        \* [Worker -> where the worker is in SyncThrottle.__call__]
  req,       \* [Worker -> its request: endpoint, client, rule, decision time]
  seen,      \* [Worker -> cache_object, the local variable of incr()]
  admitted,  \* history: [Key -> [Time -> requests admitted at or after it]]
  charged    \* history: [Endpoint -> [Key -> charges stored, up to max]]

vars == <<clock, cache, lock, pc, req, seen, admitted, charged>>

(* _BaseThrottle.full_cache_key: operation id, method, algorithm, key      *)
(* value, max and duration (the backend and key class names are fixed).    *)
FullCacheKey(e, i, value) ==
  [operation_id |-> OperationId[e], method |-> Method[e], value |-> value,
   algorithm |-> Rule[i].algorithm, max |-> Rule[i].max,
   duration |-> Rule[i].duration]

Key == {FullCacheKey(e, i, CacheKey[i][c]) :
          e \in Endpoint, i \in RuleIndex, c \in Client}

ASSUME KeyAssumption == None \notin Key

KeyValue(w) == CacheKey[req[w].rule][req[w].client]
RuleOf(w) == Rule[req[w].rule]
KeyOf(w) == FullCacheKey(req[w].endpoint, req[w].rule, KeyValue(w))

Entry == [history: Int, time: Int, expires: Int]
PC == {"idle", "check", "locked", "fetched", "store",
       "admitted", "rejected", "failed"}
Request == [endpoint: Endpoint, client: Client, rule: Nat \ {0}, now: Time]

TypeOK ==
  /\ clock \in Time
  /\ cache \in [Key -> Entry \cup {None}]
  /\ lock \in [Endpoint -> Worker \cup {None}]
  /\ pc \in [Worker -> PC]
  /\ req \in [Worker -> Request \cup {None}]
  /\ seen \in [Worker -> CachedRateLimit \cup {None}]
  /\ admitted \in [Key -> [Time -> Nat]]
  /\ charged \in [Endpoint -> [Key -> Nat]]

Init ==
  /\ clock = 0
  /\ cache = [k \in Key |-> None]
  /\ lock = [e \in Endpoint |-> None]
  /\ pc = [w \in Worker |-> "idle"]
  /\ req = [w \in Worker |-> None]
  /\ seen = [w \in Worker |-> None]
  /\ admitted = [k \in Key |-> [s \in Time |-> 0]]
  /\ charged = [e \in Endpoint |-> [k \in Key |-> 0]]

-----------------------------------------------------------------------------
(* A request arrives: Endpoint.__call__ starts with the first throttle.    *)
Arrive(w) ==
  /\ pc[w] = "idle"
  /\ \E e \in Endpoint, c \in Client :
       req' = [req EXCEPT ![w] =
                 [endpoint |-> e, client |-> c, rule |-> 1, now |-> 0]]
  /\ pc' = [pc EXCEPT ![w] = "check"]
  /\ UNCHANGED <<clock, cache, lock, seen, admitted, charged>>

(* No cache key (a superuser, say): this throttle does not apply.          *)
Skip(w) ==
  /\ pc[w] = "check"
  /\ req[w].rule <= NumRules
  /\ KeyValue(w) = None
  /\ req' = [req EXCEPT ![w].rule = @ + 1]
  /\ UNCHANGED <<clock, cache, lock, pc, seen, admitted, charged>>

(* The last throttle let the request through.                              *)
Pass(w) ==
  /\ pc[w] = "check"
  /\ req[w].rule > NumRules
  /\ pc' = [pc EXCEPT ![w] = "admitted"]
  /\ UNCHANGED <<clock, cache, lock, req, seen, admitted, charged>>

AcquireUnlocked(w) ==  \* fault: the lock is not taken
  /\ pc[w] = "check"
  /\ req[w].rule <= NumRules
  /\ KeyValue(w) # None
  /\ pc' = [pc EXCEPT ![w] = "locked"]
  /\ UNCHANGED <<clock, cache, lock, req, seen, admitted, charged>>

(* with lock / async with lock: the lock of the request's Endpoint object. *)
Acquire(w) ==
  /\ pc[w] = "check"
  /\ req[w].rule <= NumRules
  /\ KeyValue(w) # None
  /\ lock[req[w].endpoint] = None
  /\ lock' = [lock EXCEPT ![req[w].endpoint] = w]
  /\ pc' = [pc EXCEPT ![w] = "locked"]
  /\ UNCHANGED <<clock, cache, req, seen, admitted, charged>>

LiveEntry(entry) ==  \* fault: the stored entry is not unpacked
  IF entry = None \/ entry.expires <= clock THEN None ELSE entry

(* What the cache answers: an expired entry is as good as none.            *)
Live(entry) ==
  IF entry = None \/ entry.expires <= clock
  THEN None
  ELSE [history |-> entry.history, time |-> entry.time]

(* _DjangoCache.get: the cached object becomes a local variable.           *)
Get(w) ==
  /\ pc[w] = "locked"
  /\ seen' = [seen EXCEPT ![w] = Live(cache[KeyOf(w)])]
  /\ pc' = [pc EXCEPT ![w] = "fetched"]
  /\ UNCHANGED <<clock, cache, lock, req, admitted, charged>>

Release(w) == lock' = [lock EXCEPT ![req[w].endpoint] = None]

(* algorithm.access() returns the object to store. It reads the time       *)
(* itself, after the cache has answered.                                   *)
Grant(w) ==
  /\ pc[w] = "fetched"
  /\ LET obj == Prepared(RuleOf(w), seen[w], clock)
     IN  /\ Admits(RuleOf(w), obj)
         /\ seen' = [seen EXCEPT ![w] = Charged(RuleOf(w), obj)]
  /\ req' = [req EXCEPT ![w].now = clock]
  /\ pc' = [pc EXCEPT ![w] = "store"]
  /\ UNCHANGED <<clock, cache, lock, admitted, charged>>

RejectLocked(w) ==  \* fault: the error path keeps the lock
  /\ pc[w] = "fetched"
  /\ ~ Admits(RuleOf(w), Prepared(RuleOf(w), seen[w], clock))
  /\ seen' = [seen EXCEPT ![w] = None]
  /\ pc' = [pc EXCEPT ![w] = "rejected"]
  /\ UNCHANGED <<clock, cache, lock, req, admitted, charged>>

(* algorithm.access() raises TooManyRequestsError: nothing is stored.      *)
Reject(w) ==
  /\ pc[w] = "fetched"
  /\ ~ Admits(RuleOf(w), Prepared(RuleOf(w), seen[w], clock))
  /\ Release(w)
  /\ seen' = [seen EXCEPT ![w] = None]
  /\ pc' = [pc EXCEPT ![w] = "rejected"]
  /\ UNCHANGED <<clock, cache, req, admitted, charged>>

WriteShort(w) ==  \* fault: the timeout of the entry is one second short
  /\ cache' = [cache EXCEPT ![KeyOf(w)] =
                 [history |-> seen[w].history, time |-> seen[w].time,
                  expires |-> clock + RuleOf(w).duration - 1]]
  /\ charged' = [charged EXCEPT ![req[w].endpoint][KeyOf(w)] =
                   IF @ < RuleOf(w).max THEN @ + 1 ELSE @]

(* _DjangoCache._set: the entry lives for one duration from now on.        *)
Write(w) ==
  /\ cache' = [cache EXCEPT ![KeyOf(w)] =
                 [history |-> seen[w].history, time |-> seen[w].time,
                  expires |-> clock + RuleOf(w).duration]]
  /\ charged' = [charged EXCEPT ![req[w].endpoint][KeyOf(w)] =
                   IF @ < RuleOf(w).max THEN @ + 1 ELSE @]

(* One more request was admitted at second t.                              *)
Counted(since, t) == [s \in Time |-> IF s <= t THEN since[s] + 1 ELSE since[s]]

Store(w) ==
  /\ pc[w] = "store"
  /\ Write(w)
  /\ admitted' = [admitted EXCEPT ![KeyOf(w)] = Counted(@, req[w].now)]
  /\ Release(w)
  /\ seen' = [seen EXCEPT ![w] = None]
  /\ req' = [req EXCEPT ![w].rule = @ + 1, ![w].now = 0]
  /\ pc' = [pc EXCEPT ![w] = "check"]
  /\ UNCHANGED clock

(* The cache raises, or the task is cancelled, while it waits for the lock *)
(* or for the cache: the context manager releases the lock it holds. A     *)
(* failing write may or may not have reached the cache.                    *)
FailWaiting(w) ==
  /\ pc[w] = "check"
  /\ pc' = [pc EXCEPT ![w] = "failed"]
  /\ UNCHANGED <<clock, cache, lock, req, seen, admitted, charged>>

FailGet(w) ==
  /\ pc[w] = "locked"
  /\ Release(w)
  /\ pc' = [pc EXCEPT ![w] = "failed"]
  /\ UNCHANGED <<clock, cache, req, seen, admitted, charged>>

FailStore(w) ==
  /\ pc[w] = "store"
  /\ Write(w) \/ UNCHANGED <<cache, charged>>
  /\ Release(w)
  /\ seen' = [seen EXCEPT ![w] = None]
  /\ pc' = [pc EXCEPT ![w] = "failed"]
  /\ UNCHANGED <<clock, req, admitted>>

(* The response is sent; the worker is free for another request.           *)
Respond(w) ==
  /\ pc[w] \in {"admitted", "rejected", "failed"}
  /\ req' = [req EXCEPT ![w] = None]
  /\ pc' = [pc EXCEPT ![w] = "idle"]
  /\ UNCHANGED <<clock, cache, lock, seen, admitted, charged>>

Tick ==
  /\ clock < MaxClock
  /\ clock' = clock + 1
  /\ UNCHANGED <<cache, lock, pc, req, seen, admitted, charged>>

(* What a scheduled worker does by itself, once its request is there.      *)
Advance(w) ==
  Skip(w) \/ Pass(w) \/ Get(w) \/ Grant(w) \/ Reject(w) \/ Store(w)

Fail(w) == FailWaiting(w) \/ FailGet(w) \/ FailStore(w)

Next ==
  \/ Tick
  \/ \E w \in Worker :
       Arrive(w) \/ Acquire(w) \/ Advance(w) \/ Fail(w) \/ Respond(w)

Spec == Init /\ [][Next]_vars

(* Threads and tasks are scheduled and the cache answers, with a result or *)
(* an error. A waiter is not passed over for ever: asyncio.Lock wakes its  *)
(* waiters in order, and threading.Lock is assumed not to starve one.      *)
Fairness ==
  \A w \in Worker : WF_vars(Advance(w)) /\ SF_vars(Acquire(w))

FairSpec == Spec /\ Fairness

-----------------------------------------------------------------------------
(* Two Endpoint objects never share a cache key: "this must ensure that    *)
(* endpoint key is unique" (base.py:145). True when operation ids are set  *)
(* and there is one process; with the default None it depends on methods.  *)
UniqueKeys ==
  \A e, f \in Endpoint :
    OperationId[e] = OperationId[f] /\ Method[e] = Method[f] => e = f

(* Within the window that the stored object describes, no more requests    *)
(* were admitted than the object counts, and no more than max: no update   *)
(* of the counter is lost between get and set.                             *)
WindowQuota ==
  \A k \in Key :
    k.algorithm = SimpleRate /\ cache[k] # None =>
      LET opened == cache[k].time - k.duration
      IN  /\ admitted[k][opened] <= cache[k].history
          /\ cache[k].history <= k.max

(* A fixed window allows the documented boundary burst and no more: fewer  *)
(* than duration seconds never see more than 2 * max requests.             *)
BurstBound ==
  \A k \in Key, s \in Time :
    k.algorithm = SimpleRate /\ clock < s + k.duration =>
      admitted[k][s] <= 2 * k.max

(* A leaky bucket admits at most max requests at once and then max per     *)
(* duration, over every interval, wherever it starts: max + t * max / d.   *)
LeakyBound ==
  \A k \in Key, s \in Time :
    k.algorithm = LeakyBucket /\ s <= clock =>
      k.duration * admitted[k][s] <= k.max * (k.duration + clock - s)

(* Retry-After is enough: a client that is rejected now and alone is       *)
(* admitted when it comes back after the reported seconds, and it is told  *)
(* to wait at least one.                                                   *)
RetryAfterSuffices ==
  \A k \in Key :
    LET obj == Prepared(k, Live(cache[k]), clock)
        wait == Reset(k, obj, clock)
    IN  ~ Admits(k, obj) =>
          /\ wait >= 1
          /\ Admits(k, Prepared(k, Live(cache[k]), clock + wait))

(* X-RateLimit-Remaining never promises too much: as many requests as it   *)
(* reports would be admitted right now, one after the other.               *)
RemainingHonest ==
  \A k \in Key :
    LET left == Remaining(k, Reported(k, Live(cache[k]), clock))
        obj == Prepared(k, Live(cache[k]), clock)
    IN  /\ left >= 0
        /\ left > 0 => Admits(k, [obj EXCEPT !.history = @ + (left - 1) * Cost(k)])

(* A request is rejected only after max charges of its own endpoint: the   *)
(* traffic of another endpoint never uses up the quota of this one.        *)
RejectedByOwnTraffic ==
  \A w \in Worker :
    pc[w] = "rejected" =>
      charged[req[w].endpoint][KeyOf(w)] >= RuleOf(w).max

(* What AtomicThrottle calls the object of a key, the answer to a request  *)
(* and the key that it asks: a stored entry counts even if it has expired. *)
Unpacked(entry) ==
  IF entry = None THEN None ELSE [history |-> entry.history, time |-> entry.time]

Waiting == {"check", "locked", "fetched", "store"}

Applies(w) ==
  pc[w] \in Waiting /\ req[w].rule <= NumRules /\ KeyValue(w) # None

Object == [k \in Key |-> Unpacked(cache[k])]
Answer == [w \in Worker |-> IF pc[w] \in Waiting THEN "waiting" ELSE pc[w]]
Asks == [w \in Worker |-> IF Applies(w) THEN KeyOf(w) ELSE None]

ABS == INSTANCE AtomicThrottle
         WITH object <- Object, answer <- Answer, asks <- Asks

(* The lock makes get, decide and set one step, and the timeout given to   *)
(* the cache never decides anything: whatever the workers do in between,   *)
(* requests are admitted and rejected as by a throttle without a lock and  *)
(* without expiry (SyncThrottle.__call__, _DjangoCache._set).              *)
Atomic == ABS!ThrottleSpec

(* Every request gets its answer: no path keeps the lock.                  *)
Answered ==
  \A w \in Worker :
    pc[w] = "check" ~> pc[w] \in {"admitted", "rejected", "failed"}
=============================================================================
