--------------------------- MODULE JwtAuth_proofs ---------------------------
(***************************************************************************)
(* Proofs about JwtAuth, for every number of requests and users, every     *)
(* foreign token, every option of the auth and every length of the run.    *)
(***************************************************************************)
EXTENDS JwtAuth, TLAPS

(* What a request carries while it is under way.                           *)
Bears(r) ==
  /\ req[r] \in Arrival
  /\ req[r].at <= clock
  /\ req[r].kind # "obtain" =>
       req[r].token \in Token /\ req[r].sub = req[r].token.sub
  /\ req[r].kind = "obtain" =>
       pc[r] \in {"issue", "done", "refused"} /\ late[r] = {}
  /\ pc[r] \in {"handle", "get", "create", "reget", "created", "known"} =>
       req[r].kind = "logout"

TypeInv ==
  /\ TypeOK
  /\ \A r \in Request : IF pc[r] = "idle" THEN late[r] = {} ELSE Bears(r)

(* The reasons for which a late token is out are still true ...            *)
Standing(r) ==
  /\ "unsigned" \in late[r] => ~ TokenOf(r).signed
  /\ "expired" \in late[r] => TokenOf(r).exp + OptionsFor(r).leeway < clock
  /\ "mistyped" \in late[r] => Mistyped(req[r].kind, TokenOf(r))
  /\ "nobody" \in late[r] => ~ Exists(req[r].sub)
  /\ "inactive" \in late[r] => req[r].sub \in User /\ status[req[r].sub] # "active"
  /\ "blocklisted" \in late[r] => req[r].kind \in Guarded /\ TokenOf(r).jti \in blocked

(* ... and the steps that have been taken would have seen them.            *)
Passed(r) ==
  /\ pc[r] \in {"construct", "lookup", "check"} => "unsigned" \notin late[r]
  /\ pc[r] \in {"lookup", "check"} => "expired" \notin late[r] /\ "mistyped" \notin late[r]
  /\ pc[r] = "check" => "nobody" \notin late[r] /\ ("inactive" \in late[r] => ~ seen[r])
  /\ pc[r] \in Through => late[r] = {}

DeadInv ==
  /\ TypeInv
  /\ \A r \in Request : pc[r] # "idle" => Standing(r) /\ Passed(r)

(* Who has been let in, and why the insert of its jti has failed.          *)
Reached(r) ==
  /\ pc[r] \in {"idle", "decode", "construct"} => ~ seen[r]
  /\ pc[r] = "reget" => TokenOf(r).jti \in blocked \/ Unstorable(r)

Excused(r) ==
  pc[r] = "failed" /\ seen[r] => req[r].kind = "logout" /\ Unstorable(r)

FailInv ==
  /\ TypeInv
  /\ \A r \in Request : Reached(r) /\ Excused(r)

-----------------------------------------------------------------------------
LEMMA IssuedType ==
  ASSUME TypeInv, pairs < MaxPairs, NEW u \in User \cup {Empty, None},
         NEW type \in {"access", "refresh"}, NEW life \in Nat, NEW skew \in Nat
  PROVE  Issued(u, type, life, skew) \in Token
<1>1. pairs + 1 \in Pair
  BY ConstantsAssumption DEF TypeInv, TypeOK, Pair
<1>3. <<pairs + 1, type>> \in Jti
  BY <1>1 DEF Jti
<1>2. clock + skew + life \in Int /\ clock + skew \in Int
  BY DEF TypeInv, TypeOK, Time
<1> QED BY <1>2, <1>3 DEF Issued, Token

LEMMA TypeInit == Init => TypeInv
<1> SUFFICES ASSUME Init PROVE TypeInv
  OBVIOUS
<1>1. Foreign \subseteq Token
  BY ConstantsAssumption DEF Token, Jti
<1> QED BY <1>1, ConstantsAssumption DEF Init, TypeInv, TypeOK, Time, Status, PC

(* A step of one request that only moves pc and seen.                      *)
LEMMA MoveType ==
  ASSUME TypeInv, NEW r \in Request, pc[r] # "idle",
         NEW next \in PC \ {"idle"}, pc' = [pc EXCEPT ![r] = next],
         UNCHANGED <<clock, status, req, late, lifted>>,
         issued' \subseteq Token, pairs' \in 0 .. MaxPairs,
         blocked' \subseteq Jti \ {None},
         seen' \in [Request -> BOOLEAN],
         req[r].kind = "obtain" => next \in {"issue", "done", "refused"},
         next \in {"handle", "get", "create", "reget", "created", "known"} =>
           req[r].kind = "logout"
  PROVE  TypeInv'
<1> USE DEF TypeInv, TypeOK
<1>1. TypeOK'
  OBVIOUS
<1>2. ASSUME NEW s \in Request
      PROVE  IF pc'[s] = "idle" THEN late'[s] = {} ELSE Bears(s)'
  <2>1. CASE s = r
    BY <2>1 DEF Bears
  <2>2. CASE s # r
    BY <2>2 DEF Bears
  <2> QED BY <2>1, <2>2
<1> QED BY <1>1, <1>2

LEMMA TypeStep == TypeInv /\ [Next]_vars => TypeInv'
<1> SUFFICES ASSUME TypeInv, [Next]_vars PROVE TypeInv'
  OBVIOUS
<1> USE DEF world, Goto
<1>a. /\ \A r \in Request : pc[r] \in PC /\ (pc[r] # "idle" => Bears(r))
      /\ \A r \in Request : pc[r] = "idle" => late[r] = {}
      /\ issued \subseteq Token /\ pairs \in 0 .. MaxPairs
      /\ blocked \subseteq Jti \ {None} /\ seen \in [Request -> BOOLEAN]
      /\ pc \in [Request -> PC] /\ clock \in Time
  BY DEF TypeInv, TypeOK
<1>1. ASSUME NEW r \in Request, Receive(r) PROVE TypeInv'
  <2>1. PICK kind \in Kind \ {"obtain"}, t \in issued :
          /\ req' = [req EXCEPT ![r] = [kind |-> kind, token |-> t,
                                        sub |-> t.sub, at |-> clock]]
          /\ late' = [late EXCEPT ![r] = DeadBecause(kind, t)]
    BY <1>1 DEF Receive
  <2>2. t \in Token /\ t.sub \in User \cup {Empty, None}
    BY <1>a DEF Token
  <2>3. [kind |-> kind, token |-> t, sub |-> t.sub, at |-> clock] \in Arrival
    BY <1>a, <2>2 DEF Arrival
  <2>4. DeadBecause(kind, t) \subseteq Reason
    BY DEF DeadBecause
  <2>5. "decode" \in PC
    BY DEF PC
  <2>6. TypeOK'
    BY <1>1, <2>1, <2>3, <2>4, <2>5 DEF Receive, TypeInv, TypeOK
  <2>7. ASSUME NEW s \in Request
      PROVE  IF pc'[s] = "idle" THEN late'[s] = {} ELSE Bears(s)'
    <3>1. CASE s = r
      BY <1>a, <1>1, <2>1, <2>2, <2>3, <3>1 DEF Receive, Bears, TypeInv, TypeOK, Time
    <3>2. CASE s # r
      BY <1>1, <2>1, <3>2 DEF Receive, Bears, TypeInv, TypeOK
    <3> QED BY <3>1, <3>2
  <2> QED BY <2>6, <2>7 DEF TypeInv
<1>2. ASSUME NEW r \in Request, Login(r) PROVE TypeInv'
  <2>1. PICK u \in User :
          /\ req' = [req EXCEPT ![r] = [kind |-> "obtain", token |-> None,
                                        sub |-> u, at |-> clock]]
          /\ pc' = [pc EXCEPT ![r] = IF status[u] = "active" THEN "issue" ELSE "refused"]
    BY <1>2 DEF Login
  <2>2. [kind |-> "obtain", token |-> None, sub |-> u, at |-> clock] \in Arrival
    BY <1>a DEF Arrival, Kind
  <2>3. {"issue", "refused"} \subseteq PC
    BY DEF PC
  <2>4. TypeOK'
    BY <1>2, <2>1, <2>2, <2>3 DEF Login, TypeInv, TypeOK
  <2>5. ASSUME NEW s \in Request
      PROVE  IF pc'[s] = "idle" THEN late'[s] = {} ELSE Bears(s)'
    <3>1. CASE s = r
      BY <1>a, <1>2, <2>1, <2>2, <3>1 DEF Login, Bears, TypeInv, TypeOK, Time
    <3>2. CASE s # r
      BY <1>2, <2>1, <3>2 DEF Login, Bears, TypeInv, TypeOK
    <3> QED BY <3>1, <3>2
  <2> QED BY <2>4, <2>5 DEF TypeInv
<1>3. ASSUME NEW r \in Request, Decode(r) PROVE TypeInv'
  <2>1. PICK next \in {"refused", "construct"} : pc' = [pc EXCEPT ![r] = next]
    BY <1>3 DEF Decode
  <2>5. pc[r] # "idle" /\ req[r].kind # "obtain"
    BY <1>a, <1>3 DEF Decode, Bears
  <2> QED BY <1>a, <1>3, <2>1, <2>5, MoveType DEF Decode, PC
<1>4. ASSUME NEW r \in Request, Construct(r) PROVE TypeInv'
  <2>1. PICK next \in {"failed", "refused", "lookup"} : pc' = [pc EXCEPT ![r] = next]
    BY <1>4 DEF Construct
  <2>5. pc[r] # "idle" /\ req[r].kind # "obtain"
    BY <1>a, <1>4 DEF Construct, Bears
  <2> QED BY <1>a, <1>4, <2>1, <2>5, MoveType DEF Construct, PC
<1>5. ASSUME NEW r \in Request, GetUser(r) PROVE TypeInv'
  <2>1. PICK next \in {"check", "refused"} : pc' = [pc EXCEPT ![r] = next]
    BY <1>5 DEF GetUser
  <2>5. pc[r] # "idle" /\ req[r].kind # "obtain"
    BY <1>a, <1>5 DEF GetUser, Bears
  <2> QED BY <1>a, <1>5, <2>1, <2>5, MoveType, ZenonT(60) DEF GetUser, PC
<1>6. ASSUME NEW r \in Request, Check(r) PROVE TypeInv'
  <2>1. PICK next \in {"refused", After(req[r].kind)} : pc' = [pc EXCEPT ![r] = next]
    BY <1>6 DEF Check
  <2>2. req[r].kind \in Kind /\ req[r].kind # "obtain"
    BY <1>a, <1>6 DEF Check, Bears, Arrival
  <2>3. /\ next \in {"handle", "issue", "done", "refused"}
        /\ next = "handle" => req[r].kind = "logout"
    BY <2>1, <2>2 DEF After, Kind, Guarded
  <2> QED BY <1>a, <1>6, <2>1, <2>2, <2>3, MoveType DEF Check, PC
<1>7. ASSUME NEW r \in Request, Owner(r) PROVE TypeInv'
  <2>1. PICK next \in {"get", "refused"} : pc' = [pc EXCEPT ![r] = next]
    BY <1>7 DEF Owner
  <2>5. pc[r] # "idle" /\ req[r].kind = "logout"
    BY <1>a, <1>7 DEF Owner, Bears
  <2> QED BY <1>a, <1>7, <2>1, <2>5, MoveType DEF Owner, PC
<1>8. ASSUME NEW r \in Request, GetEntry(r) PROVE TypeInv'
  <2>1. PICK next \in {"known", "create"} : pc' = [pc EXCEPT ![r] = next]
    BY <1>8 DEF GetEntry
  <2>5. pc[r] # "idle" /\ req[r].kind = "logout"
    BY <1>a, <1>8 DEF GetEntry, Bears
  <2> QED BY <1>a, <1>8, <2>1, <2>5, MoveType DEF GetEntry, PC
<1>9. ASSUME NEW r \in Request, CreateEntry(r) PROVE TypeInv'
  <2>1. req[r].kind = "logout" /\ TokenOf(r) \in Token
    BY <1>a, <1>9 DEF CreateEntry, Bears, TokenOf
  <2>2. TokenOf(r).jti \in Jti
    BY <2>1 DEF Token
  <2>3. PICK next \in {"created", "reget"} : pc' = [pc EXCEPT ![r] = next]
    BY <1>9 DEF CreateEntry
  <2>4. blocked' \subseteq Jti \ {None}
    BY <1>a, <1>9, <2>2 DEF CreateEntry, Insertable
  <2> QED BY <1>a, <1>9, <2>1, <2>3, <2>4, MoveType DEF CreateEntry, PC
<1>10. ASSUME NEW r \in Request, GetAgain(r) PROVE TypeInv'
  <2>1. PICK next \in {"known", "failed"} : pc' = [pc EXCEPT ![r] = next]
    BY <1>10 DEF GetAgain
  <2>5. pc[r] # "idle" /\ req[r].kind = "logout"
    BY <1>a, <1>10 DEF GetAgain, Bears
  <2> QED BY <1>a, <1>10, <2>1, <2>5, MoveType DEF GetAgain, PC
<1>11. ASSUME NEW r \in Request, IssuePair(r) PROVE TypeInv'
  <2>1. PICK skew \in Skews :
          issued' = issued \cup {Issued(req[r].sub, "access", AccessLife, skew),
                                 Issued(req[r].sub, "refresh", RefreshLife, skew)}
    BY <1>11 DEF IssuePair
  <2>2. req[r].sub \in User \cup {Empty, None}
    BY <1>a, <1>11 DEF IssuePair, Bears, Arrival
  <2>3. AccessLife \in Nat /\ RefreshLife \in Nat /\ skew \in Nat
    BY ConstantsAssumption
  <2>6. pairs < MaxPairs
    BY <1>11 DEF IssuePair
  <2>7. /\ Issued(req[r].sub, "access", AccessLife, skew) \in Token
        /\ Issued(req[r].sub, "refresh", RefreshLife, skew) \in Token
    BY <2>2, <2>3, <2>6, IssuedType
  <2>4. issued' \subseteq Token
    BY <1>a, <2>1, <2>7
  <2>5. pairs' \in 0 .. MaxPairs
    BY <1>a, <1>11, ConstantsAssumption, SMTT(30) DEF IssuePair
  <2> QED BY <1>a, <1>11, <2>4, <2>5, MoveType DEF IssuePair, PC, Bears
<1>12. ASSUME NEW r \in Request, Respond(r) PROVE TypeInv'
  <2>1. TypeOK'
    BY <1>12 DEF Respond, TypeInv, TypeOK, PC
  <2>2. ASSUME NEW s \in Request
      PROVE  IF pc'[s] = "idle" THEN late'[s] = {} ELSE Bears(s)'
    <3>1. s = r => pc'[s] = "idle" /\ late'[s] = {}
      BY <1>12 DEF Respond, TypeInv, TypeOK
    <3> QED BY <1>12, <3>1 DEF Respond, Bears, TypeInv, TypeOK
  <2> QED BY <2>1, <2>2 DEF TypeInv
<1>13. ASSUME NEW u \in User, NEW value \in Status, SetStatus(u, value) PROVE TypeInv'
  <2>1. TypeOK'
    BY <1>13 DEF SetStatus, TypeInv, TypeOK
  <2>2. ASSUME NEW s \in Request
      PROVE  IF pc'[s] = "idle" THEN late'[s] = {} ELSE Bears(s)'
    BY <1>13 DEF SetStatus, Bears, TypeInv, TypeOK
  <2> QED BY <2>1, <2>2 DEF TypeInv
<1>14. ASSUME NEW j \in Jti, Unblock(j) PROVE TypeInv'
  <2>1. TypeOK'
    BY <1>14 DEF Unblock, TypeInv, TypeOK
  <2>2. ASSUME NEW s \in Request
      PROVE  IF pc'[s] = "idle" THEN late'[s] = {} ELSE Bears(s)'
    BY <1>14 DEF Unblock, Bears, TypeInv, TypeOK
  <2> QED BY <2>1, <2>2 DEF TypeInv
<1>15. CASE Tick
  <2>1. TypeOK'
    BY <1>15, ConstantsAssumption DEF Tick, TypeInv, TypeOK, Time
  <2>2. ASSUME NEW s \in Request
      PROVE  IF pc'[s] = "idle" THEN late'[s] = {} ELSE Bears(s)'
    <3>1. pc[s] # "idle" => req[s].at \in Int
      BY <1>a DEF Bears, Arrival, Time
    <3> QED BY <1>15, <3>1 DEF Tick, Bears, TypeInv, TypeOK, Time
  <2> QED BY <2>1, <2>2 DEF TypeInv
<1>16. CASE UNCHANGED vars
  BY <1>16 DEF vars, TypeInv, TypeOK, Bears
<1> QED
  BY <1>1, <1>2, <1>3, <1>4, <1>5, <1>6, <1>7, <1>8, <1>9, <1>10, <1>11,
     <1>12, <1>13, <1>14, <1>15, <1>16 DEF Next, Step

(* TypeOK holds in every run, whatever the constants are.                  *)
THEOREM TypeCorrect == Spec => []TypeOK
<1>1. TypeInv => TypeOK
  BY DEF TypeInv
<1> QED BY <1>1, TypeInit, TypeStep, PTL DEF Spec
-----------------------------------------------------------------------------
(* A request that does not move keeps what is known about it.              *)
LEMMA Frame ==
  ASSUME TypeInv, NEW s \in Request, pc[s] # "idle", Standing(s), Passed(s),
         pc'[s] = pc[s], req'[s] = req[s], seen'[s] = seen[s],
         late'[s] \subseteq late[s], clock' \in Time, clock <= clock',
         \A u \in User : status[u] = "deleted" => status'[u] = "deleted",
         "inactive" \in late'[s] => status'[req[s].sub] # "active",
         "blocklisted" \in late'[s] => TokenOf(s).jti \in blocked'
  PROVE  Standing(s)' /\ Passed(s)'
<1> USE DEF TokenOf, OptionsFor
<1>1. Passed(s)'
  BY DEF Passed
<1>2. ~ Exists(req[s].sub) => ~ Exists(req[s].sub)'
  BY DEF Exists
<1>3. "expired" \in late'[s] => (TokenOf(s).exp + OptionsFor(s).leeway < clock)'
  <2>1. SUFFICES ASSUME "expired" \in late'[s]
        PROVE  (TokenOf(s).exp + OptionsFor(s).leeway < clock)'
    OBVIOUS
  <2>2. late[s] # {} /\ req[s].token \in Token /\ req[s].kind # "obtain"
    BY <2>1 DEF TypeInv, Bears
  <2>3. TokenOf(s).exp \in Int /\ OptionsFor(s).leeway \in Int /\ clock \in Int /\ clock' \in Int
    BY <2>2, ConstantsAssumption DEF OptionsOf, Token, Options, TypeInv, TypeOK, Time
  <2>4. TokenOf(s).exp + OptionsFor(s).leeway < clock
    BY <2>1 DEF Standing
  <2>5. TokenOf(s)' = TokenOf(s) /\ OptionsFor(s)' = OptionsFor(s)
    OBVIOUS
  <2> HIDE DEF TokenOf, OptionsFor
  <2> QED BY <2>3, <2>4, <2>5
<1>4. Standing(s)'
  BY <1>2, <1>3 DEF Standing
<1> QED BY <1>1, <1>4

LEMMA DeadInit == Init => DeadInv
BY TypeInit DEF Init, DeadInv

LEMMA DeadStep == DeadInv /\ [Next]_vars => DeadInv'
<1> SUFFICES ASSUME DeadInv, [Next]_vars PROVE DeadInv'
  OBVIOUS
<1>t. TypeInv /\ TypeInv'
  BY TypeStep DEF DeadInv
<1>d. \A s \in Request : pc[s] # "idle" => Standing(s) /\ Passed(s)
  BY DEF DeadInv
<1> SUFFICES ASSUME NEW s \in Request, pc'[s] # "idle"
             PROVE  Standing(s)' /\ Passed(s)'
  BY <1>t DEF DeadInv
<1>c. clock \in Time /\ clock' \in Time /\ clock \in Int /\ clock' \in Int
      /\ pc \in [Request -> PC] /\ seen \in [Request -> BOOLEAN]
      /\ req \in [Request -> Arrival \cup {None}] /\ late \in [Request -> SUBSET Reason]
      /\ status \in [User -> Status]
  BY <1>t DEF TypeInv, TypeOK, Time
<1>p. ASSUME NEW r \in Request, NEW next, pc' = [pc EXCEPT ![r] = next],
             s = r, pc[r] # "idle", UNCHANGED <<clock, status, req, late>>,
             blocked \subseteq blocked'
      PROVE  Standing(s)' /\ pc'[s] = next
  <2>1. Standing(s)
    BY <1>d, <1>p
  <2>2. pc'[s] = next
    BY <1>c, <1>p
  <2>3. Standing(s)'
    BY <1>p, <2>1 DEF Standing, TokenOf, OptionsFor, Exists
  <2> QED BY <2>2, <2>3
<1>f. ASSUME NEW r \in Request, s # r, UNCHANGED <<clock, status>>, blocked \subseteq blocked',
             NEW next, pc' = [pc EXCEPT ![r] = next], req'[s] = req[s],
             late'[s] = late[s], seen'[s] = seen[s]
      PROVE  Standing(s)' /\ Passed(s)'
  <2>1. pc'[s] = pc[s] /\ pc[s] # "idle"
    BY <1>c, <1>f
  <2>2. Standing(s) /\ Passed(s)
    BY <1>d, <2>1
  <2>3. /\ "inactive" \in late'[s] => status'[req[s].sub] # "active"
        /\ "blocklisted" \in late'[s] => TokenOf(s).jti \in blocked'
    BY <1>f, <2>2 DEF Standing
  <2> QED BY <1>t, <1>c, <1>f, <2>1, <2>2, <2>3, Frame
<1> USE DEF world, Goto
<1>1. ASSUME NEW r \in Request, Receive(r) PROVE Standing(s)' /\ Passed(s)'
  <2>1. PICK kind \in Kind \ {"obtain"}, t \in issued :
          /\ req' = [req EXCEPT ![r] = [kind |-> kind, token |-> t,
                                        sub |-> t.sub, at |-> clock]]
          /\ late' = [late EXCEPT ![r] = DeadBecause(kind, t)]
    BY <1>1 DEF Receive
  <2>2. CASE s = r
    <3>1. /\ req'[s].kind = kind /\ req'[s].token = t /\ req'[s].sub = t.sub
          /\ late'[s] = DeadBecause(kind, t) /\ pc'[s] = "decode"
          /\ UNCHANGED <<clock, status, blocked>>
      BY <1>c, <1>1, <2>1, <2>2 DEF Receive
    <3>2. Passed(s)'
      BY <3>1 DEF Passed, Through
    <3>3. Standing(s)'
      BY <3>1 DEF Standing, DeadBecause, TokenOf, OptionsFor, Exists
    <3> QED BY <3>2, <3>3
  <2>3. CASE s # r
    BY <1>c, <1>f, <1>1, <2>1, <2>3 DEF Receive
  <2> QED BY <2>2, <2>3
<1>2. ASSUME NEW r \in Request, Login(r) PROVE Standing(s)' /\ Passed(s)'
  <2>1. CASE s = r
    <3>1. late'[s] = {}
      BY <1>t, <1>2, <2>1 DEF Login, TypeInv
    <3> QED BY <3>1 DEF Standing, Passed
  <2>2. CASE s # r
    <3>1. PICK next : pc' = [pc EXCEPT ![r] = next]
      BY <1>2 DEF Login
    <3>2. req'[s] = req[s]
      BY <1>c, <1>2, <2>2 DEF Login
    <3> QED BY <1>f, <1>2, <2>2, <3>1, <3>2 DEF Login
  <2> QED BY <2>1, <2>2
<1>3. ASSUME NEW r \in Request, Decode(r) PROVE Standing(s)' /\ Passed(s)'
  <2> DEFINE refuses == Refuses(OptionsFor(r), TokenOf(r), clock)
             next == IF refuses THEN "refused" ELSE "construct"
  <2>1. pc' = [pc EXCEPT ![r] = next] /\ pc[r] = "decode"
    BY <1>3 DEF Decode
  <2>2. ~ refuses => TokenOf(r).signed
    BY DEF Refuses
  <2> HIDE DEF refuses
  <2>3. CASE s = r
    <3>1. Standing(s)' /\ pc'[s] = next /\ late'[s] = late[s] /\ Standing(s)
      BY <1>p, <1>d, <1>3, <2>1, <2>3 DEF Decode
    <3>2. next = "construct" => "unsigned" \notin late[s]
      BY <2>2, <2>3, <3>1 DEF Standing
    <3> QED BY <3>1, <3>2 DEF Passed, Through
  <2> HIDE DEF next
  <2>4. CASE s # r
    BY <1>f, <1>3, <2>1, <2>4 DEF Decode
  <2> QED BY <2>3, <2>4
<1>4. ASSUME NEW r \in Request, Construct(r) PROVE Standing(s)' /\ Passed(s)'
  <2> DEFINE crashes == Crashes(OptionsFor(r), TokenOf(r), clock)
             mistyped == Mistyped(req[r].kind, TokenOf(r))
             next == IF crashes THEN "failed" ELSE IF mistyped THEN "refused" ELSE "lookup"
  <2>1. pc' = [pc EXCEPT ![r] = next] /\ pc[r] = "construct"
    BY <1>4 DEF Construct
  <2>3. CASE s = r
    <3>1. Standing(s)' /\ pc'[s] = next /\ late'[s] = late[s] /\ Standing(s) /\ Passed(s)
      <4> HIDE DEF next
      <4> QED BY <1>p, <1>d, <1>4, <2>1, <2>3 DEF Construct
    <3>2. ~ crashes => "expired" \notin late[s]
      BY <2>3, <3>1 DEF Standing, Crashes
    <3>3. ~ mistyped => "mistyped" \notin late[s]
      BY <2>3, <3>1 DEF Standing
    <3> HIDE DEF crashes, mistyped
    <3> QED BY <2>1, <2>3, <3>1, <3>2, <3>3 DEF Passed, Through
  <2> HIDE DEF next
  <2>4. CASE s # r
    BY <1>f, <1>4, <2>1, <2>4 DEF Construct
  <2> QED BY <2>3, <2>4
<1>5. ASSUME NEW r \in Request, GetUser(r) PROVE Standing(s)' /\ Passed(s)'
  <2> DEFINE next == IF Exists(req[r].sub) THEN "check" ELSE "refused"
  <2>1. /\ pc' = [pc EXCEPT ![r] = next] /\ pc[r] = "lookup"
        /\ Exists(req[r].sub) => seen'[r] = (status[req[r].sub] = "active")
        /\ s # r => seen'[s] = seen[s]
    BY <1>c, <1>5 DEF GetUser
  <2>3. CASE s = r
    <3>1. Standing(s)' /\ pc'[s] = next /\ late'[s] = late[s] /\ Standing(s) /\ Passed(s)
      <4> HIDE DEF next
      <4> QED BY <1>p, <1>d, <1>5, <2>1, <2>3 DEF GetUser
    <3>2. next = "check" => "nobody" \notin late[s] /\ ("inactive" \in late[s] => ~ seen'[s])
      BY <2>1, <2>3, <3>1 DEF Standing
    <3> QED BY <2>1, <2>3, <3>1, <3>2 DEF Passed, Through
  <2> HIDE DEF next
  <2>4. CASE s # r
    BY <1>f, <1>5, <2>1, <2>4 DEF GetUser
  <2> QED BY <2>3, <2>4
<1>6. ASSUME NEW r \in Request, Check(r) PROVE Standing(s)' /\ Passed(s)'
  <2> DEFINE listed == req[r].kind \in Guarded /\ TokenOf(r).jti \in blocked
             next == IF ~ seen[r] \/ listed THEN "refused" ELSE After(req[r].kind)
  <2>1. pc' = [pc EXCEPT ![r] = next] /\ pc[r] = "check"
    BY <1>6 DEF Check
  <2>3. CASE s = r
    <3>1. Standing(s)' /\ pc'[s] = next /\ late'[s] = late[s] /\ Standing(s) /\ Passed(s)
      <4> HIDE DEF next
      <4> QED BY <1>p, <1>d, <1>6, <2>1, <2>3 DEF Check
    <3>2. late[s] \subseteq {"inactive", "blocklisted"}
      BY <1>c, <2>1, <2>3, <3>1 DEF Passed, Reason
    <3>3. seen[r] /\ ~ listed => late[s] = {}
      BY <2>1, <2>3, <3>1, <3>2 DEF Standing, Passed
    <3>4. After(req[r].kind) \in {"handle", "issue", "done"}
      BY DEF After
    <3> HIDE DEF listed
    <3> QED BY <3>1, <3>3, <3>4 DEF Passed, Through
  <2> HIDE DEF next
  <2>4. CASE s # r
    BY <1>f, <1>6, <2>1, <2>4 DEF Check
  <2> QED BY <2>3, <2>4
<1>7. ASSUME NEW r \in Request,
             Owner(r) \/ GetEntry(r) \/ CreateEntry(r) \/ GetAgain(r) \/ IssuePair(r)
      PROVE  Standing(s)' /\ Passed(s)'
  <2>1. PICK next : pc' = [pc EXCEPT ![r] = next]
    BY <1>7 DEF Owner, GetEntry, CreateEntry, GetAgain, IssuePair
  <2>2. pc[r] \in Through /\ pc[r] # "idle"
        /\ blocked \subseteq blocked' /\ UNCHANGED <<clock, status, req, late, seen>>
    BY <1>7 DEF Owner, GetEntry, CreateEntry, GetAgain, IssuePair, Through
  <2>3. CASE s = r
    <3>1. late'[s] = {}
      BY <1>d, <2>2, <2>3 DEF Passed
    <3> QED BY <3>1 DEF Standing, Passed
  <2>4. CASE s # r
    BY <1>f, <2>1, <2>2, <2>4
  <2> QED BY <2>3, <2>4
<1>8. ASSUME NEW r \in Request, Respond(r) PROVE Standing(s)' /\ Passed(s)'
  <2>1. s # r /\ req'[s] = req[s] /\ late'[s] = late[s] /\ seen'[s] = seen[s]
    BY <1>c, <1>8 DEF Respond
  <2> QED BY <1>f, <1>8, <2>1 DEF Respond
<1>9. ASSUME NEW u \in User, NEW value \in Status, SetStatus(u, value)
      PROVE  Standing(s)' /\ Passed(s)'
  <2>1. /\ pc[s] # "idle" /\ Standing(s) /\ Passed(s)
        /\ pc'[s] = pc[s] /\ req'[s] = req[s] /\ seen'[s] = seen[s]
        /\ clock' = clock /\ blocked' = blocked
    BY <1>d, <1>9 DEF SetStatus
  <2>2. late'[s] = IF value = "active" /\ req[s].sub = u THEN late[s] \ {"inactive"}
                                                        ELSE late[s]
    BY <1>9, <2>1 DEF SetStatus
  <2>3. "inactive" \in late'[s] => status'[req[s].sub] # "active"
    <3>1. "inactive" \in late'[s] => req[s].sub \in User /\ status[req[s].sub] # "active"
      BY <2>1, <2>2 DEF Standing
    <3>2. "inactive" \in late'[s] => value # "active" \/ req[s].sub # u
      BY <2>2
    <3> QED BY <1>c, <1>9, <3>1, <3>2 DEF SetStatus
  <2>4. "blocklisted" \in late'[s] => TokenOf(s).jti \in blocked'
    BY <2>1, <2>2 DEF Standing
  <2>5. \A v \in User : status[v] = "deleted" => status'[v] = "deleted"
    BY <1>c, <1>9 DEF SetStatus
  <2> QED BY <1>t, <1>c, <2>1, <2>2, <2>3, <2>4, <2>5, Frame
<1>10. ASSUME NEW j \in Jti, Unblock(j) PROVE Standing(s)' /\ Passed(s)'
  <2>1. /\ pc[s] # "idle" /\ Standing(s) /\ Passed(s)
        /\ pc'[s] = pc[s] /\ req'[s] = req[s] /\ seen'[s] = seen[s]
        /\ clock' = clock /\ status' = status
    BY <1>d, <1>10 DEF Unblock
  <2>2. late'[s] = IF req[s].kind \in Guarded /\ TokenOf(s).jti = j
                   THEN late[s] \ {"blocklisted"} ELSE late[s]
    BY <1>10, <2>1 DEF Unblock
  <2>3. "blocklisted" \in late'[s] => TokenOf(s).jti \in blocked'
    BY <1>10, <2>1, <2>2 DEF Standing, Unblock
  <2>4. "inactive" \in late'[s] => status'[req[s].sub] # "active"
    BY <2>1, <2>2 DEF Standing
  <2> QED BY <1>t, <1>c, <2>1, <2>2, <2>3, <2>4, Frame
<1>11. CASE Tick \/ UNCHANGED vars
  <2>1. /\ pc[s] # "idle" /\ Standing(s) /\ Passed(s)
        /\ UNCHANGED <<pc, req, seen, late, status, blocked>> /\ clock <= clock'
    BY <1>d, <1>c, <1>11 DEF Tick, vars
  <2>2. /\ "inactive" \in late'[s] => status'[req[s].sub] # "active"
        /\ "blocklisted" \in late'[s] => TokenOf(s).jti \in blocked'
    BY <2>1 DEF Standing
  <2> QED BY <1>t, <1>c, <2>1, <2>2, Frame
<1> QED
  BY <1>1, <1>2, <1>3, <1>4, <1>5, <1>6, <1>7, <1>8, <1>9, <1>10, <1>11 DEF Next, Step

(* A token that was dead on arrival, and still is for the same reason,     *)
(* comes through no request: not to the endpoint, not to new tokens.       *)
THEOREM DeadStaysOutHolds == Spec => []DeadStaysOut
<1>1. DeadInv => DeadStaysOut
  BY DEF DeadInv, Passed, DeadStaysOut, Through
<1> QED BY <1>1, DeadInit, DeadStep, PTL DEF Spec
-----------------------------------------------------------------------------
LogoutInv == TypeInv /\ LogoutHolds

(* A request that has written the jti is lifted when the row goes away.    *)
LEMMA LogoutStep == LogoutInv /\ [Next]_vars => LogoutInv'
<1> SUFFICES ASSUME LogoutInv, [Next]_vars PROVE LogoutHolds'
  BY TypeStep DEF LogoutInv
<1>t. TypeInv /\ pc \in [Request -> PC] /\ req \in [Request -> Arrival \cup {None}]
  BY DEF LogoutInv, TypeInv, TypeOK
<1> USE DEF world, Goto
(* No step but the insert of one request brings it to "created".           *)
<1>k. ASSUME \A r \in Request : pc'[r] \in {"created", "known"} =>
               /\ req'[r] = req[r]
               /\ TokenOf(r).jti \in blocked' \/ r \in lifted',
             \A r \in Request : pc'[r] = "created" =>
               pc[r] = "created" /\ (r \in lifted => r \in lifted')
      PROVE  LogoutHolds'
  BY <1>k DEF LogoutInv, LogoutHolds, TokenOf
<1>a. ASSUME \A r \in Request : pc'[r] \in {"created", "known"} => pc'[r] = pc[r],
             \A r \in Request : pc[r] \in {"created", "known"} /\ r \in lifted
                                /\ pc'[r] = pc[r] => r \in lifted',
             \A r \in Request : pc[r] \in {"created", "known"} /\ pc'[r] = pc[r] =>
                                req'[r] = req[r],
             blocked \subseteq blocked'
      PROVE  LogoutHolds'
  <2>1. ASSUME NEW r \in Request, pc'[r] \in {"created", "known"}
        PROVE  /\ req'[r] = req[r]
               /\ TokenOf(r).jti \in blocked' \/ r \in lifted'
    BY <1>a, <2>1 DEF LogoutInv, LogoutHolds
  <2>2. \A r \in Request : pc'[r] = "created" =>
          pc[r] = "created" /\ (r \in lifted => r \in lifted')
    BY <1>a
  <2> QED BY <1>k, <2>1, <2>2
<1>1. ASSUME NEW r \in Request, Receive(r) PROVE LogoutHolds'
  BY <1>a, <1>t, <1>1 DEF Receive
<1>2. ASSUME NEW r \in Request, Login(r) PROVE LogoutHolds'
  BY <1>a, <1>t, <1>2 DEF Login
<1>3. ASSUME NEW r \in Request, Decode(r) PROVE LogoutHolds'
  BY <1>a, <1>t, <1>3 DEF Decode
<1>4. ASSUME NEW r \in Request, Construct(r) PROVE LogoutHolds'
  BY <1>a, <1>t, <1>4 DEF Construct
<1>5. ASSUME NEW r \in Request, GetUser(r) PROVE LogoutHolds'
  BY <1>a, <1>t, <1>5 DEF GetUser
<1>6. ASSUME NEW r \in Request, Check(r) PROVE LogoutHolds'
  <2>1. PICK next \in {"refused", "handle", "issue", "done"} : pc' = [pc EXCEPT ![r] = next]
    BY <1>6 DEF Check, After
  <2> QED BY <1>a, <1>t, <1>6, <2>1 DEF Check
<1>7. ASSUME NEW r \in Request, Owner(r) PROVE LogoutHolds'
  BY <1>a, <1>t, <1>7 DEF Owner
<1>8. ASSUME NEW r \in Request, GetEntry(r) PROVE LogoutHolds'
  <2>1. ASSUME NEW s \in Request, pc'[s] \in {"created", "known"}
        PROVE  /\ req'[s] = req[s]
               /\ TokenOf(s).jti \in blocked' \/ s \in lifted'
    BY <1>t, <1>8, <2>1 DEF GetEntry, LogoutInv, LogoutHolds
  <2>2. \A s \in Request : pc'[s] = "created" =>
          pc[s] = "created" /\ (s \in lifted => s \in lifted')
    BY <1>t, <1>8 DEF GetEntry
  <2> QED BY <1>k, <2>1, <2>2
<1>9. ASSUME NEW r \in Request, CreateEntry(r) PROVE LogoutHolds'
  <2>1. CASE ~ Insertable(r)
    <3>1. pc' = [pc EXCEPT ![r] = "reget"]
          /\ UNCHANGED <<blocked, lifted, req>>
      BY <1>9, <2>1 DEF CreateEntry
    <3> QED BY <1>a, <1>t, <3>1
  <2>2. CASE Insertable(r)
    <3>1. /\ pc' = [pc EXCEPT ![r] = "created"]
          /\ blocked' = blocked \cup {TokenOf(r).jti}
          /\ UNCHANGED <<lifted, req>>
          /\ TokenOf(r).jti \notin blocked
      BY <1>9, <2>2 DEF CreateEntry, Insertable
    <3>2. ASSUME NEW s \in Request, pc'[s] \in {"created", "known"}
          PROVE  TokenOf(s)'.jti \in blocked' \/ s \in lifted'
      BY <1>t, <3>1, <3>2 DEF LogoutInv, LogoutHolds, TokenOf
    <3>3. ASSUME NEW q \in Request, NEW s \in Request, q # s,
                 pc'[q] = "created", pc'[s] = "created",
                 TokenOf(q)'.jti = TokenOf(s)'.jti
          PROVE  q \in lifted' \/ s \in lifted'
      <4>1. TokenOf(q) = TokenOf(q)' /\ TokenOf(s) = TokenOf(s)'
        BY <3>1 DEF TokenOf
      <4>2. CASE q = r
        BY <1>t, <3>1, <3>3, <4>1, <4>2 DEF LogoutInv, LogoutHolds
      <4>3. CASE s = r
        BY <1>t, <3>1, <3>3, <4>1, <4>3 DEF LogoutInv, LogoutHolds
      <4>4. CASE q # r /\ s # r
        BY <1>t, <3>1, <3>3, <4>1, <4>4 DEF LogoutInv, LogoutHolds
      <4> QED BY <4>2, <4>3, <4>4
    <3> QED BY <3>2, <3>3 DEF LogoutHolds
  <2> QED BY <2>1, <2>2
<1>10. ASSUME NEW r \in Request, GetAgain(r) PROVE LogoutHolds'
  <2>1. ASSUME NEW s \in Request, pc'[s] \in {"created", "known"}
        PROVE  /\ req'[s] = req[s]
               /\ TokenOf(s).jti \in blocked' \/ s \in lifted'
    BY <1>t, <1>10, <2>1 DEF GetAgain, LogoutInv, LogoutHolds
  <2>2. \A s \in Request : pc'[s] = "created" =>
          pc[s] = "created" /\ (s \in lifted => s \in lifted')
    BY <1>t, <1>10 DEF GetAgain
  <2> QED BY <1>k, <2>1, <2>2
<1>11. ASSUME NEW r \in Request, IssuePair(r) PROVE LogoutHolds'
  BY <1>a, <1>t, <1>11 DEF IssuePair
<1>12. ASSUME NEW r \in Request, Respond(r) PROVE LogoutHolds'
  BY <1>a, <1>t, <1>12 DEF Respond
<1>13. ASSUME NEW u \in User, NEW value \in Status, SetStatus(u, value) PROVE LogoutHolds'
  BY <1>a, <1>13 DEF SetStatus
<1>14. ASSUME NEW j \in Jti, Unblock(j) PROVE LogoutHolds'
  <2>0. UNCHANGED <<pc, req>> /\ blocked' = blocked \ {j} /\ lifted \subseteq lifted'
    BY <1>14 DEF Unblock
  <2>1. ASSUME NEW s \in Request, pc'[s] \in {"created", "known"}
        PROVE  /\ req'[s] = req[s]
               /\ TokenOf(s).jti \in blocked' \/ s \in lifted'
    <3>1. req[s].kind = "logout"
      BY <1>t, <2>0, <2>1 DEF TypeInv, Bears
    <3>2. TokenOf(s).jti = j => s \in lifted'
      BY <1>14, <2>0, <2>1, <3>1 DEF Unblock, Guarded
    <3> QED BY <2>0, <2>1, <3>2 DEF LogoutInv, LogoutHolds
  <2> QED BY <1>k, <2>0, <2>1
<1>15. CASE Tick \/ UNCHANGED vars
  BY <1>a, <1>15 DEF Tick, vars
<1> QED
  BY <1>1, <1>2, <1>3, <1>4, <1>5, <1>6, <1>7, <1>8, <1>9, <1>10, <1>11,
     <1>12, <1>13, <1>14, <1>15 DEF Next, Step

(* A logout that has been answered has put the jti on the list, and of     *)
(* concurrent logouts with one token a single one has created the row.     *)
THEOREM LogoutHoldsAlways == Spec => []LogoutHolds
<1>1. Init => LogoutInv
  BY TypeInit DEF Init, LogoutInv, LogoutHolds
<1>2. LogoutInv => LogoutHolds
  BY DEF LogoutInv
<1> QED BY <1>1, <1>2, LogoutStep, PTL DEF Spec
-----------------------------------------------------------------------------
(* Time passes, rows go, users are deleted: an excuse stays one.           *)
LEMMA Remains ==
  ASSUME FailInv, NEW s \in Request,
         pc'[s] = pc[s], seen'[s] = seen[s],
         pc[s] # "idle" => req'[s] = req[s],
         pc[s] # "idle" /\ s \in lifted => s \in lifted',
         \A u \in User : status[u] = "deleted" => status'[u] = "deleted",
         pc[s] = "reget" /\ TokenOf(s).jti \in blocked =>
           TokenOf(s).jti \in blocked' \/ s \in lifted'
  PROVE  Reached(s)' /\ Excused(s)'
<1>1. pc[s] # "idle" /\ Unstorable(s) => Unstorable(s)'
  BY DEF Unstorable, TokenOf, Exists
<1>2. Reached(s) /\ Excused(s)
  BY DEF FailInv
<1>3. Reached(s)'
  BY <1>1, <1>2 DEF Reached, TokenOf, Unstorable
<1>4. Excused(s)'
  BY <1>1, <1>2 DEF Excused
<1> QED BY <1>3, <1>4

LEMMA FailStep == FailInv /\ [Next]_vars => FailInv'
<1> SUFFICES ASSUME FailInv, [Next]_vars, NEW s \in Request
             PROVE  Reached(s)' /\ Excused(s)'
  BY TypeStep DEF FailInv
<1>t. /\ TypeInv /\ Reached(s) /\ Excused(s)
      /\ pc \in [Request -> PC] /\ req \in [Request -> Arrival \cup {None}]
      /\ seen \in [Request -> BOOLEAN] /\ status \in [User -> Status]
  BY DEF FailInv, TypeInv, TypeOK
<1> USE DEF world, Goto
<1>1. ASSUME NEW r \in Request, Receive(r) \/ Login(r) \/ Decode(r) \/ Construct(r)
      PROVE  Reached(s)' /\ Excused(s)'
  <2>1. UNCHANGED <<status, blocked, lifted, seen>>
    BY <1>1 DEF Receive, Login, Decode, Construct
  <2>2. PICK next \in {"decode", "issue", "refused", "construct", "failed", "lookup"} :
          pc' = [pc EXCEPT ![r] = next]
    BY <1>1 DEF Receive, Login, Decode, Construct
  <2>3. pc[r] \in {"idle", "decode", "construct"}
    BY <1>1 DEF Receive, Login, Decode, Construct
  <2>4. CASE s = r
    BY <1>t, <2>1, <2>2, <2>3, <2>4 DEF Reached, Excused
  <2>5. CASE s # r
    <3>1. req'[s] = req[s]
      BY <1>t, <1>1, <2>5 DEF Receive, Login, Decode, Construct
    <3> QED BY <2>1, <2>2, <2>5, <3>1, <1>t, Remains
  <2> QED BY <2>4, <2>5
<1>2. ASSUME NEW r \in Request, GetUser(r)
      PROVE  Reached(s)' /\ Excused(s)'
  <2>1. UNCHANGED <<status, blocked, lifted, req>> /\ pc[r] = "lookup"
    BY <1>2 DEF GetUser
  <2>2. PICK next \in {"check", "refused"} : pc' = [pc EXCEPT ![r] = next]
    BY <1>2 DEF GetUser
  <2>3. CASE s = r
    BY <1>t, <2>2, <2>3 DEF Reached, Excused
  <2>4. CASE s # r
    <3>1. seen'[s] = seen[s]
      BY <1>t, <1>2, <2>4 DEF GetUser
    <3> QED BY <1>t, <2>1, <2>2, <2>4, <3>1, Remains
  <2> QED BY <2>3, <2>4
<1>3. ASSUME NEW r \in Request, Check(r) \/ Owner(r) \/ GetEntry(r) \/ IssuePair(r)
      PROVE  Reached(s)' /\ Excused(s)'
  <2>1. UNCHANGED <<status, blocked, lifted, req, seen>>
    BY <1>3 DEF Check, Owner, GetEntry, IssuePair
  <2>2. PICK next \in {"refused", "handle", "issue", "done", "get", "known", "create"} :
          pc' = [pc EXCEPT ![r] = next]
    BY <1>3 DEF Check, After, Owner, GetEntry, IssuePair
  <2>3. CASE s = r
    BY <1>t, <2>2, <2>3 DEF Reached, Excused
  <2>4. CASE s # r
    BY <1>t, <2>1, <2>2, <2>4, Remains
  <2> QED BY <2>3, <2>4
<1>4. ASSUME NEW r \in Request, CreateEntry(r)
      PROVE  Reached(s)' /\ Excused(s)'
  <2>1. UNCHANGED <<status, lifted, req, seen>> /\ blocked \subseteq blocked'
    BY <1>4 DEF CreateEntry
  <2>2. PICK next \in {"created", "reget"} :
          /\ pc' = [pc EXCEPT ![r] = next]
          /\ next = "reget" => ~ Insertable(r)
    BY <1>4 DEF CreateEntry
  <2>3. CASE s = r
    <3>1. ~ Insertable(s) => TokenOf(s).jti \in blocked \/ Unstorable(s)
      BY DEF Insertable, Unstorable
    <3> QED BY <1>t, <2>1, <2>2, <2>3, <3>1
            DEF Reached, Excused, Unstorable, TokenOf, Exists
  <2>4. CASE s # r
    BY <1>t, <2>1, <2>2, <2>4, Remains
  <2> QED BY <2>3, <2>4
<1>5. ASSUME NEW r \in Request, GetAgain(r)
      PROVE  Reached(s)' /\ Excused(s)'
  <2>1. UNCHANGED <<status, blocked, lifted, req, seen>> /\ pc[r] = "reget"
    BY <1>5 DEF GetAgain
  <2>2. PICK next \in {"known", "failed"} :
          /\ pc' = [pc EXCEPT ![r] = next]
          /\ next = "failed" => TokenOf(r).jti \notin blocked
    BY <1>5 DEF GetAgain
  <2>3. CASE s = r
    <3>1. req[s].kind = "logout"
      BY <1>t, <2>1, <2>3 DEF TypeInv, Bears
    <3>2. TokenOf(s).jti \in blocked \/ Unstorable(s)
      BY <1>t, <2>1, <2>3 DEF Reached
    <3>3. Unstorable(s)' <=> Unstorable(s)
      BY <2>1 DEF Unstorable, TokenOf, Exists
    <3> QED BY <1>t, <2>1, <2>2, <2>3, <3>1, <3>2, <3>3 DEF Reached, Excused
  <2>4. CASE s # r
    BY <1>t, <2>1, <2>2, <2>4, Remains
  <2> QED BY <2>3, <2>4
<1>6. ASSUME NEW r \in Request, Respond(r)
      PROVE  Reached(s)' /\ Excused(s)'
  <2>1. /\ UNCHANGED <<status, blocked>> /\ lifted' = lifted \ {r}
        /\ pc' = [pc EXCEPT ![r] = "idle"] /\ seen' = [seen EXCEPT ![r] = FALSE]
        /\ req' = [req EXCEPT ![r] = None]
    BY <1>6 DEF Respond
  <2>2. CASE s = r
    BY <1>t, <2>1, <2>2 DEF Reached, Excused
  <2>3. CASE s # r
    BY <1>t, <2>1, <2>3, Remains
  <2> QED BY <2>2, <2>3
<1>7. ASSUME NEW u \in User, NEW value \in Status, SetStatus(u, value)
      PROVE  Reached(s)' /\ Excused(s)'
  <2>1. \A v \in User : status[v] = "deleted" => status'[v] = "deleted"
    BY <1>t, <1>7 DEF SetStatus
  <2> QED BY <1>7, <2>1, Remains DEF SetStatus
<1>8. ASSUME NEW j \in Jti, Unblock(j)
      PROVE  Reached(s)' /\ Excused(s)'
  <2>1. UNCHANGED <<pc, req, seen, status>> /\ blocked' = blocked \ {j}
        /\ lifted \subseteq lifted'
    BY <1>8 DEF Unblock
  <2>2. pc[s] = "reget" /\ TokenOf(s).jti = j => s \in lifted'
    <3>1. pc[s] = "reget" => req[s].kind = "logout"
      BY <1>t DEF TypeInv, Bears
    <3> QED BY <1>8, <3>1 DEF Unblock, Guarded
  <2> QED BY <2>1, <2>2, Remains
<1>9. CASE Tick \/ UNCHANGED vars
  BY <1>9, Remains DEF Tick, vars
<1> QED
  BY <1>1, <1>2, <1>3, <1>4, <1>5, <1>6, <1>7, <1>8, <1>9 DEF Next, Step

(* Requests with one token do not make each other fail: what the auth has  *)
(* let in ends with an error only as a logout that has nothing to store.   *)
THEOREM LogoutsDoNotCollideHolds == Spec => []LogoutsDoNotCollide
<1>1. Init => FailInv
  BY TypeInit DEF Init, FailInv, Reached, Excused
<1>2. FailInv => LogoutsDoNotCollide
  BY DEF FailInv, Excused, LogoutsDoNotCollide
<1> QED BY <1>1, <1>2, FailStep, PTL DEF Spec
=============================================================================
