-------------------------- MODULE TokenAuth_proofs --------------------------
(***************************************************************************)
(* Proofs about TokenAuth, for every number of workers, tokens, users and  *)
(* change forms and every length of the run: no revocation is lost to a    *)
(* request that is being authenticated, and a revocation is instant.       *)
(***************************************************************************)
EXTENDS TokenAuth, TLAPS

(* What a worker has read, and why a late lookup cannot be accepted: it    *)
(* has seen the revocation, the expiry or the deactivation.                *)
WorkerInv(w) ==
  /\ pc[w] = "idle" => w \notin late
  /\ pc[w] = "found" /\ w \in late => ~ Accepted(w)

UsedBy(t, date) == \E use \in uses[t] : use <= date

UsesInv(w) ==
  /\ pc[w] = "accepted" => UsedBy(token[w], clock)
  /\ pc[w] = "marking" => UsedBy(token[w], seen[w].row.last_used_at)

(* A form that was posted holds the instance that was read for it.         *)
FormInv(s) ==
  form[s] # None /\ form[s].instance # None =>
    LET date == form[s].instance.last_used_at
    IN  date # None => UsedBy(form[s].token, date)

TypeInv ==
  /\ TypeOK
  /\ \A w \in Worker : pc[w] \in {"found", "accepted", "marking"} => seen[w] \in Lookup

(* What has a row, an open form or a revocation has been issued.           *)
IssuedInv ==
  /\ revoked \subseteq issued
  /\ \A t \in Token : row[t] # None => t \in issued
  /\ \A s \in Staff : form[s] # None => form[s].token \in issued

DeadInv ==
  /\ TypeInv
  /\ IssuedInv
  /\ RevocationKept
  /\ InstantRevocation
  /\ \A w \in Worker : WorkerInv(w)

UseInv ==
  /\ TypeInv
  /\ LastUsedReal
  /\ \A w \in Worker : UsesInv(w)
  /\ \A s \in Staff : FormInv(s)

-----------------------------------------------------------------------------
(* TypeOK /\ what a found or marking worker has read is inductive.         *)
LEMMA TypeInit == Init => TypeInv
BY ConstantsAssumption DEF Init, TypeInv, TypeOK, Time

LEMMA TypeStep == TypeInv /\ [Next]_vars => TypeInv'
<1> SUFFICES ASSUME TypeInv, [Next]_vars PROVE TypeInv'
  OBVIOUS
<1> USE DEF TypeInv, TypeOK
<1>1. CASE Tick
  BY <1>1, ConstantsAssumption DEF Tick, Time, requests
<1>2. ASSUME NEW t \in Token, Issue(t) PROVE TypeInv'
  BY <1>2, ConstantsAssumption DEF Issue, Row, Date, requests
<1>3. ASSUME NEW t \in Token, Revoke(t) PROVE TypeInv'
  BY <1>3 DEF Revoke, Row, Date, requests
<1>4. ASSUME NEW t \in Token, Delete(t) PROVE TypeInv'
  BY <1>4 DEF Delete, requests
<1>5. ASSUME NEW selected \in SUBSET Token, RevokeSelected(selected) PROVE TypeInv'
  BY <1>5 DEF RevokeSelected, Row, Date, requests
<1>6. ASSUME NEW u \in User, Deactivate(u) PROVE TypeInv'
  BY <1>6 DEF Deactivate, requests
<1>7. ASSUME NEW w \in Worker, Check(w) PROVE TypeInv'
  <2>1. uses' \in [Token -> SUBSET Time]
    <3>1. token[w] \in Token /\ uses[token[w]] \cup {clock} \in SUBSET Time
      OBVIOUS
    <3>2. uses' = uses \/ uses' = [uses EXCEPT ![token[w]] = @ \cup {clock}]
      BY <1>7 DEF Check
    <3> QED BY <3>1, <3>2
  <2>2. pc'[w] \in {"denied", "granted"} \/ (pc'[w] = "accepted" /\ seen'[w] \in Lookup)
    BY <1>7 DEF Check
  <2> QED BY <1>7, <2>1, <2>2 DEF Check
<1>7a. ASSUME NEW w \in Worker, UpdateUsed(w) PROVE TypeInv'
  <2>1. seen[w] \in Lookup
    BY <1>7a DEF UpdateUsed
  <2>2. [seen[w].row EXCEPT !.last_used_at = clock] \in Row
    BY <2>1 DEF Lookup, Row, Date
  <2> DEFINE marked == [seen[w] EXCEPT !.row.last_used_at = clock]
  <2>3. marked \in Lookup /\ seen' = [seen EXCEPT ![w] = marked]
    BY <1>7a, <2>1, <2>2 DEF UpdateUsed, Lookup
  <2> HIDE DEF marked
  <2> QED BY <1>7a, <2>3 DEF UpdateUsed
<1>8. ASSUME NEW w \in Worker, MarkUsed(w) PROVE TypeInv'
  <2>1. seen[w].row.last_used_at \in Date
    BY <1>8 DEF MarkUsed, Lookup, Row
  <2>2. row' \in [Token -> Row \cup {None}]
    BY <1>8, <2>1 DEF MarkUsed, Row
  <2> QED BY <1>8, <2>2 DEF MarkUsed
<1>9. ASSUME NEW w \in Worker, Respond(w) PROVE TypeInv'
  BY <1>9 DEF Respond
<1>10. ASSUME NEW w \in Worker, NEW t \in Token, GetToken(w, t) PROVE TypeInv'
  <2>1. row[t] # None => [row |-> row[t], active |-> row[t].user \in active] \in Lookup
    BY DEF Lookup
  <2>2. seen' \in [Worker -> Lookup \cup {None}]
    BY <1>10, <2>1 DEF GetToken
  <2>3. pc'[w] # "marking" /\ (pc'[w] = "found" => seen'[w] \in Lookup)
    BY <1>10, <2>1 DEF GetToken
  <2>4. late' \subseteq Worker
    BY <1>10 DEF GetToken
  <2> QED BY <1>10, <2>2, <2>3, <2>4 DEF GetToken
<1>11. ASSUME NEW s \in Staff, NEW t \in Token, OpenForm(s, t) PROVE TypeInv'
  BY <1>11 DEF OpenForm, Form, requests
<1>12. ASSUME NEW s \in Staff, PostForm(s) PROVE TypeInv'
  BY <1>12 DEF PostForm, Form, requests
<1>13. ASSUME NEW s \in Staff, SaveForm(s) PROVE TypeInv'
  <2>1. form[s] \in Form /\ form[s].instance \in Row
    BY <1>13 DEF SaveForm, Form
  <2>2. PICK date \in {form[s].shown.revoked_at, clock} :
          row' = [row EXCEPT ![form[s].token] =
                    [form[s].shown EXCEPT
                       !.revoked_at = date,
                       !.last_used_at = form[s].instance.last_used_at]]
    BY <1>13 DEF SaveForm
  <2>3. [form[s].shown EXCEPT !.revoked_at = date,
           !.last_used_at = form[s].instance.last_used_at] \in Row
    BY <2>1, <2>2 DEF Form, Row, Date
  <2>4. row' \in [Token -> Row \cup {None}]
    BY <2>1, <2>2, <2>3 DEF Form
  <2>5. revoked' \subseteq Token
    BY <1>13, <2>1 DEF SaveForm, Form
  <2> QED BY <1>13, <2>4, <2>5 DEF SaveForm, requests
<1>14. CASE UNCHANGED vars
  BY <1>14 DEF vars
<1> QED
  BY <1>1, <1>2, <1>3, <1>4, <1>5, <1>6, <1>7, <1>8, <1>9, <1>10, <1>11,
     <1>12, <1>7a, <1>13, <1>14 DEF Next

(* TypeOK holds in every run, whatever the constants are.                  *)
THEOREM TypeCorrect == Spec => []TypeOK
<1>1. TypeInv => TypeOK
  BY DEF TypeInv
<1> QED BY <1>1, TypeInit, TypeStep, PTL DEF Spec

-----------------------------------------------------------------------------
(* The revocations that were not taken back are in the rows, and a lookup  *)
(* that came too late has read the reason why it cannot be accepted.       *)
LEMMA IssuedStep == TypeInv /\ IssuedInv /\ [Next]_vars => IssuedInv'
<1> SUFFICES ASSUME TypeInv, IssuedInv, [Next]_vars PROVE IssuedInv'
  OBVIOUS
<1> USE DEF TypeInv, TypeOK, IssuedInv
<1>1. CASE Tick
  BY <1>1 DEF Tick
<1>2. ASSUME NEW t \in Token, Issue(t) PROVE IssuedInv'
  BY <1>2 DEF Issue
<1>3. ASSUME NEW t \in Token, Revoke(t) PROVE IssuedInv'
  BY <1>3 DEF Revoke
<1>4. ASSUME NEW t \in Token, Delete(t) PROVE IssuedInv'
  BY <1>4 DEF Delete
<1>5. ASSUME NEW selected \in SUBSET Token, RevokeSelected(selected) PROVE IssuedInv'
  BY <1>5 DEF RevokeSelected
<1>6. ASSUME NEW u \in User, Deactivate(u) PROVE IssuedInv'
  BY <1>6 DEF Deactivate
<1>7. ASSUME NEW w \in Worker, Check(w) PROVE IssuedInv'
  BY <1>7 DEF Check
<1>7a. ASSUME NEW w \in Worker, UpdateUsed(w) PROVE IssuedInv'
  BY <1>7a DEF UpdateUsed
<1>8. ASSUME NEW w \in Worker, MarkUsed(w) PROVE IssuedInv'
  BY <1>8 DEF MarkUsed
<1>9. ASSUME NEW w \in Worker, Respond(w) PROVE IssuedInv'
  BY <1>9 DEF Respond
<1>10. ASSUME NEW w \in Worker, NEW t \in Token, GetToken(w, t) PROVE IssuedInv'
  BY <1>10 DEF GetToken
<1>11. ASSUME NEW s \in Staff, NEW t \in Token, OpenForm(s, t) PROVE IssuedInv'
  BY <1>11 DEF OpenForm
<1>12. ASSUME NEW s \in Staff, PostForm(s) PROVE IssuedInv'
  BY <1>12 DEF PostForm, Form
<1>13. ASSUME NEW s \in Staff, SaveForm(s) PROVE IssuedInv'
  BY <1>13 DEF SaveForm, Form
<1>14. CASE UNCHANGED vars
  BY <1>14 DEF vars
<1> QED
  BY <1>1, <1>2, <1>3, <1>4, <1>5, <1>6, <1>7, <1>8, <1>9, <1>10, <1>11,
     <1>12, <1>7a, <1>13, <1>14 DEF Next

LEMMA DeadStep == DeadInv /\ [Next]_vars => DeadInv'
<1> SUFFICES ASSUME DeadInv, [Next]_vars PROVE DeadInv'
  OBVIOUS
<1>0. TypeInv /\ TypeInv' /\ IssuedInv /\ IssuedInv'
  BY TypeStep, IssuedStep DEF DeadInv
<1>type. TypeOK /\ TypeOK'
  BY <1>0 DEF TypeInv
<1> USE DEF DeadInv, RevocationKept, InstantRevocation, WorkerInv, Accepted,
            IsActive, IsExpired
<1>date. ASSUME NEW date \in Time PROVE date # None
  BY ConstantsAssumption
<1>1. CASE Tick
  <2>1. ASSUME NEW w \in Worker, pc[w] = "found"
        PROVE  /\ seen[w].row.expires_at \in Date
               /\ Accepted(w)' => Accepted(w)
    <3>1. seen[w].row.expires_at \in Date
      BY <1>0, <2>1 DEF TypeInv, Lookup, Row
    <3>2. clock \in Nat /\ clock' = clock + 1
      BY <1>1, <1>type DEF Tick, TypeOK, Time
    <3> QED BY <1>1, <3>1, <3>2, ConstantsAssumption DEF Tick, requests, Date, Time
  <2> QED BY <1>0, <1>1, <2>1 DEF Tick, requests, TypeInv
<1>2. ASSUME NEW t \in Token, Issue(t) PROVE DeadInv'
  <2>1. t \notin revoked
    BY <1>2, <1>0 DEF Issue, IssuedInv
  <2> QED BY <1>0, <1>2, <1>type, <2>1 DEF Issue, requests, TypeInv, TypeOK
<1>3. ASSUME NEW t \in Token, Revoke(t) PROVE DeadInv'
  BY <1>0, <1>3, <1>type, <1>date DEF Revoke, requests, TypeInv, TypeOK
<1>4. ASSUME NEW t \in Token, Delete(t) PROVE DeadInv'
  BY <1>0, <1>4, <1>type DEF Delete, requests, TypeInv, TypeOK
<1>5. ASSUME NEW selected \in SUBSET Token, RevokeSelected(selected) PROVE DeadInv'
  <2>1. clock # None
    BY <1>date, <1>type DEF TypeOK
  <2>2. RevocationKept'
    BY <1>5, <1>type, <2>1 DEF RevokeSelected, TypeOK, Row
  <2> QED BY <1>0, <1>5, <1>type, <2>2 DEF RevokeSelected, requests, TypeInv, TypeOK
<1>6. ASSUME NEW u \in User, Deactivate(u) PROVE DeadInv'
  BY <1>0, <1>6 DEF Deactivate, requests
<1>7. ASSUME NEW w \in Worker, Check(w) PROVE DeadInv'
  <2>1. w \in late => ~ Accepted(w)
    BY <1>7 DEF Check
  <2>2. /\ pc' = [pc EXCEPT ![w] = pc'[w]]
        /\ pc'[w] # "found" /\ (w \in late => pc'[w] = "denied")
    BY <1>7, <1>type, <2>1 DEF Check, TypeOK
  <2>3. \A v \in Worker \ {w} : seen'[v] = seen[v]
    BY <1>7, <1>type DEF Check, TypeOK
  <2>4. UNCHANGED <<clock, row, late, revoked>>
    BY <1>7 DEF Check
  <2> QED BY <1>0, <1>type, <2>2, <2>3, <2>4 DEF TypeOK, TypeInv
<1>7a. ASSUME NEW w \in Worker, UpdateUsed(w) PROVE DeadInv'
  <2>1. pc' = [pc EXCEPT ![w] = "marking"] /\ w \notin late
    BY <1>7a DEF UpdateUsed
  <2>2. \A v \in Worker \ {w} : seen'[v] = seen[v]
    BY <1>7a, <1>type DEF UpdateUsed, TypeOK
  <2>3. UNCHANGED <<clock, row, late, revoked>>
    BY <1>7a DEF UpdateUsed
  <2> QED BY <1>0, <1>type, <2>1, <2>2, <2>3 DEF TypeOK, TypeInv
<1>8. ASSUME NEW w \in Worker, MarkUsed(w) PROVE DeadInv'
  <2>1. w \notin late
    BY <1>8 DEF MarkUsed
  <2>2. RevocationKept'
    BY <1>8, <1>type DEF MarkUsed, TypeOK, Row
  <2> QED BY <1>0, <1>8, <1>type, <2>1, <2>2 DEF MarkUsed, TypeOK
<1>9. ASSUME NEW w \in Worker, Respond(w) PROVE DeadInv'
  BY <1>0, <1>9, <1>type DEF Respond, TypeOK
<1>10. ASSUME NEW w \in Worker, NEW t \in Token, GetToken(w, t) PROVE DeadInv'
  <2>1. CASE row[t] = None
    BY <1>0, <1>10, <1>type, <2>1 DEF GetToken, TypeOK
  <2>2. CASE row[t] # None
    <3> DEFINE read == [row |-> row[t], active |-> row[t].user \in active]
    <3>0. read.row = row[t] /\ (read.active => row[t].user \in active)
      OBVIOUS
    <3>1. seen' = [seen EXCEPT ![w] = read]
      BY <1>10, <2>2 DEF GetToken
    <3> HIDE DEF read
    <3>2. ASSUME Dead(t) PROVE ~ Accepted(w)'
      <4>0. SUFFICES ASSUME Accepted(w)' PROVE FALSE
        OBVIOUS
      <4>1. seen'[w].row = row[t] /\ (seen'[w].active => row[t].user \in active)
        BY <1>type, <3>0, <3>1 DEF TypeOK
      <4>2. clock' = clock
        BY <1>10 DEF GetToken
      <4>3. IsActive(row[t]) /\ row[t].user \in active
        <5>1. IsActive(seen[w].row)' /\ seen'[w].active
          BY <4>0 DEF Accepted
        <5> QED BY <4>1, <4>2, <5>1 DEF IsActive, IsExpired
      <4>4. t \notin revoked
        BY <2>2, <4>3
      <4> QED BY <3>2, <4>3, <4>4 DEF Dead, IsActive
    <3>3. w \in late' => Dead(t) \/ w \in late
      BY <1>10, <2>2 DEF GetToken
    <3>4. pc' = [pc EXCEPT ![w] = "found"] /\ pc[w] = "idle"
      BY <1>10, <2>2 DEF GetToken
    <3>5. w \notin late
      BY <3>4
    <3>6. UNCHANGED <<clock, row, revoked>> /\ \A v \in Worker \ {w} : seen'[v] = seen[v]
      BY <1>10, <1>type, <3>1 DEF GetToken, TypeOK
    <3>7. \A v \in Worker \ {w} : v \in late' <=> v \in late
      BY <1>10, <2>2 DEF GetToken
    <3>8. ASSUME NEW v \in Worker PROVE WorkerInv(v)'
      <4>1. CASE v = w
        BY <1>0, <1>type, <3>2, <3>3, <3>4, <3>5, <4>1 DEF TypeInv, TypeOK
      <4>2. CASE v # w
        BY <1>0, <1>type, <3>4, <3>6, <3>7, <4>2 DEF TypeInv, TypeOK
      <4> QED BY <4>1, <4>2
    <3>9. RevocationKept' /\ InstantRevocation'
      BY <1>type, <3>4, <3>6, <3>7 DEF TypeOK
    <3> QED BY <1>0, <3>8, <3>9
  <2> QED BY <2>1, <2>2
<1>11. ASSUME NEW s \in Staff, NEW t \in Token, OpenForm(s, t) PROVE DeadInv'
  BY <1>0, <1>11 DEF OpenForm, requests
<1>12. ASSUME NEW s \in Staff, PostForm(s) PROVE DeadInv'
  BY <1>0, <1>12 DEF PostForm, requests
<1>13. ASSUME NEW s \in Staff, SaveForm(s) PROVE DeadInv'
  <2>1. form[s] \in Form /\ form[s].instance \in Row
    BY <1>13, <1>type DEF SaveForm, Form, TypeOK
  <2>2. PICK date \in {form[s].shown.revoked_at, clock} :
          /\ row' = [row EXCEPT ![form[s].token] =
                       [form[s].shown EXCEPT
                          !.revoked_at = date,
                          !.last_used_at = form[s].instance.last_used_at]]
          /\ revoked' = IF date = None
                        THEN revoked \ {form[s].token}
                        ELSE revoked \cup {form[s].token}
    BY <1>13 DEF SaveForm
  <2>3. RevocationKept'
    BY <1>type, <2>1, <2>2 DEF TypeOK, Form, Row
  <2> QED BY <1>0, <1>13, <2>3 DEF SaveForm, requests
<1>14. CASE UNCHANGED vars
  BY <1>0, <1>14 DEF vars
<1> QED
  BY <1>1, <1>2, <1>3, <1>4, <1>5, <1>6, <1>7, <1>8, <1>9, <1>10, <1>11,
     <1>12, <1>7a, <1>13, <1>14 DEF Next

(* Authenticating a request never undoes a revocation, for every number of *)
(* workers, tokens and change forms: mark_used writes its own column only. *)
THEOREM RevocationKeptHolds == Spec => []RevocationKept
<1>1. Init => DeadInv
  BY TypeInit DEF Init, DeadInv, IssuedInv, RevocationKept, InstantRevocation, WorkerInv
<1>2. DeadInv => RevocationKept
  BY DEF DeadInv
<1> QED BY <1>1, <1>2, DeadStep, PTL DEF Spec

(* A request that looks its token up after it was revoked or had expired,  *)
(* or after its user was deactivated, is never let through.                *)
THEOREM InstantRevocationHolds == Spec => []InstantRevocation
<1>1. Init => DeadInv
  BY TypeInit DEF Init, DeadInv, IssuedInv, RevocationKept, InstantRevocation, WorkerInv
<1>2. DeadInv => InstantRevocation
  BY DEF DeadInv
<1> QED BY <1>1, <1>2, DeadStep, PTL DEF Spec

-----------------------------------------------------------------------------
(* A step only adds uses, and the clock only moves on: what a row, a form  *)
(* or a marking worker has as last_used_at has a use before it.            *)
LEMMA UseStep == UseInv /\ [Next]_vars => UseInv'
<1> SUFFICES ASSUME UseInv, [Next]_vars PROVE UseInv'
  OBVIOUS
<1>0. TypeInv /\ TypeInv' /\ TypeOK /\ TypeOK'
  BY TypeStep DEF UseInv, TypeInv
<1> USE DEF UseInv, LastUsedReal, UsesInv, FormInv, UsedBy
<1>1. CASE Tick
  <2>1. clock' >= clock /\ clock \in Nat /\ clock' \in Nat
    BY <1>0, <1>1 DEF Tick, TypeOK, Time
  <2>2. ASSUME NEW w \in Worker PROVE UsesInv(w)'
    <3>1. uses[token[w]] \subseteq Nat
      BY <1>0 DEF TypeOK, Time
    <3> QED BY <1>0, <1>1, <2>1, <3>1 DEF Tick, requests
  <2> QED BY <1>0, <1>1, <2>2 DEF Tick, requests
<1>2. ASSUME NEW t \in Token, Issue(t) PROVE UseInv'
  BY <1>0, <1>2 DEF Issue, requests, TypeOK
<1>3. ASSUME NEW t \in Token, Revoke(t) PROVE UseInv'
  BY <1>0, <1>3 DEF Revoke, requests, TypeOK, Row
<1>4. ASSUME NEW t \in Token, Delete(t) PROVE UseInv'
  BY <1>0, <1>4 DEF Delete, requests, TypeOK
<1>5. ASSUME NEW selected \in SUBSET Token, RevokeSelected(selected) PROVE UseInv'
  BY <1>0, <1>5 DEF RevokeSelected, requests, TypeOK, Row
<1>6. ASSUME NEW u \in User, Deactivate(u) PROVE UseInv'
  BY <1>0, <1>6 DEF Deactivate, requests
<1>7. ASSUME NEW w \in Worker, Check(w) PROVE UseInv'
  <2>1. \A t \in Token : uses[t] \subseteq uses'[t]
    <3>1. uses' = uses \/ uses' = [uses EXCEPT ![token[w]] = @ \cup {clock}]
      BY <1>7 DEF Check
    <3> QED BY <1>0, <3>1 DEF TypeOK
  <2>2. pc'[w] = "accepted" => clock \in uses'[token[w]]
    <3>1. pc'[w] = "accepted" => uses' = [uses EXCEPT ![token[w]] = @ \cup {clock}]
      BY <1>0, <1>7 DEF Check, TypeOK
    <3> QED BY <1>0, <3>1 DEF TypeOK
  <2>3. pc'[w] # "marking"
    BY <1>0, <1>7 DEF Check, TypeOK
  <2>4. \A v \in Worker \ {w} : pc'[v] = pc[v] /\ seen'[v] = seen[v]
    BY <1>0, <1>7 DEF Check, TypeOK
  <2>5. UNCHANGED <<clock, row, token, form>>
    BY <1>7 DEF Check
  <2>6. LastUsedReal'
    BY <1>0, <2>1, <2>5 DEF TypeOK
  <2>7. ASSUME NEW v \in Worker PROVE UsesInv(v)'
    <3>1. CASE v = w
      <4>1. clock \in Nat
        BY <1>0 DEF TypeOK, Time
      <4> QED BY <1>0, <2>2, <2>3, <2>5, <3>1, <4>1 DEF TypeOK
    <3>2. CASE v # w
      BY <1>0, <2>1, <2>4, <2>5, <3>2 DEF TypeOK
    <3> QED BY <3>1, <3>2
  <2>8. ASSUME NEW s \in Staff PROVE FormInv(s)'
    BY <1>0, <2>1, <2>5 DEF TypeOK, Form
  <2> QED BY <1>0, <2>6, <2>7, <2>8
<1>7a. ASSUME NEW w \in Worker, UpdateUsed(w) PROVE UseInv'
  <2>1. UNCHANGED <<clock, row, token, form, uses>>
    BY <1>7a DEF UpdateUsed
  <2>2. pc' = [pc EXCEPT ![w] = "marking"]
    BY <1>7a DEF UpdateUsed
  <2>3. seen'[w].row.last_used_at = clock
    <3>1. seen[w] \in Lookup /\ seen' = [seen EXCEPT ![w].row.last_used_at = clock]
      BY <1>0, <1>7a DEF UpdateUsed, TypeInv
    <3> QED BY <1>0, <3>1 DEF TypeOK, Lookup, Row
  <2>4. \A v \in Worker \ {w} : seen'[v] = seen[v]
    BY <1>0, <1>7a DEF UpdateUsed, TypeOK
  <2>5. UsedBy(token[w], clock)
    BY <1>7a DEF UpdateUsed
  <2>6. ASSUME NEW v \in Worker PROVE UsesInv(v)'
    BY <1>0, <2>1, <2>2, <2>3, <2>4, <2>5 DEF TypeOK
  <2> QED BY <1>0, <2>1, <2>6
<1>8. ASSUME NEW w \in Worker, MarkUsed(w) PROVE UseInv'
  BY <1>0, <1>8 DEF MarkUsed, TypeOK, Row
<1>9. ASSUME NEW w \in Worker, Respond(w) PROVE UseInv'
  BY <1>0, <1>9 DEF Respond, TypeOK
<1>10. ASSUME NEW w \in Worker, NEW t \in Token, GetToken(w, t) PROVE UseInv'
  BY <1>0, <1>10 DEF GetToken, TypeOK
<1>11. ASSUME NEW s \in Staff, NEW t \in Token, OpenForm(s, t) PROVE UseInv'
  BY <1>0, <1>11 DEF OpenForm, requests, TypeOK
<1>12. ASSUME NEW s \in Staff, PostForm(s) PROVE UseInv'
  BY <1>0, <1>12 DEF PostForm, requests, TypeOK, Form
<1>13. ASSUME NEW s \in Staff, SaveForm(s) PROVE UseInv'
  BY <1>0, <1>13 DEF SaveForm, requests, TypeOK, Form, Row
<1>14. CASE UNCHANGED vars
  BY <1>0, <1>14 DEF vars
<1> QED
  BY <1>1, <1>2, <1>3, <1>4, <1>5, <1>6, <1>7, <1>8, <1>9, <1>10, <1>11,
     <1>12, <1>7a, <1>13, <1>14 DEF Next

(* last_used_at has a use at or before it: by then the checks had accepted *)
(* the token, in whatever order its requests and forms write the row.      *)
THEOREM LastUsedRealHolds == Spec => []LastUsedReal
<1>1. Init => UseInv
  BY TypeInit DEF Init, UseInv, LastUsedReal, UsesInv, FormInv
<1>2. UseInv => LastUsedReal
  BY DEF UseInv
<1> QED BY <1>1, <1>2, UseStep, PTL DEF Spec

-----------------------------------------------------------------------------
(* Which step may give a row to an issued token that has none: only the    *)
(* save of a change form that is open on it.                               *)
LEMMA RowReturns ==
  ASSUME TypeInv, [Next]_vars, NEW t \in Token, t \in issued, row[t] = None,
         row'[t] # None
  PROVE  \E s \in Staff : form[s] # None /\ form[s].token = t
<1> USE DEF TypeInv, TypeOK
<1>1. UNCHANGED row => FALSE
  OBVIOUS
<1>2. ASSUME NEW u \in Token, Issue(u) \/ Revoke(u) \/ Delete(u) PROVE FALSE
  <2>1. u = t
    BY <1>2 DEF Issue, Revoke, Delete
  <2>2. CASE Issue(u)
    BY <2>1, <2>2 DEF Issue
  <2>3. CASE Revoke(u)
    BY <2>1, <2>3 DEF Revoke
  <2>4. CASE Delete(u)
    BY <2>1, <2>4 DEF Delete
  <2> QED BY <1>2, <2>2, <2>3, <2>4
<1>3. ASSUME NEW selected \in SUBSET Token, RevokeSelected(selected) PROVE FALSE
  BY <1>3 DEF RevokeSelected
<1>4. ASSUME NEW w \in Worker, MarkUsed(w) PROVE FALSE
  <2>1. CASE row[token[w]] = None
    BY <1>1, <1>4, <2>1 DEF MarkUsed
  <2>2. CASE row[token[w]] # None
    <3>1. token[w] # t
      BY <2>2
    <3> QED BY <1>4, <2>2, <3>1 DEF MarkUsed
  <2> QED BY <2>1, <2>2
<1>5. ASSUME NEW s \in Staff, SaveForm(s)
      PROVE  form[s] # None /\ form[s].token = t
  BY <1>5 DEF SaveForm
<1>6. ASSUME NEW w \in Worker, Check(w) \/ UpdateUsed(w) \/ Respond(w) PROVE FALSE
  BY <1>1, <1>6 DEF Check, UpdateUsed, Respond
<1>7. ASSUME NEW w \in Worker, NEW u \in Token, GetToken(w, u) PROVE FALSE
  BY <1>1, <1>7 DEF GetToken
<1>8. ASSUME NEW s \in Staff, PostForm(s) PROVE FALSE
  BY <1>1, <1>8 DEF PostForm
<1>9. ASSUME NEW s \in Staff, NEW u \in Token, OpenForm(s, u) PROVE FALSE
  BY <1>1, <1>9 DEF OpenForm
<1>10. ASSUME Tick \/ \E u \in User : Deactivate(u) PROVE FALSE
  BY <1>1, <1>10 DEF Tick, Deactivate
<1>11. UNCHANGED vars => FALSE
  BY <1>1 DEF vars
<1> QED
  BY <1>2, <1>3, <1>4, <1>5, <1>6, <1>7, <1>8, <1>9, <1>10, <1>11 DEF Next

(* A deleted token stays deleted unless a change form is open on it: no    *)
(* mark_used, however late, inserts the row again (TokenAuth.mark_used     *)
(* writes with update_fields).                                             *)
THEOREM DeletedStaysDeletedHolds == Spec => DeletedStaysDeleted
<1> DEFINE Kept == \A t \in Token :
                     t \in issued /\ row[t] = None /\ row'[t] # None =>
                       \E s \in Staff : form[s] # None /\ form[s].token = t
<1>1. TypeInv /\ [Next]_vars => [Kept]_vars
  BY RowReturns
<1>2. Spec => []TypeInv
  BY TypeInit, TypeStep, PTL DEF Spec
<1> QED BY <1>1, <1>2, PTL DEF Spec, DeletedStaysDeleted
=============================================================================
