----------------------------- MODULE TokenAuth -----------------------------
(***************************************************************************)
(* Opaque tokens: BaseTokenSyncAuth and BaseTokenAsyncAuth                 *)
(* (dmr/security/token/auth/base.py) over the Token model and its admin    *)
(* (dmr/security/token/app). A request reads the row of its token, checks  *)
(* what it read and, with update_last_used, writes the row, in statements  *)
(* of their own and without a transaction; meanwhile the token may be      *)
(* revoked, edited or deleted and its user deactivated.                    *)
(***************************************************************************)
EXTENDS Naturals

CONSTANTS
  Worker,          \* threads or tasks that authenticate requests
  Token,           \* raw tokens: each has its row once it is issued
  User,
  Staff,           \* who edits tokens in the admin, a form at a time
  UpdateLastUsed,  \* values of the option among the auth classes in use
  MaxClock,        \* bound: the last second of the modelled time
  None

Time == 0 .. MaxClock

ASSUME ConstantsAssumption ==
  /\ UpdateLastUsed \subseteq BOOLEAN
  /\ MaxClock \in Nat
  /\ None \notin Time

Date == Time \cup {None}  \* a nullable DateTimeField
Row == [user: User, expires_at: Date, revoked_at: Date, last_used_at: Date]

ASSUME RowAssumption == None \notin Row

VARIABLES
  clock,
  row,      \* [Token -> its row, or None: not issued yet, or deleted]
  issued,   \* tokens ever issued: raw values are not drawn twice
  active,   \* users with is_active
  pc,       \* [Worker -> where authenticate() is]
  token,    \* [Worker -> the token the request carries]
  seen,     \* [Worker -> the row and the is_active that get_token returned]
  form,     \* [Staff -> the change form: its token, its fields, the instance]
  revoked,  \* history: tokens whose latest revocation was not taken back
  late,     \* history: workers whose lookup came after the token was dead
  uses      \* history: [Token -> when it was accepted]

vars == <<clock, row, issued, active, pc, token, seen, form, revoked, late, uses>>

Lookup == [row: Row, active: BOOLEAN]
Form == [token: Token, shown: Row, instance: Row \cup {None}]

TypeOK ==
  /\ clock \in Time
  /\ row \in [Token -> Row \cup {None}]
  /\ issued \subseteq Token
  /\ active \subseteq User
  /\ pc \in [Worker -> {"idle", "found", "accepted", "marking", "granted",
                       "denied", "failed"}]
  /\ token \in [Worker -> Token]
  /\ seen \in [Worker -> Lookup \cup {None}]
  /\ form \in [Staff -> Form \cup {None}]
  /\ revoked \subseteq Token
  /\ late \subseteq Worker
  /\ uses \in [Token -> SUBSET Time]

Init ==
  /\ clock = 0
  /\ row = [t \in Token |-> None]
  /\ issued = {}
  /\ active = User
  /\ pc = [w \in Worker |-> "idle"]
  /\ token \in [Worker -> Token]
  /\ seen = [w \in Worker |-> None]
  /\ form = [s \in Staff |-> None]
  /\ revoked = {}
  /\ late = {}
  /\ uses = [t \in Token |-> {}]

requests == <<pc, token, seen, late, uses>>

-----------------------------------------------------------------------------
(* Token.issue: the expiry is a given date, None, or now plus the default. *)
Issue(t) ==
  /\ t \notin issued
  /\ issued' = issued \cup {t}
  /\ \E u \in User, date \in Date :
       row' = [row EXCEPT ![t] = [user |-> u, expires_at |-> date,
                                  revoked_at |-> None, last_used_at |-> None]]
  /\ UNCHANGED <<clock, active, form, revoked, requests>>

IsExpired(r) == r.expires_at # None /\ r.expires_at <= clock

IsActiveUntil(r) ==  \* fault: a revocation counts from its date on
  ~ IsExpired(r) /\ (r.revoked_at # None => clock < r.revoked_at)

(* A revocation date in the future counts from now on: only None is active.*)
IsActive(r) == ~ IsExpired(r) /\ r.revoked_at = None

Dead(t) == t \in revoked \/ IsExpired(row[t]) \/ row[t].user \notin active

(* get_token: one SELECT with the user joined. An unknown token is denied. *)
GetToken(w, t) ==
  /\ pc[w] = "idle"
  /\ token' = [token EXCEPT ![w] = t]
  /\ IF row[t] = None
     THEN /\ pc' = [pc EXCEPT ![w] = "denied"]
          /\ UNCHANGED <<seen, late>>
     ELSE /\ pc' = [pc EXCEPT ![w] = "found"]
          /\ seen' = [seen EXCEPT ![w] =
                        [row |-> row[t], active |-> row[t].user \in active]]
          /\ late' = IF Dead(t) THEN late \cup {w} ELSE late
  /\ UNCHANGED <<clock, row, issued, active, form, revoked, uses>>

Accepted(w) == IsActive(seen[w].row) /\ seen[w].active

CheckMarked(w) ==  \* fault: the use is recorded before the checks
  /\ pc[w] = "found"
  /\ pc' = [pc EXCEPT ![w] = IF Accepted(w) THEN "granted" ELSE "denied"]
  /\ row' = IF row[token[w]] = None
            THEN row
            ELSE [row EXCEPT ![token[w]].last_used_at = clock]
  /\ uses' = IF Accepted(w)
             THEN [uses EXCEPT ![token[w]] = @ \cup {clock}]
             ELSE uses
  /\ seen' = [seen EXCEPT ![w] = None]
  /\ UNCHANGED <<clock, issued, active, token, form, revoked, late>>

(* check_token reads the clock for the expiry date; it and check_user look *)
(* at the row and the user that get_token returned.                        *)
Check(w) ==
  /\ pc[w] = "found"
  /\ \/ /\ ~ Accepted(w)
        /\ pc' = [pc EXCEPT ![w] = "denied"]
        /\ seen' = [seen EXCEPT ![w] = None]
        /\ UNCHANGED uses
     \/ /\ Accepted(w)
        /\ FALSE \in UpdateLastUsed
        /\ pc' = [pc EXCEPT ![w] = "granted"]
        /\ seen' = [seen EXCEPT ![w] = None]
        /\ uses' = [uses EXCEPT ![token[w]] = @ \cup {clock}]
     \/ /\ Accepted(w)
        /\ TRUE \in UpdateLastUsed
        /\ pc' = [pc EXCEPT ![w] = "accepted"]
        /\ uses' = [uses EXCEPT ![token[w]] = @ \cup {clock}]
        /\ UNCHANGED seen
  /\ UNCHANGED <<clock, row, issued, active, token, form, revoked, late>>

(* _update_used reads the clock again, for the instance that is saved: the *)
(* token may have expired since it was checked.                            *)
UpdateUsed(w) ==
  /\ pc[w] = "accepted"
  /\ pc' = [pc EXCEPT ![w] = "marking"]
  /\ seen' = [seen EXCEPT ![w].row.last_used_at = clock]
  /\ UNCHANGED <<clock, row, issued, active, token, form, revoked, late, uses>>

MarkUsedSavesAll(w) ==  \* fault: save() without update_fields
  /\ pc[w] = "marking"
  /\ pc' = [pc EXCEPT ![w] = "granted"]
  /\ row' = [row EXCEPT ![token[w]] = seen[w].row]
  /\ seen' = [seen EXCEPT ![w] = None]
  /\ UNCHANGED <<clock, issued, active, token, form, revoked, late, uses>>

(* The save of mark_used: an UPDATE of last_used_at alone. Without a row,  *)
(* save(update_fields=...) raises DatabaseError.                           *)
MarkUsed(w) ==
  /\ pc[w] = "marking"
  /\ IF row[token[w]] = None
     THEN /\ pc' = [pc EXCEPT ![w] = "failed"]
          /\ UNCHANGED row
     ELSE /\ pc' = [pc EXCEPT ![w] = "granted"]
          /\ row' = [row EXCEPT ![token[w]].last_used_at = seen[w].row.last_used_at]
  /\ seen' = [seen EXCEPT ![w] = None]
  /\ UNCHANGED <<clock, issued, active, token, form, revoked, late, uses>>

RespondUnset(w) ==  \* fault: the worker is left without a token
  /\ pc[w] \in {"granted", "denied", "failed"}
  /\ pc' = [pc EXCEPT ![w] = "idle"]
  /\ token' = [token EXCEPT ![w] = None]
  /\ late' = late \ {w}
  /\ UNCHANGED <<clock, row, issued, active, seen, form, revoked, uses>>

(* The endpoint has answered; the worker takes another request.            *)
Respond(w) ==
  /\ pc[w] \in {"granted", "denied", "failed"}
  /\ pc' = [pc EXCEPT ![w] = "idle"]
  /\ late' = late \ {w}
  /\ UNCHANGED <<clock, row, issued, active, token, seen, form, revoked, uses>>

(* Token.revoke(at=...): an UPDATE of revoked_at alone, to any given date. *)
(* Without a row it raises DatabaseError and changes nothing: no step.     *)
Revoke(t) ==
  /\ row[t] # None
  /\ \E at \in Time : row' = [row EXCEPT ![t].revoked_at = at]
  /\ revoked' = revoked \cup {t}
  /\ UNCHANGED <<clock, issued, active, form, requests>>

(* TokenAdmin.revoke_selected: one transaction over the locked rows.       *)
RevokeSelected(selected) ==
  /\ \A t \in selected : row[t] # None
  /\ row' = [t \in Token |-> IF t \in selected
                             THEN [row[t] EXCEPT !.revoked_at = clock]
                             ELSE row[t]]
  /\ revoked' = revoked \cup selected
  /\ UNCHANGED <<clock, issued, active, form, requests>>

(* The change form of TokenAdmin shows the row: user, name, expires_at and *)
(* revoked_at can be edited, the other fields are readonly_fields.         *)
OpenForm(s, t) ==
  /\ form[s] = None
  /\ row[t] # None
  /\ form' = [form EXCEPT ![s] = [token |-> t, shown |-> row[t], instance |-> None]]
  /\ UNCHANGED <<clock, row, issued, active, revoked, requests>>

(* The form is posted: the instance is read anew, if it is still there.    *)
PostForm(s) ==
  /\ form[s] # None
  /\ form[s].instance = None
  /\ form' = IF row[form[s].token] = None
             THEN [form EXCEPT ![s] = None]
             ELSE [form EXCEPT ![s].instance = row[form[s].token]]
  /\ UNCHANGED <<clock, row, issued, active, revoked, requests>>

(* The instance is saved with the posted fields and without update_fields: *)
(* every column is written, and a row deleted meanwhile is inserted again. *)
(* The staff leave revoked_at as it was shown, or set it to revoke.        *)
SaveForm(s) ==
  /\ form[s] # None
  /\ form[s].instance # None
  /\ \E date \in {form[s].shown.revoked_at, clock} :
       /\ row' = [row EXCEPT ![form[s].token] =
                    [form[s].shown EXCEPT
                       !.revoked_at = date,
                       !.last_used_at = form[s].instance.last_used_at]]
       /\ revoked' = IF date = None
                     THEN revoked \ {form[s].token}
                     ELSE revoked \cup {form[s].token}
  /\ form' = [form EXCEPT ![s] = None]
  /\ UNCHANGED <<clock, issued, active, requests>>

Delete(t) ==
  /\ row[t] # None
  /\ row' = [row EXCEPT ![t] = None]
  /\ UNCHANGED <<clock, issued, active, form, revoked, requests>>

Deactivate(u) ==
  /\ u \in active
  /\ active' = active \ {u}
  /\ UNCHANGED <<clock, row, issued, form, revoked, requests>>

Tick ==
  /\ clock < MaxClock
  /\ clock' = clock + 1
  /\ UNCHANGED <<row, issued, active, form, revoked, requests>>

Next ==
  \/ Tick
  \/ \E t \in Token : Issue(t) \/ Revoke(t) \/ Delete(t)
  \/ \E selected \in SUBSET Token : RevokeSelected(selected)
  \/ \E u \in User : Deactivate(u)
  \/ \E w \in Worker : Check(w) \/ UpdateUsed(w) \/ MarkUsed(w) \/ Respond(w)
  \/ \E w \in Worker, t \in Token : GetToken(w, t)
  \/ \E s \in Staff : PostForm(s) \/ SaveForm(s)
  \/ \E s \in Staff, t \in Token : OpenForm(s, t)

Spec == Init /\ [][Next]_vars

-----------------------------------------------------------------------------
(* A revocation is not lost to a request that was being authenticated: a   *)
(* row that was revoked, and not given back by its staff, stays revoked.   *)
RevocationKept ==
  \A t \in revoked : row[t] # None => row[t].revoked_at # None

(* "Token is dead instantly" (docs/pages/auth/common.rst): no request that *)
(* is looked up after the token was revoked or had expired, or after its   *)
(* user was deactivated, is let through.                                   *)
InstantRevocation ==
  \A w \in late : pc[w] \notin {"accepted", "marking", "granted"}

(* last_used_at is a use of the token: by then the checks had accepted it, *)
(* whichever of the unlocked writes of its requests and forms came last.   *)
(* It may lie after the expiry date, since mark_used reads the clock anew. *)
LastUsedReal ==
  \A t \in Token :
    row[t] # None /\ row[t].last_used_at # None =>
      \E use \in uses[t] : use <= row[t].last_used_at

(* A deleted token stays deleted, unless a change form is open on it: the  *)
(* request that read the row before cannot insert it again, however late   *)
(* its mark_used lands.                                                    *)
DeletedStaysDeleted ==
  [][\A t \in Token :
       t \in issued /\ row[t] = None /\ row'[t] # None =>
         \E s \in Staff : form[s] # None /\ form[s].token = t]_vars

(* The lifecycle in docs/pages/auth/token.rst has no way from Revoked back *)
(* to Active: a revoked token stays revoked until its row is deleted.      *)
RevokedForever ==
  [][\A t \in Token :
       row[t] # None /\ row[t].revoked_at # None =>
         row'[t] = None \/ row'[t].revoked_at # None]_vars
=============================================================================
