------------------------------ MODULE JwtAuth ------------------------------
(***************************************************************************)
(* JWT authentication: BaseJWTSyncAuth / BaseJWTAsyncAuth                  *)
(* (dmr/security/jwt/auth.py) over JWToken (jwt/token.py), with the        *)
(* blocklist mixin (jwt/blocklist/auth.py), and the controllers that       *)
(* obtain, refresh and verify tokens (jwt/views.py).                       *)
(*                                                                         *)
(* A token is its claims: nothing is stored when it is issued. A request   *)
(* is checked in steps of its own (decode, construct, the user's row, the  *)
(* blocklist) while time passes, users are deactivated or deleted and rows *)
(* of the blocklist come and go. The hosts that issue tokens may have a    *)
(* clock that is ahead of the one that checks them.                        *)
(***************************************************************************)
EXTENDS Integers

CONSTANTS
  Request,      \* requests in flight
  User,
  Foreign,      \* tokens signed with the same secret by another program
  AuthOptions,  \* of the auth: [leeway, exp, iat], exp and iat are verify_*
  AccessLife,   \* jwt_expiration, in seconds
  RefreshLife,  \* jwt_refresh_expiration
  MaxPairs,     \* bound: pairs of tokens that are issued
  Skews,        \* seconds the clocks of the hosts that issue are ahead
  MaxClock,     \* bound: the last second of the modelled time
  Empty,        \* the subject ''
  None

Time == 0 .. MaxClock
Pair == 1 .. MaxPairs
Options == [leeway: Nat, exp: BOOLEAN, iat: BOOLEAN]

(* uuid4().hex is new each time; a foreign token brings its own jti or none. *)
Jti == {f.jti : f \in Foreign} \cup (Pair \X {"access", "refresh"})

(* signed: the signature, and the audience and issuer if they are checked. *)
(* A None among the claims is one that is missing.                         *)
Token == [sub: User \cup {Empty, None}, exp: Int, iat: Int, jti: Jti,
          type: {"access", "refresh", None}, signed: BOOLEAN]

ASSUME ConstantsAssumption ==
  /\ Foreign \subseteq [sub: User \cup {Empty, None}, exp: Int, iat: Int,
                        jti: {f.jti : f \in Foreign},
                        type: {"access", "refresh", None}, signed: BOOLEAN]
  /\ AuthOptions \in Options
  /\ {AccessLife, RefreshLife, MaxPairs, MaxClock} \cup Skews \subseteq Nat
  /\ User \cap {Empty, None} = {}

Guarded == {"access", "logout"}  \* endpoints with the auth; logout blocklists
Kind == Guarded \cup {"refresh", "verify", "obtain"}
Status == {"active", "inactive", "deleted"}
Reason == {"unsigned", "expired", "mistyped", "nobody", "inactive", "blocklisted"}
PC == {"idle", "decode", "construct", "lookup", "check", "handle", "get",
       "create", "reget", "created", "known", "issue", "done", "refused",
       "failed"}

VARIABLES
  clock,    \* of the host that checks, in whole seconds
  status,   \* [User -> is_active, or whether the row is gone]
  issued,   \* tokens that somebody holds
  pairs,    \* how many pairs the controllers have issued
  blocked,  \* jti of the rows of BlocklistedJWToken
  pc,       \* [Request -> where the request is]
  req,      \* [Request -> its kind, token, user and time of arrival]
  seen,     \* [Request -> is_active of the instance that get_user returned]
  late,     \* history: [Request -> why its token was dead on arrival, and is]
  lifted    \* history: requests whose jti the admin has unblocked meanwhile

vars == <<clock, status, issued, pairs, blocked, pc, req, seen, late, lifted>>

Arrival == [kind: Kind, token: Token \cup {None}, sub: User \cup {Empty, None},
            at: Time]

TypeOK ==
  /\ clock \in Time
  /\ status \in [User -> Status]
  /\ issued \subseteq Token
  /\ pairs \in 0 .. MaxPairs
  /\ blocked \subseteq Jti \ {None}
  /\ pc \in [Request -> PC]
  /\ req \in [Request -> Arrival \cup {None}]
  /\ seen \in [Request -> BOOLEAN]
  /\ late \in [Request -> SUBSET Reason]
  /\ lifted \subseteq Request

Init ==
  /\ clock = 0
  /\ status = [u \in User |-> "active"]
  /\ issued = Foreign
  /\ pairs = 0
  /\ blocked = {}
  /\ pc = [r \in Request |-> "idle"]
  /\ req = [r \in Request |-> None]
  /\ seen = [r \in Request |-> FALSE]
  /\ late = [r \in Request |-> {}]
  /\ lifted = {}

Goto(r, step) == pc' = [pc EXCEPT ![r] = step]

world == <<clock, status, issued, pairs, blocked>>
-----------------------------------------------------------------------------
(* The controllers decode with leeway 0 and every verification on.         *)
OptionsOf(kind) ==
  IF kind \in Guarded
  THEN AuthOptions
  ELSE [leeway |-> 0, exp |-> TRUE, iat |-> TRUE]

(* jwt.decode and the required claims: NotAuthenticatedError.              *)
Refuses(o, t, now) ==
  \/ ~ t.signed
  \/ t.sub = None
  \/ o.exp /\ t.exp + o.leeway <= now
  \/ o.iat /\ t.iat > now + o.leeway

(* JWToken.__post_init__: ValueError, which no auth catches. The issue time *)
(* is compared without the leeway.                                         *)
Crashes(o, t, now) ==
  \/ t.sub = Empty
  \/ t.exp + o.leeway < now
  \/ t.iat > now

Mistyped(kind, t) ==
  \/ kind = "refresh" /\ t.type # "refresh"
  \/ kind = "verify" /\ t.type # "access"

(* What should keep a token out that arrives now.                          *)
DeadBecause(kind, t) ==
  {why \in Reason :
     \/ why = "unsigned" /\ ~ t.signed
     \/ why = "expired" /\ t.exp + OptionsOf(kind).leeway < clock
     \/ why = "mistyped" /\ Mistyped(kind, t)
     \/ why = "nobody" /\ (t.sub \notin User \/ status[t.sub] = "deleted")
     \/ why = "inactive" /\ t.sub \in User /\ status[t.sub] = "inactive"
     \/ why = "blocklisted" /\ kind \in Guarded /\ t.jti \in blocked}

(* Bound: a request that may issue a pair has one left.                    *)
Issuing == {r \in Request : pc[r] # "idle" /\ req[r].kind \in {"refresh", "obtain"}}
MayIssue(kind) ==
  kind \in {"refresh", "obtain"} => Issuing = {} /\ pairs < MaxPairs

(* A request arrives with its token in a header, a cookie or the body.     *)
Receive(r) ==
  /\ pc[r] = "idle"
  /\ \E kind \in Kind \ {"obtain"}, t \in issued :
       /\ MayIssue(kind)
       /\ req' = [req EXCEPT ![r] = [kind |-> kind, token |-> t, sub |-> t.sub,
                                     at |-> clock]]
       /\ late' = [late EXCEPT ![r] = DeadBecause(kind, t)]
  /\ Goto(r, "decode")
  /\ UNCHANGED <<world, seen, lifted>>

(* ObtainTokens*Controller.login: authenticate() lets active users in.     *)
Login(r) ==
  /\ pc[r] = "idle"
  /\ MayIssue("obtain")
  /\ \E u \in User :
       /\ req' = [req EXCEPT ![r] = [kind |-> "obtain", token |-> None,
                                     sub |-> u, at |-> clock]]
       /\ Goto(r, IF status[u] = "active" THEN "issue" ELSE "refused")
  /\ UNCHANGED <<world, seen, late, lifted>>

TokenOf(r) == req[r].token
OptionsFor(r) == OptionsOf(req[r].kind)

Decode(r) ==
  /\ pc[r] = "decode"
  /\ Goto(r, IF Refuses(OptionsFor(r), TokenOf(r), clock)
             THEN "refused" ELSE "construct")
  /\ UNCHANGED <<world, req, seen, late, lifted>>

(* JWToken(...), which reads the clock again, and the type of the token.   *)
Construct(r) ==
  /\ pc[r] = "construct"
  /\ Goto(r, IF Crashes(OptionsFor(r), TokenOf(r), clock) THEN "failed"
             ELSE IF Mistyped(req[r].kind, TokenOf(r)) THEN "refused"
             ELSE "lookup")
  /\ UNCHANGED <<world, req, seen, late, lifted>>

Exists(u) == u \in User /\ status[u] # "deleted"

(* get_user: any error of the lookup means that there is no such user.     *)
GetUser(r) ==
  /\ pc[r] = "lookup"
  /\ IF Exists(req[r].sub)
     THEN /\ seen' = [seen EXCEPT ![r] = status[req[r].sub] = "active"]
          /\ Goto(r, "check")
     ELSE /\ Goto(r, "refused")
          /\ UNCHANGED seen
  /\ UNCHANGED <<world, req, late, lifted>>

After(kind) ==
  CASE kind = "logout" -> "handle"
    [] kind = "refresh" -> "issue"
    [] OTHER -> "done"

CheckUnlisted(r) ==  \* fault: the mixin comes after the auth it extends
  /\ pc[r] = "check"
  /\ Goto(r, IF ~ seen[r] THEN "refused" ELSE After(req[r].kind))
  /\ UNCHANGED <<world, req, seen, late, lifted>>

(* check_auth: the instance that was read, then a query of the blocklist,  *)
(* which the controllers of tokens do not make.                            *)
Check(r) ==
  /\ pc[r] = "check"
  /\ Goto(r, IF \/ ~ seen[r]
                \/ req[r].kind \in Guarded /\ TokenOf(r).jti \in blocked
             THEN "refused" ELSE After(req[r].kind))
  /\ UNCHANGED <<world, req, seen, late, lifted>>
-----------------------------------------------------------------------------
(* The method of a logout endpoint calls blocklist(): the user once more,  *)
(* then get_or_create by jti.                                              *)
Owner(r) ==
  /\ pc[r] = "handle"
  /\ Goto(r, IF Exists(req[r].sub) THEN "get" ELSE "refused")
  /\ UNCHANGED <<world, req, seen, late, lifted>>

GetEntry(r) ==
  /\ pc[r] = "get"
  /\ Goto(r, IF TokenOf(r).jti \in blocked THEN "known" ELSE "create")
  /\ UNCHANGED <<world, req, seen, late, lifted>>

InsertableTwice(r) ==  \* fault: jti is not unique
  TokenOf(r).jti # None /\ Exists(req[r].sub)

(* IntegrityError: jti is unique and not null, user is a foreign key.      *)
Insertable(r) ==
  TokenOf(r).jti \notin blocked \cup {None} /\ Exists(req[r].sub)

CreateEntryOnce(r) ==  \* fault: the IntegrityError is raised at once
  /\ pc[r] = "create"
  /\ IF Insertable(r)
     THEN blocked' = blocked \cup {TokenOf(r).jti} /\ Goto(r, "created")
     ELSE UNCHANGED blocked /\ Goto(r, "failed")
  /\ UNCHANGED <<clock, status, issued, pairs, req, seen, late, lifted>>

CreateEntry(r) ==
  /\ pc[r] = "create"
  /\ IF Insertable(r)
     THEN blocked' = blocked \cup {TokenOf(r).jti} /\ Goto(r, "created")
     ELSE UNCHANGED blocked /\ Goto(r, "reget")
  /\ UNCHANGED <<clock, status, issued, pairs, req, seen, late, lifted>>

(* get_or_create looks once more, and else raises what the insert raised.  *)
GetAgain(r) ==
  /\ pc[r] = "reget"
  /\ Goto(r, IF TokenOf(r).jti \in blocked THEN "known" ELSE "failed")
  /\ UNCHANGED <<world, req, seen, late, lifted>>

IssuedForever(u, type, life, skew) ==  \* fault: no expiration
  [sub |-> u, exp |-> None, iat |-> clock + skew,
   jti |-> <<pairs + 1, type>>, type |-> type, signed |-> TRUE]

(* create_jwt_token, by a host whose clock is ahead.                       *)
Issued(u, type, life, skew) ==
  [sub |-> u, exp |-> clock + skew + life, iat |-> clock + skew,
   jti |-> <<pairs + 1, type>>, type |-> type, signed |-> TRUE]

IssuePair(r) ==
  /\ pc[r] = "issue"
  /\ pairs < MaxPairs
  /\ \E skew \in Skews :
       issued' = issued \cup {Issued(req[r].sub, "access", AccessLife, skew),
                              Issued(req[r].sub, "refresh", RefreshLife, skew)}
  /\ pairs' = pairs + 1
  /\ Goto(r, "done")
  /\ UNCHANGED <<clock, status, blocked, req, seen, late, lifted>>

Respond(r) ==
  /\ pc[r] \in {"created", "known", "done", "refused", "failed"}
  /\ req' = [req EXCEPT ![r] = None]
  /\ seen' = [seen EXCEPT ![r] = FALSE]
  /\ late' = [late EXCEPT ![r] = {}]
  /\ lifted' = lifted \ {r}
  /\ Goto(r, "idle")
  /\ UNCHANGED world
-----------------------------------------------------------------------------
(* The admin: users are edited and deleted, rows of the blocklist deleted. *)
SetStatus(u, value) ==
  /\ status[u] # "deleted"
  /\ status[u] # value
  /\ status' = [status EXCEPT ![u] = value]
  /\ late' = [r \in Request |->
                IF value = "active" /\ pc[r] # "idle" /\ req[r].sub = u
                THEN late[r] \ {"inactive"} ELSE late[r]]
  /\ UNCHANGED <<clock, issued, pairs, blocked, pc, req, seen, lifted>>

Unblock(j) ==
  LET bearers == {r \in Request : pc[r] # "idle" /\ req[r].kind \in Guarded
                                  /\ TokenOf(r).jti = j}
  IN  /\ j \in blocked
      /\ blocked' = blocked \ {j}
      /\ late' = [r \in Request |->
                    IF r \in bearers THEN late[r] \ {"blocklisted"} ELSE late[r]]
      /\ lifted' = lifted \cup
           {r \in bearers : pc[r] \in {"reget", "created", "known"}}
      /\ UNCHANGED <<clock, status, issued, pairs, pc, req, seen>>

Tick ==
  /\ clock < MaxClock
  /\ clock' = clock + 1
  /\ UNCHANGED <<status, issued, pairs, blocked, pc, req, seen, late, lifted>>

Step(r) ==
  \/ Receive(r) \/ Login(r) \/ Decode(r) \/ Construct(r) \/ GetUser(r)
  \/ Check(r) \/ Owner(r) \/ GetEntry(r) \/ CreateEntry(r) \/ GetAgain(r)
  \/ IssuePair(r) \/ Respond(r)

Next ==
  \/ \E r \in Request : Step(r)
  \/ \E u \in User, value \in Status : SetStatus(u, value)
  \/ \E j \in Jti : Unblock(j)
  \/ Tick

Spec == Init /\ [][Next]_vars
-----------------------------------------------------------------------------
(* A token that was dead when its request arrived, and is for the same     *)
(* reason still dead, neither authenticates, nor verifies, nor is turned   *)
(* into new tokens, whatever happens between the steps of the check.       *)
Through == {"handle", "get", "create", "reget", "created", "known", "issue", "done"}

DeadStaysOut == \A r \in Request : pc[r] \in Through => late[r] = {}

(* blocklist() has done what it says when it returns: the jti is on the    *)
(* list unless the admin took it off again, and of several logouts with    *)
(* the same token one is told that it has created the row.                 *)
LogoutHolds ==
  /\ \A r \in Request :
       pc[r] \in {"created", "known"} =>
         TokenOf(r).jti \in blocked \/ r \in lifted
  /\ \A r, s \in Request :
       /\ r # s
       /\ pc[r] = "created" /\ pc[s] = "created"
       /\ TokenOf(r).jti = TokenOf(s).jti
       => r \in lifted \/ s \in lifted

(* Requests with one token do not make each other fail: what the auth has  *)
(* let in ends with an error only as a logout that has nothing to store,   *)
(* because the token has no jti, because the admin has taken the row off   *)
(* again, or because the user is gone. A logout that loses the race of     *)
(* get_or_create against another one succeeds.                             *)
Unstorable(r) == TokenOf(r).jti = None \/ r \in lifted \/ ~ Exists(req[r].sub)

LogoutsDoNotCollide ==
  \A r \in Request :
    pc[r] = "failed" /\ seen[r] => req[r].kind = "logout" /\ Unstorable(r)
=============================================================================
