----------------------------- MODULE CookieAuth -----------------------------
(***************************************************************************)
(* One browser, its cookies, and tabs with the pages that the OpenAPI      *)
(* views render (dmr/openapi/views, dmr/static/dmr/*/init.js). The pages   *)
(* call endpoints that are protected by a cookie: a Django session, a JWT  *)
(* or an opaque token (dmr/security/django_session, jwt/cookie.py,         *)
(* token/auth/cookie.py), and so by the CSRF check of dmr/internal/csrf.py.*)
(*                                                                         *)
(* A tab waits for one answer at a time; the exchanges of different tabs   *)
(* interleave. The CSRF secret is kept in a cookie and CsrfViewMiddleware  *)
(* is installed, so that answers set that cookie.                          *)
(***************************************************************************)
EXTENDS Naturals

CONSTANTS
  None,
  Tab,
  Schemes,     \* the kinds of cookie auth considered
  MaxSecrets,  \* bound: CSRF secrets that the server makes up
  MaxCreds     \* bound: sessions, or tokens, that the server issues

Tools == {"swagger", "scalar", "redoc", "stoplight"}
SchemeType == {"session", "jwt", "token"}
Secret == 1 .. MaxSecrets
Cred == 1 .. MaxCreds

ASSUME ConstantsAssumption ==
  /\ Schemes \subseteq SchemeType
  /\ MaxSecrets \in Nat /\ MaxCreds \in Nat
  /\ None \notin Nat

VARIABLES
  scheme,    \* how the endpoint that the pages call is protected
  jar,       \* the cookies: cred and csrf
  secrets,   \* number of secrets made up
  creds,     \* number of credentials issued
  alive,     \* credentials that are valid, with an active user
  page,      \* [Tab -> tool, whether its script mounted it, data-csrf-token]
  exchange,  \* [Tab -> the request and its answer, or None]
  quiet      \* history: tabs whose page arrived while nothing else was under
             \*          way that sets a cookie, and no login was answered since

vars == <<scheme, jar, secrets, creds, alive, page, exchange, quiet>>

Optional(S) == S \cup {None}
PageType == [tool: Optional(Tools), mounted: BOOLEAN, token: Optional(Secret)]
ExchangeType ==
  [kind: {"open", "login", "call"}, safe: BOOLEAN,
   cred: Optional(Cred), csrf: Optional(Secret), header: Optional(Secret),
   quiet: BOOLEAN, user: BOOLEAN, checked: BOOLEAN,
   status: {200, 401, 403, None}, setCred: Optional(Cred), setCsrf: Optional(Secret)]

TypeOK ==
  /\ scheme \in Schemes
  /\ jar \in [cred: Optional(Cred), csrf: Optional(Secret)]
  /\ secrets \in 0 .. MaxSecrets /\ creds \in 0 .. MaxCreds
  /\ alive \subseteq 1 .. creds
  /\ page \in [Tab -> PageType]
  /\ exchange \in [Tab -> Optional(ExchangeType)]
  /\ quiet \subseteq Tab

BlankPage == [tool |-> None, mounted |-> FALSE, token |-> None]

Init ==
  /\ scheme \in Schemes
  /\ jar = [cred |-> None, csrf |-> None]
  /\ secrets = 0 /\ creds = 0 /\ alive = {}
  /\ page = [t \in Tab |-> BlankPage]
  /\ exchange = [t \in Tab |-> None]
  /\ quiet = {}

-----------------------------------------------------------------------------
Is(t, kind) == exchange[t] # None /\ exchange[t].kind = kind
Pending(t, kind) == Is(t, kind) /\ exchange[t].status = None

Request(kind, safe, header, calm) ==
  [kind |-> kind, safe |-> safe, cred |-> jar.cred, csrf |-> jar.csrf,
   header |-> header, quiet |-> calm, user |-> FALSE, checked |-> FALSE,
   status |-> None, setCred |-> None, setCsrf |-> None]

Send(t, request) ==
  /\ exchange[t] = None
  /\ exchange' = [exchange EXCEPT ![t] = request]

Update(t, answered) == exchange' = [exchange EXCEPT ![t] = answered]
Answer(t, status) == Update(t, [exchange[t] EXCEPT !.status = status])

(* The reader opens a page, or loads it again.                             *)
Open(t, tool) ==
  /\ Send(t, Request("open", TRUE, None, FALSE))
  /\ page' = [page EXCEPT ![t] = [BlankPage EXCEPT !.tool = tool]]
  /\ quiet' = quiet \ {t}
  /\ UNCHANGED <<scheme, jar, secrets, creds, alive>>

RenderAnew(t) ==  \* fault: a new secret for every page
  /\ Pending(t, "open")
  /\ secrets < MaxSecrets
  /\ secrets' = secrets + 1
  /\ Update(t, [exchange[t] EXCEPT !.status = 200, !.setCsrf = secrets'])
  /\ UNCHANGED <<scheme, jar, creds, alive, page, quiet>>

(* ensure_csrf_cookie: the secret of the request's cookie, or a new one,   *)
(* is sent back, and it is what {{ csrf_token }} stands for in the page.   *)
Render(t) ==
  /\ Pending(t, "open")
  /\ \/ /\ exchange[t].csrf # None
        /\ Update(t, [exchange[t] EXCEPT !.status = 200, !.setCsrf = exchange[t].csrf])
        /\ UNCHANGED secrets
     \/ /\ exchange[t].csrf = None /\ secrets < MaxSecrets
        /\ secrets' = secrets + 1
        /\ Update(t, [exchange[t] EXCEPT !.status = 200, !.setCsrf = secrets'])
  /\ UNCHANGED <<scheme, jar, creds, alive, page, quiet>>

(* Log in, from whatever page: an API call as well, the page stays.        *)
Login(t) ==
  /\ Send(t, Request("login", FALSE, None, FALSE))
  /\ UNCHANGED <<scheme, jar, secrets, creds, alive, page, quiet>>

(* The login controller refuses; or django.contrib.auth.login() replaces   *)
(* the CSRF secret, and the session unless it is the user's already. A     *)
(* login that sets the cookie of a token is the application's, and touches *)
(* nothing else.                                                           *)
RefuseLogin(t) ==
  /\ Pending(t, "login")
  /\ Answer(t, 401)
  /\ UNCHANGED <<scheme, jar, secrets, creds, alive, page, quiet>>

AcceptLogin(t) ==
  /\ Pending(t, "login")
  /\ \E cred \in Cred :
       /\ \/ cred = creds + 1 /\ creds' = cred
          \/ /\ scheme = "session" /\ cred = exchange[t].cred /\ cred \in alive
             /\ UNCHANGED creds
       /\ \/ /\ scheme = "session" /\ secrets < MaxSecrets
             /\ secrets' = secrets + 1
             /\ alive' = (alive \ {exchange[t].cred}) \cup {cred}
             /\ Update(t, [exchange[t] EXCEPT !.status = 200, !.setCred = cred,
                                              !.setCsrf = secrets'])
          \/ /\ scheme # "session" /\ UNCHANGED secrets
             /\ alive' = alive \cup {cred}
             /\ Update(t, [exchange[t] EXCEPT !.status = 200, !.setCred = cred])
  /\ UNCHANGED <<scheme, jar, page, quiet>>

(* A logout elsewhere, an expiry, a user who is deactivated.               *)
End(c) ==
  /\ c \in alive
  /\ alive' = alive \ {c}
  /\ UNCHANGED <<scheme, jar, secrets, creds, page, exchange, quiet>>

(* The page tries out the endpoint. ReDoc cannot; only Swagger UI is given *)
(* a requestInterceptor, which adds the token of the page.                 *)
Call(t, safe) ==
  /\ page[t].mounted /\ page[t].tool # "redoc"
  /\ Send(t, Request("call", safe,
                     IF page[t].tool = "swagger" THEN page[t].token ELSE None,
                     t \in quiet))
  /\ UNCHANGED <<scheme, jar, secrets, creds, alive, page, quiet>>

-----------------------------------------------------------------------------
(* The auth of the endpoint. A session asks for the user first, so that    *)
(* the next auth gets its turn when there is none; the cookie of a token   *)
(* counts as soon as it is sent.                                           *)
LookUp(t) ==
  /\ Pending(t, "call") /\ ~ exchange[t].user
  /\ scheme = "session" \/ exchange[t].checked \/ exchange[t].cred = None
  /\ IF exchange[t].cred \in alive
     THEN Update(t, [exchange[t] EXCEPT !.user = TRUE])
     ELSE Answer(t, 401)
  /\ UNCHANGED <<scheme, jar, secrets, creds, alive, page, quiet>>

TokenMatches(t) ==
  exchange[t].header # None /\ exchange[t].header = exchange[t].csrf

EnsureCsrfLoosely(t) ==  \* fault: a token that is sent need not be the secret
  /\ Pending(t, "call") /\ ~ exchange[t].checked
  /\ IF scheme = "session" THEN exchange[t].user ELSE exchange[t].cred # None
  /\ IF exchange[t].safe \/ exchange[t].header # None
     THEN Update(t, [exchange[t] EXCEPT !.checked = TRUE])
     ELSE Answer(t, 403)
  /\ UNCHANGED <<scheme, jar, secrets, creds, alive, page, quiet>>

(* ensure_csrf: CsrfViewMiddleware lets safe methods through.              *)
EnsureCsrf(t) ==
  /\ Pending(t, "call") /\ ~ exchange[t].checked
  /\ IF scheme = "session" THEN exchange[t].user ELSE exchange[t].cred # None
  /\ IF exchange[t].safe \/ TokenMatches(t)
     THEN Update(t, [exchange[t] EXCEPT !.checked = TRUE])
     ELSE Answer(t, 403)
  /\ UNCHANGED <<scheme, jar, secrets, creds, alive, page, quiet>>

Serve(t) ==
  /\ Pending(t, "call") /\ exchange[t].user /\ exchange[t].checked
  /\ Answer(t, 200)
  /\ UNCHANGED <<scheme, jar, secrets, creds, alive, page, quiet>>

-----------------------------------------------------------------------------
(* init.js mounts its tool on the element of the page, unless the library  *)
(* did not load or fails with the schema: then it returns, or logs.        *)
Mounted(tool, token, works) ==
  [tool |-> tool, mounted |-> works,
   token |-> IF tool = "swagger" THEN token ELSE None]

Busy(u) == Is(u, "open") \/ Is(u, "login")

(* An answer arrives: its cookies go into the jar, a page is shown.        *)
Receive(t) ==
  /\ exchange[t] # None /\ exchange[t].status # None
  /\ LET answer == exchange[t]
     IN  /\ jar' = [cred |-> IF answer.setCred # None THEN answer.setCred ELSE jar.cred,
                    csrf |-> IF answer.setCsrf # None THEN answer.setCsrf ELSE jar.csrf]
         /\ \/ /\ answer.kind = "open"
               /\ \E works \in BOOLEAN :
                    page' = [page EXCEPT ![t] = Mounted(@.tool, answer.setCsrf, works)]
               /\ quiet' = IF \E u \in Tab \ {t} : Busy(u) THEN quiet ELSE quiet \cup {t}
            \/ /\ answer.kind # "open"
               /\ quiet' = IF answer.setCsrf # None THEN {} ELSE quiet
               /\ UNCHANGED page
  /\ exchange' = [exchange EXCEPT ![t] = None]
  /\ UNCHANGED <<scheme, secrets, creds, alive>>

Next ==
  \/ \E t \in Tab :
       \/ \E tool \in Tools : Open(t, tool)
       \/ \E safe \in BOOLEAN : Call(t, safe)
       \/ Render(t) \/ Login(t) \/ RefuseLogin(t) \/ AcceptLogin(t)
       \/ LookUp(t) \/ EnsureCsrf(t) \/ Serve(t) \/ Receive(t)
  \/ \E c \in Cred : End(c)

Spec == Init /\ [][Next]_vars
-----------------------------------------------------------------------------
(* A page of Swagger UI that arrived while no other page and no login was  *)
(* under way keeps working until the next login: none of its calls is      *)
(* refused by the CSRF check, whatever the other tabs open meanwhile. The  *)
(* token is the one of the page, so that every login makes it stale, and   *)
(* of two first visits at once one page is stale from the start.           *)
QuietPageWorks ==
  \A t \in Tab :
    Is(t, "call") /\ exchange[t].quiet /\ page[t].tool = "swagger" =>
      exchange[t].status # 403

(* Why a call is answered as it is, whichever of the user and the CSRF     *)
(* token is looked at first: 401 only when the cookie is missing or dead,  *)
(* and it stays so; 403 only for a cookie that was sent with a token that  *)
(* is not its secret; an unsafe method only runs with the token. So the    *)
(* tools that know no token can never call one, and a page of Swagger UI   *)
(* not with the token of an earlier login.                                 *)
CallsExplained ==
  \A t \in Tab :
    Is(t, "call") =>
      LET call == exchange[t]
      IN  /\ call.status = 401 => call.cred \notin alive
          /\ call.status = 403 =>
               call.cred # None /\ ~ call.safe /\ ~ TokenMatches(t)
          /\ call.status = 200 =>
               /\ call.cred # None
               /\ \/ call.safe
                  \/ TokenMatches(t) /\ page[t].tool = "swagger"
=============================================================================
