-------------------------- MODULE CookieAuth_proofs --------------------------
(***************************************************************************)
(* Proofs about CookieAuth, for any number of tabs, secrets and sessions:  *)
(* type correctness, why calls are answered as they are, and that a page   *)
(* which arrived in quiet keeps working until the next login.              *)
(***************************************************************************)
EXTENDS CookieAuth, TLAPS

Known(cred) == cred \in Optional(1 .. creds)
Match(x) == x.header # None /\ x.header = x.csrf

(* What is known of a call in tab t, from Call to Receive.                 *)
CallInv(t) ==
  Is(t, "call") =>
    LET x == exchange[t]
    IN  /\ x.setCsrf = None
        /\ x.user => x.cred # None
        /\ x.checked => x.safe \/ Match(x)
        /\ x.header # None => page[t].tool = "swagger"
        /\ x.quiet /\ page[t].tool = "swagger" => Match(x)
        /\ x.status = 401 => x.cred \notin alive
        /\ x.status = 403 => /\ x.cred # None /\ ~ x.safe /\ ~ Match(x)
                             /\ scheme = "session" => x.user
        /\ x.status = 200 => x.user /\ x.checked

(* While a page is quiet, no page that is under way brings another secret. *)
OpenInv(t) ==
  Is(t, "open") =>
    LET x == exchange[t]
    IN  /\ x.status # None => x.setCsrf # None
        /\ quiet # {} => /\ x.csrf = jar.csrf
                         /\ x.status # None => x.setCsrf = jar.csrf

CredInv(t) ==
  exchange[t] # None => Known(exchange[t].cred) /\ Known(exchange[t].setCred)

QuietInv ==
  quiet # {} =>
    /\ jar.csrf # None
    /\ \A t \in quiet : page[t].tool = "swagger" => page[t].token = jar.csrf

Inv ==
  /\ TypeOK
  /\ Known(jar.cred)
  /\ QuietInv
  /\ \A t \in Tab : CallInv(t) /\ OpenInv(t) /\ CredInv(t)

-----------------------------------------------------------------------------
LEMMA RequestType ==
  ASSUME TypeOK, NEW kind \in {"open", "login", "call"}, NEW safe \in BOOLEAN,
         NEW header \in Optional(Secret), NEW calm \in BOOLEAN
  PROVE  Request(kind, safe, header, calm) \in ExchangeType
BY DEF TypeOK, Request, ExchangeType, Optional

LEMMA InFlight ==
  ASSUME TypeOK, NEW t \in Tab, exchange[t] # None
  PROVE  exchange[t] \in ExchangeType
BY DEF TypeOK, Optional

(* What becomes of a request: fields of it are set.                        *)
LEMMA FlagTypes ==
  ASSUME NEW x \in ExchangeType
  PROVE  /\ [x EXCEPT !.user = TRUE] \in ExchangeType
         /\ [x EXCEPT !.checked = TRUE] \in ExchangeType
<1>1. [x EXCEPT !.user = TRUE] \in ExchangeType
  BY ZenonT(60) DEF ExchangeType
<1>2. [x EXCEPT !.checked = TRUE] \in ExchangeType
  BY ZenonT(60) DEF ExchangeType
<1> QED BY <1>1, <1>2

LEMMA CsrfAnswerType ==
  ASSUME NEW x \in ExchangeType, NEW k \in Optional(Secret)
  PROVE  [x EXCEPT !.status = 200, !.setCsrf = k] \in ExchangeType
<1> DEFINE y == [x EXCEPT !.status = 200]
<1>1. y \in ExchangeType
  BY DEF ExchangeType
<1>2. [y EXCEPT !.setCsrf = k] \in ExchangeType
  <2> HIDE DEF y
  <2> QED BY <1>1 DEF ExchangeType
<1> QED BY <1>2

LEMMA CredAnswerType ==
  ASSUME NEW x \in ExchangeType, NEW c \in Optional(Cred)
  PROVE  [x EXCEPT !.status = 200, !.setCred = c] \in ExchangeType
<1> DEFINE y == [x EXCEPT !.status = 200]
<1>1. y \in ExchangeType
  BY DEF ExchangeType
<1>2. [y EXCEPT !.setCred = c] \in ExchangeType
  <2> HIDE DEF y
  <2> QED BY <1>1 DEF ExchangeType
<1> QED BY <1>2

LEMMA LoginAnswerType ==
  ASSUME NEW x \in ExchangeType, NEW c \in Optional(Cred), NEW k \in Optional(Secret)
  PROVE  [x EXCEPT !.status = 200, !.setCred = c, !.setCsrf = k] \in ExchangeType
<1> DEFINE y == [x EXCEPT !.status = 200, !.setCred = c]
<1>1. y \in ExchangeType
  BY CredAnswerType
<1>2. [y EXCEPT !.setCsrf = k] \in ExchangeType
  <2> HIDE DEF y
  <2> QED BY <1>1 DEF ExchangeType
<1> QED BY <1>2

(* A tab whose exchange, page and surroundings stay as they are.           *)
LEMMA Untouched ==
  ASSUME TypeOK, NEW t \in Tab, CallInv(t), OpenInv(t), CredInv(t),
         exchange'[t] = exchange[t], page'[t] = page[t], scheme' = scheme,
         \A c \in Optional(1 .. creds) : c \in alive' => c \in alive,
         creds' \in Nat, creds' >= creds, creds \in Nat,
         quiet' # {} => quiet # {} /\ jar'.csrf = jar.csrf
  PROVE  CallInv(t)' /\ OpenInv(t)' /\ CredInv(t)'
<1>1. CallInv(t)'
  <2> SUFFICES ASSUME Is(t, "call") PROVE CallInv(t)'
    BY DEF CallInv, Is
  <2>1. exchange[t].cred \in Optional(1 .. creds)
    BY DEF CredInv, Known, Is
  <2> QED BY <2>1 DEF CallInv, Is, Match
<1>2. OpenInv(t)'
  BY DEF OpenInv, Is
<1>3. CredInv(t)'
  BY DEF CredInv, Known, Optional
<1> QED BY <1>1, <1>2, <1>3

(* Only the exchange of tab t changes.                                     *)
LEMMA OnlyExchange ==
  ASSUME Inv, NEW t \in Tab, NEW x \in ExchangeType,
         exchange' = [exchange EXCEPT ![t] = x],
         UNCHANGED <<scheme, jar, creds, alive, page, quiet>>,
         secrets' \in secrets .. MaxSecrets,
         CallInv(t)', OpenInv(t)', CredInv(t)'
  PROVE  Inv'
<1>1. TypeOK'
  BY DEF Inv, TypeOK, Optional
<1>2. Known(jar.cred)' /\ QuietInv'
  BY DEF Inv, Known, QuietInv
<1>3. ASSUME NEW u \in Tab PROVE CallInv(u)' /\ OpenInv(u)' /\ CredInv(u)'
  <2>1. creds \in Nat /\ TypeOK
    BY ConstantsAssumption DEF Inv, TypeOK
  <2>2. CASE u # t
    <3>1. exchange'[u] = exchange[u]
      BY <2>2 DEF Inv, TypeOK
    <3> QED BY <2>1, <3>1, Untouched DEF Inv
  <2> QED BY <2>2
<1> QED BY <1>1, <1>2, <1>3 DEF Inv

(* A step of the auth of a call: everything that was sent stays.           *)
SameCall(x, y) ==
  /\ x.kind = "call" /\ x.safe = y.safe /\ x.quiet = y.quiet
  /\ x.cred = y.cred /\ x.csrf = y.csrf /\ x.header = y.header
  /\ x.setCred = y.setCred /\ x.setCsrf = y.setCsrf

LEMMA CallStep ==
  ASSUME Inv, NEW t \in Tab, NEW x \in ExchangeType,
         exchange[t] # None, exchange[t].kind = "call",
         SameCall(x, exchange[t]),
         exchange' = [exchange EXCEPT ![t] = x],
         UNCHANGED <<scheme, jar, secrets, creds, alive, page, quiet>>,
         x.user => x.cred # None,
         x.checked => x.safe \/ Match(x),
         x.status = 401 => x.cred \notin alive,
         x.status = 403 => /\ x.cred # None /\ ~ x.safe /\ ~ Match(x)
                           /\ scheme = "session" => x.user,
         x.status = 200 => x.user /\ x.checked
  PROVE  Inv'
<1>1. exchange'[t] = x
  BY DEF Inv, TypeOK
<1>2. CallInv(t)'
  BY <1>1 DEF Inv, CallInv, Is, SameCall, Match
<1>3. OpenInv(t)' /\ CredInv(t)'
  BY <1>1 DEF Inv, OpenInv, CredInv, Is, SameCall, Known
<1>4. secrets' \in secrets .. MaxSecrets
  BY ConstantsAssumption DEF Inv, TypeOK
<1> QED BY <1>2, <1>3, <1>4, OnlyExchange

LEMMA ReceiveStep ==
  ASSUME Inv, NEW t \in Tab, Receive(t)
  PROVE  Inv'
<1> DEFINE answer == exchange[t]
<1>0. /\ TypeOK /\ creds \in Nat /\ None \notin Nat
      /\ exchange \in [Tab -> Optional(ExchangeType)]
      /\ page \in [Tab -> PageType]
  BY ConstantsAssumption DEF Inv, TypeOK
<1>1. /\ answer # None /\ answer \in ExchangeType /\ answer.status # None
      /\ Known(answer.cred) /\ Known(answer.setCred)
  BY <1>0, InFlight DEF Receive, Inv, CredInv
<1>2. /\ exchange' = [exchange EXCEPT ![t] = None]
      /\ UNCHANGED <<scheme, secrets, creds, alive>>
      /\ jar' = [cred |-> IF answer.setCred # None THEN answer.setCred ELSE jar.cred,
                 csrf |-> IF answer.setCsrf # None THEN answer.setCsrf ELSE jar.csrf]
  BY DEF Receive
<1>3. jar' \in [cred: Optional(Cred), csrf: Optional(Secret)] /\ Known(jar'.cred)
  BY <1>0, <1>1, <1>2 DEF ExchangeType, TypeOK, Inv, Known
<1>4. CASE answer.kind = "open"
  <2>1. PICK works \in BOOLEAN :
          page' = [page EXCEPT ![t] = Mounted(page[t].tool, answer.setCsrf, works)]
    BY <1>4 DEF Receive
  <2>2. quiet' = IF \E u \in Tab \ {t} : Busy(u) THEN quiet ELSE quiet \cup {t}
    BY <1>4 DEF Receive
  <2>3. /\ answer.setCsrf # None /\ jar'.csrf = answer.setCsrf
        /\ quiet # {} => answer.setCsrf = jar.csrf
    BY <1>1, <1>2, <1>4 DEF Inv, OpenInv, Is
  <2>4. Mounted(page[t].tool, answer.setCsrf, works) \in PageType
    BY <1>0, <1>1 DEF Mounted, PageType, ExchangeType, Optional
  <2>5. TypeOK'
    BY <1>0, <1>2, <1>3, <2>1, <2>2, <2>4 DEF TypeOK, Optional
  <2>6. QuietInv'
    <3>1. page'[t].tool = "swagger" => page'[t].token = jar'.csrf
      BY <1>0, <2>1, <2>3 DEF Mounted
    <3>2. \A u \in Tab \ {t} : page'[u] = page[u]
      BY <1>0, <2>1
    <3>3. quiet \subseteq Tab
      BY <1>0 DEF TypeOK
    <3> QED BY <2>2, <2>3, <3>1, <3>2, <3>3 DEF Inv, QuietInv
  <2>7. ASSUME NEW u \in Tab PROVE CallInv(u)' /\ OpenInv(u)' /\ CredInv(u)'
    <3>1. CASE u = t
      BY <1>0, <1>2, <3>1 DEF CallInv, OpenInv, CredInv, Is
    <3>2. CASE u # t
      <4>1. exchange'[u] = exchange[u] /\ page'[u] = page[u]
        BY <1>0, <1>2, <2>1, <3>2
      <4>2. CallInv(u)' /\ CredInv(u)'
        BY <1>2, <4>1 DEF Inv, CallInv, CredInv, Is, Match, Known
      <4>3. OpenInv(u)'
        <5>1. CASE Busy(u)
          <6>1. quiet' = quiet
            BY <2>2, <3>2, <5>1
          <6> QED BY <2>3, <4>1, <6>1 DEF Inv, OpenInv, Is
        <5>2. CASE ~ Busy(u)
          BY <4>1, <5>2 DEF OpenInv, Is, Busy
        <5> QED BY <5>1, <5>2
      <4> QED BY <4>2, <4>3
    <3> QED BY <3>1, <3>2
  <2> QED BY <1>2, <1>3, <2>5, <2>6, <2>7 DEF Inv, Known
<1>5. CASE answer.kind # "open"
  <2>1. page' = page
    BY <1>5 DEF Receive
  <2>2. quiet' = IF answer.setCsrf # None THEN {} ELSE quiet
    BY <1>5 DEF Receive
  <2>3. quiet' # {} => quiet' = quiet /\ jar'.csrf = jar.csrf
    BY <1>2, <2>2
  <2>4. TypeOK'
    BY <1>0, <1>2, <1>3, <2>1, <2>2 DEF TypeOK, Optional
  <2>5. QuietInv'
    BY <2>1, <2>3 DEF Inv, QuietInv
  <2>6. ASSUME NEW u \in Tab PROVE CallInv(u)' /\ OpenInv(u)' /\ CredInv(u)'
    <3>1. CASE u = t
      BY <1>0, <1>2, <3>1 DEF CallInv, OpenInv, CredInv, Is
    <3>2. CASE u # t
      <4>1. exchange'[u] = exchange[u] /\ page'[u] = page[u]
        BY <1>0, <1>2, <2>1, <3>2
      <4> QED BY <1>0, <1>2, <2>3, <4>1, Untouched DEF Inv
    <3> QED BY <3>1, <3>2
  <2> QED BY <1>2, <1>3, <2>4, <2>5, <2>6 DEF Inv, Known
<1> QED BY <1>4, <1>5

-----------------------------------------------------------------------------
LEMMA InvStep == Inv /\ [Next]_vars => Inv'
<1> SUFFICES ASSUME Inv, [Next]_vars PROVE Inv'
  OBVIOUS
<1>0. /\ TypeOK /\ creds \in Nat /\ secrets \in Nat /\ None \notin Nat
      /\ MaxCreds \in Nat /\ MaxSecrets \in Nat
      /\ exchange \in [Tab -> Optional(ExchangeType)]
      /\ page \in [Tab -> PageType]
  BY ConstantsAssumption DEF Inv, TypeOK
<1>1. ASSUME NEW t \in Tab, NEW tool \in Tools, Open(t, tool) PROVE Inv'
  <2> DEFINE x == Request("open", TRUE, None, FALSE)
  <2>1. x \in ExchangeType
    BY <1>0, RequestType DEF Optional
  <2>2. TypeOK'
    BY <1>0, <1>1, <2>1
       DEF Open, Send, TypeOK, Optional, PageType, BlankPage
  <2>3. Known(jar.cred)' /\ QuietInv'
    BY <1>0, <1>1 DEF Open, Inv, Known, QuietInv
  <2>4. ASSUME NEW u \in Tab PROVE CallInv(u)' /\ OpenInv(u)' /\ CredInv(u)'
    <3>1. CASE u # t
      <4>1. exchange'[u] = exchange[u] /\ page'[u] = page[u]
        BY <1>0, <1>1, <3>1 DEF Open, Send
      <4> QED BY <1>0, <1>1, <4>1, Untouched DEF Open, Inv
    <3>2. CASE u = t
      <4>1. exchange'[t] = x
        BY <1>0, <1>1 DEF Open, Send
      <4>2. CredInv(t)'
        BY <1>0, <1>1, <4>1 DEF Open, CredInv, Request, Inv, Known, Optional
      <4> QED BY <1>1, <3>2, <4>1, <4>2 DEF Open, CallInv, OpenInv, Is, Request
    <3> QED BY <3>1, <3>2
  <2> QED BY <2>2, <2>3, <2>4 DEF Inv
<1>2. ASSUME NEW t \in Tab, Render(t) PROVE Inv'
  <2>0. exchange[t] # None /\ exchange[t].kind = "open"
    BY <1>2 DEF Render, Pending, Is
  <2>1. /\ exchange[t] # None /\ exchange[t] \in ExchangeType
        /\ exchange[t].kind = "open" /\ exchange[t].csrf \in Optional(Secret)
    BY <1>0, <2>0, InFlight DEF ExchangeType
  <2>2. PICK s \in Secret :
          /\ exchange' = [exchange EXCEPT ![t] =
                            [exchange[t] EXCEPT !.status = 200, !.setCsrf = s]]
          /\ secrets' \in secrets .. MaxSecrets
          /\ exchange[t].csrf # None => s = exchange[t].csrf
    <3>1. CASE exchange[t].csrf # None
      <4>1. exchange[t].csrf \in Secret
        BY <2>1, <3>1 DEF Optional
      <4>2. secrets' \in secrets .. MaxSecrets
        BY <1>0, <1>2, <3>1 DEF Render, TypeOK
      <4> QED BY <1>2, <3>1, <4>1, <4>2 DEF Render, Update
    <3>2. CASE exchange[t].csrf = None
      <4>1. secrets < MaxSecrets /\ secrets' = secrets + 1 /\ secrets \in 0 .. MaxSecrets
        BY <1>2, <1>0, <3>2 DEF Render, TypeOK
      <4>2. secrets' \in Secret /\ secrets' \in secrets .. MaxSecrets
        BY <1>0, <4>1 DEF Secret
      <4> QED BY <1>2, <3>2, <4>2 DEF Render, Update
    <3> QED BY <3>1, <3>2
  <2> DEFINE x == [exchange[t] EXCEPT !.status = 200, !.setCsrf = s]
  <2>3. x \in ExchangeType
    BY <2>1, CsrfAnswerType DEF Optional
  <2>4. exchange'[t] = x
    BY <1>0, <2>2
  <2>5. x.kind = "open" /\ x.setCsrf = s /\ x.csrf = exchange[t].csrf
        /\ x.cred = exchange[t].cred /\ x.setCred = exchange[t].setCred
    BY <2>1 DEF ExchangeType
  <2>6. UNCHANGED <<scheme, jar, creds, alive, page, quiet>>
    BY <1>2 DEF Render
  <2>7. s # None /\ (quiet # {} => s = jar.csrf)
    BY <1>0, <2>1, <2>2 DEF Secret, Inv, OpenInv, QuietInv, Is
  <2> HIDE DEF x
  <2>8. CallInv(t)' /\ OpenInv(t)' /\ CredInv(t)'
    BY <2>1, <2>4, <2>5, <2>6, <2>7 DEF CallInv, OpenInv, CredInv, Is, Inv, Known
  <2> QED BY <2>2, <2>3, <2>6, <2>8, OnlyExchange DEF x
<1>3. ASSUME NEW t \in Tab, Login(t) PROVE Inv'
  <2> DEFINE x == Request("login", FALSE, None, FALSE)
  <2>1. x \in ExchangeType
    BY <1>0, RequestType DEF Optional
  <2>2. exchange' = [exchange EXCEPT ![t] = x]
        /\ UNCHANGED <<scheme, jar, secrets, creds, alive, page, quiet>>
    BY <1>3 DEF Login, Send
  <2>3. x.kind = "login" /\ x.cred = jar.cred /\ x.setCred = None
    BY DEF Request
  <2> HIDE DEF x
  <2>4. CallInv(t)' /\ OpenInv(t)' /\ CredInv(t)'
    BY <1>0, <2>2, <2>3 DEF CallInv, OpenInv, CredInv, Is, Inv, Known, Optional
  <2>5. secrets' \in secrets .. MaxSecrets
    BY <1>0, <2>2 DEF TypeOK
  <2> QED BY <2>1, <2>2, <2>4, <2>5, OnlyExchange
<1>4. ASSUME NEW t \in Tab, RefuseLogin(t) PROVE Inv'
  <2> DEFINE x == [exchange[t] EXCEPT !.status = 401]
  <2>1. /\ exchange[t] # None /\ exchange[t] \in ExchangeType
        /\ exchange[t].kind = "login"
    BY <1>0, <1>4, InFlight DEF RefuseLogin, Pending, Is
  <2>2. exchange' = [exchange EXCEPT ![t] = x]
        /\ UNCHANGED <<scheme, jar, secrets, creds, alive, page, quiet>>
    BY <1>4 DEF RefuseLogin, Answer, Update
  <2>3. /\ x.kind = "login" /\ x.cred = exchange[t].cred
        /\ x.setCred = exchange[t].setCred /\ x \in ExchangeType
    BY <2>1 DEF ExchangeType
  <2> HIDE DEF x
  <2>4. CallInv(t)' /\ OpenInv(t)' /\ CredInv(t)'
    BY <1>0, <2>1, <2>2, <2>3 DEF CallInv, OpenInv, CredInv, Is, Inv, Known
  <2>5. secrets' \in secrets .. MaxSecrets
    BY <1>0, <2>2 DEF TypeOK
  <2> QED BY <2>2, <2>3, <2>4, <2>5, OnlyExchange
<1>5. ASSUME NEW t \in Tab, AcceptLogin(t) PROVE Inv'
  <2>1. /\ exchange[t] # None /\ exchange[t] \in ExchangeType
        /\ exchange[t].kind = "login"
    BY <1>0, <1>5, InFlight DEF AcceptLogin, Pending, Is
  <2>2. PICK c \in Cred, s \in Optional(Secret) :
          /\ \/ c = creds + 1 /\ creds' = c
             \/ c \in alive /\ creds' = creds
          /\ alive' \subseteq alive \cup {c}
          /\ secrets' \in secrets .. MaxSecrets
          /\ \E x \in ExchangeType :
               /\ x.kind = "login" /\ x.cred = exchange[t].cred /\ x.setCred = c
               /\ exchange' = [exchange EXCEPT ![t] = x]
    <3>1. PICK c \in Cred :
            /\ \/ c = creds + 1 /\ creds' = c
               \/ c \in alive /\ creds' = creds
            /\ \/ /\ secrets < MaxSecrets /\ secrets' = secrets + 1
                  /\ alive' = (alive \ {exchange[t].cred}) \cup {c}
                  /\ exchange' = [exchange EXCEPT ![t] =
                       [exchange[t] EXCEPT !.status = 200, !.setCred = c,
                                           !.setCsrf = secrets']]
               \/ /\ UNCHANGED secrets
                  /\ alive' = alive \cup {c}
                  /\ exchange' = [exchange EXCEPT ![t] =
                       [exchange[t] EXCEPT !.status = 200, !.setCred = c]]
      BY <1>5, ZenonT(60) DEF AcceptLogin, Update
    <3>2. CASE secrets < MaxSecrets /\ secrets' = secrets + 1
               /\ alive' = (alive \ {exchange[t].cred}) \cup {c}
               /\ exchange' = [exchange EXCEPT ![t] =
                    [exchange[t] EXCEPT !.status = 200, !.setCred = c,
                                        !.setCsrf = secrets']]
      <4> DEFINE x == [exchange[t] EXCEPT !.status = 200, !.setCred = c,
                                          !.setCsrf = secrets']
      <4>1. secrets' \in Secret /\ secrets' \in secrets .. MaxSecrets
        BY <1>0, <3>2 DEF Secret, TypeOK
      <4>2. x \in ExchangeType
        BY <2>1, <4>1, LoginAnswerType, ZenonT(60) DEF Optional
      <4>3. x.kind = "login" /\ x.cred = exchange[t].cred /\ x.setCred = c
        BY <2>1 DEF ExchangeType
      <4> QED BY <3>1, <3>2, <4>1, <4>2, <4>3, ZenonT(60) DEF Optional
    <3>3. CASE secrets' = secrets /\ alive' = alive \cup {c}
               /\ exchange' = [exchange EXCEPT ![t] =
                    [exchange[t] EXCEPT !.status = 200, !.setCred = c]]
      <4> DEFINE x == [exchange[t] EXCEPT !.status = 200, !.setCred = c]
      <4>1. secrets' \in secrets .. MaxSecrets /\ None \in Optional(Secret)
        BY <1>0, <3>3 DEF TypeOK, Optional
      <4>2. x \in ExchangeType
        BY <2>1, CredAnswerType DEF Optional
      <4>3. x.kind = "login" /\ x.cred = exchange[t].cred /\ x.setCred = c
        BY <2>1 DEF ExchangeType
      <4> QED BY <3>1, <3>3, <4>1, <4>2, <4>3, ZenonT(60)
    <3> QED BY <3>1, <3>2, <3>3
  <2>3. PICK x \in ExchangeType :
          /\ x.kind = "login" /\ x.cred = exchange[t].cred /\ x.setCred = c
          /\ exchange' = [exchange EXCEPT ![t] = x]
    BY <2>2
  <2>4. UNCHANGED <<scheme, jar, page, quiet>>
    BY <1>5 DEF AcceptLogin
  <2>5. /\ creds' \in Nat /\ creds' >= creds /\ creds' \in 0 .. MaxCreds
        /\ c \in 1 .. creds' /\ alive' \subseteq 1 .. creds'
    BY <1>0, <2>2 DEF TypeOK, Cred
  <2>6. TypeOK'
    BY <1>0, <2>2, <2>3, <2>4, <2>5 DEF TypeOK, Optional
  <2>7. Known(jar.cred)' /\ QuietInv'
    BY <1>0, <2>4, <2>5 DEF Inv, Known, QuietInv, Optional
  <2>8. \A a \in Optional(1 .. creds) : a \in alive' => a \in alive
    BY <1>0, <2>2 DEF Optional, Cred
  <2>9. ASSUME NEW u \in Tab PROVE CallInv(u)' /\ OpenInv(u)' /\ CredInv(u)'
    <3>1. CASE u # t
      <4>1. exchange'[u] = exchange[u] /\ page'[u] = page[u]
        BY <1>0, <2>3, <2>4, <3>1
      <4> QED BY <1>0, <2>4, <2>5, <2>8, <4>1, Untouched DEF Inv
    <3>2. CASE u = t
      <4>1. exchange'[t] = x
        BY <1>0, <2>3
      <4>2. CredInv(t)'
        BY <1>0, <2>1, <2>3, <2>5, <4>1 DEF CredInv, Inv, Known, Optional
      <4> QED BY <2>3, <3>2, <4>1, <4>2 DEF CallInv, OpenInv, Is
    <3> QED BY <3>1, <3>2
  <2> QED BY <2>6, <2>7, <2>9 DEF Inv
<1>6. ASSUME NEW c \in Cred, End(c) PROVE Inv'
  <2>1. /\ UNCHANGED <<scheme, jar, secrets, creds, page, exchange, quiet>>
        /\ alive' = alive \ {c}
    BY <1>6 DEF End
  <2>2. TypeOK' /\ Known(jar.cred)' /\ QuietInv'
    BY <2>1 DEF Inv, TypeOK, Known, QuietInv
  <2>3. ASSUME NEW u \in Tab PROVE CallInv(u)' /\ OpenInv(u)' /\ CredInv(u)'
    BY <1>0, <2>1, Untouched DEF Inv
  <2> QED BY <2>2, <2>3 DEF Inv
<1>7. ASSUME NEW t \in Tab, NEW safe \in BOOLEAN, Call(t, safe) PROVE Inv'
  <2> DEFINE header == IF page[t].tool = "swagger" THEN page[t].token ELSE None
             x == Request("call", safe, header, t \in quiet)
  <2>1. header \in Optional(Secret)
    BY <1>0 DEF PageType, Optional
  <2>2. x \in ExchangeType
    <3>1. (t \in quiet) \in BOOLEAN
      OBVIOUS
    <3> HIDE DEF header
    <3> QED BY <1>0, <2>1, <3>1, RequestType
  <2>3. exchange' = [exchange EXCEPT ![t] = x]
        /\ UNCHANGED <<scheme, jar, secrets, creds, alive, page, quiet>>
    BY <1>7 DEF Call, Send
  <2>4. /\ x.kind = "call" /\ x.cred = jar.cred /\ x.csrf = jar.csrf
        /\ x.header = header /\ x.quiet = (t \in quiet) /\ x.user = FALSE
        /\ x.checked = FALSE /\ x.status = None
        /\ x.setCred = None /\ x.setCsrf = None
    BY DEF Request
  <2>5. t \in quiet /\ page[t].tool = "swagger" => header # None /\ header = jar.csrf
    BY DEF Inv, QuietInv
  <2>6. header # None => page[t].tool = "swagger"
    OBVIOUS
  <2> HIDE DEF x, header
  <2>7. CallInv(t)'
    <3>1. exchange'[t] = x
      BY <1>0, <2>3
    <3>2. x.quiet => t \in quiet
      BY <2>4
    <3> QED BY <1>0, <2>3, <2>4, <2>5, <2>6, <3>1, <3>2 DEF CallInv, Is, Match
  <2>8. OpenInv(t)' /\ CredInv(t)'
    BY <1>0, <2>3, <2>4 DEF OpenInv, CredInv, Is, Inv, Known, Optional
  <2>9. secrets' \in secrets .. MaxSecrets
    BY <1>0, <2>3 DEF TypeOK
  <2> QED BY <2>2, <2>3, <2>7, <2>8, <2>9, OnlyExchange
<1>8. ASSUME NEW t \in Tab, LookUp(t) \/ EnsureCsrf(t) \/ Serve(t) PROVE Inv'
  <2> DEFINE y == exchange[t]
  <2>1. /\ y # None /\ y \in ExchangeType /\ y.kind = "call" /\ y.status = None
        /\ y.user => y.cred # None
        /\ y.checked => y.safe \/ Match(y)
    <3>1. y # None /\ y.kind = "call" /\ y.status = None
      BY <1>8 DEF LookUp, EnsureCsrf, Serve, Pending, Is
    <3>2. y \in ExchangeType
      BY <1>0, <3>1, InFlight
    <3>3. CallInv(t)
      BY DEF Inv
    <3> QED BY <3>1, <3>2, <3>3 DEF CallInv, Is
  <2>2. UNCHANGED <<scheme, jar, secrets, creds, alive, page, quiet>>
    BY <1>8 DEF LookUp, EnsureCsrf, Serve
  <2>3. ASSUME exchange' = [exchange EXCEPT ![t] = [y EXCEPT !.user = TRUE]],
               y.cred \in alive
        PROVE  Inv'
    <3> DEFINE x == [y EXCEPT !.user = TRUE]
    <3>1. SameCall(x, y) /\ x.status = None /\ x.checked = y.checked
      BY <2>1 DEF ExchangeType, SameCall
    <3>2. x \in ExchangeType
      BY <2>1, FlagTypes
    <3>3. x.cred # None
      BY <1>0, <2>3, <3>1 DEF TypeOK, SameCall
    <3>4. x.checked => x.safe \/ Match(x)
      <4> HIDE DEF x
      <4> QED BY <2>1, <3>1 DEF SameCall, Match
    <3>5. exchange' = [exchange EXCEPT ![t] = x]
      BY <2>3
    <3>6. x.status \notin {200, 401, 403}
      BY <1>0, <3>1
    <3> HIDE DEF x
    <3> QED BY <1>0, <2>1, <2>2, <2>3, <3>1, <3>2, <3>3, <3>4, <3>5, <3>6, CallStep, ZenonT(60)
  <2>4. ASSUME exchange' = [exchange EXCEPT ![t] = [y EXCEPT !.checked = TRUE]],
               y.safe \/ Match(y)
        PROVE  Inv'
    <3> DEFINE x == [y EXCEPT !.checked = TRUE]
    <3>1. SameCall(x, y) /\ x.status = None /\ x.user = y.user
      BY <2>1 DEF ExchangeType, SameCall
    <3>2. x \in ExchangeType
      BY <2>1, FlagTypes
    <3>3. /\ x.user => x.cred # None
          /\ x.checked => x.safe \/ Match(x)
      <4> HIDE DEF x
      <4> QED BY <2>1, <2>4, <3>1 DEF SameCall, Match
    <3>5. exchange' = [exchange EXCEPT ![t] = x]
      BY <2>4
    <3>6. x.status \notin {200, 401, 403}
      BY <1>0, <3>1
    <3> HIDE DEF x
    <3> QED BY <1>0, <2>1, <2>2, <2>4, <3>1, <3>2, <3>3, <3>5, <3>6, CallStep, ZenonT(60)
  <2>5. ASSUME NEW s \in {200, 401, 403},
               exchange' = [exchange EXCEPT ![t] = [y EXCEPT !.status = s]],
               s = 401 => y.cred \notin alive,
               s = 403 => /\ y.cred # None /\ ~ y.safe /\ ~ Match(y)
                          /\ scheme = "session" => y.user,
               s = 200 => y.user /\ y.checked
        PROVE  Inv'
    <3> DEFINE x == [y EXCEPT !.status = s]
    <3>1. /\ SameCall(x, y) /\ x.status = s /\ x.user = y.user
          /\ x.checked = y.checked
      BY <2>1 DEF ExchangeType, SameCall
    <3>2. x \in ExchangeType
      BY <2>1 DEF ExchangeType
    <3>3. /\ x.user => x.cred # None
          /\ x.checked => x.safe \/ Match(x)
          /\ x.status = 401 => x.cred \notin alive
          /\ x.status = 403 => /\ x.cred # None /\ ~ x.safe /\ ~ Match(x)
                               /\ scheme = "session" => x.user
          /\ x.status = 200 => x.user /\ x.checked
      <4> HIDE DEF x
      <4> QED BY <2>1, <2>5, <3>1 DEF SameCall, Match
    <3>4. exchange' = [exchange EXCEPT ![t] = x]
      BY <2>5
    <3> HIDE DEF x
    <3> QED BY <2>1, <2>2, <3>1, <3>2, <3>3, <3>4, CallStep, ZenonT(60)
  <2> HIDE DEF y
  <2>6. CASE LookUp(t)
    BY <2>3, <2>5, <2>6 DEF LookUp, Answer, Update, y
  <2>7. CASE EnsureCsrf(t)
    <3>1. TokenMatches(t) <=> Match(y)
      BY DEF TokenMatches, Match, y
    <3>2. CASE y.safe \/ Match(y)
      BY <2>4, <2>7, <3>1, <3>2 DEF EnsureCsrf, Update, y
    <3>3. CASE ~ (y.safe \/ Match(y))
      <4>1. y.cred # None /\ (scheme = "session" => y.user)
        BY <2>1, <2>7 DEF EnsureCsrf, y
      <4>2. exchange' = [exchange EXCEPT ![t] = [y EXCEPT !.status = 403]]
        BY <2>7, <3>1, <3>3 DEF EnsureCsrf, Answer, Update, y
      <4> QED BY <2>5, <3>3, <4>1, <4>2
    <3> QED BY <3>2, <3>3
  <2>8. CASE Serve(t)
    BY <2>5, <2>8 DEF Serve, Answer, Update, y
  <2> QED BY <1>8, <2>6, <2>7, <2>8
<1>9. ASSUME NEW t \in Tab, Receive(t) PROVE Inv'
  BY <1>9, ReceiveStep
<1>10. CASE UNCHANGED vars
  BY <1>10 DEF vars, Inv, TypeOK, Known, QuietInv, CallInv, OpenInv, CredInv,
               Is, Match
<1> QED BY <1>1, <1>2, <1>3, <1>4, <1>5, <1>6, <1>7, <1>8, <1>9, <1>10
      DEF Next

LEMMA InvInit == Init => Inv
BY ConstantsAssumption
   DEF Init, Inv, TypeOK, Optional, PageType, BlankPage, Known, QuietInv,
       CallInv, OpenInv, CredInv, Is

LEMMA Invariant == Spec => []Inv
BY InvInit, InvStep, PTL DEF Spec

-----------------------------------------------------------------------------
(* The variables keep their types.                                         *)
THEOREM TypeCorrect == Spec => []TypeOK
<1>1. Inv => TypeOK
  BY DEF Inv
<1> QED BY Invariant, <1>1, PTL

(* A page of Swagger UI that arrived while nothing else was setting        *)
(* cookies is never refused by the CSRF check before the next login.       *)
THEOREM QuietPageWorksHolds == Spec => []QuietPageWorks
<1>1. Inv => QuietPageWorks
  BY DEF Inv, CallInv, QuietPageWorks, Is
<1> QED BY Invariant, <1>1, PTL

(* 401 is for a missing or dead cookie only, 403 only for a cookie that    *)
(* was sent without its token, and unsafe methods only run with the token. *)
THEOREM CallsExplainedHolds == Spec => []CallsExplained
<1>1. Inv => CallsExplained
  BY DEF Inv, CallInv, CallsExplained, TokenMatches, Match, Is
<1> QED BY Invariant, <1>1, PTL
=============================================================================
