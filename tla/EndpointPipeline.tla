-------------------------- MODULE EndpointPipeline --------------------------
(***************************************************************************)
(* A controller dispatching requests to one of its endpoints:              *)
(* Controller.dispatch, Endpoint._sync_endpoint and _async_endpoint, the   *)
(* three layers of error handlers, the response validator, and a           *)
(* middleware wrapped around dispatch. Concurrent requests share nothing   *)
(* but the budgets of the throttles, which are atomic here: the module     *)
(* DjangoCacheThrottle has their steps. The requests are those of one      *)
(* client within one window, so each throttle has one budget for them all. *)
(***************************************************************************)
EXTENDS ResponseValidation, FiniteSets

CONSTANTS
  Requests,
  Endpoints,         \* the metadata an endpoint may be built with
  Accepts,           \* Accept headers: content types, the preferred first
  MethodOutcomes,    \* what the method of the controller returns or raises
  HandlerOutcomes,   \* what a handler the user wrote returns or raises
  SettingsRenderer   \* the first of Settings.renderers

Stage == {"before", "after"}  \* throttling_before_auth, throttling_after_auth

(* What an endpoint is made of: an @modify endpoint documents what it      *)
(* returns, and its renderers and parsers are never empty (validated).     *)
ThrottleType == [limit : Nat, parts : SUBSET STRING]

EndpointType ==
  [before : Seq(ThrottleType), after : Seq(ThrottleType), auths : Nat,
   renderers : Seq(STRING) \ {<<>>}, parsers : Seq(STRING) \ {<<>>},
   declared : SUBSET SpecType, responses : SUBSET SpecType,
   excluded : SUBSET HTTPStatus, wraps : SUBSET Nat,
   modification : HTTPStatus \cup {None},
   components : BOOLEAN, semantic : BOOLEAN, validates : BOOLEAN,
   negotiates : BOOLEAN, streaming : BOOLEAN, error_handler : BOOLEAN,
   controller_handler : BOOLEAN, is_async : BOOLEAN]

(* "Exception" is any other class that no default handler knows; ctype is  *)
(* the renderer that an APIError may bring along.                          *)
ExceptionType ==
  [kind : DOMAIN ErrorStatus
            \cup {"APIError", "RedirectTo", "DataParsingError", "ValueError",
                  "KeyError", "NotImplementedError", "Exception"},
   status : HTTPStatus, parts : SUBSET STRING, ctype : STRING \cup {None},
   body : {"data", "error", "file", "empty", "garbage", "unrenderable"}]

ASSUME NoneAssumption == None \notin STRING /\ None \notin ExceptionType

ASSUME RequestsAssumption == IsFiniteSet(Requests)

(* What the metadata is validated for: the modification is declared and no *)
(* status is declared twice. Only streaming controllers have renderers     *)
(* that stream, among others, and no renderer writes forms.                *)
ASSUME EndpointsAssumption ==
  \A e \in Endpoints :
    /\ e \in EndpointType
    /\ e.modification = None \/ Declares(e, e.modification)
    /\ \A a, b \in e.declared : a.status = b.status => a = b
    /\ NonStreaming(e) # {}
    /\ e.streaming \/ NonStreaming(e) = ToSet(e.renderers)
    /\ ToSet(e.renderers) \cap Forms = {}

ASSUME RendererAssumption ==
  SettingsRenderer \in STRING \ (Files \cup Forms \cup Streams)

ASSUME AcceptsAssumption == Accepts \subseteq Seq(STRING) \cup {None}

(* Only methods return raw data, error handlers return a response; and the *)
(* content of a response is bytes, rendered by whoever made it.            *)
ASSUME OutcomesAssumption ==
  /\ \A outcome \in MethodOutcomes \cup HandlerOutcomes :
       outcome.raises => outcome.value \in ExceptionType
  /\ \A outcome \in MethodOutcomes \cup HandlerOutcomes :
       ~outcome.raises =>
         /\ outcome.value.by = "user"
         /\ outcome.value.kind # "raw" => outcome.value.body # "unrenderable"
  /\ \A outcome \in HandlerOutcomes :
       ~outcome.raises => outcome.value.kind # "raw"

VARIABLES
  ep,        \* the metadata of the endpoint
  spent,     \* [stage, index -> requests its throttle let through]
  pc,        \* [Requests -> the next step of the request]
  index,     \* [Requests -> position in the loop over throttles or auths]
  accept,    \* [Requests -> its Accept header, or None]
  renderer,  \* [Requests -> __dmr_renderer__]
  plain,     \* [Requests -> __dmr_nonstreaming_renderer__]
  user,      \* [Requests -> the auth instance that set __dmr_auth__]
  exc,       \* [Requests -> the exception being handled]
  raised,    \* [Requests -> the exception a bare raise would re-raise]
  result,    \* [Requests -> func_result]
  response,  \* [Requests -> what dispatch returns]
  passed,    \* history: [Requests -> throttles that let it through]
  checked,   \* history: [Requests -> were its credentials looked at?]
  called,    \* history: [Requests -> did the method run?]
  asked      \* history: [Requests -> the handlers that were asked]

attributes == <<accept, renderer, plain, user>>
budget == <<spent, passed>>
failure == <<exc, raised, asked>>
vars == <<ep, pc, index, attributes, budget, failure, result, response,
          checked, called>>

Goto(r, step) == pc' = [pc EXCEPT ![r] = step]

-----------------------------------------------------------------------------
(* Exceptions, and Controller.to_error.                                    *)

FrameworkError(kind, parts) ==
  [kind |-> kind, status |-> ErrorStatus[kind], parts |-> parts,
   body |-> "error", ctype |-> None]

ExceptionOf(kind) ==
  [kind |-> kind, status |-> 500, parts |-> {}, body |-> "error", ctype |-> None]

(* An exception that no default handler knows.                             *)
Unexpected == ExceptionOf("Exception")

Answers(e) == e.kind \in {"APIError", "RedirectTo"}
Formatted(e) == e.kind \in DOMAIN ErrorStatus

FirstOf(a, b) == IF a # None THEN a ELSE b

ErrorRendererNegotiated(r) ==  \* fault: errors of a stream are rendered like its events
  renderer[r]

(* The renderer that validation and errors use: None before negotiation.   *)
ErrorRenderer(r) == FirstOf(plain[r], renderer[r])

ToError(r, e) ==
  [kind |-> "http", status |-> e.status, parts |-> e.parts, body |-> e.body,
   ctype |-> FirstOf(e.ctype, FirstOf(ErrorRenderer(r), SettingsRenderer)),
   by |-> "endpoint"]

(* What renders nothing raises: no body is not rendered at all.            *)
RenderFault(type, body) ==
  IF body = "empty" THEN NoFault
  ELSE IF type \in Files THEN "NotImplementedError"
  ELSE IF body = "unrenderable" THEN "DataRenderingError"
  ELSE NoFault

ToErrorFault(r, e) == RenderFault(ToError(r, e).ctype, e.body)

(* The except clauses of the endpoint.                                     *)
AskedFirst(e) ==
  IF Answers(e) THEN "api_error"
  ELSE IF ep.error_handler THEN "endpoint_handler" ELSE "controller_handler"

Raise(r, e) ==
  /\ exc' = [exc EXCEPT ![r] = e]
  /\ raised' = [raised EXCEPT ![r] = e]
  /\ Goto(r, AskedFirst(e))
  /\ UNCHANGED <<result, asked>>

Settle(r, value) ==
  /\ result' = [result EXCEPT ![r] = value]
  /\ Goto(r, "make_response")

Escape(r, e) ==
  /\ raised' = [raised EXCEPT ![r] = e]
  /\ Goto(r, "escaped")

(* The answer to an exception: rendering it is outside of every handler.   *)
AnswerError(r, e) ==
  \/ /\ ToErrorFault(r, e) = NoFault
     /\ Settle(r, ToError(r, e))
     /\ UNCHANGED raised
  \/ /\ ToErrorFault(r, e) # NoFault
     /\ Escape(r, ExceptionOf(ToErrorFault(r, e)))
     /\ UNCHANGED result

-----------------------------------------------------------------------------
Init ==
  /\ ep \in {Enriched(e) : e \in Endpoints}
  /\ spent = [stage \in Stage |-> [i \in DOMAIN ep[stage] |-> 0]]
  /\ pc = [r \in Requests |-> "arrived"]
  /\ index = [r \in Requests |-> 1]
  /\ accept \in [Requests -> Accepts]
  /\ renderer = [r \in Requests |-> None]
  /\ plain = [r \in Requests |-> None]
  /\ user = [r \in Requests |-> 0]
  /\ exc = [r \in Requests |-> None]
  /\ raised = [r \in Requests |-> None]
  /\ result = [r \in Requests |-> None]
  /\ response = [r \in Requests |-> None]
  /\ passed = [r \in Requests |-> {}]
  /\ checked = [r \in Requests |-> FALSE]
  /\ called = [r \in Requests |-> FALSE]
  /\ asked = [r \in Requests |-> <<>>]

(* dispatch, of the controller or of the wrapper: no endpoint, no wrapping. *)
MethodNotAllowed(r) ==
  /\ pc[r] = "arrived"
  /\ response' = [response EXCEPT ![r] =
       [kind |-> "http", status |-> 405, parts |-> {"Allow"}, body |-> "error",
        ctype |-> SettingsRenderer, by |-> "dispatch"]]
  /\ Goto(r, "done")
  /\ UNCHANGED <<ep, index, attributes, budget, failure, result, checked, called>>

(* The wrapped middleware answers by itself.                               *)
ShortCircuit(r) ==
  /\ pc[r] = "arrived"
  /\ \E status \in ep.wraps :
       response' = [response EXCEPT ![r] =
         [kind |-> "http", status |-> status, parts |-> {}, body |-> "garbage",
          ctype |-> "html", by |-> "middleware"]]
  /\ Goto(r, "convert")
  /\ UNCHANGED <<ep, index, attributes, budget, failure, result, checked, called>>

CallEndpoint(r) ==
  /\ pc[r] = "arrived"
  /\ Goto(r, "before")
  /\ UNCHANGED <<ep, index, attributes, budget, failure, result, response,
                 checked, called>>

-----------------------------------------------------------------------------
(* _run_checks and _run_async_checks.                                      *)

PassThrottleInclusive(r, stage) ==  \* fault: the check lets one request too many through
  LET i == index[r] IN
  /\ pc[r] = stage
  /\ i \in DOMAIN ep[stage]
  /\ spent[stage][i] <= ep[stage][i].limit
  /\ spent' = [spent EXCEPT ![stage][i] = @ + 1]
  /\ passed' = [passed EXCEPT ![r] = @ \cup {<<stage, i>>}]
  /\ index' = [index EXCEPT ![r] = i + 1]
  /\ UNCHANGED <<ep, pc, attributes, failure, result, response, checked, called>>

PassThrottle(r, stage) ==
  LET i == index[r] IN
  /\ pc[r] = stage
  /\ i \in DOMAIN ep[stage]
  /\ spent[stage][i] < ep[stage][i].limit
  /\ spent' = [spent EXCEPT ![stage][i] = @ + 1]
  /\ passed' = [passed EXCEPT ![r] = @ \cup {<<stage, i>>}]
  /\ index' = [index EXCEPT ![r] = i + 1]
  /\ UNCHANGED <<ep, pc, attributes, failure, result, response, checked, called>>

RejectThrottle(r, stage) ==
  LET i == index[r] IN
  /\ pc[r] = stage
  /\ i \in DOMAIN ep[stage]
  /\ spent[stage][i] >= ep[stage][i].limit
  /\ Raise(r, FrameworkError("TooManyRequestsError", ep[stage][i].parts))
  /\ UNCHANGED <<ep, index, attributes, budget, response, checked, called>>

FinishThrottles(r, stage) ==
  /\ pc[r] = stage
  /\ index[r] \notin DOMAIN ep[stage]
  /\ index' = [index EXCEPT ![r] = 1]
  /\ Goto(r, IF stage = "before" THEN "negotiate" ELSE "parse")
  /\ UNCHANGED <<ep, attributes, budget, failure, result, response, checked, called>>

(* negotiate_renderer: the first type of the header that is on offer.      *)
Negotiated(header, types, default) ==
  LET fit == {i \in DOMAIN header : header[i] \in types} IN
  IF header = None THEN default
  ELSE IF fit = {} THEN None ELSE header[Min(fit)]

PlainDefaultFirst(e) ==  \* fault: the default of the stream is taken for its errors too
  Head(e.renderers)

PlainDefault(e) ==
  e.renderers[Min({i \in DOMAIN e.renderers : e.renderers[i] \notin Streams})]

(* ResponseNegotiator: errors of a stream fall back to a plain renderer.   *)
NegotiateResponse(r) ==
  LET chosen == Negotiated(accept[r], ToSet(ep.renderers), Head(ep.renderers))
      others == Negotiated(accept[r], NonStreaming(ep), PlainDefault(ep))
  IN
  /\ pc[r] = "negotiate"
  /\ \/ /\ chosen = None
        /\ Raise(r, FrameworkError("NotAcceptableError", {}))
        /\ UNCHANGED attributes
     \/ /\ chosen # None
        /\ renderer' = [renderer EXCEPT ![r] = chosen]
        /\ plain' = [plain EXCEPT ![r] =
             IF ep.streaming THEN FirstOf(others, PlainDefault(ep)) ELSE None]
        /\ Goto(r, "auth")
        /\ UNCHANGED <<accept, user, failure, result>>
  /\ UNCHANGED <<ep, index, budget, response, checked, called>>

(* One auth instance finds a user, finds nothing, or raises.               *)
RunAuth(r) ==
  /\ pc[r] = "auth"
  /\ index[r] <= ep.auths
  /\ checked' = [checked EXCEPT ![r] = TRUE]
  /\ \/ /\ user' = [user EXCEPT ![r] = index[r]]
        /\ index' = [index EXCEPT ![r] = 1]
        /\ Goto(r, "after")
        /\ UNCHANGED <<failure, result>>
     \/ /\ index' = [index EXCEPT ![r] = @ + 1]
        /\ UNCHANGED <<pc, user, failure, result>>
     \/ /\ \E e \in {FrameworkError("NotAuthenticatedError", {}), Unexpected} :
             Raise(r, e)
        /\ UNCHANGED <<index, user>>
  /\ UNCHANGED <<ep, accept, renderer, plain, budget, response, called>>

FinishAuthOpen(r) ==  \* fault: running out of auth instances is no error
  /\ pc[r] = "auth"
  /\ index[r] > ep.auths
  /\ Goto(r, "after")
  /\ index' = [index EXCEPT ![r] = 1]
  /\ UNCHANGED <<ep, attributes, budget, failure, result, response, checked, called>>

FinishAuth(r) ==
  /\ pc[r] = "auth"
  /\ index[r] > ep.auths
  /\ \/ /\ ep.auths = 0
        /\ Goto(r, "after")
        /\ UNCHANGED <<failure, result>>
     \/ /\ ep.auths > 0
        /\ Raise(r, FrameworkError("NotAuthenticatedError", {}))
  /\ index' = [index EXCEPT ![r] = 1]
  /\ UNCHANGED <<ep, attributes, budget, response, checked, called>>

-----------------------------------------------------------------------------
(* SerializerContext: parsing, then validating, what the method declares.  *)
ParseRequest(r) ==
  /\ pc[r] = "parse"
  /\ \/ /\ Goto(r, "call")
        /\ UNCHANGED <<failure, result>>
     \/ /\ ep.components
        /\ \E kind \in {"RequestSerializationError", "ValidationError"} :
             Raise(r, FrameworkError(kind, {}))
  /\ UNCHANGED <<ep, index, attributes, budget, response, checked, called>>

CallMethod(r) ==
  /\ pc[r] = "call"
  /\ called' = [called EXCEPT ![r] = TRUE]
  /\ \E outcome \in MethodOutcomes :
       IF outcome.raises THEN Raise(r, outcome.value)
       ELSE Settle(r, outcome.value) /\ UNCHANGED failure
  /\ UNCHANGED <<ep, index, attributes, budget, response, checked>>

AnswerAPIErrorUnvalidated(r) ==  \* fault: the errors of the API are returned without validation
  /\ pc[r] = "api_error"
  /\ response' = [response EXCEPT ![r] = ToError(r, exc[r])]
  /\ Goto(r, "done")
  /\ UNCHANGED <<ep, index, attributes, budget, failure, result, checked, called>>

(* except (APIError, RedirectTo).                                          *)
AnswerAPIError(r) ==
  /\ pc[r] = "api_error"
  /\ AnswerError(r, exc[r])
  /\ UNCHANGED <<ep, index, attributes, budget, exc, asked, response, checked,
                 called>>

-----------------------------------------------------------------------------
(* handle_error and handle_async_error: endpoint, controller, global.      *)

Ask(r, handler) == asked' = [asked EXCEPT ![r] = Append(@, handler)]

EndpointHandler(r) ==
  /\ pc[r] = "endpoint_handler"
  /\ Ask(r, "endpoint")
  /\ \E outcome \in HandlerOutcomes :
       IF outcome.raises THEN Goto(r, "controller_handler") /\ UNCHANGED result
       ELSE Settle(r, outcome.value)
  /\ UNCHANGED <<ep, index, attributes, budget, exc, raised, response, checked,
                 called>>

(* The default handler of a controller is a bare raise.                    *)
ControllerHandler(r) ==
  /\ pc[r] = "controller_handler"
  /\ Ask(r, "controller")
  /\ \/ /\ ep.controller_handler
        /\ \E outcome \in HandlerOutcomes :
             IF outcome.raises
             THEN /\ raised' = [raised EXCEPT ![r] = outcome.value]
                  /\ Goto(r, "global_handler")
                  /\ UNCHANGED result
             ELSE Settle(r, outcome.value) /\ UNCHANGED raised
     \/ /\ ~ep.controller_handler
        /\ Goto(r, "global_handler")
        /\ UNCHANGED <<raised, result>>
  /\ UNCHANGED <<ep, index, attributes, budget, exc, response, checked, called>>

(* format_error and to_error: the class decides on the status and headers. *)
WithErrorBody(e) ==
  [kind |-> e.kind, status |-> e.status, parts |-> e.parts, body |-> "error",
   ctype |-> None]

(* It runs while the exception of the controller handler is being handled: *)
(* that one is what its own bare raise lets escape.                        *)
GlobalHandler(r) ==
  /\ pc[r] = "global_handler"
  /\ Ask(r, "global")
  /\ IF Formatted(exc[r])
     THEN AnswerError(r, WithErrorBody(exc[r]))
     ELSE Escape(r, raised[r]) /\ UNCHANGED result
  /\ UNCHANGED <<ep, index, attributes, budget, exc, response, checked, called>>

-----------------------------------------------------------------------------
(* _make_http_response.                                                    *)

CaughtFewer ==  \* fault: raw data without modification is not expected
  {"ResponseSchemaError", "ValidationError", "DataRenderingError"}

Caught == {"ResponseSchemaError", "ValidationError", "DataRenderingError",
           "InternalServerError"}

(* A response ValidationError has the default status, the one of a schema. *)
FallbackStatus(fault) == IF fault = "ValidationError" THEN 422 ELSE ErrorStatus[fault]

Fallback(r, fault) ==
  [ToError(r, FrameworkError(fault, {})) EXCEPT
     !.status = FallbackStatus(fault), !.by = "fallback"]

(* to_response of the modification of the endpoint.                        *)
Built(r, body) ==
  [kind |-> "http", status |-> ep.modification, body |-> body,
   parts |-> SpecOf(ep, ep.modification).required, ctype |-> renderer[r],
   by |-> "endpoint"]

(* The form parser that may validate a body depends on the request's form. *)
Fault(r, readable) ==
  LET modification == ModificationFault(ep, renderer[r], result[r].body) IN
  IF result[r].kind # "raw"
  THEN ResponseFault(ep, ErrorRenderer(r), result[r], readable)
  ELSE IF modification # NoFault THEN modification
  ELSE RenderFault(renderer[r], result[r].body)

Returned(r) ==
  IF result[r].kind = "raw" THEN Built(r, result[r].body) ELSE result[r]

Respond(r, value) ==
  /\ response' = [response EXCEPT ![r] = value]
  /\ Goto(r, IF ep.wraps = {} THEN "done" ELSE "convert")

(* The except clause of _make_http_response, or what is not caught.        *)
AnswerFault(r, fault) ==
  LET e == FrameworkError(fault, {}) IN
  \/ /\ fault \in Caught
     /\ ToErrorFault(r, e) = NoFault
     /\ Respond(r, Fallback(r, fault))
     /\ UNCHANGED raised
  \/ /\ fault \in Caught
     /\ ToErrorFault(r, e) # NoFault
     /\ Escape(r, ExceptionOf(ToErrorFault(r, e)))
     /\ UNCHANGED response
  \/ /\ fault \notin Caught
     /\ Escape(r, ExceptionOf(fault))
     /\ UNCHANGED response

MakeHttpResponseHandled(r) ==  \* fault: the error handlers are asked about invalid responses too
  /\ pc[r] = "make_response"
  /\ \/ /\ Fault(r, TRUE) = NoFault
        /\ Respond(r, Returned(r))
        /\ UNCHANGED <<exc, raised>>
     \/ /\ Fault(r, TRUE) # NoFault
        /\ exc' = [exc EXCEPT ![r] = ExceptionOf(Fault(r, TRUE))]
        /\ raised' = exc'
        /\ Goto(r, "controller_handler")
        /\ UNCHANGED response
  /\ UNCHANGED <<ep, index, attributes, budget, asked, result, checked, called>>

MakeHttpResponseAgain(r) ==  \* fault: the response of the error is validated in its turn
  /\ pc[r] = "make_response"
  /\ \/ /\ Fault(r, TRUE) = NoFault
        /\ Respond(r, Returned(r))
        /\ UNCHANGED <<raised, result>>
     \/ /\ Fault(r, TRUE) \in Caught
        /\ Settle(r, Fallback(r, Fault(r, TRUE)))
        /\ UNCHANGED <<raised, response>>
     \/ /\ Fault(r, TRUE) \notin Caught \cup {NoFault}
        /\ Escape(r, ExceptionOf(Fault(r, TRUE)))
        /\ UNCHANGED <<result, response>>
  /\ UNCHANGED <<ep, index, attributes, budget, exc, asked, checked, called>>

MakeHttpResponse(r) ==
  /\ pc[r] = "make_response"
  /\ \E readable \in BOOLEAN :
       \/ /\ Fault(r, readable) = NoFault
          /\ Respond(r, Returned(r))
          /\ UNCHANGED raised
       \/ /\ Fault(r, readable) # NoFault
          /\ AnswerFault(r, Fault(r, readable))
  /\ UNCHANGED <<ep, index, attributes, budget, exc, asked, result, checked, called>>

Converted(sent) ==
  [kind |-> "http", status |-> sent.status, parts |-> {}, body |-> "error",
   ctype |-> SettingsRenderer, by |-> "converter"]

(* apply_converter, whoever made the response.                             *)
ApplyConverter(r) ==
  /\ pc[r] = "convert"
  /\ response' = [response EXCEPT ![r] =
       IF @.status \in ep.wraps THEN Converted(@) ELSE @]
  /\ Goto(r, "done")
  /\ UNCHANGED <<ep, index, attributes, budget, failure, result, checked, called>>

(* The client of an async endpoint goes away: CancelledError is raised at  *)
(* an await, and no except clause of the endpoint catches it.              *)
Awaits(r) ==
  \/ pc[r] \in Stage /\ index[r] \in DOMAIN ep[pc[r]]
  \/ pc[r] = "auth" /\ index[r] <= ep.auths
  \/ pc[r] \in {"call", "endpoint_handler"}
  \/ pc[r] = "controller_handler" /\ ep.controller_handler

Cancel(r) ==
  /\ ep.is_async
  /\ Awaits(r)
  /\ Goto(r, "cancelled")
  /\ checked' = [checked EXCEPT ![r] = @ \/ pc[r] = "auth"]
  /\ called' = [called EXCEPT ![r] = @ \/ pc[r] = "call"]
  /\ UNCHANGED <<ep, index, attributes, budget, failure, result, response>>

-----------------------------------------------------------------------------
Dispatch(r) ==
  \/ MethodNotAllowed(r)
  \/ ShortCircuit(r)
  \/ CallEndpoint(r)

RunChecks(r) ==
  \/ \E stage \in Stage :
       PassThrottle(r, stage) \/ RejectThrottle(r, stage) \/ FinishThrottles(r, stage)
  \/ NegotiateResponse(r)
  \/ RunAuth(r)
  \/ FinishAuth(r)

HandleError(r) ==
  \/ AnswerAPIError(r)
  \/ EndpointHandler(r)
  \/ ControllerHandler(r)
  \/ GlobalHandler(r)

Step(r) ==
  \/ Dispatch(r)
  \/ RunChecks(r)
  \/ ParseRequest(r)
  \/ CallMethod(r)
  \/ HandleError(r)
  \/ MakeHttpResponse(r)
  \/ ApplyConverter(r)

Next == \E r \in Requests : Step(r) \/ Cancel(r)

Spec == Init /\ [][Next]_vars

-----------------------------------------------------------------------------
(* Properties.                                                             *)

Steps == {"arrived", "before", "negotiate", "auth", "after", "parse", "call",
          "api_error", "endpoint_handler", "controller_handler",
          "global_handler", "make_response", "convert",
          "done", "escaped", "cancelled"}

(* Every variable keeps its type, and no budget is overspent.              *)
TypeOK ==
  /\ \A stage \in Stage :
       /\ DOMAIN spent[stage] = DOMAIN ep[stage]
       /\ \A i \in DOMAIN ep[stage] : spent[stage][i] \in 0 .. ep[stage][i].limit
  /\ pc \in [Requests -> Steps]
  /\ index \in [Requests -> Nat \ {0}]
  /\ accept \in [Requests -> Accepts]
  /\ renderer \in [Requests -> ToSet(ep.renderers) \cup {None}]
  /\ plain \in [Requests -> (ToSet(ep.renderers) \ Streams) \cup {None}]
  /\ user \in [Requests -> 0 .. ep.auths]
  /\ exc \in [Requests -> ExceptionType \cup {None}]
  /\ raised \in [Requests -> ExceptionType \cup {None}]
  /\ passed \in [Requests -> SUBSET (Stage \X Nat)]
  /\ checked \in [Requests -> BOOLEAN]
  /\ called \in [Requests -> BOOLEAN]

Throttles == UNION {{stage} \X DOMAIN ep[stage] : stage \in Stage}

Authenticated(r) == ep.auths = 0 \/ user[r] > 0

(* The method runs only for a request that every throttle let through,     *)
(* that has a renderer and that is authenticated, and only authenticated   *)
(* requests are charged to the throttles after auth (_run_checks).         *)
Guarded ==
  \A r \in Requests :
    /\ called[r] =>
         /\ Throttles \subseteq passed[r]
         /\ renderer[r] # None
         /\ Authenticated(r)
    /\ (\E i \in DOMAIN ep.after : <<"after", i>> \in passed[r]) => Authenticated(r)

(* No more credentials are looked at, and no more Accept headers matched,  *)
(* than any throttle before auth allows, however requests interleave.      *)
BruteForceBound ==
  \A i \in DOMAIN ep.before :
    Cardinality({r \in Requests : checked[r] \/ renderer[r] # None})
      <= ep.before[i].limit

Sound(e, sent) ==
  \E spec \in e.responses :
    /\ spec.status = sent.status
    /\ sent.ctype \in ToSet(e.renderers)
    /\ PartsMatch(spec, sent)
    /\ \/ sent.kind = "stream"
       \/ /\ spec.limit = {} \/ sent.ctype \in spec.limit
          /\ spec.streaming \/ sent.body = spec.model

(* Bodies can be read back, unless the first parser is one of a form: it   *)
(* is the one for unlisted types, and returns nothing for any of them.     *)
ReadsBack(e) == Head(e.parsers) \notin Forms

Acceptable(e, sent) ==
  /\ sent.by \in {"endpoint", "user"} => Sound(e, sent)
  /\ sent.by = "fallback" =>
       sent.status \in {422, 500} /\ sent.body = "error" /\ sent.parts = {}

(* What an endpoint with validate_responses sends, whoever made it, is as  *)
(* documented; otherwise it sends an error body with status 422 or 500.    *)
SoundResponse ==
  \A r \in Requests :
    pc[r] = "done" /\ ep.validates /\ ReadsBack(ep) => Acceptable(ep, response[r])

Layers ==
  IF ep.error_handler
  THEN {<<"endpoint">>, <<"endpoint", "controller">>,
        <<"endpoint", "controller", "global">>}
  ELSE {<<"controller">>, <<"controller", "global">>}

(* The layers of error handlers are asked in their order and each at most  *)
(* once; none sees an APIError or a redirect, and the endpoint's own one   *)
(* is skipped only when there is none (handle_error).                      *)
HandlersInOrder ==
  \A r \in Requests :
    asked[r] # <<>> => ~Answers(exc[r]) /\ asked[r] \in Layers

(* The framework has to reject the request, and no handler intervened.     *)
Rejected(r) ==
  /\ exc[r] # None
  /\ Formatted(exc[r])
  /\ asked[r] # <<>>
  /\ Last(asked[r]) = "global"

(* The response to it can pass validation: its status is documented with   *)
(* its headers, as an error of a plain type; and, if no renderer was       *)
(* negotiated, the endpoint knows the default type.                        *)
PassesValidation(r) ==
  /\ renderer[r] = None =>
       SettingsRenderer \in NonStreaming(ep) \cap ToSet(ep.parsers)
  /\ \E spec \in ep.responses :
       /\ spec.status = exc[r].status
       /\ spec.model = "error"
       /\ spec.limit \in {{}, NonStreaming(ep)}
       /\ PartsMatch(spec, exc[r])

(* Such a rejection is sent with its own status and headers, unless        *)
(* responses are validated and its own cannot pass (_make_http_response);  *)
(* RejectionKeepsStatus is about the ones that cannot.                     *)
StatusKept ==
  \A r \in Requests :
    /\ pc[r] = "done" /\ Rejected(r) /\ response[r].by # "converter"
    /\ ep.validates => PassesValidation(r)
    => response[r].status = exc[r].status /\ response[r].parts = exc[r].parts

(* After a successful negotiation a validating endpoint sends only types   *)
(* that the client accepts, its errors and its fallbacks included; files   *)
(* and streams choose their own type (validate_negotiation).               *)
NegotiatedType ==
  \A r \in Requests :
    /\ pc[r] = "done"
    /\ ep.validates /\ ep.negotiates /\ ~ep.streaming
    /\ accept[r] # None /\ renderer[r] # None
    /\ response[r].by \in {"endpoint", "user", "fallback"}
    /\ ~IsStream(response[r])
    => response[r].ctype \in ToSet(accept[r])

(* A FileRenderer would have to render, or to read back, what is sent.     *)
FileRendered(r) ==
  \/ {renderer[r], plain[r]} \cap Files # {}
  \/ exc[r] # None /\ exc[r].ctype \in Files

(* A body that may not be read back with the parser of its own type: the   *)
(* user made it, or it was rendered before negotiation, for an endpoint    *)
(* that does not know the default type.                                    *)
ReadDifferently(r) ==
  \/ result[r].by = "user"
  \/ Answers(exc[r])
  \/ renderer[r] = None /\ SettingsRenderer \notin ToSet(ep.parsers)

(* What leaves the endpoint as an exception is what no default handler     *)
(* knows, the data of an APIError that cannot be rendered, whatever meets  *)
(* a FileRenderer, a status or a missing type of the user's own response   *)
(* that the validator trips over, or a body that cannot be parsed back.    *)
EscapesExplained ==
  \A r \in Requests :
    pc[r] = "escaped" =>
      \/ exc[r] # None /\ ~Answers(exc[r]) /\ ~Formatted(exc[r])
      \/ exc[r] # None /\ Answers(exc[r]) /\ exc[r].body = "unrenderable"
      \/ raised[r].kind = "NotImplementedError" /\ FileRendered(r)
      \/ raised[r].kind \in {"ValueError", "KeyError"} /\ result[r].by = "user"
      \/ /\ raised[r].kind \in {"DataParsingError", "RequestSerializationError"}
         /\ ReadDifferently(r)

(* docs/pages/throttling.rst:376-377: a throttled request is answered 429, *)
(* one without an acceptable renderer 406.                                 *)
RejectionKeepsStatus ==
  \A r \in Requests :
    pc[r] = "done" /\ Rejected(r) /\ exc[r].status \in {406, 429}
      => response[r].status = exc[r].status
=============================================================================
