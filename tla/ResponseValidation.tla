------------------------- MODULE ResponseValidation -------------------------
(***************************************************************************)
(* What an endpoint documents and how its responses are checked against    *)
(* it: metadata.py, validation/endpoint_metadata.py and                    *)
(* validation/response.py. Headers and cookies are validated alike and are *)
(* called parts here. A body is the model it conforms to: "data", "error"  *)
(* or "file"; "empty" is no body, "garbage" is one no parser can read, and *)
(* "unrenderable" is a python value no renderer accepts. A renderer or a   *)
(* parser raises nothing but what this module says.                        *)
(***************************************************************************)
EXTENDS Naturals, SequencesExt

CONSTANTS
  HTTPStatus,        \* the members of http.HTTPStatus
  Streams,           \* content types whose renderer has streaming set
  Files,             \* content types of a FileRenderer: it renders no body
  Forms,             \* content types whose parser reads the request instead
  None

(* The status_code of each exception class with a default handler.         *)
ErrorStatus ==
  [TooManyRequestsError |-> 429, NotAcceptableError |-> 406,
   NotAuthenticatedError |-> 401, RequestSerializationError |-> 400,
   ValidationError |-> 400, ResponseSchemaError |-> 422,
   DataRenderingError |-> 500, InternalServerError |-> 500]

ASSUME StatusAssumption ==
  /\ HTTPStatus \subseteq Nat
  /\ \A kind \in DOMAIN ErrorStatus : ErrorStatus[kind] \in HTTPStatus

(* What a ResponseSpec says. Parts are headers and cookies.                *)
SpecType ==
  [status : HTTPStatus, model : {"data", "error", "file", "empty"},
   required : SUBSET STRING, optional : SUBSET STRING, limit : SUBSET STRING,
   streaming : BOOLEAN]

(* A semantic response: error_model, parts all required, no other part.    *)
ErrorSpec(status, parts) ==
  [status |-> status, model |-> "error", required |-> parts, optional |-> {},
   limit |-> {}, streaming |-> FALSE]

-----------------------------------------------------------------------------
(* What the providers of one endpoint offer, in their order: components,   *)
(* renderers, auth, throttles before auth, throttles after it.             *)

ThrottleSpecs(throttles) ==
  [i \in DOMAIN throttles |-> ErrorSpec(429, throttles[i].parts)]

Offers(e) ==
  IF ~e.semantic THEN <<>>
  ELSE (IF e.components THEN <<ErrorSpec(400, {})>> ELSE <<>>)
       \o (IF e.validates THEN <<ErrorSpec(422, {})>> ELSE <<>>)
       \o <<ErrorSpec(406, {})>>
       \o (IF e.auths > 0 THEN <<ErrorSpec(401, {})>> ELSE <<>>)
       \o ThrottleSpecs(e.before)
       \o ThrottleSpecs(e.after)

NonStreaming(e) == ToSet(e.renderers) \ Streams

(* An offered response is limited to the non-streaming types, when there   *)
(* are others; a declared streaming response to the streaming ones.        *)
LimitOffered(e, spec) ==
  [spec EXCEPT !.limit =
     IF NonStreaming(e) = ToSet(e.renderers) THEN {} ELSE NonStreaming(e)]

LimitDeclared(e, spec) ==
  [spec EXCEPT !.limit =
     IF spec.streaming THEN ToSet(e.renderers) \cap Streams ELSE @]

Declares(e, status) == \E spec \in e.declared : spec.status = status

(* The specs that end up in metadata.responses: an offer for a status that *)
(* somebody described before is dropped, and so is an excluded one.        *)
Responses(e) ==
  {LimitDeclared(e, spec) : spec \in e.declared}
  \cup
  {LimitOffered(e, Offers(e)[i]) :
     i \in {j \in DOMAIN Offers(e) :
              LET status == Offers(e)[j].status IN
              /\ ~Declares(e, status)
              /\ status \notin e.excluded
              /\ \A k \in 1 .. j - 1 : Offers(e)[k].status # status}}

(* Endpoint.__init__ builds the metadata, then adds the responses to it.   *)
Enriched(e) == [e EXCEPT !.responses = Responses(e)]

Documents(e, status) == \E spec \in e.responses : spec.status = status

SpecOf(e, status) == CHOOSE spec \in e.responses : spec.status = status

-----------------------------------------------------------------------------
(* ResponseValidator. NoFault, or the class of the exception it raises.    *)

NoFault == "none"

IsStream(response) == response.kind \in {"file", "stream"}

(* _validate_response_headers and _validate_response_cookies.              *)
PartsMatch(spec, response) ==
  /\ spec.required \subseteq response.parts
  /\ response.parts \subseteq spec.required \cup spec.optional

(* from_python: a loosely typed "data" model lets unrenderable values pass. *)
Conforms(body, spec) ==
  \/ body = spec.model
  \/ body = "unrenderable" /\ spec.model = "data"

(* _validate_body: the limit, then the model, unless the spec streams.     *)
BodyFault(spec, body, ctype) ==
  IF spec.limit # {} /\ ctype \notin spec.limit THEN "ResponseSchemaError"
  ELSE IF ~spec.streaming /\ ~Conforms(body, spec) THEN "ValidationError"
  ELSE NoFault

(* negotiatiate_response_validation: the type that the body is parsed as.  *)
ParserFor(e, renderer, ctype) ==
  IF renderer = ctype \/ ctype \in ToSet(e.parsers) THEN ctype
  ELSE Head(e.parsers)

MismatchedAny(e, renderer, response) ==  \* fault: any type of the endpoint will do
  /\ e.negotiates
  /\ response.ctype \notin ToSet(e.renderers)
  /\ ~IsStream(response)

Mismatched(e, renderer, response) ==
  /\ e.negotiates
  /\ renderer \notin {None, response.ctype}
  /\ ~IsStream(response)

(* What deserialize raises. The validation parser of a FileRenderer is not *)
(* implemented; the parser of a form reads the form of the request, which  *)
(* may not be readable, and never looks at the content it is given.        *)
ParseFault(e, renderer, response, readable) ==
  LET parser == ParserFor(e, renderer, response.ctype) IN
  IF renderer = response.ctype /\ renderer \in Files THEN "NotImplementedError"
  ELSE IF parser \in Forms
  THEN IF readable THEN NoFault ELSE "RequestSerializationError"
  ELSE IF /\ response.body # "empty"
          /\ parser # response.ctype \/ response.body = "garbage"
  THEN "DataParsingError"
  ELSE NoFault

(* What deserialize returns. A form parser returns nothing.                *)
Parsed(e, renderer, response) ==
  IF response.kind = "http" /\ ParserFor(e, renderer, response.ctype) \in Forms
  THEN "empty" ELSE response.body

(* _maybe_validate_body.                                                   *)
ContentFault(e, renderer, response, readable) ==
  IF response.kind = "stream" THEN NoFault
  ELSE IF response.kind = "unsupported" THEN "InternalServerError"
  ELSE IF /\ response.kind = "http"
          /\ ParseFault(e, renderer, response, readable) # NoFault
  THEN ParseFault(e, renderer, response, readable)
  ELSE BodyFault(SpecOf(e, response.status), Parsed(e, renderer, response),
                 response.ctype)

(* validate_response, renderer being the negotiated non-streaming one: the *)
(* status, the type, which may be missing, the content and then the parts. *)
ResponseFault(e, renderer, response, readable) ==
  IF ~e.validates THEN NoFault
  ELSE IF response.status \notin HTTPStatus THEN "ValueError"
  ELSE IF ~Documents(e, response.status) THEN "ResponseSchemaError"
  ELSE IF response.ctype = None THEN "KeyError"
  ELSE IF \/ response.ctype \notin ToSet(e.renderers)
          \/ Mismatched(e, renderer, response)
       THEN "ResponseSchemaError"
  ELSE IF ContentFault(e, renderer, response, readable) # NoFault
       THEN ContentFault(e, renderer, response, readable)
  ELSE IF PartsMatch(SpecOf(e, response.status), response)
       THEN NoFault ELSE "ResponseSchemaError"

(* validate_modification: raw data is only for endpoints with one.         *)
ModificationFault(e, renderer, body) ==
  IF e.modification = None THEN "InternalServerError"
  ELSE IF ~e.validates THEN NoFault
  ELSE BodyFault(SpecOf(e, e.modification), body, renderer)
=============================================================================
