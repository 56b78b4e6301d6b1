----------------------- MODULE EndpointPipeline_proofs -----------------------
(***************************************************************************)
(* Proofs about EndpointPipeline, for every set of requests, every         *)
(* endpoint, and whatever the methods and the error handlers do: the order *)
(* of the error handlers, the soundness of validated responses, the checks *)
(* that guard a method and its credentials, the types, and where responses *)
(* and escaping exceptions come from.                                      *)
(***************************************************************************)
EXTENDS EndpointPipeline, SequenceTheorems, FiniteSetTheorems,
        WellFoundedInduction, NaturalsInduction, TLAPS

-----------------------------------------------------------------------------
(* How an exception is answered, and how a response is returned.           *)

RenderFaults == {"NotImplementedError", "DataRenderingError"}

LEMMA RenderFaultListed ==
  ASSUME NEW type, NEW body
  PROVE  /\ RenderFault(type, body) \in RenderFaults \cup {NoFault}
         /\ RenderFault(type, body) = "NotImplementedError" => type \in Files
         /\ RenderFault(type, body) = "DataRenderingError" => body = "unrenderable"
         /\ RenderFault(type, body) = NoFault =>
              body # "unrenderable" /\ (body = "empty" \/ type \notin Files)
BY DEF RenderFault, RenderFaults, NoFault

(* An answer that can be rendered is settled; another escapes.             *)
AnswerSettles(r, e) ==
  /\ ToErrorFault(r, e) = NoFault
  /\ Settle(r, ToError(r, e))
  /\ UNCHANGED raised

AnswerEscapes(r, e) ==
  /\ ToErrorFault(r, e) \in RenderFaults
  /\ Escape(r, ExceptionOf(ToErrorFault(r, e)))

LEMMA AnswerErrorCases ==
  ASSUME NEW r \in Requests, NEW e, AnswerError(r, e)
  PROVE  AnswerSettles(r, e) \/ (AnswerEscapes(r, e) /\ UNCHANGED result)
BY RenderFaultListed DEF AnswerError, AnswerSettles, AnswerEscapes, ToErrorFault

LEMMA FaultCases ==
  ASSUME NEW r \in Requests, MakeHttpResponse(r)
  PROVE  \E readable \in BOOLEAN :
           \/ Fault(r, readable) = NoFault /\ Respond(r, Returned(r)) /\ UNCHANGED raised
           \/ /\ Fault(r, readable) \in Caught
              /\ Respond(r, Fallback(r, Fault(r, readable))) /\ UNCHANGED raised
           \/ /\ Fault(r, readable) \in Caught
              /\ AnswerEscapes(r, FrameworkError(Fault(r, readable), {}))
              /\ UNCHANGED response
           \/ /\ Fault(r, readable) \notin Caught \cup {NoFault}
              /\ Escape(r, ExceptionOf(Fault(r, readable)))
              /\ UNCHANGED response
BY RenderFaultListed DEF MakeHttpResponse, AnswerFault, AnswerEscapes, ToErrorFault

-----------------------------------------------------------------------------
(* The order of the error handlers.                                        *)

Unhandled == {"arrived", "before", "negotiate", "auth", "after", "parse",
              "call", "api_error"}

EndpointLayer == IF ep.error_handler THEN <<"endpoint">> ELSE <<>>

HandlersInv ==
  /\ DOMAIN pc = Requests /\ DOMAIN exc = Requests /\ DOMAIN asked = Requests
  /\ \A r \in Requests :
       /\ pc[r] \in Unhandled => asked[r] = <<>>
       /\ pc[r] = "endpoint_handler" =>
            asked[r] = <<>> /\ ep.error_handler /\ ~Answers(exc[r])
       /\ pc[r] = "controller_handler" =>
            asked[r] = EndpointLayer /\ ~Answers(exc[r])
       /\ pc[r] = "global_handler" =>
            asked[r] = Append(EndpointLayer, "controller") /\ ~Answers(exc[r])
  /\ HandlersInOrder

LEMMA AppendToOne == ASSUME NEW a, NEW b PROVE Append(<<a>>, b) = <<a, b>>
<1>1. /\ <<a>> \in Seq({a, b}) /\ Len(<<a>>) = 1
      /\ <<a, b>> \in Seq({a, b}) /\ Len(<<a, b>>) = 2
  OBVIOUS
<1>2. /\ Append(<<a>>, b) \in Seq({a, b})
      /\ Len(Append(<<a>>, b)) = 2
      /\ Append(<<a>>, b)[1] = a
      /\ Append(<<a>>, b)[2] = b
  BY <1>1, AppendProperties
<1>3. \A i \in 1 .. 2 : Append(<<a>>, b)[i] = <<a, b>>[i]
  BY <1>2
<1> QED BY <1>1, <1>2, <1>3, SeqEqual

LEMMA AppendToTwo ==
  ASSUME NEW a, NEW b, NEW c PROVE Append(<<a, b>>, c) = <<a, b, c>>
<1>1. /\ <<a, b>> \in Seq({a, b, c}) /\ Len(<<a, b>>) = 2
      /\ <<a, b, c>> \in Seq({a, b, c}) /\ Len(<<a, b, c>>) = 3
  OBVIOUS
<1>2. /\ Append(<<a, b>>, c) \in Seq({a, b, c})
      /\ Len(Append(<<a, b>>, c)) = 3
      /\ \A i \in 1 .. 2 : Append(<<a, b>>, c)[i] = <<a, b>>[i]
      /\ Append(<<a, b>>, c)[3] = c
  BY <1>1, AppendProperties
<1>3. \A i \in 1 .. 3 : Append(<<a, b>>, c)[i] = <<a, b, c>>[i]
  BY <1>2
<1> QED BY <1>1, <1>2, <1>3, SeqEqual

LEMMA AppendLayers ==
  /\ Append(EndpointLayer, "controller") \in Layers
  /\ Append(Append(EndpointLayer, "controller"), "global") \in Layers
<1>1. /\ Append(<<>>, "controller") = <<"controller">>
      /\ Append(<<"controller">>, "global") = <<"controller", "global">>
  BY AppendToOne
<1>2. /\ Append(<<"endpoint">>, "controller") = <<"endpoint", "controller">>
      /\ Append(<<"endpoint", "controller">>, "global")
           = <<"endpoint", "controller", "global">>
  BY AppendToOne, AppendToTwo
<1>3. CASE ep.error_handler
  <2>1. EndpointLayer = <<"endpoint">>
    BY <1>3 DEF EndpointLayer
  <2>2. {<<"endpoint", "controller">>, <<"endpoint", "controller", "global">>}
          \subseteq Layers
    BY <1>3 DEF Layers
  <2> QED BY <1>2, <2>1, <2>2
<1>4. CASE ~ep.error_handler
  <2>1. EndpointLayer = <<>>
    BY <1>4 DEF EndpointLayer
  <2>2. {<<"controller">>, <<"controller", "global">>} \subseteq Layers
    BY <1>4 DEF Layers
  <2> QED BY <1>1, <2>1, <2>2
<1> QED BY <1>3, <1>4

LEMMA HandlersInit == Init => HandlersInv
BY DEF Init, HandlersInv, HandlersInOrder, Unhandled

(* An exception reaches the first layer of handlers that there is.         *)
LEMMA RaiseKeepsHandlers ==
  ASSUME HandlersInv, NEW r \in Requests, pc[r] \in Unhandled,
         NEW e, Raise(r, e), UNCHANGED ep
  PROVE  HandlersInv'
<1>1. asked' = asked /\ asked[r] = <<>> /\ exc'[r] = e
      /\ \A s \in Requests \ {r} : pc'[s] = pc[s] /\ exc'[s] = exc[s]
  BY DEF Raise, Goto, HandlersInv
<1>2. /\ pc'[r] \in {"api_error", "endpoint_handler", "controller_handler"}
      /\ pc'[r] = "endpoint_handler" => ep.error_handler /\ ~Answers(e)
      /\ pc'[r] = "controller_handler" => ~ep.error_handler /\ ~Answers(e)
  BY DEF Raise, Goto, HandlersInv, AskedFirst
<1>3. DOMAIN pc' = Requests /\ DOMAIN exc' = Requests
  BY DEF Raise, Goto, HandlersInv, AskedFirst
<1> QED BY <1>1, <1>2, <1>3 DEF HandlersInv, HandlersInOrder, Layers, EndpointLayer, Unhandled

(* Neither does a step that raises nothing and asks nobody.                *)
LEMMA QuietKeepsHandlers ==
  ASSUME HandlersInv, NEW r \in Requests, NEW step, Goto(r, step),
         step \in Unhandled => pc[r] \in Unhandled,
         step \notin {"endpoint_handler", "controller_handler", "global_handler"},
         UNCHANGED <<ep, exc, asked>>
  PROVE  HandlersInv'
BY DEF HandlersInv, HandlersInOrder, Layers, EndpointLayer, Goto

LEMMA HandlersStep == HandlersInv /\ [Next]_vars => HandlersInv'
<1> SUFFICES ASSUME HandlersInv, [Next]_vars PROVE HandlersInv'
  OBVIOUS
<1> USE DEF failure, Unhandled
<1>1. ASSUME NEW r \in Requests, Dispatch(r) PROVE HandlersInv'
  <2>1. Goto(r, "done") \/ Goto(r, "convert") \/ Goto(r, "before")
    BY <1>1 DEF Dispatch, MethodNotAllowed, ShortCircuit, CallEndpoint
  <2>2. pc[r] = "arrived" /\ UNCHANGED <<ep, exc, asked>>
    BY <1>1 DEF Dispatch, MethodNotAllowed, ShortCircuit, CallEndpoint
  <2> QED BY <2>1, <2>2, QuietKeepsHandlers
<1>2. ASSUME NEW r \in Requests, RunChecks(r) PROVE HandlersInv'
  <2>1. ASSUME NEW stage \in Stage, PassThrottle(r, stage) PROVE HandlersInv'
    BY <2>1 DEF PassThrottle, HandlersInv, HandlersInOrder, Layers, EndpointLayer
  <2>2. ASSUME NEW stage \in Stage, RejectThrottle(r, stage) PROVE HandlersInv'
    BY <2>2, RaiseKeepsHandlers DEF RejectThrottle, Stage
  <2>3. ASSUME NEW stage \in Stage, FinishThrottles(r, stage) PROVE HandlersInv'
    <3>1. Goto(r, "negotiate") \/ Goto(r, "parse")
      BY <2>3 DEF FinishThrottles
    <3> QED BY <2>3, <3>1, QuietKeepsHandlers DEF FinishThrottles, Stage
  <2>4. CASE NegotiateResponse(r)
    <3>1. pc[r] = "negotiate" /\ UNCHANGED ep
      BY <2>4 DEF NegotiateResponse
    <3>2. \/ Raise(r, FrameworkError("NotAcceptableError", {}))
          \/ Goto(r, "auth") /\ UNCHANGED <<exc, asked>>
      BY <2>4 DEF NegotiateResponse
    <3> QED BY <3>1, <3>2, QuietKeepsHandlers, RaiseKeepsHandlers
  <2>5. CASE RunAuth(r)
    <3>1. pc[r] = "auth" /\ UNCHANGED ep
      BY <2>5 DEF RunAuth
    <3>2. \/ Goto(r, "after") /\ UNCHANGED <<exc, asked>>
          \/ UNCHANGED <<pc, exc, asked>>
          \/ \E e : Raise(r, e)
      BY <2>5 DEF RunAuth
    <3>3. CASE UNCHANGED <<pc, exc, asked>>
      BY <3>1, <3>3 DEF HandlersInv, HandlersInOrder, Layers, EndpointLayer
    <3> QED BY <3>1, <3>2, <3>3, QuietKeepsHandlers, RaiseKeepsHandlers
  <2>6. CASE FinishAuth(r)
    <3>1. pc[r] = "auth" /\ UNCHANGED ep
      BY <2>6 DEF FinishAuth
    <3>2. \/ Goto(r, "after") /\ UNCHANGED <<exc, asked>>
          \/ \E e : Raise(r, e)
      BY <2>6 DEF FinishAuth
    <3> QED BY <3>1, <3>2, QuietKeepsHandlers, RaiseKeepsHandlers
  <2> QED BY <1>2, <2>1, <2>2, <2>3, <2>4, <2>5, <2>6 DEF RunChecks
<1>3. ASSUME NEW r \in Requests, ParseRequest(r) PROVE HandlersInv'
  <2>1. pc[r] = "parse" /\ UNCHANGED ep
    BY <1>3 DEF ParseRequest
  <2>2. \/ Goto(r, "call") /\ UNCHANGED <<exc, asked>>
        \/ \E e : Raise(r, e)
    BY <1>3 DEF ParseRequest
  <2> QED BY <2>1, <2>2, QuietKeepsHandlers, RaiseKeepsHandlers
<1>4. ASSUME NEW r \in Requests, CallMethod(r) PROVE HandlersInv'
  <2>1. pc[r] = "call" /\ UNCHANGED ep
    BY <1>4 DEF CallMethod
  <2>2. \/ Goto(r, "make_response") /\ UNCHANGED <<exc, asked>>
        \/ \E e : Raise(r, e)
    BY <1>4 DEF CallMethod, Settle
  <2> QED BY <2>1, <2>2, QuietKeepsHandlers, RaiseKeepsHandlers
<1>5. ASSUME NEW r \in Requests, AnswerAPIError(r) PROVE HandlersInv'
  <2>1. Goto(r, "make_response") \/ Goto(r, "escaped")
    BY <1>5 DEF AnswerAPIError, AnswerError, Settle, Escape
  <2> QED BY <1>5, <2>1, QuietKeepsHandlers DEF AnswerAPIError
<1>6. ASSUME NEW r \in Requests, EndpointHandler(r) PROVE HandlersInv'
  <2>1. Goto(r, "controller_handler") \/ Goto(r, "make_response")
    BY <1>6 DEF EndpointHandler, Settle
  <2>2. asked[r] = <<>> /\ asked' = [asked EXCEPT ![r] = <<"endpoint">>]
    <3>1. asked' = [asked EXCEPT ![r] = Append(asked[r], "endpoint")]
      BY <1>6 DEF EndpointHandler, Ask
    <3>2. asked[r] = <<>>
      BY <1>6 DEF EndpointHandler, HandlersInv
    <3> QED BY <3>1, <3>2
  <2>3. ep.error_handler /\ ~Answers(exc[r]) /\ UNCHANGED <<ep, exc>>
    BY <1>6 DEF EndpointHandler, HandlersInv
  <2> QED BY <2>1, <2>2, <2>3
        DEF HandlersInv, HandlersInOrder, Layers, EndpointLayer, Goto
<1>7. ASSUME NEW r \in Requests, ControllerHandler(r) PROVE HandlersInv'
  <2>1. Goto(r, "global_handler") \/ Goto(r, "make_response")
    BY <1>7 DEF ControllerHandler, Settle
  <2>2. asked' = [asked EXCEPT ![r] = Append(EndpointLayer, "controller")]
    <3>1. asked' = [asked EXCEPT ![r] = Append(asked[r], "controller")]
      BY <1>7 DEF ControllerHandler, Ask
    <3>2. asked[r] = EndpointLayer
      BY <1>7 DEF ControllerHandler, HandlersInv
    <3> QED BY <3>1, <3>2
  <2>3. ~Answers(exc[r]) /\ UNCHANGED <<ep, exc>>
    BY <1>7 DEF ControllerHandler, HandlersInv
  <2>4. Append(EndpointLayer, "controller") \in Layers
    BY AppendLayers
  <2> QED BY <2>1, <2>2, <2>3, <2>4
        DEF HandlersInv, HandlersInOrder, Layers, EndpointLayer, Goto
<1>8. ASSUME NEW r \in Requests, GlobalHandler(r) PROVE HandlersInv'
  <2>1. Goto(r, "escaped") \/ Goto(r, "make_response")
    BY <1>8 DEF GlobalHandler, AnswerError, Settle, Escape
  <2>2. asked' = [asked EXCEPT ![r] =
                    Append(Append(EndpointLayer, "controller"), "global")]
    <3>1. asked' = [asked EXCEPT ![r] = Append(asked[r], "global")]
      BY <1>8 DEF GlobalHandler, Ask
    <3>2. asked[r] = Append(EndpointLayer, "controller")
      BY <1>8 DEF GlobalHandler, HandlersInv
    <3> QED BY <3>1, <3>2
  <2>3. ~Answers(exc[r]) /\ UNCHANGED <<ep, exc>>
    BY <1>8 DEF GlobalHandler, HandlersInv
  <2>4. Append(Append(EndpointLayer, "controller"), "global") \in Layers
    BY AppendLayers
  <2> QED BY <2>1, <2>2, <2>3, <2>4
        DEF HandlersInv, HandlersInOrder, Layers, EndpointLayer, Goto
<1>9. ASSUME NEW r \in Requests, MakeHttpResponse(r) PROVE HandlersInv'
  <2>1. Goto(r, "done") \/ Goto(r, "convert") \/ Goto(r, "escaped")
    BY <1>9 DEF MakeHttpResponse, AnswerFault, Respond, Escape
  <2> QED BY <1>9, <2>1, QuietKeepsHandlers DEF MakeHttpResponse
<1>10. ASSUME NEW r \in Requests, ApplyConverter(r) PROVE HandlersInv'
  BY <1>10, QuietKeepsHandlers DEF ApplyConverter
<1>11. ASSUME NEW r \in Requests, Cancel(r) PROVE HandlersInv'
  BY <1>11, QuietKeepsHandlers DEF Cancel
<1>12. CASE UNCHANGED vars
  BY <1>12 DEF vars, HandlersInv, HandlersInOrder, Layers, EndpointLayer
<1> QED
  BY <1>1, <1>2, <1>3, <1>4, <1>5, <1>6, <1>7, <1>8, <1>9, <1>10, <1>11, <1>12
     DEF Next, Step, HandleError

(* Handlers are asked in their order, each at most once, and none about an *)
(* APIError or a redirect (Endpoint.handle_error, handle_async_error).     *)
THEOREM HandlersInOrderHolds == Spec => []HandlersInOrder
<1>1. HandlersInv => HandlersInOrder
  BY DEF HandlersInv
<1> QED BY <1>1, HandlersInit, HandlersStep, PTL DEF Spec

-----------------------------------------------------------------------------
(* Soundness of validated responses.                                       *)

LEMMA EndpointBuilt ==
  ASSUME ep \in {Enriched(e) : e \in Endpoints}
  PROVE  /\ ep.renderers \in Seq(STRING) \ {<<>>}
         /\ ToSet(ep.renderers) \cap Forms = {}
         /\ ep.streaming \/ NonStreaming(ep) = ToSet(ep.renderers)
         /\ ep.modification # None => Documents(ep, ep.modification)
<1>1. PICK e \in Endpoints : ep = Enriched(e)
  OBVIOUS
<1>2. e \in EndpointType
  BY EndpointsAssumption
<1>3. /\ ep.renderers = e.renderers
      /\ ep.streaming = e.streaming
      /\ ep.modification = e.modification
      /\ ep.responses = Responses(e)
  BY <1>1, <1>2 DEF Enriched, EndpointType
<1>4. ASSUME ep.modification # None PROVE Documents(ep, ep.modification)
  <2>1. PICK spec \in e.declared : spec.status = e.modification
    BY <1>3, <1>4, EndpointsAssumption DEF Declares
  <2>2. LimitDeclared(e, spec).status = e.modification
    BY <1>2, <2>1 DEF LimitDeclared, EndpointType, SpecType
  <2>3. LimitDeclared(e, spec) \in Responses(e)
    BY DEF Responses
  <2> QED BY <1>3, <2>2, <2>3 DEF Documents
<1>5. /\ ToSet(ep.renderers) \cap Forms = {}
      /\ ep.streaming \/ NonStreaming(ep) = ToSet(ep.renderers)
  BY <1>3, EndpointsAssumption DEF NonStreaming
<1> QED BY <1>2, <1>3, <1>4, <1>5 DEF EndpointType

LEMMA MinIsMember ==
  ASSUME NEW S, S \subseteq Nat, S # {} PROVE Min(S) \in S
<1>1. PICK i \in S : \A j \in S : <<j, i>> \notin OpToRel(<, Nat)
  <2>1. IsWellFoundedOn(OpToRel(<, Nat), Nat)
    BY NatLessThanWellFounded, Zenon
  <2> QED BY <2>1, WFMin, Zenon
<1>2. \A j \in Nat : i \in Nat /\ j < i => <<j, i>> \in OpToRel(<, Nat)
  BY Zenon DEF OpToRel
<1>3. S \subseteq Nat /\ \A j \in S : ~(j < i)
  BY <1>1, <1>2, Zenon
<1>4. \A j \in S : i <= j
  BY <1>3
<1> QED BY <1>4, Zenon DEF Min

(* A renderer found for an Accept header is on offer and in the header.    *)
LEMMA NegotiatedListed ==
  ASSUME NEW header \in Accepts, NEW types, NEW default, header # None,
         Negotiated(header, types, default) # None
  PROVE  Negotiated(header, types, default) \in types \cap ToSet(header)
<1> DEFINE fit == {i \in DOMAIN header : header[i] \in types}
<1>1. /\ fit # {}
      /\ Negotiated(header, types, default) = header[Min(fit)]
  BY DEF Negotiated
<1>2. fit \subseteq Nat
  BY AcceptsAssumption
<1>3. Min(fit) \in fit
  BY <1>1, <1>2, MinIsMember
<1> QED BY <1>1, <1>3 DEF ToSet

(* The defaults of ResponseNegotiator are renderers of the endpoint.       *)
LEMMA DefaultsListed ==
  ASSUME ep \in {Enriched(e) : e \in Endpoints}
  PROVE  /\ Head(ep.renderers) \in ToSet(ep.renderers)
         /\ PlainDefault(ep) \in NonStreaming(ep)
<1> DEFINE plains == {i \in DOMAIN ep.renderers : ep.renderers[i] \notin Streams}
<1>1. ep.renderers \in Seq(STRING) \ {<<>>}
  BY EndpointBuilt
<1>2. 1 \in DOMAIN ep.renderers /\ Head(ep.renderers) = ep.renderers[1]
  BY <1>1
<1>3. NonStreaming(ep) # {}
  <2>1. PICK e \in Endpoints : ep = Enriched(e)
    OBVIOUS
  <2>2. ep.renderers = e.renderers /\ NonStreaming(e) # {}
    BY <2>1, EndpointsAssumption DEF Enriched, EndpointType
  <2> QED BY <2>2 DEF NonStreaming
<1>4. plains # {} /\ plains \subseteq Nat
  BY <1>1, <1>3 DEF NonStreaming, ToSet
<1>5. Min(plains) \in plains
  BY <1>4, MinIsMember
<1> QED BY <1>2, <1>5 DEF PlainDefault, NonStreaming, ToSet

(* Negotiation fails, or leaves these renderers on the request.            *)
NegotiationFails(r) ==
  Raise(r, FrameworkError("NotAcceptableError", {})) /\ UNCHANGED attributes

NegotiationChooses(r, chosen, other) ==
  /\ chosen \in ToSet(ep.renderers) /\ chosen # None
  /\ accept[r] # None => chosen \in ToSet(accept[r])
  /\ IF ep.streaming THEN other \in NonStreaming(ep) ELSE other = None
  /\ renderer' = [renderer EXCEPT ![r] = chosen]
  /\ plain' = [plain EXCEPT ![r] = other]
  /\ Goto(r, "auth")
  /\ UNCHANGED <<accept, user, exc, raised, asked, result>>

LEMMA NegotiationCases ==
  ASSUME ep \in {Enriched(e) : e \in Endpoints}, NEW r \in Requests,
         accept[r] \in Accepts, NegotiateResponse(r)
  PROVE  \/ NegotiationFails(r)
         \/ \E chosen, other : NegotiationChooses(r, chosen, other)
<1> DEFINE chosen == Negotiated(accept[r], ToSet(ep.renderers), Head(ep.renderers))
           others == Negotiated(accept[r], NonStreaming(ep), PlainDefault(ep))
           other  == IF ep.streaming THEN FirstOf(others, PlainDefault(ep)) ELSE None
<1>1. CASE NegotiationFails(r)
  BY <1>1
<1>2. CASE /\ chosen # None
           /\ renderer' = [renderer EXCEPT ![r] = chosen]
           /\ plain' = [plain EXCEPT ![r] = other]
           /\ Goto(r, "auth")
           /\ UNCHANGED <<accept, user, exc, raised, asked, result>>
  <2>1. /\ chosen \in ToSet(ep.renderers)
        /\ accept[r] # None => chosen \in ToSet(accept[r])
    <3>1. CASE accept[r] = None
      BY <3>1, DefaultsListed DEF Negotiated
    <3>2. CASE accept[r] # None
      BY <1>2, <3>2, NegotiatedListed
    <3> QED BY <3>1, <3>2
  <2>2. FirstOf(others, PlainDefault(ep)) \in NonStreaming(ep)
    <3>1. CASE others = None
      BY <3>1, DefaultsListed DEF FirstOf
    <3>2. CASE others # None /\ accept[r] = None
      BY <3>2, DefaultsListed DEF FirstOf, Negotiated
    <3>3. CASE others # None /\ accept[r] # None
      BY <3>3, NegotiatedListed DEF FirstOf
    <3> QED BY <3>1, <3>2, <3>3
  <2>3. IF ep.streaming THEN other \in NonStreaming(ep) ELSE other = None
    BY <2>2
  <2> QED BY <1>2, <2>1, <2>3 DEF NegotiationChooses
<1> QED BY <1>1, <1>2 DEF NegotiateResponse, NegotiationFails, failure

(* validate_response lets only sound responses through.                    *)
LEMMA ValidatedIsSound ==
  ASSUME NEW e, e.validates, ReadsBack(e), NEW rend, NEW sent,
         NEW readable \in BOOLEAN, sent.body # "unrenderable",
         ToSet(e.renderers) \cap Forms = {},
         ResponseFault(e, rend, sent, readable) = NoFault
  PROVE  Sound(e, sent)
<1> DEFINE spec == SpecOf(e, sent.status)
<1>1. /\ Documents(e, sent.status)
      /\ sent.ctype \in ToSet(e.renderers)
      /\ ContentFault(e, rend, sent, readable) = NoFault
      /\ PartsMatch(spec, sent)
  BY DEF ResponseFault, NoFault
<1>2. spec \in e.responses /\ spec.status = sent.status
  BY <1>1 DEF Documents, SpecOf
<1>3. ASSUME sent.kind # "stream"
      PROVE  /\ spec.limit = {} \/ sent.ctype \in spec.limit
             /\ spec.streaming \/ sent.body = spec.model
  <2>1. ParserFor(e, rend, sent.ctype) \notin Forms
    BY <1>1 DEF ParserFor, ReadsBack
  <2>2. Parsed(e, rend, sent) = sent.body
    BY <2>1 DEF Parsed
  <2>3. BodyFault(spec, sent.body, sent.ctype) = NoFault
    BY <1>1, <1>3, <2>2 DEF ContentFault, NoFault
  <2> QED BY <2>3 DEF BodyFault, Conforms, NoFault
<1> QED BY <1>1, <1>2, <1>3 DEF Sound

(* So does validate_modification.                                          *)
LEMMA BuiltIsSound ==
  ASSUME ep \in {Enriched(e) : e \in Endpoints}, ep.validates,
         NEW r \in Requests, renderer[r] \in ToSet(ep.renderers), NEW body,
         body # "unrenderable", ModificationFault(ep, renderer[r], body) = NoFault
  PROVE  Sound(ep, Built(r, body))
<1> DEFINE spec == SpecOf(ep, ep.modification)
<1>1. ep.modification # None /\ BodyFault(spec, body, renderer[r]) = NoFault
  BY DEF ModificationFault, NoFault
<1>2. spec \in ep.responses /\ spec.status = ep.modification
  BY <1>1, EndpointBuilt DEF Documents, SpecOf
<1>3. /\ spec.limit = {} \/ renderer[r] \in spec.limit
      /\ spec.streaming \/ body = spec.model
  BY <1>1 DEF BodyFault, Conforms, NoFault
<1> QED BY <1>2, <1>3 DEF Sound, Built, PartsMatch

(* The answer to an invalid response.                                      *)
LEMMA FallbackIsAcceptable ==
  ASSUME NEW r \in Requests, NEW fault \in Caught
  PROVE  Acceptable(ep, Fallback(r, fault))
<1>1. FallbackStatus(fault) \in {422, 500}
  BY DEF Caught, FallbackStatus, ErrorStatus
<1> QED BY <1>1 DEF Acceptable, Fallback, ToError, FrameworkError

(* Where the parts of a response come from, at each step of a request.     *)
SoundAt(r) ==
  /\ pc[r] \in {"auth", "after", "parse", "call"} =>
       renderer[r] \in ToSet(ep.renderers)
  /\ pc[r] = "make_response" =>
       /\ result[r].by \in {"endpoint", "user"}
       /\ result[r].kind = "raw" => renderer[r] \in ToSet(ep.renderers)
       /\ result[r].kind # "raw" => result[r].body # "unrenderable"
  /\ pc[r] \in {"convert", "done"} /\ ep.validates /\ ReadsBack(ep) =>
       Acceptable(ep, response[r])

SoundInv ==
  /\ DOMAIN pc = Requests /\ DOMAIN renderer = Requests
  /\ DOMAIN result = Requests /\ DOMAIN response = Requests
  /\ accept \in [Requests -> Accepts]
  /\ ep \in {Enriched(e) : e \in Endpoints}
  /\ \A r \in Requests : SoundAt(r)

LEMMA SoundInit == Init => SoundInv
BY DEF Init, SoundInv, SoundAt

(* A step of one request leaves the others where they are.                 *)
LEMMA SoundFrame ==
  ASSUME SoundInv, NEW r \in Requests, NEW step, Goto(r, step),
         DOMAIN renderer' = Requests, DOMAIN result' = Requests,
         DOMAIN response' = Requests, UNCHANGED <<ep, accept>>,
         \A s \in Requests \ {r} :
           /\ renderer'[s] = renderer[s]
           /\ result'[s] = result[s]
           /\ response'[s] = response[s],
         SoundAt(r)'
  PROVE  SoundInv'
<1>1. DOMAIN pc' = Requests /\ \A s \in Requests \ {r} : pc'[s] = pc[s]
  BY DEF Goto, SoundInv
<1>2. ASSUME NEW s \in Requests \ {r} PROVE SoundAt(s)'
  <2>1. SoundAt(s)
    BY DEF SoundInv
  <2> QED BY <1>1, <2>1 DEF SoundAt
<1> QED BY <1>1, <1>2 DEF SoundInv

LEMMA QuietKeepsSound ==
  ASSUME SoundInv, NEW r \in Requests, NEW step, Goto(r, step),
         step \notin {"make_response", "convert", "done"},
         step \in {"auth", "after", "parse", "call"} =>
           pc[r] \in {"auth", "after", "parse", "call"},
         UNCHANGED <<ep, accept, renderer, result, response>>
  PROVE  SoundInv'
<1>1. pc'[r] = step /\ SoundAt(r)
  BY DEF Goto, SoundInv
<1>2. SoundAt(r)'
  BY <1>1 DEF SoundAt
<1> QED BY <1>2, SoundFrame DEF SoundInv

LEMMA RaiseKeepsSound ==
  ASSUME SoundInv, NEW r \in Requests, NEW e, Raise(r, e),
         UNCHANGED <<ep, accept, renderer, response>>
  PROVE  SoundInv'
BY QuietKeepsSound DEF Raise, AskedFirst

LEMMA SettleKeepsSound ==
  ASSUME SoundInv, NEW r \in Requests, NEW value, Settle(r, value),
         value.by \in {"endpoint", "user"},
         value.kind = "raw" => renderer[r] \in ToSet(ep.renderers),
         value.kind # "raw" => value.body # "unrenderable",
         UNCHANGED <<ep, accept, renderer, response>>
  PROVE  SoundInv'
<1>1. /\ pc'[r] = "make_response" /\ result'[r] = value
      /\ DOMAIN result' = Requests
      /\ \A s \in Requests \ {r} : result'[s] = result[s]
  BY DEF Settle, Goto, SoundInv
<1>2. SoundAt(r)'
  BY <1>1 DEF SoundAt
<1> QED BY <1>1, <1>2, SoundFrame DEF Settle, SoundInv

LEMMA AnswerKeepsSound ==
  ASSUME SoundInv, NEW r \in Requests, NEW value, NEW step, Goto(r, step),
         step \in {"convert", "done"},
         response' = [response EXCEPT ![r] = value],
         ep.validates /\ ReadsBack(ep) => Acceptable(ep, value),
         UNCHANGED <<ep, accept, renderer, result>>
  PROVE  SoundInv'
<1>1. /\ pc'[r] = step /\ response'[r] = value
      /\ DOMAIN response' = Requests
      /\ \A s \in Requests \ {r} : response'[s] = response[s]
  BY DEF Goto, SoundInv
<1>2. SoundAt(r)'
  BY <1>1 DEF SoundAt
<1> QED BY <1>1, <1>2, SoundFrame DEF SoundInv

LEMMA NegotiateKeepsSound ==
  ASSUME SoundInv, NEW r \in Requests, NegotiateResponse(r) PROVE SoundInv'
<1>1. UNCHANGED <<ep, response>>
  BY DEF NegotiateResponse
<1>2. CASE NegotiationFails(r)
  BY <1>1, <1>2, RaiseKeepsSound DEF NegotiationFails, attributes
<1>3. ASSUME NEW chosen, NEW other, NegotiationChooses(r, chosen, other)
      PROVE  SoundInv'
  <2>1. /\ chosen \in ToSet(ep.renderers)
        /\ renderer' = [renderer EXCEPT ![r] = chosen]
        /\ Goto(r, "auth")
        /\ UNCHANGED <<accept, result>>
    BY <1>3 DEF NegotiationChooses
  <2>2. /\ pc'[r] = "auth" /\ renderer'[r] = chosen
        /\ DOMAIN renderer' = Requests
        /\ \A s \in Requests \ {r} : renderer'[s] = renderer[s]
    BY <2>1 DEF Goto, SoundInv
  <2>3. SoundAt(r)'
    BY <1>1, <2>1, <2>2 DEF SoundAt
  <2> QED BY <1>1, <2>1, <2>2, <2>3, SoundFrame DEF SoundInv
<1> QED BY <1>2, <1>3, NegotiationCases DEF SoundInv

(* The validated response, or the answer to an invalid one.                *)
LEMMA MakeResponseKeepsSound ==
  ASSUME SoundInv, NEW r \in Requests, MakeHttpResponse(r) PROVE SoundInv'
<1>1. /\ pc[r] = "make_response" /\ SoundAt(r)
      /\ UNCHANGED <<ep, accept, renderer, result>>
      /\ ep \in {Enriched(e) : e \in Endpoints}
  BY DEF MakeHttpResponse, SoundInv, attributes
<1>2. ASSUME NEW value, Respond(r, value),
             ep.validates /\ ReadsBack(ep) => Acceptable(ep, value)
      PROVE  SoundInv'
  BY <1>1, <1>2, AnswerKeepsSound DEF Respond
<1>3. ASSUME NEW readable \in BOOLEAN, Fault(r, readable) = NoFault,
             Respond(r, Returned(r))
      PROVE  SoundInv'
  <2>1. CASE result[r].kind = "raw"
    <3>1. /\ ModificationFault(ep, renderer[r], result[r].body) = NoFault
          /\ result[r].body # "unrenderable"
      BY <1>3, <2>1, RenderFaultListed DEF Fault
    <3>2. ASSUME ep.validates PROVE Sound(ep, Built(r, result[r].body))
      BY <1>1, <2>1, <3>1, <3>2, BuiltIsSound DEF SoundAt
    <3>3. Built(r, result[r].body).by = "endpoint"
      BY DEF Built
    <3> QED BY <1>2, <1>3, <2>1, <3>2, <3>3 DEF Acceptable, Returned
  <2>2. CASE result[r].kind # "raw"
    <3>1. ResponseFault(ep, ErrorRenderer(r), result[r], readable) = NoFault
      BY <1>3, <2>2 DEF Fault
    <3>2. result[r].by \in {"endpoint", "user"} /\ result[r].body # "unrenderable"
      BY <1>1, <2>2 DEF SoundAt
    <3>3. ASSUME ep.validates, ReadsBack(ep) PROVE Sound(ep, result[r])
      BY <1>1, <3>1, <3>2, <3>3, EndpointBuilt, ValidatedIsSound
    <3> QED BY <1>2, <1>3, <2>2, <3>2, <3>3 DEF Acceptable, Returned
  <2> QED BY <2>1, <2>2
<1>4. ASSUME NEW fault \in Caught, Respond(r, Fallback(r, fault)) PROVE SoundInv'
  BY <1>2, <1>4, FallbackIsAcceptable
<1>5. ASSUME NEW e, Escape(r, e), UNCHANGED response PROVE SoundInv'
  BY <1>1, <1>5, QuietKeepsSound DEF Escape
<1> QED BY <1>3, <1>4, <1>5, FaultCases DEF AnswerEscapes

LEMMA SoundStep == SoundInv /\ [Next]_vars => SoundInv'
<1> SUFFICES ASSUME SoundInv, [Next]_vars PROVE SoundInv'
  OBVIOUS
<1> USE DEF attributes
<1>1. ASSUME NEW r \in Requests, Dispatch(r) PROVE SoundInv'
  <2>1. CASE MethodNotAllowed(r)
    BY <2>1, AnswerKeepsSound DEF MethodNotAllowed, Acceptable
  <2>2. CASE ShortCircuit(r)
    BY <2>2, AnswerKeepsSound DEF ShortCircuit, Acceptable
  <2>3. CASE CallEndpoint(r)
    BY <2>3, QuietKeepsSound DEF CallEndpoint
  <2> QED BY <1>1, <2>1, <2>2, <2>3 DEF Dispatch
<1>2. ASSUME NEW r \in Requests, RunChecks(r) PROVE SoundInv'
  <2>1. ASSUME NEW stage \in Stage, PassThrottle(r, stage) PROVE SoundInv'
    BY <2>1 DEF PassThrottle, SoundInv, SoundAt
  <2>2. ASSUME NEW stage \in Stage, RejectThrottle(r, stage) PROVE SoundInv'
    BY <2>2, RaiseKeepsSound DEF RejectThrottle
  <2>3. ASSUME NEW stage \in Stage, FinishThrottles(r, stage) PROVE SoundInv'
    BY <2>3, QuietKeepsSound DEF FinishThrottles, Stage
  <2>4. CASE NegotiateResponse(r)
    BY <2>4, NegotiateKeepsSound
  <2>5. CASE RunAuth(r)
    <3>1. pc[r] = "auth" /\ UNCHANGED <<ep, accept, renderer, response>>
      BY <2>5 DEF RunAuth
    <3>2. \/ Goto(r, "after") /\ UNCHANGED result
          \/ UNCHANGED <<pc, result>>
          \/ \E e : Raise(r, e)
      BY <2>5 DEF RunAuth
    <3>3. CASE UNCHANGED <<pc, result>>
      BY <3>1, <3>3 DEF SoundInv, SoundAt
    <3> QED BY <3>1, <3>2, <3>3, QuietKeepsSound, RaiseKeepsSound
  <2>6. CASE FinishAuth(r)
    <3>1. pc[r] = "auth" /\ UNCHANGED <<ep, accept, renderer, response>>
      BY <2>6 DEF FinishAuth
    <3>2. (Goto(r, "after") /\ UNCHANGED result) \/ \E e : Raise(r, e)
      BY <2>6 DEF FinishAuth
    <3> QED BY <3>1, <3>2, QuietKeepsSound, RaiseKeepsSound
  <2> QED BY <1>2, <2>1, <2>2, <2>3, <2>4, <2>5, <2>6 DEF RunChecks
<1>3. ASSUME NEW r \in Requests, ParseRequest(r) PROVE SoundInv'
  <2>1. pc[r] = "parse" /\ UNCHANGED <<ep, accept, renderer, response>>
    BY <1>3 DEF ParseRequest
  <2>2. (Goto(r, "call") /\ UNCHANGED result) \/ \E e : Raise(r, e)
    BY <1>3 DEF ParseRequest
  <2> QED BY <2>1, <2>2, QuietKeepsSound, RaiseKeepsSound
<1>4. ASSUME NEW r \in Requests, CallMethod(r) PROVE SoundInv'
  <2>1. /\ pc[r] = "call" /\ SoundAt(r)
        /\ UNCHANGED <<ep, accept, renderer, response>>
    BY <1>4 DEF CallMethod, SoundInv
  <2>2. PICK outcome \in MethodOutcomes :
          IF outcome.raises THEN Raise(r, outcome.value)
          ELSE Settle(r, outcome.value)
    BY <1>4 DEF CallMethod
  <2>3. renderer[r] \in ToSet(ep.renderers)
    BY <2>1 DEF SoundAt
  <2> QED BY <2>1, <2>2, <2>3, OutcomesAssumption, RaiseKeepsSound, SettleKeepsSound
<1>5. ASSUME NEW r \in Requests, NEW outcome \in HandlerOutcomes,
             ~outcome.raises, Settle(r, outcome.value),
             UNCHANGED <<ep, accept, renderer, response>>
      PROVE  SoundInv'
  BY <1>5, OutcomesAssumption, SettleKeepsSound
<1>6. ASSUME NEW r \in Requests, AnswerAPIError(r) PROVE SoundInv'
  <2>1. UNCHANGED <<ep, accept, renderer, response>>
    BY <1>6 DEF AnswerAPIError
  <2>2. CASE AnswerEscapes(r, exc[r]) /\ UNCHANGED result
    BY <2>1, <2>2, QuietKeepsSound DEF AnswerEscapes, Escape
  <2>3. CASE AnswerSettles(r, exc[r])
    BY <2>1, <2>3, RenderFaultListed, SettleKeepsSound
       DEF AnswerSettles, ToErrorFault, ToError
  <2> QED BY <1>6, <2>2, <2>3, AnswerErrorCases DEF AnswerAPIError
<1>7. ASSUME NEW r \in Requests, EndpointHandler(r) PROVE SoundInv'
  <2>1. UNCHANGED <<ep, accept, renderer, response>>
    BY <1>7 DEF EndpointHandler
  <2>2. PICK outcome \in HandlerOutcomes :
          IF outcome.raises THEN Goto(r, "controller_handler") /\ UNCHANGED result
          ELSE Settle(r, outcome.value)
    BY <1>7 DEF EndpointHandler
  <2> QED BY <1>5, <2>1, <2>2, QuietKeepsSound
<1>8. ASSUME NEW r \in Requests, ControllerHandler(r) PROVE SoundInv'
  <2>1. UNCHANGED <<ep, accept, renderer, response>>
    BY <1>8 DEF ControllerHandler
  <2>2. \/ Goto(r, "global_handler") /\ UNCHANGED result
        \/ \E outcome \in HandlerOutcomes :
             ~outcome.raises /\ Settle(r, outcome.value)
    BY <1>8 DEF ControllerHandler
  <2> QED BY <1>5, <2>1, <2>2, QuietKeepsSound
<1>9. ASSUME NEW r \in Requests, GlobalHandler(r) PROVE SoundInv'
  <2>1. UNCHANGED <<ep, accept, renderer, response>>
    BY <1>9 DEF GlobalHandler
  <2>2. CASE Escape(r, raised[r]) /\ UNCHANGED result
    BY <2>1, <2>2, QuietKeepsSound DEF Escape
  <2>3. CASE AnswerEscapes(r, WithErrorBody(exc[r])) /\ UNCHANGED result
    BY <2>1, <2>3, QuietKeepsSound DEF AnswerEscapes, Escape
  <2>4. CASE AnswerSettles(r, WithErrorBody(exc[r]))
    <3>1. WithErrorBody(exc[r]).body # "unrenderable"
      BY DEF WithErrorBody
    <3> QED BY <2>1, <2>4, <3>1, SettleKeepsSound DEF AnswerSettles, ToError
  <2> QED BY <1>9, <2>2, <2>3, <2>4, AnswerErrorCases DEF GlobalHandler
<1>10. ASSUME NEW r \in Requests, MakeHttpResponse(r) PROVE SoundInv'
  BY <1>10, MakeResponseKeepsSound
<1>11. ASSUME NEW r \in Requests, ApplyConverter(r) PROVE SoundInv'
  <2>1. PICK value : /\ response' = [response EXCEPT ![r] = value]
                     /\ value = IF response[r].status \in ep.wraps
                                THEN Converted(response[r]) ELSE response[r]
    BY <1>11 DEF ApplyConverter
  <2>2. pc[r] = "convert" /\ SoundAt(r)
    BY <1>11 DEF ApplyConverter, SoundInv
  <2>3. ASSUME ep.validates, ReadsBack(ep) PROVE Acceptable(ep, value)
    BY <2>1, <2>2, <2>3 DEF SoundAt, Converted, Acceptable
  <2> QED BY <1>11, <2>1, <2>3, AnswerKeepsSound DEF ApplyConverter
<1>12. ASSUME NEW r \in Requests, Cancel(r) PROVE SoundInv'
  BY <1>12, QuietKeepsSound DEF Cancel
<1>13. CASE UNCHANGED vars
  BY <1>13 DEF vars, SoundInv, SoundAt
<1> QED
  BY <1>1, <1>2, <1>3, <1>4, <1>6, <1>7, <1>8, <1>9, <1>10, <1>11, <1>12, <1>13
     DEF Next, Step, HandleError

(* Every response of an endpoint that validates them is as documented, or  *)
(* the error body of a failed validation (Endpoint._make_http_response).   *)
THEOREM SoundResponseHolds == Spec => []SoundResponse
<1>1. SoundInv => SoundResponse
  BY DEF SoundInv, SoundAt, SoundResponse
<1> QED BY <1>1, SoundInit, SoundStep, PTL DEF Spec

-----------------------------------------------------------------------------
(* The checks before the method, and the budgets of the throttles.         *)

(* What the checks behind a request have established.                      *)
PassedAll(r, stage) == \A i \in DOMAIN ep[stage] : <<stage, i>> \in passed[r]

PassedSoFar(r, stage) ==
  \A i \in DOMAIN ep[stage] : i < index[r] => <<stage, i>> \in passed[r]

Checks == {"before", "negotiate", "auth", "after", "parse", "call"}

CheckedAt(r) ==
  /\ pc[r] = "arrived" => index[r] = 1
  /\ pc[r] = "negotiate" => index[r] = 1
  /\ pc[r] \in Stage => PassedSoFar(r, pc[r])
  /\ pc[r] \in Checks \ {"before"} => PassedAll(r, "before")
  /\ pc[r] \in {"auth", "after", "parse", "call"} => renderer[r] # None
  /\ pc[r] \in {"after", "parse", "call"} => Authenticated(r)
  /\ pc[r] \in {"parse", "call"} => PassedAll(r, "after")
  /\ (\E i \in DOMAIN ep.after : <<"after", i>> \in passed[r]) => Authenticated(r)
  /\ checked[r] \/ renderer[r] # None => PassedAll(r, "before")
  /\ called[r] =>
       /\ PassedAll(r, "before") /\ PassedAll(r, "after")
       /\ renderer[r] # None
       /\ Authenticated(r)

ChecksType ==
  /\ ep.before \in Seq(ThrottleType) /\ ep.after \in Seq(ThrottleType)
  /\ ep.auths \in Nat
  /\ DOMAIN pc = Requests /\ DOMAIN renderer = Requests
  /\ DOMAIN user = Requests /\ DOMAIN passed = Requests
  /\ checked \in [Requests -> BOOLEAN] /\ called \in [Requests -> BOOLEAN]
  /\ index \in [Requests -> Nat \ {0}]

ChecksInv == ChecksType /\ \A r \in Requests : CheckedAt(r)

LEMMA EndpointTyped ==
  ASSUME ep \in {Enriched(e) : e \in Endpoints}
  PROVE  /\ ep.before \in Seq(ThrottleType) /\ ep.after \in Seq(ThrottleType)
         /\ ep.auths \in Nat
<1>1. PICK e \in Endpoints : ep = Enriched(e)
  OBVIOUS
<1>2. e \in EndpointType
  BY EndpointsAssumption
<1>3. ep.before = e.before /\ ep.after = e.after /\ ep.auths = e.auths
  BY <1>1, <1>2 DEF Enriched, EndpointType
<1> QED BY <1>2, <1>3 DEF EndpointType

LEMMA ChecksInit == Init => ChecksInv
<1> SUFFICES ASSUME Init PROVE ChecksInv
  OBVIOUS
<1>1. ChecksType
  BY EndpointTyped DEF Init, ChecksType
<1>2. ASSUME NEW r \in Requests PROVE CheckedAt(r)
  BY DEF Init, CheckedAt, Stage, Checks
<1> QED BY <1>1, <1>2 DEF ChecksInv

(* A step of one request leaves the others where they are.                 *)
LEMMA ChecksFrame ==
  ASSUME ChecksInv, NEW r \in Requests, UNCHANGED ep, ChecksType',
         \A s \in Requests \ {r} :
           /\ pc'[s] = pc[s] /\ index'[s] = index[s]
           /\ renderer'[s] = renderer[s] /\ user'[s] = user[s]
           /\ passed'[s] = passed[s] /\ checked'[s] = checked[s]
           /\ called'[s] = called[s],
         CheckedAt(r)'
  PROVE  ChecksInv'
<1>1. ASSUME NEW s \in Requests \ {r} PROVE CheckedAt(s)'
  <2>1. CheckedAt(s)
    BY DEF ChecksInv
  <2> QED BY <2>1 DEF CheckedAt, PassedAll, PassedSoFar, Authenticated
<1> QED BY <1>1 DEF ChecksInv

(* A step that is no check leads out of the checks.                        *)
LEMMA LeaveKeepsChecks ==
  ASSUME ChecksInv, NEW r \in Requests, NEW step, Goto(r, step),
         step \notin Checks \cup {"arrived"},
         UNCHANGED <<ep, renderer, user, passed>>,
         UNCHANGED index \/ index' = [index EXCEPT ![r] = 1],
         \/ UNCHANGED checked
         \/ pc[r] = "auth" /\ checked' = [checked EXCEPT ![r] = TRUE],
         \/ UNCHANGED called
         \/ pc[r] = "call" /\ called' = [called EXCEPT ![r] = TRUE]
  PROVE  ChecksInv'
<1>1. pc'[r] = step /\ \A s \in Requests \ {r} : pc'[s] = pc[s]
  BY DEF Goto, ChecksInv, ChecksType
<1>2. ChecksType'
  <2>1. index' \in [Requests -> Nat \ {0}]
    BY DEF ChecksInv, ChecksType
  <2> QED BY <2>1 DEF Goto, ChecksInv, ChecksType
<1>3. CheckedAt(r)
  BY DEF ChecksInv
<1>4. /\ checked'[r] => checked[r] \/ pc[r] = "auth"
      /\ called'[r] => called[r] \/ pc[r] = "call"
      /\ \A s \in Requests \ {r} :
           /\ index'[s] = index[s]
           /\ checked'[s] = checked[s]
           /\ called'[s] = called[s]
  BY DEF ChecksInv, ChecksType
<1>5. CheckedAt(r)'
  BY <1>1, <1>3, <1>4
     DEF CheckedAt, PassedAll, PassedSoFar, Authenticated, Checks, Stage
<1> QED BY <1>1, <1>2, <1>4, <1>5, ChecksFrame

LEMMA RaiseKeepsChecks ==
  ASSUME ChecksInv, NEW r \in Requests, NEW e, Raise(r, e),
         UNCHANGED <<ep, renderer, user, passed>>,
         UNCHANGED index \/ index' = [index EXCEPT ![r] = 1],
         \/ UNCHANGED checked
         \/ pc[r] = "auth" /\ checked' = [checked EXCEPT ![r] = TRUE],
         \/ UNCHANGED called
         \/ pc[r] = "call" /\ called' = [called EXCEPT ![r] = TRUE]
  PROVE  ChecksInv'
<1>1. AskedFirst(e) \notin Checks \cup {"arrived"}
  BY DEF AskedFirst, Checks
<1> QED BY <1>1, LeaveKeepsChecks DEF Raise

(* Another throttle lets the request through.                              *)
LEMMA PassKeepsChecks ==
  ASSUME ChecksInv, NEW r \in Requests, NEW stage \in Stage,
         PassThrottle(r, stage)
  PROVE  ChecksInv'
<1> DEFINE i == index[r]
<1>1. /\ CheckedAt(r) /\ pc[r] = stage /\ i \in DOMAIN ep[stage]
      /\ UNCHANGED <<ep, pc, renderer, user, checked, called>>
      /\ passed' = [passed EXCEPT ![r] = passed[r] \cup {<<stage, i>>}]
      /\ index' = [index EXCEPT ![r] = i + 1]
  BY DEF PassThrottle, ChecksInv, attributes
<1>2. /\ passed'[r] = passed[r] \cup {<<stage, i>>}
      /\ index'[r] = i + 1 /\ i \in Nat \ {0}
      /\ \A s \in Requests \ {r} : index'[s] = index[s] /\ passed'[s] = passed[s]
  BY <1>1 DEF ChecksInv, ChecksType
<1>3. ChecksType'
  BY <1>1, <1>2 DEF ChecksInv, ChecksType
<1>4. \A j \in DOMAIN ep[stage] : j \in Nat
  BY DEF ChecksInv, ChecksType, Stage
<1>5. PassedSoFar(r, stage)'
  BY <1>1, <1>2, <1>4 DEF CheckedAt, PassedSoFar
<1>6. /\ PassedAll(r, "before") => PassedAll(r, "before")'
      /\ PassedAll(r, "after") => PassedAll(r, "after")'
  BY <1>1, <1>2 DEF PassedAll
<1>7. (\E j \in DOMAIN ep.after : <<"after", j>> \in passed'[r])
         => Authenticated(r)
  BY <1>1, <1>2 DEF CheckedAt, Stage
<1>8. CheckedAt(r)'
  BY <1>1, <1>2, <1>5, <1>6, <1>7 DEF CheckedAt, Authenticated, Stage, Checks
<1> QED BY <1>1, <1>2, <1>3, <1>8, ChecksFrame

(* The loop over the throttles of one stage ends.                          *)
LEMMA FinishKeepsChecks ==
  ASSUME ChecksInv, NEW r \in Requests, NEW stage \in Stage,
         FinishThrottles(r, stage)
  PROVE  ChecksInv'
<1> DEFINE step == IF stage = "before" THEN "negotiate" ELSE "parse"
<1>1. /\ CheckedAt(r) /\ pc[r] = stage /\ index[r] \notin DOMAIN ep[stage]
      /\ UNCHANGED <<ep, renderer, user, passed, checked, called>>
      /\ index' = [index EXCEPT ![r] = 1] /\ Goto(r, step)
  BY DEF FinishThrottles, ChecksInv, attributes, budget
<1>2. /\ pc'[r] = step /\ index'[r] = 1
      /\ \A s \in Requests \ {r} : pc'[s] = pc[s] /\ index'[s] = index[s]
  BY <1>1 DEF Goto, ChecksInv, ChecksType
<1>3. ChecksType'
  BY <1>1, <1>2 DEF Goto, ChecksInv, ChecksType
<1>4. PassedAll(r, stage)
  <2>1. ep[stage] \in Seq(ThrottleType) /\ index[r] \in Nat \ {0}
    BY DEF ChecksInv, ChecksType, Stage
  <2>2. \A j \in DOMAIN ep[stage] : j < index[r]
    BY <1>1, <2>1
  <2> QED BY <1>1, <2>2 DEF CheckedAt, PassedSoFar, PassedAll
<1>5. CheckedAt(r)'
  BY <1>1, <1>2, <1>4 DEF CheckedAt, PassedAll, Authenticated, Stage, Checks
<1> QED BY <1>1, <1>2, <1>3, <1>5, ChecksFrame

LEMMA NegotiateKeepsChecks ==
  ASSUME ChecksInv, NEW r \in Requests, NegotiateResponse(r) PROVE ChecksInv'
<1>1. /\ CheckedAt(r) /\ pc[r] = "negotiate"
      /\ UNCHANGED <<ep, index, passed, checked, called>>
  BY DEF NegotiateResponse, ChecksInv, budget
<1>2. CASE /\ Raise(r, FrameworkError("NotAcceptableError", {}))
           /\ UNCHANGED attributes
  BY <1>1, <1>2, RaiseKeepsChecks DEF attributes
<1>3. ASSUME NEW chosen, chosen # None, Goto(r, "auth"), UNCHANGED user,
             renderer' = [renderer EXCEPT ![r] = chosen]
      PROVE  ChecksInv'
  <2>1. /\ pc'[r] = "auth" /\ renderer'[r] # None
        /\ \A s \in Requests \ {r} : pc'[s] = pc[s] /\ renderer'[s] = renderer[s]
    BY <1>3 DEF Goto, ChecksInv, ChecksType
  <2>2. ChecksType'
    BY <1>1, <1>3 DEF Goto, ChecksInv, ChecksType
  <2>3. CheckedAt(r)'
    BY <1>1, <1>3, <2>1
       DEF CheckedAt, PassedAll, PassedSoFar, Authenticated, Stage, Checks
  <2> QED BY <1>1, <1>3, <2>1, <2>2, <2>3, ChecksFrame
<1> QED BY <1>2, <1>3 DEF NegotiateResponse

(* Only an auth that finds a user, or no auth at all, leads past auth.     *)
LEMMA AuthKeepsChecks ==
  ASSUME ChecksInv, NEW r \in Requests, RunAuth(r) \/ FinishAuth(r)
  PROVE  ChecksInv'
<1>1. /\ CheckedAt(r) /\ pc[r] = "auth" /\ index[r] \in Nat \ {0}
      /\ UNCHANGED <<ep, renderer, passed, called>>
  BY DEF RunAuth, FinishAuth, ChecksInv, ChecksType, attributes, budget
<1>2. ASSUME NEW found, found \in Nat \ {0}, Goto(r, "after"),
             user' = [user EXCEPT ![r] = found],
             index' = [index EXCEPT ![r] = 1],
             checked' = [checked EXCEPT ![r] = TRUE]
      PROVE  ChecksInv'
  <2>1. /\ pc'[r] = "after" /\ index'[r] = 1 /\ user'[r] > 0
        /\ \A s \in Requests \ {r} :
             /\ pc'[s] = pc[s] /\ index'[s] = index[s] /\ user'[s] = user[s]
             /\ checked'[s] = checked[s]
    BY <1>2 DEF Goto, ChecksInv, ChecksType
  <2>2. ChecksType'
    BY <1>1, <1>2 DEF Goto, ChecksInv, ChecksType
  <2>3. \A j \in DOMAIN ep.after : ~(j < 1)
    BY DEF ChecksInv, ChecksType
  <2>4. CheckedAt(r)'
    BY <1>1, <2>1, <2>3
       DEF CheckedAt, PassedAll, PassedSoFar, Authenticated, Stage, Checks
  <2> QED BY <1>1, <2>1, <2>2, <2>4, ChecksFrame
<1>3. CASE /\ index' = [index EXCEPT ![r] = index[r] + 1]
           /\ UNCHANGED <<pc, user>>
           /\ checked' = [checked EXCEPT ![r] = TRUE]
  <2>1. \A s \in Requests \ {r} : index'[s] = index[s] /\ checked'[s] = checked[s]
    BY <1>3 DEF ChecksInv, ChecksType
  <2>2. ChecksType'
    BY <1>1, <1>3 DEF ChecksInv, ChecksType
  <2>3. CheckedAt(r)'
    BY <1>1, <1>3 DEF CheckedAt, PassedAll, PassedSoFar, Authenticated, Stage, Checks
  <2> QED BY <1>1, <1>3, <2>1, <2>2, <2>3, ChecksFrame
<1>4. ASSUME NEW e, Raise(r, e), UNCHANGED user,
             UNCHANGED index \/ index' = [index EXCEPT ![r] = 1],
             UNCHANGED checked \/ checked' = [checked EXCEPT ![r] = TRUE]
      PROVE  ChecksInv'
  BY <1>1, <1>4, RaiseKeepsChecks
<1>5. CASE RunAuth(r)
  BY <1>1, <1>2, <1>3, <1>4, <1>5 DEF RunAuth
<1>6. CASE FinishAuth(r)
  <2>1. CASE ep.auths = 0 /\ Goto(r, "after")
    <3>1. /\ UNCHANGED <<user, checked>>
          /\ index' = [index EXCEPT ![r] = 1]
      BY <1>6 DEF FinishAuth, attributes
    <3>2. /\ pc'[r] = "after" /\ index'[r] = 1
          /\ \A s \in Requests \ {r} : pc'[s] = pc[s] /\ index'[s] = index[s]
      BY <2>1, <3>1 DEF Goto, ChecksInv, ChecksType
    <3>3. ChecksType'
      BY <1>1, <2>1, <3>1 DEF Goto, ChecksInv, ChecksType
    <3>4. \A j \in DOMAIN ep.after : ~(j < 1)
      BY DEF ChecksInv, ChecksType
    <3>5. CheckedAt(r)'
      BY <1>1, <2>1, <3>1, <3>2, <3>4
         DEF CheckedAt, PassedAll, PassedSoFar, Authenticated, Stage, Checks
    <3> QED BY <1>1, <3>1, <3>2, <3>3, <3>5, ChecksFrame
  <2>2. CASE Raise(r, FrameworkError("NotAuthenticatedError", {}))
    BY <1>4, <1>6, <2>2 DEF FinishAuth, attributes
  <2> QED BY <1>6, <2>1, <2>2 DEF FinishAuth
<1> QED BY <1>5, <1>6

(* dispatch calls the endpoint, and parsing leads to the method.           *)
LEMMA AdvanceKeepsChecks ==
  ASSUME ChecksInv, NEW r \in Requests,
         \/ pc[r] = "arrived" /\ Goto(r, "before")
         \/ pc[r] = "parse" /\ Goto(r, "call"),
         UNCHANGED <<ep, index, renderer, user, passed, checked, called>>
  PROVE  ChecksInv'
<1>1. /\ CheckedAt(r)
      /\ \/ pc[r] = "arrived" /\ pc'[r] = "before"
         \/ pc[r] = "parse" /\ pc'[r] = "call"
      /\ \A s \in Requests \ {r} : pc'[s] = pc[s]
  BY DEF Goto, ChecksInv, ChecksType
<1>2. ChecksType'
  BY DEF Goto, ChecksInv, ChecksType
<1>3. \A j \in DOMAIN ep.before : ~(j < 1)
  BY DEF ChecksInv, ChecksType
<1>4. CheckedAt(r)'
  BY <1>1, <1>3
     DEF CheckedAt, PassedAll, PassedSoFar, Authenticated, Stage, Checks
<1> QED BY <1>1, <1>2, <1>4, ChecksFrame

LEMMA ChecksStep == ChecksInv /\ [Next]_vars => ChecksInv'
<1> SUFFICES ASSUME ChecksInv, [Next]_vars PROVE ChecksInv'
  OBVIOUS
<1> USE DEF attributes, budget
<1>1. ASSUME NEW r \in Requests, Dispatch(r) PROVE ChecksInv'
  <2>1. UNCHANGED <<ep, index, renderer, user, passed, checked, called>>
    BY <1>1 DEF Dispatch, MethodNotAllowed, ShortCircuit, CallEndpoint
  <2>2. \/ pc[r] = "arrived" /\ Goto(r, "before")
        \/ Goto(r, "convert") \/ Goto(r, "done")
    BY <1>1 DEF Dispatch, MethodNotAllowed, ShortCircuit, CallEndpoint
  <2> QED BY <2>1, <2>2, AdvanceKeepsChecks, LeaveKeepsChecks DEF Checks
<1>2. ASSUME NEW r \in Requests, RunChecks(r) PROVE ChecksInv'
  <2>1. ASSUME NEW stage \in Stage, RejectThrottle(r, stage) PROVE ChecksInv'
    BY <2>1, RaiseKeepsChecks DEF RejectThrottle
  <2> QED BY <1>2, <2>1, PassKeepsChecks, FinishKeepsChecks,
             NegotiateKeepsChecks, AuthKeepsChecks DEF RunChecks
<1>3. ASSUME NEW r \in Requests, ParseRequest(r) PROVE ChecksInv'
  <2>1. /\ pc[r] = "parse"
        /\ UNCHANGED <<ep, index, renderer, user, passed, checked, called>>
    BY <1>3 DEF ParseRequest
  <2>2. Goto(r, "call") \/ \E e : Raise(r, e)
    BY <1>3 DEF ParseRequest
  <2> QED BY <2>1, <2>2, AdvanceKeepsChecks, RaiseKeepsChecks
<1>4. ASSUME NEW r \in Requests, CallMethod(r) PROVE ChecksInv'
  <2>1. /\ pc[r] = "call" /\ called' = [called EXCEPT ![r] = TRUE]
        /\ UNCHANGED <<ep, index, renderer, user, passed, checked>>
    BY <1>4 DEF CallMethod
  <2>2. Goto(r, "make_response") \/ \E e : Raise(r, e)
    BY <1>4 DEF CallMethod, Settle
  <2> QED BY <2>1, <2>2, LeaveKeepsChecks, RaiseKeepsChecks DEF Checks
<1>5. ASSUME NEW r \in Requests,
             HandleError(r) \/ MakeHttpResponse(r) \/ ApplyConverter(r)
      PROVE  ChecksInv'
  <2>1. UNCHANGED <<ep, index, renderer, user, passed, checked, called>>
    BY <1>5 DEF HandleError, AnswerAPIError, EndpointHandler, ControllerHandler,
                GlobalHandler, MakeHttpResponse, ApplyConverter
  <2>2. \E step \in {"make_response", "escaped", "controller_handler",
                     "global_handler", "done", "convert"} : Goto(r, step)
    BY <1>5 DEF HandleError, AnswerAPIError, EndpointHandler, ControllerHandler,
                GlobalHandler, MakeHttpResponse, ApplyConverter, AnswerError,
                AnswerFault, Settle, Escape, Respond
  <2> QED BY <2>1, <2>2, LeaveKeepsChecks DEF Checks
<1>6. ASSUME NEW r \in Requests, Cancel(r) PROVE ChecksInv'
  <2>1. /\ checked' = [checked EXCEPT ![r] = checked[r] \/ pc[r] = "auth"]
        /\ called' = [called EXCEPT ![r] = called[r] \/ pc[r] = "call"]
        /\ UNCHANGED <<ep, index, renderer, user, passed>> /\ Goto(r, "cancelled")
    BY <1>6 DEF Cancel
  <2>2. \/ UNCHANGED checked
        \/ pc[r] = "auth" /\ checked' = [checked EXCEPT ![r] = TRUE]
    BY <2>1 DEF ChecksInv, ChecksType
  <2>3. \/ UNCHANGED called
        \/ pc[r] = "call" /\ called' = [called EXCEPT ![r] = TRUE]
    BY <2>1 DEF ChecksInv, ChecksType
  <2> QED BY <2>1, <2>2, <2>3, LeaveKeepsChecks DEF Checks
<1>7. CASE UNCHANGED vars
  BY <1>7 DEF vars, ChecksInv, ChecksType, CheckedAt, PassedAll, PassedSoFar,
              Authenticated
<1> QED BY <1>1, <1>2, <1>3, <1>4, <1>5, <1>6, <1>7 DEF Next, Step

(* The user's method runs only for requests that every throttle let        *)
(* through, that negotiated a renderer and that are authenticated; only    *)
(* authenticated requests are charged after auth (Endpoint._run_checks).   *)
THEOREM GuardedHolds == Spec => []Guarded
<1>1. ChecksInv => Guarded
  BY DEF ChecksInv, CheckedAt, PassedAll, Guarded, Throttles, Stage
<1> QED BY <1>1, ChecksInit, ChecksStep, PTL DEF Spec

-----------------------------------------------------------------------------
(* The budgets of the throttles before auth.                               *)

LetThrough(i) == {r \in Requests : <<"before", i>> \in passed[r]}

BudgetInv ==
  /\ ChecksInv
  /\ DOMAIN spent = Stage
  /\ \A stage \in Stage : spent[stage] \in [DOMAIN ep[stage] -> Nat]
  /\ \A i \in DOMAIN ep.before :
       /\ Cardinality(LetThrough(i)) <= spent["before"][i]
       /\ spent["before"][i] <= ep.before[i].limit

LEMMA LetThroughFinite ==
  ASSUME NEW i
  PROVE  IsFiniteSet(LetThrough(i)) /\ Cardinality(LetThrough(i)) \in Nat
<1>1. LetThrough(i) \subseteq Requests
  BY DEF LetThrough
<1> QED BY <1>1, RequestsAssumption, FS_Subset, FS_CardinalityType

LEMMA AddsAtMostOne ==
  ASSUME NEW S, NEW x, IsFiniteSet(S)
  PROVE  Cardinality(S \cup {x}) <= Cardinality(S) + 1
<1>1. Cardinality(S) \in Nat
  BY FS_CardinalityType
<1>2. Cardinality(S \cup {x}) \in {Cardinality(S), Cardinality(S) + 1}
  BY FS_AddElement, Zenon
<1> QED BY <1>1, <1>2

LEMMA LimitTyped ==
  ASSUME ChecksType, NEW i \in DOMAIN ep.before PROVE ep.before[i].limit \in Nat
<1>1. ep.before[i] \in ThrottleType
  BY DEF ChecksType
<1> QED BY <1>1 DEF ThrottleType

LEMMA BudgetInit == Init => BudgetInv
<1> SUFFICES ASSUME Init PROVE BudgetInv
  OBVIOUS
<1>1. ChecksInv /\ ChecksType
  BY ChecksInit DEF ChecksInv
<1>2. \A stage \in Stage : spent[stage] = [i \in DOMAIN ep[stage] |-> 0]
  BY DEF Init
<1>3. DOMAIN spent = Stage /\ "before" \in Stage
  BY DEF Init, Stage
<1>4. ASSUME NEW i \in DOMAIN ep.before
      PROVE  /\ Cardinality(LetThrough(i)) <= spent["before"][i]
             /\ spent["before"][i] <= ep.before[i].limit
  <2>1. LetThrough(i) = {}
    BY DEF Init, LetThrough
  <2>2. Cardinality(LetThrough(i)) = 0
    BY <2>1, FS_EmptySet
  <2>3. spent["before"][i] = 0
    BY <1>2, <1>3
  <2> QED BY <1>1, <2>2, <2>3, LimitTyped
<1> QED BY <1>1, <1>2, <1>3, <1>4 DEF BudgetInv

(* A request that is let through is counted, within the limit.             *)
LEMMA PassKeepsBudget ==
  ASSUME BudgetInv, ChecksInv', NEW r \in Requests, NEW stage \in Stage,
         PassThrottle(r, stage)
  PROVE  BudgetInv'
<1> DEFINE n == index[r]
<1>1. /\ n \in DOMAIN ep[stage] /\ UNCHANGED ep
      /\ spent[stage][n] < ep[stage][n].limit
      /\ spent' = [spent EXCEPT ![stage][n] = spent[stage][n] + 1]
      /\ passed' = [passed EXCEPT ![r] = passed[r] \cup {<<stage, n>>}]
  BY DEF PassThrottle
<1>2. /\ DOMAIN spent' = Stage
      /\ \A other \in Stage : spent'[other] \in [DOMAIN ep[other] -> Nat]
  BY <1>1 DEF BudgetInv
<1>3. ASSUME NEW i \in DOMAIN ep.before
      PROVE  /\ Cardinality(LetThrough(i)') <= spent'["before"][i]
             /\ spent'["before"][i] <= ep.before[i].limit
  <2>1. /\ Cardinality(LetThrough(i)) <= spent["before"][i]
        /\ spent["before"][i] <= ep.before[i].limit
        /\ spent["before"][i] \in Nat
    BY <1>3 DEF BudgetInv, Stage
  <2>2. DOMAIN passed = Requests
    BY DEF BudgetInv, ChecksInv, ChecksType
  <2>3. CASE stage = "before" /\ i = n
    <3>1. LetThrough(i)' = LetThrough(i) \cup {r}
      BY <1>1, <2>2, <2>3 DEF LetThrough
    <3>2. Cardinality(LetThrough(i)') <= Cardinality(LetThrough(i)) + 1
      <4>1. Cardinality(LetThrough(i) \cup {r}) <= Cardinality(LetThrough(i)) + 1
        BY LetThroughFinite, AddsAtMostOne
      <4> QED BY <3>1, <4>1
    <3>3. spent'["before"][i] = spent["before"][i] + 1
      BY <1>1, <2>3 DEF BudgetInv, Stage
    <3>4. ep.before[i].limit \in Nat
      BY LimitTyped DEF BudgetInv, ChecksInv
    <3>5. Cardinality(LetThrough(i)) \in Nat /\ Cardinality(LetThrough(i)') \in Nat
      <4>1. IsFiniteSet(LetThrough(i) \cup {r})
        BY LetThroughFinite, FS_AddElement
      <4> QED BY <3>1, <4>1, LetThroughFinite, FS_CardinalityType
    <3> QED BY <1>1, <2>1, <2>3, <3>2, <3>3, <3>4, <3>5
  <2>4. CASE stage # "before" \/ i # n
    <3>1. LetThrough(i)' = LetThrough(i)
      BY <1>1, <2>2, <2>4 DEF LetThrough
    <3>2. spent'["before"][i] = spent["before"][i]
      BY <1>1, <2>4 DEF BudgetInv, Stage
    <3> QED BY <2>1, <3>1, <3>2
  <2> QED BY <2>3, <2>4
<1> QED BY <1>1, <1>2, <1>3 DEF BudgetInv

LEMMA BudgetStep == BudgetInv /\ [Next]_vars => BudgetInv'
<1> SUFFICES ASSUME BudgetInv, [Next]_vars PROVE BudgetInv'
  OBVIOUS
<1>1. ChecksInv'
  BY ChecksStep DEF BudgetInv
<1>2. CASE UNCHANGED <<ep, spent, passed>>
  BY <1>1, <1>2 DEF BudgetInv, LetThrough
<1>3. ASSUME NEW r \in Requests, NEW stage \in Stage, PassThrottle(r, stage)
      PROVE  BudgetInv'
  BY <1>1, <1>3, PassKeepsBudget
<1>4. ASSUME NEW r \in Requests, RunChecks(r) PROVE BudgetInv'
  <2>1. ASSUME NEW stage \in Stage,
               RejectThrottle(r, stage) \/ FinishThrottles(r, stage)
        PROVE  UNCHANGED <<ep, spent, passed>>
    BY <2>1 DEF RejectThrottle, FinishThrottles, budget
  <2>2. CASE NegotiateResponse(r) \/ RunAuth(r) \/ FinishAuth(r)
    BY <1>2, <2>2 DEF NegotiateResponse, RunAuth, FinishAuth, budget
  <2> QED BY <1>2, <1>3, <1>4, <2>1, <2>2 DEF RunChecks
<1>5. ASSUME NEW r \in Requests,
             \/ Dispatch(r) \/ ParseRequest(r) \/ CallMethod(r) \/ HandleError(r)
             \/ MakeHttpResponse(r) \/ ApplyConverter(r) \/ Cancel(r)
      PROVE  UNCHANGED <<ep, spent, passed>>
  BY <1>5 DEF Dispatch, MethodNotAllowed, ShortCircuit, CallEndpoint,
              ParseRequest, CallMethod, HandleError, AnswerAPIError,
              EndpointHandler, ControllerHandler, GlobalHandler,
              MakeHttpResponse, ApplyConverter, Cancel, budget
<1>6. CASE UNCHANGED vars
  BY <1>2, <1>6 DEF vars, budget
<1> QED BY <1>2, <1>4, <1>5, <1>6 DEF Next, Step

(* However many requests there are and however they interleave, a throttle *)
(* before auth bounds the requests whose credentials are looked at or that *)
(* learn a renderer (Endpoint._run_throttle_before, _run_auth).            *)
THEOREM BruteForceBoundHolds == Spec => []BruteForceBound
<1>1. BudgetInv => BruteForceBound
  <2> SUFFICES ASSUME BudgetInv, NEW i \in DOMAIN ep.before
               PROVE  Cardinality({r \in Requests : checked[r] \/ renderer[r] # None})
                        <= ep.before[i].limit
    BY DEF BruteForceBound
  <2> DEFINE known == {r \in Requests : checked[r] \/ renderer[r] # None}
  <2>1. known \subseteq LetThrough(i)
    BY DEF BudgetInv, ChecksInv, CheckedAt, PassedAll, LetThrough
  <2>2. Cardinality(known) <= Cardinality(LetThrough(i)) /\ IsFiniteSet(known)
    BY <2>1, LetThroughFinite, FS_Subset
  <2>3. /\ Cardinality(LetThrough(i)) <= spent["before"][i]
        /\ spent["before"][i] <= ep.before[i].limit
        /\ spent["before"][i] \in Nat
    BY DEF BudgetInv, Stage
  <2>4. ep.before[i].limit \in Nat
    BY LimitTyped DEF BudgetInv, ChecksInv
  <2> QED BY <2>2, <2>3, <2>4, LetThroughFinite, FS_CardinalityType
<1> QED BY <1>1, BudgetInit, BudgetStep, PTL DEF Spec
-----------------------------------------------------------------------------
(* The types of the variables.                                             *)

TypeInv ==
  /\ ep \in {Enriched(e) : e \in Endpoints}
  /\ DOMAIN spent = Stage
  /\ \A stage \in Stage : spent[stage] \in [DOMAIN ep[stage] -> Nat]
  /\ TypeOK

LEMMA FrameworkErrorTyped ==
  ASSUME NEW kind \in DOMAIN ErrorStatus, NEW parts \in SUBSET STRING
  PROVE  FrameworkError(kind, parts) \in ExceptionType
BY StatusAssumption DEF FrameworkError, ExceptionType

(* The exceptions that validation raises.                                  *)
Faults == RenderFaults \cup
  {"ResponseSchemaError", "ValidationError", "InternalServerError",
   "DataParsingError", "RequestSerializationError", "ValueError", "KeyError"}

LEMMA ParseFaultListed ==
  ASSUME NEW e, NEW rend, NEW sent, NEW readable
  PROVE  ParseFault(e, rend, sent, readable) \in Faults \cup {NoFault}
BY DEF ParseFault, Faults, RenderFaults

LEMMA FaultListed ==
  ASSUME NEW r, NEW readable PROVE Fault(r, readable) \in Faults \cup {NoFault}
<1>1. \A spec, body, ctype : BodyFault(spec, body, ctype) \in Faults \cup {NoFault}
  BY DEF BodyFault, Faults
<1>2. \A e, rend, sent :
        ContentFault(e, rend, sent, readable) \in Faults \cup {NoFault}
  BY <1>1, ParseFaultListed DEF ContentFault, Faults
<1>3. \A e, rend, sent :
        ResponseFault(e, rend, sent, readable) \in Faults \cup {NoFault}
  BY <1>2 DEF ResponseFault, Faults
<1>4. \A e, rend, body : ModificationFault(e, rend, body) \in Faults \cup {NoFault}
  BY <1>1 DEF ModificationFault, Faults
<1> QED BY <1>3, <1>4, RenderFaultListed DEF Fault, Faults

(* What is raised without a request's own exception being at hand.         *)
LEMMA ExceptionOfTyped ==
  ASSUME NEW kind \in Faults \cup {"Exception"} PROVE ExceptionOf(kind) \in ExceptionType
<1>1. 500 \in HTTPStatus
  BY StatusAssumption DEF ErrorStatus
<1> QED BY <1>1 DEF ExceptionOf, ExceptionType, Faults, RenderFaults, ErrorStatus

LEMMA ThrottlesTyped ==
  ASSUME NEW throttles \in Seq(ThrottleType), NEW i \in DOMAIN throttles
  PROVE  throttles[i].limit \in Nat /\ throttles[i].parts \in SUBSET STRING
<1>1. throttles[i] \in ThrottleType
  OBVIOUS
<1> QED BY <1>1 DEF ThrottleType

LEMMA GotoTyped ==
  ASSUME TypeOK, NEW r \in Requests, NEW step \in Steps, Goto(r, step)
  PROVE  pc' \in [Requests -> Steps]
BY DEF TypeOK, Goto

LEMMA RaiseTyped ==
  ASSUME TypeOK, NEW r \in Requests, NEW e \in ExceptionType, Raise(r, e)
  PROVE  /\ pc' \in [Requests -> Steps]
         /\ exc' \in [Requests -> ExceptionType \cup {None}]
         /\ raised' \in [Requests -> ExceptionType \cup {None}]
<1>1. AskedFirst(e) \in Steps
  BY DEF AskedFirst, Steps
<1>2. pc' \in [Requests -> Steps]
  BY <1>1, GotoTyped DEF Raise
<1> QED BY <1>2 DEF Raise, TypeOK

(* A step that charges no throttle: what it may change keeps its type.     *)
LEMMA TypeFrame ==
  ASSUME TypeInv, UNCHANGED <<ep, spent, passed, accept>>,
         pc' \in [Requests -> Steps],
         index' \in [Requests -> Nat \ {0}],
         renderer' \in [Requests -> ToSet(ep.renderers) \cup {None}],
         plain' \in [Requests -> (ToSet(ep.renderers) \ Streams) \cup {None}],
         user' \in [Requests -> 0 .. ep.auths],
         exc' \in [Requests -> ExceptionType \cup {None}],
         raised' \in [Requests -> ExceptionType \cup {None}],
         checked' \in [Requests -> BOOLEAN],
         called' \in [Requests -> BOOLEAN]
  PROVE  TypeInv'
BY DEF TypeInv, TypeOK

LEMMA TypeInit == Init => TypeInv
<1> SUFFICES ASSUME Init PROVE TypeInv
  OBVIOUS
<1>1. ASSUME NEW stage \in Stage
      PROVE  /\ spent[stage] \in [DOMAIN ep[stage] -> Nat]
             /\ DOMAIN spent[stage] = DOMAIN ep[stage]
             /\ \A i \in DOMAIN ep[stage] : spent[stage][i] \in 0 .. ep[stage][i].limit
  <2>1. ep[stage] \in Seq(ThrottleType)
    BY EndpointTyped DEF Init, Stage
  <2>2. \A i \in DOMAIN ep[stage] : ep[stage][i].limit \in Nat
    BY <2>1, ThrottlesTyped
  <2>3. spent[stage] = [i \in DOMAIN ep[stage] |-> 0]
    BY DEF Init
  <2> QED BY <2>2, <2>3
<1>2. ep.auths \in Nat
  BY EndpointTyped DEF Init
<1> QED BY <1>1, <1>2 DEF Init, TypeInv, TypeOK, Steps

LEMMA PassKeepsType ==
  ASSUME TypeInv, NEW r \in Requests, NEW stage \in Stage, PassThrottle(r, stage)
  PROVE  TypeInv'
<1> DEFINE n == index[r]
<1>1. /\ n \in DOMAIN ep[stage] /\ n \in Nat \ {0}
      /\ spent[stage][n] < ep[stage][n].limit
      /\ spent' = [spent EXCEPT ![stage][n] = spent[stage][n] + 1]
      /\ passed' = [passed EXCEPT ![r] = passed[r] \cup {<<stage, n>>}]
      /\ index' = [index EXCEPT ![r] = n + 1]
      /\ UNCHANGED <<ep, pc, accept, renderer, plain, user, exc, raised,
                     checked, called>>
  BY DEF PassThrottle, TypeInv, TypeOK, attributes, failure
<1>2. /\ DOMAIN spent' = Stage
      /\ \A other \in Stage : spent'[other] \in [DOMAIN ep[other] -> Nat]
  BY <1>1 DEF TypeInv
<1>3. \A i \in DOMAIN ep[stage] : ep[stage][i].limit \in Nat
  <2>1. ep[stage] \in Seq(ThrottleType)
    BY EndpointTyped DEF TypeInv, Stage
  <2> QED BY <2>1, ThrottlesTyped
<1>4. ASSUME NEW other \in Stage
      PROVE  /\ DOMAIN spent'[other] = DOMAIN ep[other]
             /\ \A i \in DOMAIN ep[other] :
                  spent'[other][i] \in 0 .. ep[other][i].limit
  <2>1. CASE other = stage
    <3>1. spent'[stage] = [spent[stage] EXCEPT ![n] = spent[stage][n] + 1]
      BY <1>1 DEF TypeInv
    <3>2. ASSUME NEW i \in DOMAIN ep[stage]
          PROVE  spent'[stage][i] \in 0 .. ep[stage][i].limit
      <4>1. spent[stage][i] \in 0 .. ep[stage][i].limit
        BY DEF TypeInv, TypeOK
      <4>2. i = n => spent'[stage][i] = spent[stage][i] + 1
        BY <1>1, <3>1 DEF TypeInv
      <4>3. i # n => spent'[stage][i] = spent[stage][i]
        BY <3>1 DEF TypeInv
      <4> QED BY <1>1, <1>3, <4>1, <4>2, <4>3
    <3> QED BY <1>2, <2>1, <3>2
  <2>2. CASE other # stage
    <3>1. spent'[other] = spent[other]
      BY <1>1, <2>2 DEF TypeInv
    <3> QED BY <3>1 DEF TypeInv, TypeOK
  <2> QED BY <2>1, <2>2
<1>5. /\ index' \in [Requests -> Nat \ {0}]
      /\ passed' \in [Requests -> SUBSET (Stage \X Nat)]
  BY <1>1 DEF TypeInv, TypeOK
<1> QED BY <1>1, <1>2, <1>4, <1>5 DEF TypeInv, TypeOK

LEMMA TypeStep == TypeInv /\ [Next]_vars => TypeInv'
<1> SUFFICES ASSUME TypeInv, [Next]_vars PROVE TypeInv'
  OBVIOUS
<1> USE DEF attributes, budget, failure
<1>0. TypeOK
  BY DEF TypeInv
<1>1. /\ Unexpected \in ExceptionType
      /\ \A kind \in DOMAIN ErrorStatus :
           FrameworkError(kind, {}) \in ExceptionType
      /\ \A outcome \in MethodOutcomes \cup HandlerOutcomes :
           outcome.raises => outcome.value \in ExceptionType
  <2>1. Unexpected \in ExceptionType
    BY ExceptionOfTyped DEF Unexpected
  <2> QED BY <2>1, FrameworkErrorTyped, OutcomesAssumption
(* A step that changes where a request is, and what it handles.            *)
<1>2. ASSUME UNCHANGED <<ep, index, attributes, budget>>,
             pc' \in [Requests -> Steps],
             exc' \in [Requests -> ExceptionType \cup {None}],
             raised' \in [Requests -> ExceptionType \cup {None}],
             checked' \in [Requests -> BOOLEAN],
             called' \in [Requests -> BOOLEAN]
      PROVE  TypeInv'
  BY <1>2, TypeFrame DEF TypeInv, TypeOK
<1>3. ASSUME NEW r \in Requests, Dispatch(r) PROVE TypeInv'
  <2>1. /\ UNCHANGED <<ep, index, attributes, budget, failure, checked, called>>
        /\ Goto(r, "done") \/ Goto(r, "convert") \/ Goto(r, "before")
    BY <1>3 DEF Dispatch, MethodNotAllowed, ShortCircuit, CallEndpoint
  <2>2. pc' \in [Requests -> Steps]
    BY <1>0, <2>1, GotoTyped DEF Steps
  <2> QED BY <1>0, <1>2, <2>1, <2>2 DEF TypeOK
<1>4. ASSUME NEW r \in Requests, RunChecks(r) PROVE TypeInv'
  <2>1. ASSUME NEW stage \in Stage, PassThrottle(r, stage) PROVE TypeInv'
    BY <2>1, PassKeepsType
  <2>2. ASSUME NEW stage \in Stage, RejectThrottle(r, stage) PROVE TypeInv'
    <3>1. PICK i \in DOMAIN ep[stage] :
            Raise(r, FrameworkError("TooManyRequestsError", ep[stage][i].parts))
      BY <2>2 DEF RejectThrottle
    <3>2. ep[stage][i].parts \in SUBSET STRING
      <4>1. ep[stage] \in Seq(ThrottleType)
        BY EndpointTyped DEF TypeInv, Stage
      <4> QED BY <4>1, ThrottlesTyped
    <3>3. FrameworkError("TooManyRequestsError", ep[stage][i].parts)
            \in ExceptionType
      BY <3>2, FrameworkErrorTyped DEF ErrorStatus
    <3>4. UNCHANGED <<ep, index, attributes, budget, checked, called>>
      BY <2>2 DEF RejectThrottle
    <3>5. /\ pc' \in [Requests -> Steps]
          /\ exc' \in [Requests -> ExceptionType \cup {None}]
          /\ raised' \in [Requests -> ExceptionType \cup {None}]
      BY <1>0, <3>1, <3>3, RaiseTyped
    <3> QED BY <1>0, <1>2, <3>4, <3>5 DEF TypeOK
  <2>3. ASSUME NEW stage \in Stage, FinishThrottles(r, stage) PROVE TypeInv'
    <3>1. /\ index' = [index EXCEPT ![r] = 1]
          /\ UNCHANGED <<ep, attributes, budget, failure, checked, called>>
          /\ Goto(r, "negotiate") \/ Goto(r, "parse")
      BY <2>3 DEF FinishThrottles
    <3>2. pc' \in [Requests -> Steps]
      BY <1>0, <3>1, GotoTyped DEF Steps
    <3>3. index' \in [Requests -> Nat \ {0}]
      BY <1>0, <3>1 DEF TypeOK
    <3> QED BY <1>0, <3>1, <3>2, <3>3, TypeFrame DEF TypeOK
  <2>4. CASE NegotiateResponse(r)
    <3>1. UNCHANGED <<ep, index, budget, checked, called>>
      BY <2>4 DEF NegotiateResponse
    <3>2. CASE NegotiationFails(r)
      <4>1. FrameworkError("NotAcceptableError", {}) \in ExceptionType
        BY <1>1 DEF ErrorStatus
      <4>2. /\ pc' \in [Requests -> Steps]
            /\ exc' \in [Requests -> ExceptionType \cup {None}]
            /\ raised' \in [Requests -> ExceptionType \cup {None}]
        BY <1>0, <3>2, <4>1, RaiseTyped DEF NegotiationFails
      <4> QED BY <1>0, <1>2, <3>1, <3>2, <4>2 DEF NegotiationFails, TypeOK
    <3>3. ASSUME NEW chosen, NEW other, NegotiationChooses(r, chosen, other)
          PROVE  TypeInv'
      <4>1. /\ renderer' \in [Requests -> ToSet(ep.renderers) \cup {None}]
            /\ plain' \in [Requests -> (ToSet(ep.renderers) \ Streams) \cup {None}]
        BY <1>0, <3>3 DEF NegotiationChooses, NonStreaming, TypeOK
      <4>2. pc' \in [Requests -> Steps]
        BY <1>0, <3>3, GotoTyped DEF NegotiationChooses, Steps
      <4> QED BY <1>0, <3>1, <3>3, <4>1, <4>2, TypeFrame
              DEF NegotiationChooses, TypeOK
    <3>4. accept[r] \in Accepts
      BY <1>0 DEF TypeOK
    <3> QED BY <2>4, <3>2, <3>3, <3>4, NegotiationCases DEF TypeInv
  <2>5. CASE RunAuth(r) \/ FinishAuth(r)
    <3>1. /\ UNCHANGED <<ep, accept, renderer, plain, budget, called>>
          /\ checked' \in [Requests -> BOOLEAN]
      BY <1>0, <2>5 DEF RunAuth, FinishAuth, TypeOK
    <3>2. index' \in [Requests -> Nat \ {0}]
      BY <1>0, <2>5 DEF RunAuth, FinishAuth, TypeOK
    <3>3. user' \in [Requests -> 0 .. ep.auths]
      <4>1. ep.auths \in Nat
        BY EndpointTyped DEF TypeInv
      <4>2. \/ UNCHANGED user
            \/ user' = [user EXCEPT ![r] = index[r]] /\ index[r] <= ep.auths
        BY <2>5 DEF RunAuth, FinishAuth
      <4> QED BY <1>0, <4>1, <4>2 DEF TypeOK
    <3>4. \/ Goto(r, "after") /\ UNCHANGED failure
          \/ UNCHANGED <<pc, failure>>
          \/ \E e \in ExceptionType : Raise(r, e)
      BY <1>1, <2>5 DEF RunAuth, FinishAuth, ErrorStatus
    <3>5. /\ pc' \in [Requests -> Steps]
          /\ exc' \in [Requests -> ExceptionType \cup {None}]
          /\ raised' \in [Requests -> ExceptionType \cup {None}]
      <4>1. CASE Goto(r, "after") /\ UNCHANGED failure
        BY <1>0, <4>1, GotoTyped DEF Steps, TypeOK
      <4>2. CASE UNCHANGED <<pc, failure>>
        BY <1>0, <4>2 DEF TypeOK
      <4>3. CASE \E e \in ExceptionType : Raise(r, e)
        BY <1>0, <4>3, RaiseTyped
      <4> QED BY <3>4, <4>1, <4>2, <4>3
    <3> QED BY <1>0, <3>1, <3>2, <3>3, <3>5, TypeFrame DEF TypeOK
  <2> QED BY <1>4, <2>1, <2>2, <2>3, <2>4, <2>5 DEF RunChecks
<1>5. ASSUME NEW r \in Requests, ParseRequest(r) \/ CallMethod(r)
      PROVE  TypeInv'
  <2>1. /\ UNCHANGED <<ep, index, attributes, budget, checked>>
        /\ called' \in [Requests -> BOOLEAN]
    BY <1>0, <1>5 DEF ParseRequest, CallMethod, TypeOK
  <2>2. \/ Goto(r, "call") /\ UNCHANGED failure
        \/ Goto(r, "make_response") /\ UNCHANGED failure
        \/ \E e \in ExceptionType : Raise(r, e)
    BY <1>1, <1>5 DEF ParseRequest, CallMethod, Settle, ErrorStatus
  <2>3. /\ pc' \in [Requests -> Steps]
        /\ exc' \in [Requests -> ExceptionType \cup {None}]
        /\ raised' \in [Requests -> ExceptionType \cup {None}]
    <3>1. CASE Goto(r, "call") /\ UNCHANGED failure
      BY <1>0, <3>1, GotoTyped DEF Steps, TypeOK
    <3>2. CASE Goto(r, "make_response") /\ UNCHANGED failure
      BY <1>0, <3>2, GotoTyped DEF Steps, TypeOK
    <3>3. CASE \E e \in ExceptionType : Raise(r, e)
      BY <1>0, <3>3, RaiseTyped
    <3> QED BY <2>2, <3>1, <3>2, <3>3
  <2> QED BY <1>0, <1>2, <2>1, <2>3 DEF TypeOK
<1>6. ASSUME NEW r \in Requests,
             HandleError(r) \/ MakeHttpResponse(r) \/ ApplyConverter(r)
      PROVE  TypeInv'
  <2>1. UNCHANGED <<ep, index, attributes, budget, exc, checked, called>>
    BY <1>6 DEF HandleError, AnswerAPIError, EndpointHandler, ControllerHandler,
                GlobalHandler, MakeHttpResponse, ApplyConverter
  <2>2. \E step \in {"make_response", "escaped", "controller_handler",
                     "global_handler", "done", "convert"} : Goto(r, step)
    BY <1>6 DEF HandleError, AnswerAPIError, EndpointHandler, ControllerHandler,
                GlobalHandler, MakeHttpResponse, ApplyConverter, AnswerError,
                AnswerFault, Settle, Escape, Respond
  <2>3. pc' \in [Requests -> Steps]
    BY <1>0, <2>2, GotoTyped DEF Steps
  <2>4. \/ UNCHANGED raised
        \/ \E e \in ExceptionType \cup {None} : raised' = [raised EXCEPT ![r] = e]
    <3>1. raised[r] \in ExceptionType \cup {None}
      BY <1>0 DEF TypeOK
    <3>2. ASSUME NEW e, AnswerEscapes(r, e)
          PROVE  \E kind \in Faults : Escape(r, ExceptionOf(kind))
      BY <3>2 DEF AnswerEscapes, Faults
    <3>3. ASSUME NEW e, AnswerError(r, e)
          PROVE  UNCHANGED raised \/ \E kind \in Faults : Escape(r, ExceptionOf(kind))
      BY <3>2, <3>3, AnswerErrorCases DEF AnswerSettles
    <3>4. ASSUME MakeHttpResponse(r)
          PROVE  UNCHANGED raised \/ \E kind \in Faults : Escape(r, ExceptionOf(kind))
      BY <3>2, <3>4, FaultCases, FaultListed
    <3>5. \A kind \in Faults : ExceptionOf(kind) \in ExceptionType
      BY ExceptionOfTyped
    <3> QED BY <1>1, <1>6, <3>1, <3>3, <3>4, <3>5
            DEF HandleError, AnswerAPIError, EndpointHandler, ControllerHandler,
                GlobalHandler, ApplyConverter, Escape
  <2>5. raised' \in [Requests -> ExceptionType \cup {None}]
    BY <1>0, <2>4 DEF TypeOK
  <2> QED BY <1>0, <1>2, <2>1, <2>3, <2>5 DEF TypeOK
<1>7. ASSUME NEW r \in Requests, Cancel(r) PROVE TypeInv'
  <2>1. UNCHANGED <<ep, index, attributes, budget, failure>>
    BY <1>7 DEF Cancel
  <2>2. /\ checked' \in [Requests -> BOOLEAN]
        /\ called' \in [Requests -> BOOLEAN]
    BY <1>0, <1>7 DEF Cancel, TypeOK
  <2>3. pc' \in [Requests -> Steps]
    BY <1>0, <1>7, GotoTyped DEF Cancel, Steps
  <2> QED BY <1>0, <1>2, <2>1, <2>2, <2>3 DEF TypeOK
<1>8. CASE UNCHANGED vars
  BY <1>0, <1>2, <1>8 DEF vars, TypeOK
<1> QED BY <1>3, <1>4, <1>5, <1>6, <1>7, <1>8 DEF Next, Step

(* Every variable keeps its type: in particular no throttle lets more      *)
(* through than its limit, an error is never rendered as a stream, and     *)
(* only exceptions are handled (Endpoint, ResponseNegotiator).             *)
THEOREM TypeCorrect == Spec => []TypeOK
<1>1. TypeInv => TypeOK
  BY DEF TypeInv
<1> QED BY <1>1, TypeInit, TypeStep, PTL DEF Spec
-----------------------------------------------------------------------------
(* Where what an endpoint sends, or lets escape, comes from.               *)

AskedGlobal(r) == asked[r] # <<>> /\ Last(asked[r]) = "global"

Handling == {"api_error", "endpoint_handler", "controller_handler",
             "global_handler"}

(* A result is the user's, or made for an APIError, or by the global       *)
(* handler for an exception that it formats.                               *)
MadeByUser(r) == result[r].by = "user" /\ ~AskedGlobal(r)

MadeForAPIError(r) ==
  /\ exc[r] # None /\ Answers(exc[r])
  /\ result[r] = ToError(r, exc[r])
  /\ ~AskedGlobal(r)

MadeForRejection(r) ==
  /\ exc[r] # None /\ Formatted(exc[r])
  /\ result[r] = ToError(r, WithErrorBody(exc[r]))
  /\ result[r].ctype \notin Files

MadeBy(r) == MadeByUser(r) \/ MadeForAPIError(r) \/ MadeForRejection(r)

(* StatusKept, NegotiatedType and EscapesExplained of one request.         *)
KeptAt(r) ==
  /\ Rejected(r) /\ response[r].by # "converter"
  /\ ep.validates => PassesValidation(r)
  => response[r].status = exc[r].status /\ response[r].parts = exc[r].parts

AcceptedAt(r) ==
  /\ ep.validates /\ ep.negotiates /\ ~ep.streaming
  /\ accept[r] # None /\ renderer[r] # None
  /\ response[r].by \in {"endpoint", "user", "fallback"}
  /\ ~IsStream(response[r])
  => response[r].ctype \in ToSet(accept[r])

ExplainedAt(r) ==
  \/ exc[r] # None /\ ~Answers(exc[r]) /\ ~Formatted(exc[r])
  \/ exc[r] # None /\ Answers(exc[r]) /\ exc[r].body = "unrenderable"
  \/ raised[r].kind = "NotImplementedError" /\ FileRendered(r)
  \/ raised[r].kind \in {"ValueError", "KeyError"} /\ result[r].by = "user"
  \/ /\ raised[r].kind \in {"DataParsingError", "RequestSerializationError"}
     /\ ReadDifferently(r)

(* The renderers of a request are acceptable, and both set by a stream.    *)
RenderersAt(r) ==
  /\ renderer[r] # None /\ accept[r] # None => renderer[r] \in ToSet(accept[r])
  /\ IF ep.streaming /\ renderer[r] # None THEN plain[r] # None
                                           ELSE plain[r] = None

OriginAt(r) ==
  /\ pc[r] \in Handling => exc[r] # None
  /\ pc[r] = "api_error" => Answers(exc[r])
  /\ RenderersAt(r)
  /\ pc[r] = "make_response" => MadeBy(r)
  /\ pc[r] \in {"convert", "done"} => KeptAt(r) /\ AcceptedAt(r)
  /\ pc[r] = "escaped" => ExplainedAt(r)

OriginInv ==
  /\ TypeInv /\ HandlersInv
  /\ DOMAIN result = Requests /\ DOMAIN response = Requests
  /\ \A r \in Requests : OriginAt(r)

LEMMA OriginInit == Init => OriginInv
<1> SUFFICES ASSUME Init PROVE OriginInv
  OBVIOUS
<1>1. ASSUME NEW r \in Requests PROVE OriginAt(r)
  BY DEF Init, OriginAt, RenderersAt, Handling
<1> QED BY <1>1, TypeInit, HandlersInit DEF Init, OriginInv

(* A step of one request leaves the others where they are.                 *)
LEMMA OriginFrame ==
  ASSUME OriginInv, TypeInv', HandlersInv', NEW r \in Requests,
         UNCHANGED <<ep, accept>>,
         DOMAIN result' = Requests, DOMAIN response' = Requests,
         \A s \in Requests \ {r} :
           /\ pc'[s] = pc[s] /\ renderer'[s] = renderer[s]
           /\ plain'[s] = plain[s] /\ exc'[s] = exc[s]
           /\ raised'[s] = raised[s] /\ asked'[s] = asked[s]
           /\ result'[s] = result[s] /\ response'[s] = response[s],
         OriginAt(r)'
  PROVE  OriginInv'
<1>1. ASSUME NEW s \in Requests \ {r} PROVE OriginAt(s)'
  <2>1. OriginAt(s)
    BY DEF OriginInv
  <2>2. RenderersAt(s)' = RenderersAt(s)
    BY DEF RenderersAt
  <2>3. ErrorRenderer(s)' = ErrorRenderer(s)
    BY DEF ErrorRenderer
  <2>4. MadeBy(s)' = MadeBy(s)
    BY <2>3 DEF MadeBy, MadeByUser, MadeForAPIError, MadeForRejection,
                AskedGlobal, ToError
  <2>5. KeptAt(s)' = KeptAt(s)
    BY DEF KeptAt, Rejected, PassesValidation
  <2>6. AcceptedAt(s)' = AcceptedAt(s)
    BY DEF AcceptedAt
  <2>7. ExplainedAt(s)' = ExplainedAt(s)
    BY DEF ExplainedAt, FileRendered, ReadDifferently
  <2> QED BY <2>1, <2>2, <2>4, <2>5, <2>6, <2>7 DEF OriginAt
<1> QED BY <1>1 DEF OriginInv

(* A request moves on, its exception, renderers and answers as they are.   *)
LEMMA QuietKeepsOrigin ==
  ASSUME OriginInv, TypeInv', HandlersInv', NEW r \in Requests,
         NEW step, Goto(r, step),
         step \notin Handling \cup {"make_response", "convert", "done", "escaped"},
         UNCHANGED <<ep, accept, renderer, plain, exc, raised, asked, result,
                     response>>
  PROVE  OriginInv'
<1>1. pc'[r] = step /\ \A s \in Requests \ {r} : pc'[s] = pc[s]
  BY DEF Goto, OriginInv, TypeInv, TypeOK
<1>2. OriginAt(r)'
  BY <1>1 DEF OriginInv, OriginAt, RenderersAt, Handling
<1> QED BY <1>1, <1>2, OriginFrame DEF OriginInv

LEMMA RaiseKeepsOrigin ==
  ASSUME OriginInv, TypeInv', HandlersInv', NEW r \in Requests,
         NEW e \in ExceptionType, Raise(r, e),
         UNCHANGED <<ep, accept, renderer, plain, response>>
  PROVE  OriginInv'
<1>1. /\ pc'[r] = AskedFirst(e) /\ exc'[r] = e
      /\ UNCHANGED <<asked, result>>
      /\ \A s \in Requests \ {r} :
           pc'[s] = pc[s] /\ exc'[s] = exc[s] /\ raised'[s] = raised[s]
  BY DEF Raise, Goto, OriginInv, TypeInv, TypeOK
<1>2. /\ AskedFirst(e) \in Handling
      /\ AskedFirst(e) = "api_error" => Answers(e)
  BY DEF AskedFirst, Handling
<1>3. OriginAt(r)'
  BY <1>1, <1>2, NoneAssumption
     DEF OriginInv, OriginAt, RenderersAt, Handling, Answers
<1> QED BY <1>1, <1>3, OriginFrame DEF OriginInv

(* Somebody's result is handed to _make_http_response.                     *)
LEMMA SettleKeepsOrigin ==
  ASSUME OriginInv, TypeInv', HandlersInv', NEW r \in Requests,
         NEW value, Settle(r, value), MadeBy(r)',
         \A s \in Requests \ {r} : asked'[s] = asked[s],
         UNCHANGED <<ep, accept, renderer, plain, exc, raised, response>>
  PROVE  OriginInv'
<1>1. /\ pc'[r] = "make_response" /\ DOMAIN result' = Requests
      /\ \A s \in Requests \ {r} : pc'[s] = pc[s] /\ result'[s] = result[s]
  BY DEF Settle, Goto, OriginInv, TypeInv, TypeOK
<1>2. OriginAt(r)'
  BY <1>1 DEF OriginInv, OriginAt, RenderersAt, Handling
<1> QED BY <1>1, <1>2, OriginFrame DEF OriginInv

LEMMA EscapeKeepsOrigin ==
  ASSUME OriginInv, TypeInv', HandlersInv', NEW r \in Requests,
         NEW e, Escape(r, e), ExplainedAt(r)',
         \A s \in Requests \ {r} : asked'[s] = asked[s],
         UNCHANGED <<ep, accept, renderer, plain, exc, result, response>>
  PROVE  OriginInv'
<1>1. /\ pc'[r] = "escaped"
      /\ \A s \in Requests \ {r} : pc'[s] = pc[s] /\ raised'[s] = raised[s]
  BY DEF Escape, Goto, OriginInv, TypeInv, TypeOK
<1>2. OriginAt(r)'
  BY <1>1 DEF OriginInv, OriginAt, RenderersAt, Handling
<1> QED BY <1>1, <1>2, OriginFrame DEF OriginInv

LEMMA AnswerKeepsOrigin ==
  ASSUME OriginInv, TypeInv', HandlersInv', NEW r \in Requests,
         NEW value, response' = [response EXCEPT ![r] = value],
         NEW step \in {"convert", "done"}, Goto(r, step),
         KeptAt(r)', AcceptedAt(r)',
         UNCHANGED <<ep, accept, renderer, plain, exc, raised, asked, result>>
  PROVE  OriginInv'
<1>1. /\ pc'[r] = step /\ DOMAIN response' = Requests
      /\ \A s \in Requests \ {r} : pc'[s] = pc[s] /\ response'[s] = response[s]
  BY DEF Goto, OriginInv, TypeInv, TypeOK
<1>2. OriginAt(r)'
  BY <1>1 DEF OriginInv, OriginAt, RenderersAt, Handling
<1> QED BY <1>1, <1>2, OriginFrame DEF OriginInv

LEMMA LastAppended ==
  ASSUME NEW S, NEW s \in Seq(S), NEW x
  PROVE  Append(s, x) # <<>> /\ Last(Append(s, x)) = x
<1>1. /\ s \in Seq(S \cup {x}) /\ x \in S \cup {x}
  OBVIOUS
<1>2. /\ Len(Append(s, x)) = Len(s) + 1
      /\ Append(s, x)[Len(s) + 1] = x
      /\ Len(s) \in Nat
      /\ Append(s, x) \in Seq(S \cup {x})
  BY <1>1, AppendProperties
<1> QED BY <1>2 DEF Last

(* No two specifications of an endpoint have one status.                   *)
LEMMA ThrottleSpecsTyped ==
  ASSUME NEW throttles \in Seq(ThrottleType)
  PROVE  ThrottleSpecs(throttles) \in Seq(SpecType)
<1>1. ASSUME NEW i \in DOMAIN throttles
      PROVE  ErrorSpec(429, throttles[i].parts) \in SpecType
  <2>1. 429 \in HTTPStatus
    BY StatusAssumption DEF ErrorStatus
  <2> QED BY <2>1, ThrottlesTyped DEF ErrorSpec, SpecType
<1>2. DOMAIN throttles = 1 .. Len(throttles) /\ Len(throttles) \in Nat
  OBVIOUS
<1> QED BY <1>1, <1>2 DEF ThrottleSpecs

LEMMA OffersTyped ==
  ASSUME NEW e \in EndpointType PROVE Offers(e) \in Seq(SpecType)
<1>1. \A status \in HTTPStatus : ErrorSpec(status, {}) \in SpecType
  BY DEF ErrorSpec, SpecType
<1>2. /\ ThrottleSpecs(e.before) \in Seq(SpecType)
      /\ ThrottleSpecs(e.after) \in Seq(SpecType)
  BY ThrottleSpecsTyped DEF EndpointType
<1>3. {400, 401, 406, 422} \subseteq HTTPStatus
  BY StatusAssumption DEF ErrorStatus
<1> QED BY <1>1, <1>2, <1>3 DEF Offers

LEMMA ResponsesUnique ==
  ASSUME ep \in {Enriched(e) : e \in Endpoints},
         NEW a \in ep.responses, NEW b \in ep.responses, a.status = b.status
  PROVE  a = b
<1>1. PICK e \in Endpoints : ep = Enriched(e)
  OBVIOUS
<1>2. e \in EndpointType
  BY EndpointsAssumption
<1>3. ep.responses = Responses(e)
  BY <1>1, <1>2 DEF Enriched, EndpointType
<1> DEFINE offers == Offers(e)
           kept == {j \in DOMAIN offers :
                      /\ ~Declares(e, offers[j].status)
                      /\ \A k \in 1 .. j - 1 : offers[k].status # offers[j].status}
<1>4. offers \in Seq(SpecType)
  BY <1>2, OffersTyped
<1>5. ASSUME NEW spec \in Responses(e)
      PROVE  \/ \E d \in e.declared : spec = LimitDeclared(e, d) /\ spec.status = d.status
             \/ \E j \in kept : /\ spec = LimitOffered(e, offers[j])
                                /\ spec.status = offers[j].status
  <2>1. CASE \E d \in e.declared : spec = LimitDeclared(e, d)
    BY <1>2, <2>1 DEF LimitDeclared, EndpointType, SpecType
  <2>2. CASE \E j \in kept : spec = LimitOffered(e, offers[j])
    <3>1. PICK j \in kept : spec = LimitOffered(e, offers[j])
      BY <2>2
    <3>2. offers[j] \in SpecType
      BY <1>4
    <3> QED BY <3>1, <3>2 DEF LimitOffered, SpecType
  <2> QED BY <1>5, <2>1, <2>2 DEF Responses
<1>6. ASSUME NEW i \in kept, NEW j \in kept, offers[i].status = offers[j].status
      PROVE  i = j
  <2>1. i \in Nat \ {0} /\ j \in Nat \ {0}
    BY <1>4
  <2>2. ~(i < j) /\ ~(j < i)
    BY <1>6, <2>1
  <2> QED BY <2>1, <2>2
<1>7. ASSUME NEW d \in e.declared, NEW j \in kept PROVE d.status # offers[j].status
  BY DEF Declares
<1>8. ASSUME NEW c \in e.declared, NEW d \in e.declared, c.status = d.status
      PROVE  c = d
  BY <1>8, EndpointsAssumption
<1> HIDE DEF kept, offers
<1> QED BY <1>3, <1>5, <1>6, <1>7, <1>8

(* An error whose renderer is negotiated is of a plain type, and of one    *)
(* that the client accepts if only plain types were negotiated.            *)
LEMMA ErrorTypes ==
  ASSUME OriginInv, NEW r \in Requests, NEW e, e.ctype = None
  PROVE  /\ renderer[r] # None =>
              /\ ToError(r, e).ctype = ErrorRenderer(r)
              /\ ErrorRenderer(r) \in ToSet(ep.renderers)
              /\ ep.streaming => ErrorRenderer(r) \in NonStreaming(ep)
              /\ ~ep.streaming => ErrorRenderer(r) = renderer[r]
         /\ renderer[r] = None =>
              /\ ErrorRenderer(r) = None
              /\ ToError(r, e).ctype = SettingsRenderer
<1>1. /\ RenderersAt(r)
      /\ renderer[r] \in ToSet(ep.renderers) \cup {None}
      /\ plain[r] \in NonStreaming(ep) \cup {None}
  BY DEF OriginInv, OriginAt, TypeInv, TypeOK, NonStreaming
<1>2. NonStreaming(ep) \subseteq ToSet(ep.renderers)
  BY DEF NonStreaming
<1>3. ToError(r, e).ctype = FirstOf(ErrorRenderer(r), SettingsRenderer)
  BY DEF ToError, FirstOf
<1>4. CASE renderer[r] = None
  BY <1>1, <1>3, <1>4 DEF RenderersAt, ErrorRenderer, FirstOf
<1>5. CASE renderer[r] # None /\ ep.streaming
  BY <1>1, <1>2, <1>3, <1>5 DEF RenderersAt, ErrorRenderer, FirstOf
<1>6. CASE renderer[r] # None /\ ~ep.streaming
  BY <1>1, <1>3, <1>6 DEF RenderersAt, ErrorRenderer, FirstOf
<1> QED BY <1>4, <1>5, <1>6

(* The response to a rejection passes the validation of the endpoint.      *)
LEMMA RejectionPasses ==
  ASSUME OriginInv, NEW r \in Requests, MadeForRejection(r),
         ep.validates => PassesValidation(r), NEW readable \in BOOLEAN
  PROVE  Fault(r, readable) = NoFault
<1> DEFINE sent == result[r]
           e == WithErrorBody(exc[r])
<1>1. /\ sent = ToError(r, e) /\ e.ctype = None
      /\ sent.kind = "http" /\ sent.body = "error" /\ sent.ctype \notin Files
      /\ sent.status = exc[r].status /\ sent.parts = exc[r].parts
  BY DEF MadeForRejection, ToError, WithErrorBody
<1>2. Fault(r, readable) = ResponseFault(ep, ErrorRenderer(r), sent, readable)
  BY <1>1 DEF Fault
<1>3. CASE ~ep.validates
  BY <1>2, <1>3 DEF ResponseFault
<1>4. CASE ep.validates
  <2>1. PICK spec \in ep.responses :
          /\ spec.status = sent.status
          /\ spec.model = "error"
          /\ spec.limit \in {{}, NonStreaming(ep)}
          /\ PartsMatch(spec, sent)
    BY <1>1, <1>4 DEF PassesValidation, PartsMatch
  <2>2. Documents(ep, sent.status) /\ SpecOf(ep, sent.status) = spec
    <3>1. SpecOf(ep, sent.status) \in ep.responses
      BY <2>1 DEF SpecOf
    <3>2. SpecOf(ep, sent.status).status = sent.status
      BY <2>1 DEF SpecOf
    <3> QED BY <2>1, <3>1, <3>2, ResponsesUnique DEF Documents, OriginInv, TypeInv
  <2>3. /\ sent.ctype \in NonStreaming(ep)
        /\ ErrorRenderer(r) \in {None, sent.ctype}
        /\ ErrorRenderer(r) = sent.ctype \/ sent.ctype \in ToSet(ep.parsers)
    <3>1. CASE renderer[r] = None
      BY <1>1, <1>4, <3>1, ErrorTypes DEF PassesValidation
    <3>2. CASE renderer[r] # None
      BY <1>1, <1>4, <3>2, ErrorTypes, EndpointBuilt DEF OriginInv, TypeInv
    <3> QED BY <3>1, <3>2
  <2>4. /\ sent.ctype \in ToSet(ep.renderers)
        /\ sent.ctype \notin Forms /\ sent.ctype # None
    <3>1. None \notin ToSet(ep.renderers)
      BY EndpointBuilt, NoneAssumption DEF OriginInv, TypeInv, ToSet
    <3>2. sent.ctype \in ToSet(ep.renderers)
      BY <2>3 DEF NonStreaming
    <3> QED BY <3>1, <3>2, EndpointBuilt DEF OriginInv, TypeInv
  <2>5. sent.status \in HTTPStatus
    BY <1>1, NoneAssumption
       DEF MadeForRejection, OriginInv, TypeInv, TypeOK, ExceptionType
  <2>6. ~Mismatched(ep, ErrorRenderer(r), sent)
    BY <2>3 DEF Mismatched
  <2>7. ParserFor(ep, ErrorRenderer(r), sent.ctype) = sent.ctype
    BY <2>3 DEF ParserFor
  <2>8. /\ ParseFault(ep, ErrorRenderer(r), sent, readable) = NoFault
        /\ Parsed(ep, ErrorRenderer(r), sent) = "error"
    BY <1>1, <2>4, <2>7 DEF ParseFault, Parsed
  <2>9. BodyFault(spec, "error", sent.ctype) = NoFault
    BY <2>1, <2>3 DEF BodyFault, Conforms
  <2>10. ContentFault(ep, ErrorRenderer(r), sent, readable) = NoFault
    BY <1>1, <2>2, <2>8, <2>9 DEF ContentFault
  <2> HIDE DEF sent
  <2> QED BY <1>2, <1>4, <2>1, <2>2, <2>4, <2>5, <2>6, <2>10 DEF ResponseFault
<1> QED BY <1>3, <1>4

(* What a validating endpoint returns as it is has the negotiated type.    *)
LEMMA ReturnedAccepted ==
  ASSUME OriginInv, NEW r \in Requests, NEW readable \in BOOLEAN,
         Fault(r, readable) = NoFault,
         result[r].kind # "raw", ep.validates, ep.negotiates, ~ep.streaming,
         renderer[r] # None, ~IsStream(result[r])
  PROVE  result[r].ctype = renderer[r]
<1>1. ErrorRenderer(r) = renderer[r]
  BY DEF OriginInv, OriginAt, RenderersAt, ErrorRenderer, FirstOf
<1>2. ResponseFault(ep, renderer[r], result[r], readable) = NoFault
  BY <1>1 DEF Fault
<1>3. ~Mismatched(ep, renderer[r], result[r])
  BY <1>2 DEF ResponseFault, NoFault
<1> QED BY <1>3 DEF Mismatched

(* What the endpoint made itself has a status that there is, and a type.   *)
LEMMA MadeHasType ==
  ASSUME OriginInv, NEW r \in Requests,
         MadeForRejection(r) \/ MadeForAPIError(r)
  PROVE  result[r].status \in HTTPStatus /\ result[r].ctype # None
<1>1. exc[r] \in ExceptionType
  BY DEF MadeForRejection, MadeForAPIError, OriginInv, TypeInv, TypeOK
<1>2. result[r].status = exc[r].status
  BY DEF MadeForRejection, MadeForAPIError, ToError, WithErrorBody
<1>3. result[r].ctype # None
  BY NoneAssumption, RendererAssumption
     DEF MadeForRejection, MadeForAPIError, ToError, WithErrorBody, FirstOf
<1> QED BY <1>1, <1>2, <1>3 DEF ExceptionType

(* A body that the endpoint rendered itself can be parsed back, unless it  *)
(* was rendered without negotiation as a type that the endpoint cannot.    *)
LEMMA UnparsableExplained ==
  ASSUME OriginInv, NEW r \in Requests, NEW sent, NEW readable \in BOOLEAN,
         sent = result[r], sent.kind = "http",
         ParseFault(ep, ErrorRenderer(r), sent, readable)
           \in {"DataParsingError", "RequestSerializationError"},
         MadeForRejection(r)
  PROVE  renderer[r] = None /\ SettingsRenderer \notin ToSet(ep.parsers)
<1> DEFINE e == WithErrorBody(exc[r])
           parser == ParserFor(ep, ErrorRenderer(r), sent.ctype)
<1>1. sent = ToError(r, e) /\ e.ctype = None /\ sent.body = "error"
  BY DEF MadeForRejection, ToError, WithErrorBody
<1>2. parser \in Forms \/ parser # sent.ctype
  BY <1>1 DEF ParseFault, NoFault
<1>3. sent.ctype \in ToSet(ep.renderers) => sent.ctype \notin Forms
  BY EndpointBuilt DEF OriginInv, TypeInv
<1>4. CASE renderer[r] = None
  <2>1. sent.ctype = SettingsRenderer /\ sent.ctype \notin Forms
    BY <1>1, <1>4, ErrorTypes, RendererAssumption
  <2> QED BY <1>2, <1>4, <2>1 DEF ParserFor
<1>5. CASE renderer[r] # None
  <2>1. ErrorRenderer(r) = sent.ctype /\ sent.ctype \notin Forms
    BY <1>1, <1>3, <1>5, ErrorTypes
  <2> QED BY <1>2, <2>1 DEF ParserFor
<1> QED BY <1>4, <1>5

(* Rendering an error without a renderer of its own fails for a file.      *)
LEMMA FileErrorExplained ==
  ASSUME OriginInv, NEW r \in Requests, NEW e, e.ctype = None,
         e.body = "error", AnswerEscapes(r, e)
  PROVE  ToErrorFault(r, e) = "NotImplementedError" /\ FileRendered(r)
<1>1. /\ ToErrorFault(r, e) = "NotImplementedError"
      /\ ToError(r, e).ctype \in Files
  BY RenderFaultListed DEF AnswerEscapes, ToErrorFault, RenderFaults
<1>2. ErrorRenderer(r) \in Files
  BY <1>1, RendererAssumption, ErrorTypes
<1> QED BY <1>1, <1>2 DEF ErrorRenderer, FirstOf, FileRendered

(* What leaves _make_http_response, and why.                               *)
LEMMA FaultExplained ==
  ASSUME OriginInv, NEW r \in Requests, MadeBy(r), NEW readable \in BOOLEAN,
         Fault(r, readable) \notin Caught \cup {NoFault}
  PROVE  \/ Fault(r, readable) = "NotImplementedError" /\ FileRendered(r)
         \/ Fault(r, readable) \in {"ValueError", "KeyError"} /\ result[r].by = "user"
         \/ /\ Fault(r, readable) \in {"DataParsingError", "RequestSerializationError"}
            /\ ReadDifferently(r)
<1> DEFINE sent == result[r]
           unparsed == ParseFault(ep, ErrorRenderer(r), sent, readable)
<1>1. CASE sent.kind = "raw"
  <2>1. ModificationFault(ep, renderer[r], sent.body) \in Caught \cup {NoFault}
    BY DEF ModificationFault, BodyFault, Caught
  <2>2. Fault(r, readable) = RenderFault(renderer[r], sent.body)
    BY <1>1, <2>1 DEF Fault
  <2>3. Fault(r, readable) = "NotImplementedError" /\ renderer[r] \in Files
    BY <2>2, RenderFaultListed DEF RenderFaults, Caught
  <2> QED BY <2>3 DEF FileRendered
<1>2. CASE sent.kind # "raw"
  <2>1. Fault(r, readable) = ResponseFault(ep, ErrorRenderer(r), sent, readable)
    BY <1>2 DEF Fault
  <2>2. \/ Fault(r, readable) = "ValueError" /\ sent.status \notin HTTPStatus
        \/ Fault(r, readable) = "KeyError" /\ sent.ctype = None
        \/ Fault(r, readable) = ContentFault(ep, ErrorRenderer(r), sent, readable)
    BY <2>1 DEF ResponseFault, Caught
  <2>3. CASE Fault(r, readable) \in {"ValueError", "KeyError"}
             /\ (sent.status \notin HTTPStatus \/ sent.ctype = None)
    BY <2>3, MadeHasType DEF MadeBy, MadeByUser
  <2>4. CASE Fault(r, readable) = ContentFault(ep, ErrorRenderer(r), sent, readable)
    <3>1. sent.kind = "http" /\ Fault(r, readable) = unparsed
      BY <2>4 DEF ContentFault, BodyFault, Caught
    <3>2. CASE unparsed = "NotImplementedError"
      <4>1. ErrorRenderer(r) \in Files
        BY <3>2 DEF ParseFault, NoFault
      <4> QED BY <3>1, <3>2, <4>1 DEF ErrorRenderer, FirstOf, FileRendered
    <3>3. CASE unparsed # "NotImplementedError"
      <4>1. unparsed \in {"DataParsingError", "RequestSerializationError"}
        BY <3>1, <3>3 DEF ParseFault
      <4>2. ReadDifferently(r)
        BY <3>1, <4>1, UnparsableExplained
           DEF ReadDifferently, MadeBy, MadeByUser, MadeForAPIError
      <4> QED BY <3>1, <4>1, <4>2
    <3> QED BY <3>2, <3>3
  <2> QED BY <2>2, <2>3, <2>4
<1> QED BY <1>1, <1>2

LEMMA MakeResponseKeepsOrigin ==
  ASSUME OriginInv, TypeInv', HandlersInv', NEW r \in Requests,
         MakeHttpResponse(r)
  PROVE  OriginInv'
<1>1. /\ pc[r] = "make_response" /\ MadeBy(r) /\ RenderersAt(r)
      /\ UNCHANGED <<ep, accept, renderer, plain, user, exc, asked, result>>
      /\ DOMAIN response = Requests /\ DOMAIN raised = Requests
  BY DEF MakeHttpResponse, OriginInv, OriginAt, attributes, TypeInv, TypeOK
<1>2. ASSUME NEW value, Respond(r, value), UNCHANGED raised,
             /\ Rejected(r)
             /\ ep.validates => PassesValidation(r)
             => value.status = exc[r].status /\ value.parts = exc[r].parts,
             /\ ep.validates /\ ep.negotiates /\ ~ep.streaming
             /\ renderer[r] # None /\ ~IsStream(value)
             => value.ctype = renderer[r]
      PROVE  OriginInv'
  <2>1. /\ response' = [response EXCEPT ![r] = value]
        /\ response'[r] = value
        /\ Goto(r, "done") \/ Goto(r, "convert")
    BY <1>1, <1>2 DEF Respond
  <2>2. KeptAt(r)'
    BY <1>1, <1>2, <2>1 DEF KeptAt, Rejected, PassesValidation
  <2>3. AcceptedAt(r)'
    BY <1>1, <1>2, <2>1 DEF AcceptedAt, RenderersAt
  <2> QED BY <1>1, <1>2, <2>1, <2>2, <2>3, AnswerKeepsOrigin
<1>3. Rejected(r) => MadeForRejection(r)
  BY <1>1 DEF Rejected, MadeBy, MadeByUser, MadeForAPIError, AskedGlobal
<1>4. /\ Rejected(r)
      /\ ep.validates => PassesValidation(r)
      => /\ \A readable \in BOOLEAN : Fault(r, readable) = NoFault
         /\ result[r].kind = "http"
         /\ result[r].status = exc[r].status /\ result[r].parts = exc[r].parts
  BY <1>3, RejectionPasses DEF MadeForRejection, ToError, WithErrorBody
<1>5. ASSUME NEW readable \in BOOLEAN, Fault(r, readable) = NoFault,
             Respond(r, Returned(r)), UNCHANGED raised
      PROVE  OriginInv'
  <2>1. CASE result[r].kind = "raw"
    <3>1. Returned(r).ctype = renderer[r]
      BY <2>1 DEF Built, Returned
    <3> QED BY <1>2, <1>4, <1>5, <2>1, <3>1
  <2>2. CASE result[r].kind # "raw"
    <3>1. Returned(r) = result[r]
      BY <2>2 DEF Returned
    <3> QED BY <1>2, <1>4, <1>5, <2>2, <3>1, ReturnedAccepted
  <2> QED BY <2>1, <2>2
<1>6. ASSUME NEW readable \in BOOLEAN, Fault(r, readable) \in Caught,
             Respond(r, Fallback(r, Fault(r, readable))), UNCHANGED raised
      PROVE  OriginInv'
  <2> DEFINE fault == Fault(r, readable)
  <2>1. fault # NoFault
    BY <1>6 DEF Caught, NoFault
  <2>2. Fallback(r, fault).ctype = ToError(r, FrameworkError(fault, {})).ctype
    BY DEF Fallback, ToError
  <2>3. FrameworkError(fault, {}).ctype = None
    BY DEF FrameworkError
  <2>4. renderer[r] # None /\ ~ep.streaming =>
          Fallback(r, fault).ctype = renderer[r]
    BY <2>2, <2>3, ErrorTypes
  <2> QED BY <1>2, <1>4, <1>6, <2>1, <2>4
<1>7. ASSUME NEW kind, Escape(r, ExceptionOf(kind)), UNCHANGED response,
             \/ kind = "NotImplementedError" /\ FileRendered(r)
             \/ kind \in {"ValueError", "KeyError"} /\ result[r].by = "user"
             \/ /\ kind \in {"DataParsingError", "RequestSerializationError"}
                /\ ReadDifferently(r)
      PROVE  OriginInv'
  <2>1. raised'[r].kind = kind
    BY <1>1, <1>7 DEF Escape, ExceptionOf
  <2>2. ExplainedAt(r)'
    BY <1>1, <1>7, <2>1
       DEF ExplainedAt, FileRendered, ReadDifferently, Answers
  <2> QED BY <1>1, <1>7, <2>2, EscapeKeepsOrigin
<1>8. ASSUME NEW fault \in Caught, UNCHANGED response,
             AnswerEscapes(r, FrameworkError(fault, {}))
      PROVE  OriginInv'
  <2> DEFINE e == FrameworkError(fault, {})
  <2>1. e.ctype = None /\ e.body = "error"
    BY DEF FrameworkError
  <2>2. ToErrorFault(r, e) = "NotImplementedError" /\ FileRendered(r)
    BY <1>8, <2>1, FileErrorExplained
  <2> QED BY <1>7, <1>8, <2>2 DEF AnswerEscapes
<1> QED BY <1>1, <1>5, <1>6, <1>7, <1>8, FaultCases, FaultExplained

(* The handlers, and who is asked when they answer.                        *)
LEMMA LayerTyped == EndpointLayer \in Seq(STRING \cup {"endpoint", "controller"})
BY DEF EndpointLayer

LEMMA HandlersKeepOrigin ==
  ASSUME OriginInv, TypeInv', HandlersInv', NEW r \in Requests, HandleError(r)
  PROVE  OriginInv'
<1>1. /\ OriginAt(r)
      /\ DOMAIN pc = Requests /\ DOMAIN raised = Requests
      /\ DOMAIN asked = Requests /\ DOMAIN result = Requests
      /\ UNCHANGED <<ep, accept, renderer, plain, exc, response>>
  BY DEF OriginInv, HandlersInv, HandleError, AnswerAPIError, EndpointHandler,
         ControllerHandler, GlobalHandler, TypeInv, TypeOK, attributes
(* A handler passes the exception on to the next one.                      *)
<1>2. ASSUME NEW step \in {"controller_handler", "global_handler"},
             Goto(r, step), UNCHANGED result, pc[r] \in Handling,
             \A s \in Requests \ {r} : raised'[s] = raised[s] /\ asked'[s] = asked[s]
      PROVE  OriginInv'
  <2>1. pc'[r] = step /\ \A s \in Requests \ {r} : pc'[s] = pc[s]
    BY <1>1, <1>2 DEF Goto
  <2>2. OriginAt(r)'
    BY <1>1, <1>2, <2>1 DEF OriginAt, RenderersAt, Handling
  <2> QED BY <1>1, <1>2, <2>1, <2>2, OriginFrame DEF OriginInv
(* A handler of the user answers.                                          *)
<1>3. ASSUME NEW outcome \in HandlerOutcomes, ~outcome.raises,
             Settle(r, outcome.value), UNCHANGED raised, ~AskedGlobal(r)',
             \A s \in Requests \ {r} : asked'[s] = asked[s]
      PROVE  OriginInv'
  <2>1. result'[r] = outcome.value /\ outcome.value.by = "user"
    BY <1>1, <1>3, OutcomesAssumption DEF Settle
  <2>2. MadeBy(r)'
    BY <1>3, <2>1 DEF MadeBy, MadeByUser
  <2> QED BY <1>1, <1>3, <2>2, SettleKeepsOrigin
<1>4. CASE AnswerAPIError(r)
  <2>1. /\ exc[r] # None /\ Answers(exc[r]) /\ asked[r] = <<>>
        /\ UNCHANGED asked
    BY <1>1, <1>4 DEF AnswerAPIError, OriginAt, Handling, OriginInv, HandlersInv,
                      Unhandled
  <2>2. CASE AnswerEscapes(r, exc[r]) /\ UNCHANGED result
    <3>1. /\ ToErrorFault(r, exc[r]) \in RenderFaults
          /\ Escape(r, ExceptionOf(ToErrorFault(r, exc[r])))
          /\ raised'[r].kind = ToErrorFault(r, exc[r])
      BY <1>1, <2>2 DEF AnswerEscapes, Escape, ExceptionOf
    <3>2. ASSUME ToErrorFault(r, exc[r]) = "DataRenderingError"
          PROVE  ExplainedAt(r)'
      BY <1>1, <2>1, <3>2, RenderFaultListed
         DEF ToErrorFault, ExplainedAt, Answers
    <3>3. ASSUME ToErrorFault(r, exc[r]) = "NotImplementedError"
          PROVE  ExplainedAt(r)'
      <4>1. ToError(r, exc[r]).ctype \in Files
        BY <3>3, RenderFaultListed DEF ToErrorFault
      <4>2. FileRendered(r)
        BY <2>1, <4>1, RendererAssumption
           DEF ToError, FirstOf, ErrorRenderer, FileRendered
      <4> QED BY <1>1, <3>1, <3>3, <4>2 DEF ExplainedAt, FileRendered
    <3>4. ExplainedAt(r)'
      BY <3>1, <3>2, <3>3 DEF RenderFaults
    <3> QED BY <1>1, <2>1, <2>2, <3>1, <3>4, EscapeKeepsOrigin
  <2>3. CASE AnswerSettles(r, exc[r])
    <3>1. result'[r] = ToError(r, exc[r])'
      BY <1>1, <2>3 DEF AnswerSettles, Settle, ToError, ErrorRenderer
    <3>2. MadeBy(r)'
      BY <1>1, <2>1, <3>1 DEF MadeBy, MadeForAPIError, AskedGlobal, Answers
    <3> QED BY <1>1, <2>1, <2>3, <3>2, SettleKeepsOrigin DEF AnswerSettles
  <2> QED BY <1>4, <2>2, <2>3, AnswerErrorCases DEF AnswerAPIError
<1>5. CASE EndpointHandler(r)
  <2>1. /\ asked' = [asked EXCEPT ![r] = Append(asked[r], "endpoint")]
        /\ asked[r] = <<>> /\ pc[r] = "endpoint_handler" /\ UNCHANGED raised
    BY <1>5 DEF EndpointHandler, Ask, OriginInv, HandlersInv
  <2>2. ~AskedGlobal(r)'
    <3>1. asked'[r] = Append(<<>>, "endpoint") /\ <<>> \in Seq({})
      BY <1>1, <2>1
    <3>2. Last(asked'[r]) = "endpoint"
      BY <3>1, LastAppended
    <3> QED BY <3>2 DEF AskedGlobal
  <2>3. \/ Goto(r, "controller_handler") /\ UNCHANGED result
        \/ \E outcome \in HandlerOutcomes :
             ~outcome.raises /\ Settle(r, outcome.value)
    BY <1>5 DEF EndpointHandler
  <2> QED BY <1>1, <1>2, <1>3, <2>1, <2>2, <2>3 DEF Handling
<1>6. CASE ControllerHandler(r)
  <2>1. /\ asked' = [asked EXCEPT ![r] = Append(asked[r], "controller")]
        /\ asked[r] = EndpointLayer /\ pc[r] = "controller_handler"
    BY <1>6 DEF ControllerHandler, Ask, OriginInv, HandlersInv
  <2>2. ~AskedGlobal(r)'
    <3>1. Last(asked'[r]) = "controller"
      BY <1>1, <2>1, LastAppended, LayerTyped
    <3> QED BY <3>1 DEF AskedGlobal
  <2>3. \/ /\ Goto(r, "global_handler") /\ UNCHANGED result
           /\ \A s \in Requests \ {r} : raised'[s] = raised[s]
        \/ \E outcome \in HandlerOutcomes :
             ~outcome.raises /\ Settle(r, outcome.value) /\ UNCHANGED raised
    BY <1>1, <1>6 DEF ControllerHandler
  <2> QED BY <1>1, <1>2, <1>3, <2>1, <2>2, <2>3 DEF Handling
<1>7. CASE GlobalHandler(r)
  <2>1. /\ asked' = [asked EXCEPT ![r] = Append(asked[r], "global")]
        /\ exc[r] # None /\ ~Answers(exc[r])
    BY <1>1, <1>7 DEF GlobalHandler, Ask, OriginAt, Handling, OriginInv, HandlersInv
  <2>2. CASE Formatted(exc[r]) /\ AnswerSettles(r, WithErrorBody(exc[r]))
    <3>1. /\ result'[r] = ToError(r, WithErrorBody(exc[r]))
          /\ ToError(r, WithErrorBody(exc[r])) = ToError(r, WithErrorBody(exc[r]))'
      BY <1>1, <2>2 DEF AnswerSettles, Settle, ToError, ErrorRenderer, WithErrorBody
    <3>2. ToError(r, WithErrorBody(exc[r])).ctype \notin Files
      BY <2>2, RenderFaultListed DEF AnswerSettles, ToErrorFault, WithErrorBody
    <3>3. MadeBy(r)'
      BY <1>1, <2>1, <2>2, <3>1, <3>2 DEF MadeBy, MadeForRejection, Formatted
    <3> QED BY <1>1, <2>1, <2>2, <3>3, SettleKeepsOrigin DEF AnswerSettles
  <2>4. CASE Formatted(exc[r]) /\ AnswerEscapes(r, WithErrorBody(exc[r]))
             /\ UNCHANGED result
    <3> DEFINE e == WithErrorBody(exc[r])
    <3>1. e.ctype = None /\ e.body = "error"
      BY DEF WithErrorBody
    <3>2. ToErrorFault(r, e) = "NotImplementedError" /\ FileRendered(r)
      BY <2>4, <3>1, FileErrorExplained
    <3>3. Escape(r, ExceptionOf("NotImplementedError"))
      BY <2>4, <3>2 DEF AnswerEscapes
    <3>4. raised'[r].kind = "NotImplementedError"
      BY <1>1, <3>3 DEF Escape, ExceptionOf
    <3>5. ExplainedAt(r)'
      BY <1>1, <3>2, <3>4 DEF ExplainedAt, FileRendered
    <3> QED BY <1>1, <2>1, <2>4, <3>3, <3>5, EscapeKeepsOrigin
  <2>3. CASE ~Formatted(exc[r]) /\ Escape(r, raised[r]) /\ UNCHANGED result
    <3>1. ExplainedAt(r)'
      BY <1>1, <2>1, <2>3 DEF ExplainedAt, Answers, Formatted
    <3> QED BY <1>1, <2>1, <2>3, <3>1, EscapeKeepsOrigin
  <2> QED BY <1>7, <2>2, <2>3, <2>4, AnswerErrorCases DEF GlobalHandler
<1> QED BY <1>4, <1>5, <1>6, <1>7 DEF HandleError

LEMMA OriginStep == OriginInv /\ [Next]_vars => OriginInv'
<1> SUFFICES ASSUME OriginInv, [Next]_vars PROVE OriginInv'
  OBVIOUS
<1> USE DEF attributes, failure
<1>0. TypeInv' /\ HandlersInv' /\ TypeInv /\ TypeOK
  BY TypeStep, HandlersStep DEF OriginInv, TypeInv
<1>1. /\ Unexpected \in ExceptionType
      /\ \A kind \in DOMAIN ErrorStatus :
           FrameworkError(kind, {}) \in ExceptionType
  <2>1. Unexpected \in ExceptionType
    BY ExceptionOfTyped DEF Unexpected
  <2> QED BY <2>1, FrameworkErrorTyped
<1>2. ASSUME NEW r \in Requests, Dispatch(r) PROVE OriginInv'
  <2>1. pc[r] = "arrived" /\ DOMAIN response = Requests /\ asked[r] = <<>>
    BY <1>2 DEF Dispatch, MethodNotAllowed, ShortCircuit, CallEndpoint,
                OriginInv, HandlersInv, Unhandled
  <2>2. UNCHANGED <<ep, accept, renderer, plain, exc, raised, asked, result>>
    BY <1>2 DEF Dispatch, MethodNotAllowed, ShortCircuit, CallEndpoint
  <2>3. CASE CallEndpoint(r)
    BY <1>0, <2>2, <2>3, QuietKeepsOrigin DEF CallEndpoint, Handling
  <2>4. ASSUME NEW value, response' = [response EXCEPT ![r] = value],
               value.by \in {"dispatch", "middleware"},
               NEW step \in {"convert", "done"}, Goto(r, step)
        PROVE  OriginInv'
    <3>1. response'[r] = value
      BY <2>1, <2>4
    <3>2. KeptAt(r)' /\ AcceptedAt(r)'
      BY <2>1, <2>2, <2>4, <3>1 DEF KeptAt, Rejected, AcceptedAt
    <3> QED BY <1>0, <2>2, <2>4, <3>2, AnswerKeepsOrigin
  <2>5. CASE MethodNotAllowed(r)
    BY <2>4, <2>5 DEF MethodNotAllowed
  <2>6. CASE ShortCircuit(r)
    BY <2>4, <2>6 DEF ShortCircuit
  <2> QED BY <1>2, <2>3, <2>5, <2>6 DEF Dispatch
<1>3. ASSUME NEW r \in Requests, RunChecks(r) PROVE OriginInv'
  <2>1. ASSUME NEW stage \in Stage, PassThrottle(r, stage) PROVE OriginInv'
    <3>1. UNCHANGED <<ep, pc, accept, renderer, plain, exc, raised, asked,
                      result, response>>
      BY <2>1 DEF PassThrottle
    <3>2. OriginAt(r)'
      BY <3>1 DEF OriginInv, OriginAt, RenderersAt, MadeBy, MadeByUser,
                  MadeForAPIError, MadeForRejection, AskedGlobal, ToError,
                  ErrorRenderer, KeptAt, Rejected, PassesValidation, AcceptedAt,
                  ExplainedAt, FileRendered, ReadDifferently
    <3> QED BY <1>0, <3>1, <3>2, OriginFrame DEF OriginInv
  <2>2. ASSUME NEW stage \in Stage, RejectThrottle(r, stage) PROVE OriginInv'
    <3>1. PICK i \in DOMAIN ep[stage] :
            Raise(r, FrameworkError("TooManyRequestsError", ep[stage][i].parts))
      BY <2>2 DEF RejectThrottle
    <3>2. ep[stage][i].parts \in SUBSET STRING
      <4>1. ep[stage] \in Seq(ThrottleType)
        BY <1>0, EndpointTyped DEF TypeInv, Stage
      <4> QED BY <4>1, ThrottlesTyped
    <3>3. FrameworkError("TooManyRequestsError", ep[stage][i].parts)
            \in ExceptionType
      BY <3>2, FrameworkErrorTyped DEF ErrorStatus
    <3> QED BY <1>0, <2>2, <3>1, <3>3, RaiseKeepsOrigin DEF RejectThrottle
  <2>3. ASSUME NEW stage \in Stage, FinishThrottles(r, stage) PROVE OriginInv'
    <3>1. Goto(r, "negotiate") \/ Goto(r, "parse")
      BY <2>3 DEF FinishThrottles
    <3> QED BY <1>0, <2>3, <3>1, QuietKeepsOrigin DEF FinishThrottles, Handling
  <2>4. CASE NegotiateResponse(r)
    <3>1. UNCHANGED <<ep, response>>
      BY <2>4 DEF NegotiateResponse
    <3>2. CASE NegotiationFails(r)
      <4>1. FrameworkError("NotAcceptableError", {}) \in ExceptionType
        BY <1>1 DEF ErrorStatus
      <4> QED BY <1>0, <3>1, <3>2, <4>1, RaiseKeepsOrigin DEF NegotiationFails
    <3>3. ASSUME NEW chosen, NEW other, NegotiationChooses(r, chosen, other)
          PROVE  OriginInv'
      <4>1. /\ pc'[r] = "auth" /\ renderer'[r] = chosen /\ plain'[r] = other
            /\ \A s \in Requests \ {r} :
                 /\ pc'[s] = pc[s] /\ renderer'[s] = renderer[s]
                 /\ plain'[s] = plain[s]
            /\ UNCHANGED <<accept, exc, raised, asked, result>>
        BY <1>0, <3>3 DEF NegotiationChooses, Goto, TypeOK
      <4>2. /\ chosen # None /\ (accept[r] # None => chosen \in ToSet(accept[r]))
            /\ IF ep.streaming THEN other # None ELSE other = None
        <5>1. None \notin NonStreaming(ep)
          <6>1. ep.renderers \in Seq(STRING) \ {<<>>}
            BY <1>0, EndpointBuilt DEF TypeInv
          <6> QED BY <6>1, NoneAssumption DEF NonStreaming, ToSet
        <5> QED BY <3>3, <5>1 DEF NegotiationChooses
      <4>3. OriginAt(r)'
        BY <3>1, <4>1, <4>2 DEF OriginAt, RenderersAt, Handling
      <4> QED BY <1>0, <3>1, <4>1, <4>3, OriginFrame DEF OriginInv
    <3>4. accept[r] \in Accepts
      BY <1>0 DEF TypeOK
    <3> QED BY <1>0, <2>4, <3>2, <3>3, <3>4, NegotiationCases DEF TypeInv
  <2>5. CASE RunAuth(r) \/ FinishAuth(r)
    <3>1. UNCHANGED <<ep, accept, renderer, plain, response>> /\ pc[r] = "auth"
      BY <2>5 DEF RunAuth, FinishAuth
    <3>2. \/ Goto(r, "after") /\ UNCHANGED <<failure, result>>
          \/ UNCHANGED <<pc, failure, result>>
          \/ \E e \in ExceptionType : Raise(r, e)
      BY <1>1, <2>5 DEF RunAuth, FinishAuth, ErrorStatus
    <3>3. CASE Goto(r, "after") /\ UNCHANGED <<failure, result>>
      BY <1>0, <3>1, <3>3, QuietKeepsOrigin DEF Handling
    <3>4. CASE UNCHANGED <<pc, failure, result>>
      <4>1. OriginAt(r)'
        BY <3>1, <3>4 DEF OriginInv, OriginAt, RenderersAt, Handling
      <4> QED BY <1>0, <3>1, <3>4, <4>1, OriginFrame DEF OriginInv
    <3>5. CASE \E e \in ExceptionType : Raise(r, e)
      BY <1>0, <3>1, <3>5, RaiseKeepsOrigin
    <3> QED BY <3>2, <3>3, <3>4, <3>5
  <2> QED BY <1>3, <2>1, <2>2, <2>3, <2>4, <2>5 DEF RunChecks
<1>4. ASSUME NEW r \in Requests, ParseRequest(r) PROVE OriginInv'
  <2>1. UNCHANGED <<ep, accept, renderer, plain, response>>
    BY <1>4 DEF ParseRequest
  <2>2. \/ Goto(r, "call") /\ UNCHANGED <<failure, result>>
        \/ \E e \in ExceptionType : Raise(r, e)
    BY <1>1, <1>4 DEF ParseRequest, ErrorStatus
  <2> QED BY <1>0, <2>1, <2>2, QuietKeepsOrigin, RaiseKeepsOrigin DEF Handling
<1>5. ASSUME NEW r \in Requests, CallMethod(r) PROVE OriginInv'
  <2>1. /\ UNCHANGED <<ep, accept, renderer, plain, response>>
        /\ asked[r] = <<>> /\ DOMAIN result = Requests
    BY <1>5 DEF CallMethod, OriginInv, HandlersInv, Unhandled
  <2>2. PICK outcome \in MethodOutcomes :
          IF outcome.raises THEN Raise(r, outcome.value)
          ELSE Settle(r, outcome.value) /\ UNCHANGED failure
    BY <1>5 DEF CallMethod
  <2>3. CASE outcome.raises
    BY <1>0, <2>1, <2>2, <2>3, OutcomesAssumption, RaiseKeepsOrigin
  <2>4. CASE ~outcome.raises
    <3>1. result'[r] = outcome.value /\ outcome.value.by = "user"
      BY <2>1, <2>2, <2>4, OutcomesAssumption DEF Settle
    <3>2. MadeBy(r)'
      BY <2>1, <2>2, <2>4, <3>1 DEF MadeBy, MadeByUser, AskedGlobal
    <3> QED BY <1>0, <2>1, <2>2, <2>4, <3>2, SettleKeepsOrigin
  <2> QED BY <2>3, <2>4
<1>6. ASSUME NEW r \in Requests, ApplyConverter(r) PROVE OriginInv'
  <2>1. PICK value : /\ response' = [response EXCEPT ![r] = value]
                     /\ value = IF response[r].status \in ep.wraps
                                THEN Converted(response[r]) ELSE response[r]
    BY <1>6 DEF ApplyConverter
  <2>2. /\ pc[r] = "convert" /\ OriginAt(r) /\ response'[r] = value
        /\ UNCHANGED <<ep, accept, renderer, plain, exc, raised, asked, result>>
    BY <1>6, <2>1 DEF ApplyConverter, OriginInv
  <2>3. value = response[r] \/ value.by = "converter"
    BY <2>1 DEF Converted
  <2>4. KeptAt(r)'
    BY <2>2, <2>3 DEF OriginAt, KeptAt, Rejected, PassesValidation
  <2>5. AcceptedAt(r)'
    BY <2>2, <2>3 DEF OriginAt, AcceptedAt
  <2> QED BY <1>0, <1>6, <2>1, <2>2, <2>4, <2>5, AnswerKeepsOrigin
          DEF ApplyConverter
<1>7. ASSUME NEW r \in Requests, Cancel(r) PROVE OriginInv'
  BY <1>0, <1>7, QuietKeepsOrigin DEF Cancel, Handling
<1>8. CASE UNCHANGED vars
  <2>1. ASSUME NEW r \in Requests PROVE OriginAt(r)'
    BY <1>8 DEF vars, OriginInv, OriginAt, RenderersAt, MadeBy, MadeByUser,
                MadeForAPIError, MadeForRejection, AskedGlobal, ToError,
                ErrorRenderer, KeptAt, Rejected, PassesValidation, AcceptedAt,
                ExplainedAt, FileRendered, ReadDifferently
  <2> QED BY <1>0, <1>8, <2>1 DEF OriginInv, vars
<1> QED
  BY <1>0, <1>2, <1>3, <1>4, <1>5, <1>6, <1>7, <1>8, HandlersKeepOrigin,
     MakeResponseKeepsOrigin DEF Next, Step

(* A rejection that no handler intervened in keeps its status and its      *)
(* headers through validation, whatever renderers were negotiated          *)
(* (global_error_handler, Controller.to_error, ResponseValidator).         *)
THEOREM StatusKeptHolds == Spec => []StatusKept
<1>1. OriginInv => StatusKept
  BY DEF OriginInv, OriginAt, KeptAt, StatusKept
<1> QED BY <1>1, OriginInit, OriginStep, PTL DEF Spec

(* Once a renderer is negotiated, validated responses, errors and          *)
(* fallbacks have a type that the client accepts (validate_negotiation).   *)
THEOREM NegotiatedTypeHolds == Spec => []NegotiatedType
<1>1. OriginInv => NegotiatedType
  BY DEF OriginInv, OriginAt, AcceptedAt, NegotiatedType
<1> QED BY <1>1, OriginInit, OriginStep, PTL DEF Spec

(* Nothing leaves the endpoint as an exception but what no default handler *)
(* formats, what an APIError cannot render, whatever meets a FileRenderer, *)
(* the status or the missing type of the user's own response, and what may *)
(* not be read back (Endpoint.handle_error, Endpoint._make_http_response). *)
THEOREM EscapesExplainedHolds == Spec => []EscapesExplained
<1>1. OriginInv => EscapesExplained
  BY DEF OriginInv, OriginAt, ExplainedAt, EscapesExplained
<1> QED BY <1>1, OriginInit, OriginStep, PTL DEF Spec
=============================================================================
