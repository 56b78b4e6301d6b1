----------------------------- MODULE MCEndpoint -----------------------------
(***************************************************************************)
(* The endpoints, the user code and the clients that TLC checks the        *)
(* endpoint pipeline with.                                                 *)
(***************************************************************************)
EXTENDS EndpointPipeline

Spec200 == [status |-> 200, model |-> "data", required |-> {"Etag"},
            optional |-> {"sid"}, limit |-> {}, streaming |-> FALSE]
Spec302 == [ErrorSpec(302, {"Location"}) EXCEPT !.model = "empty"]
Spec402 == [ErrorSpec(402, {}) EXCEPT !.limit = {"json"}]
Spec206 == [Spec200 EXCEPT !.status = 206, !.model = "file", !.required = {}]
Events == [Spec200 EXCEPT !.streaming = TRUE]

(* An @modify endpoint with json and xml, nothing else.                    *)
Plain ==
  [before |-> <<>>, after |-> <<>>, auths |-> 0, components |-> TRUE,
   semantic |-> TRUE, validates |-> TRUE, negotiates |-> TRUE,
   declared |-> {Spec200, Spec302, Spec402}, excluded |-> {}, responses |-> {},
   renderers |-> <<"json", "xml">>, parsers |-> <<"json", "xml">>,
   modification |-> 200, streaming |-> FALSE, error_handler |-> FALSE,
   controller_handler |-> FALSE, is_async |-> FALSE, wraps |-> {}]

Limit(n, parts) == [limit |-> n, parts |-> parts]

Handled == [Plain EXCEPT !.error_handler = TRUE, !.controller_handler = TRUE,
                         !.auths = 1, !.declared = @ \cup {Spec206}]

(* @validate, with files, types of its own choice and a middleware.        *)
Manual == [Plain EXCEPT !.modification = None, !.negotiates = FALSE,
                        !.declared = @ \cup {Spec206}, !.wraps = {402},
                        !.parsers = <<"xml", "json">>, !.error_handler = TRUE]

Sse == [Plain EXCEPT !.modification = None, !.streaming = TRUE, !.auths = 1,
                     !.declared = {Events, Spec402},
                     !.renderers = <<"sse", "json">>]

Guards == [Plain EXCEPT !.before = <<Limit(1, {"Retry"})>>, !.auths = 2,
                        !.after = <<Limit(1, {"Retry"})>>,
                        !.components = FALSE, !.is_async = TRUE]

(* Two throttles with other headers.                                       *)
Mixed == [Guards EXCEPT !.before = <<Limit(2, {"Retry"}), Limit(1, {"Rate"})>>,
                        !.auths = 1, !.after = <<>>, !.is_async = FALSE]

XmlOnly == [Plain EXCEPT !.renderers = <<"xml">>, !.parsers = <<"xml">>,
                         !.components = FALSE]

(* A controller that sends files only.                                     *)
Download == [Plain EXCEPT !.modification = None, !.renderers = <<"pdf">>,
                          !.auths = 1, !.declared = {Spec206, Spec302}]

PipelineEndpoints ==
  {Plain, Handled, Manual, Sse, Guards, Mixed, XmlOnly, Download,
   [Handled EXCEPT !.validates = FALSE, !.is_async = TRUE],
   [Plain EXCEPT !.semantic = FALSE, !.error_handler = TRUE],
   [Plain EXCEPT !.excluded = {406}, !.controller_handler = TRUE],
   [Plain EXCEPT !.parsers = <<"form">>]}

(* docs/examples: negotiation/per_endpoint.py and components/body_form.py. *)
DocumentedEndpoints ==
  {[XmlOnly EXCEPT !.before = <<Limit(1, {"Retry"})>>],
   [Plain EXCEPT !.parsers = <<"form">>]}

PipelineAccepts ==
  {None, <<"json">>, <<"xml", "json">>, <<"sse">>, <<"html">>}

-----------------------------------------------------------------------------
Returns(value) == [raises |-> FALSE, value |-> value]
Raises(value) == [raises |-> TRUE, value |-> value]

Raw(body) == [kind |-> "raw", body |-> body, by |-> "user"]

Http == [kind |-> "http", status |-> 200, parts |-> {"Etag"}, body |-> "data",
         ctype |-> "json", by |-> "user"]

File == [Http EXCEPT !.kind = "file", !.status = 206, !.parts = {"sid"},
                     !.body = "file", !.ctype = "xml"]

Stream == [Http EXCEPT !.kind = "stream", !.ctype = "sse"]

APIError ==
  [kind |-> "APIError", status |-> 402, parts |-> {}, body |-> "error",
   ctype |-> None]

Redirect == [APIError EXCEPT !.kind = "RedirectTo", !.status = 302,
                             !.parts = {"Location"}, !.body = "empty"]

PipelineMethod ==
  {Returns(v) : v \in {
     Raw("data"), Raw("file"), Raw("unrenderable"), Http, File, Stream,
     [Http EXCEPT !.parts = {}], [Http EXCEPT !.status = 418],
     [Http EXCEPT !.status = 299], [Http EXCEPT !.ctype = None],
     [File EXCEPT !.ctype = "pdf"],
     [Http EXCEPT !.body = "garbage"], [Http EXCEPT !.ctype = "xml"],
     [Http EXCEPT !.kind = "unsupported"]}}
  \cup
  {Raises(v) : v \in {
     APIError, Redirect, Unexpected, [APIError EXCEPT !.status = 403],
     [APIError EXCEPT !.body = "unrenderable"], [APIError EXCEPT !.ctype = "xml"],
     FrameworkError("NotAuthenticatedError", {})}}

Problem == [Http EXCEPT !.status = 402, !.parts = {}, !.body = "error"]

PipelineHandlers ==
  {Returns(Problem), Returns([Problem EXCEPT !.body = "garbage"]),
   Returns([Problem EXCEPT !.body = "data"]), Raises(Unexpected),
   Raises(APIError)}

FewReturns == {Returns(Raw("data")), Raises(Unexpected)}

-----------------------------------------------------------------------------
(* Without throttles the requests of an endpoint share nothing: one is     *)
(* enough.                                                                 *)
Active ==
  IF ep.before = <<>> /\ ep.after = <<>> THEN {CHOOSE r \in Requests : TRUE}
  ELSE Requests

MCInit ==
  /\ Init
  /\ \A r \in Requests \ Active : accept[r] = None

MCNext == \E r \in Active : Step(r) \/ Cancel(r)

MCSpec == MCInit /\ [][MCNext]_vars

(* Django runs every view that it has started.                             *)
MCFairSpec == MCSpec /\ \A r \in Requests : WF_vars(r \in Active /\ Step(r))

(* Every request is answered, escapes to Django or is cancelled: in        *)
(* particular an error response is not validated again (_make_http_response). *)
Answered ==
  \A r \in Requests :
    r \in Active /\ pc[r] = "arrived"
      ~> pc[r] \in {"done", "escaped", "cancelled"}
=============================================================================
