\* The endpoints of two examples of the documentation.
SPECIFICATION MCSpec
CONSTANTS
  None = None
  Requests = {r1, r2}
  HTTPStatus = {200, 206, 302, 400, 401, 402, 403, 406, 418, 422, 429, 500}
  Streams = {"sse"}
  Files = {"pdf"}
  Forms = {"form"}
  Endpoints <- DocumentedEndpoints
  Accepts <- PipelineAccepts
  MethodOutcomes <- FewReturns
  HandlerOutcomes <- PipelineHandlers
  SettingsRenderer = "json"
INVARIANTS
  RejectionKeepsStatus
CHECK_DEADLOCK FALSE
