\* Endpoints of every shape, with the user code and the clients of MCEndpoint.
SPECIFICATION MCFairSpec
CONSTANTS
  None = None
  Requests = {r1, r2}
  HTTPStatus = {200, 206, 302, 400, 401, 402, 403, 406, 418, 422, 429, 500}
  Streams = {"sse"}
  Files = {"pdf"}
  Forms = {"form"}
  Endpoints <- PipelineEndpoints
  Accepts <- PipelineAccepts
  MethodOutcomes <- PipelineMethod
  HandlerOutcomes <- PipelineHandlers
  SettingsRenderer = "json"
INVARIANTS
  TypeOK
  Guarded
  BruteForceBound
  SoundResponse
  HandlersInOrder
  StatusKept
  NegotiatedType
  EscapesExplained
PROPERTIES
  Answered
\* A request ends with its response.
CHECK_DEADLOCK FALSE
