\* Two endpoints with the default operation id and the same method.
CONSTANTS
  None = None
  w1 = w1
  w2 = w2
  e1 = e1
  e2 = e2
  ann = ann
  staff = staff
  op1 = op1
  op2 = op2
  Worker = {w1, w2}
  Endpoint = {e1, e2}
  Client = {ann}
  OperationId <- DefaultIds
  Method <- AllGet
  NumRules = 1
  Rule <- OneRule
  CacheKey <- OneKey
  MaxClock = 2
SPECIFICATION Spec
INVARIANT RejectedByOwnTraffic
