\* One process and one endpoint with a SimpleRate and a LeakyBucket throttle.
CONSTANTS
  None = None
  w1 = w1
  w2 = w2
  e1 = e1
  e2 = e2
  ann = ann
  staff = staff
  op1 = op1
  op2 = op2
  Worker = {w1, w2}
  Endpoint = {e1}
  Client = {ann, staff}
  OperationId <- DistinctIds
  Method <- AllGet
  NumRules = 2
  Rule <- MCRule
  CacheKey <- MCCacheKey
  MaxClock = 2
SPECIFICATION FairSpec
INVARIANTS
  TypeOK
  WindowQuota
  BurstBound
  LeakyBound
  RetryAfterSuffices
  RemainingHonest
PROPERTIES
  Atomic
  Answered
