\* Every iterator of up to three items, with and without pings.
CONSTANTS
  MaxItems = 3
  Scripts <- MCScripts
  Handlers <- MCHandlers
SPECIFICATION FairSpec
INVARIANTS
  TypeOK
  OneAhead
  Settled
PROPERTIES
  Delivers
  KeepAlive
  Finishes
CHECK_DEADLOCK FALSE
