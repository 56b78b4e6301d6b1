\* A client disconnects while an event task with pings is pending.
CONSTANTS
  MaxItems = 2
  Scripts <- MCScripts
  Handlers <- MCHandlers
SPECIFICATION Spec
INVARIANT DisconnectIsGraceful
CHECK_DEADLOCK FALSE
