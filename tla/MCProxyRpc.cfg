SPECIFICATION MCSpec
CONSTANTS
  Clients = {1, 2}
  Owner = 1
  Script <- MCScript
  MaxPeers = 3
  MayAbort = FALSE
INVARIANTS
  ServiceAlwaysOK
  ResponsesMatch
PROPERTIES
  StateAdvances
  AllCallsReturn
  ServiceExits
CHECK_DEADLOCK FALSE
