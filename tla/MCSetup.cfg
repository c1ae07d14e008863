SPECIFICATION MCSpec
CONSTANTS
  N = 4
  Calls <- MCCalls
  SplitShare = FALSE
INVARIANTS
  ConnectionsTaken
  Gathered
  BarriersSeparate
  EndsFit
  ReturnsLast
  RoutesFit
PROPERTIES
  AllSetUp
CHECK_DEADLOCK FALSE
