SPECIFICATION MCSpec
CONSTANTS
  NCCL_STEPS = 4
  Ops <- MixedOps
  MayAbort = TRUE
INVARIANTS
  ReadsExpected
  ConnInv
  LinesExpected
PROPERTIES
  ChannelSpec
  AllComplete
  AbortedReturn
CHECK_DEADLOCK FALSE
