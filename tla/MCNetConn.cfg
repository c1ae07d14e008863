SPECIFICATION MCSpec
CONSTANTS
  NCCL_STEPS = 4
  NCCL_SHARED_STEPS = 8
  Ops <- MixedOps
  Shared = FALSE
  NeedFlush = FALSE
INVARIANTS
  SlotsOK
  ReducesStep
PROPERTIES
  ChannelSpec
  TransfersComplete
CHECK_DEADLOCK FALSE
