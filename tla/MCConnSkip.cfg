SPECIFICATION SkipSpec
CONSTANTS
  NCCL_STEPS = 4
  Ops <- MixedOps
  MayAbort = TRUE
INVARIANTS
  SkipExpected
CHECK_DEADLOCK FALSE
