SPECIFICATION NicsSpec
CONSTANTS
  N = 4
  Calls <- MCCalls
  SplitShare = FALSE
INVARIANTS
  NicsAgree
CHECK_DEADLOCK FALSE
