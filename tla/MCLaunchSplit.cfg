SPECIFICATION SplitSpec
CONSTANTS
  nChannels = 3
  MaskBits = 2
  workFifoDepth = 8
  Wrap = 32
  Script <- MCScript
PROPERTIES SplitsComplete
CHECK_DEADLOCK FALSE
