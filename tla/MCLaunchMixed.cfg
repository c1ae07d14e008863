SPECIFICATION MixedSpec
CONSTANTS
  nChannels = 3
  MaskBits = 2
  workFifoDepth = 8
  Wrap = 32
  Script <- MCScript
INVARIANTS MixedKernelsInOrder
CHECK_DEADLOCK FALSE
