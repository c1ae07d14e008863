SPECIFICATION CaptureSpec
CONSTANTS
  nChannels = 3
  MaskBits = 2
  workFifoDepth = 8
  Wrap = 32
  Script <- CaptureScript
INVARIANTS WorksOwn
CHECK_DEADLOCK FALSE
