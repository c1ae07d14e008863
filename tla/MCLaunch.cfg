SPECIFICATION MCSpec
CONSTANTS
  nChannels = 3
  MaskBits = 2
  workFifoDepth = 8
  Wrap = 32
  Script <- MCScript
INVARIANTS FifoWorksOwn KernelsInOrder UploadsInOrder RetiredOnce CallbacksInOrder
           FramesBalanced SiblingsTogether P2pOrdersMeet P2pPlansFit
           CollCovered CollProxies CollResults
PROPERTIES AllLaunched
CHECK_DEADLOCK FALSE
