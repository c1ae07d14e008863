SPECIFICATION FairSpec
CONSTANTS
  Peers <- MCPeers
  Keys <- MCKeys
  NArgs = 4
  NCCL_PROXY_MAX_SUBS = 2
  MAX_OPS_PER_PEER = 3
  ProxyAppendBatchSize = 1
  Program <- MCProgram
  MayAbort = TRUE
INVARIANTS
  PoolOK
  ListsOK
  StartInOrder
PROPERTIES
  AllRunThenExit
  AbortExits
CHECK_DEADLOCK FALSE
