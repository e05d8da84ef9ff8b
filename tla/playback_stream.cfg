SPECIFICATION Spec
CONSTANTS
  c1 = c1
  c2 = c2
  Clients <- OneClient
  Requests <- StreamRequests
  BlockCount = 2
  CommandDepth = 1
  SessionLimit = 2
  SessionsWrap = TRUE
  FrameLimit = 2
  Faults = FALSE
  DecodeErrors = TRUE
  EmptySources = TRUE
  MediaBlocks = TRUE
  DmaOutruns = TRUE
INVARIANTS
  TypeOK
  PoolPartition
  DmaHoldsCurrentSession
