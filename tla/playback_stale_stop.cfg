SPECIFICATION FairSpec
CONSTANTS
  c1 = c1
  c2 = c2
  Clients <- OneClient
  Requests <- StopRequests
  BlockCount = 2
  CommandDepth = 1
  SessionLimit = 2
  SessionsWrap = TRUE
  FrameLimit = 2
  Faults = FALSE
  DecodeErrors = FALSE
  EmptySources = FALSE
  MediaBlocks = FALSE
  DmaOutruns = FALSE
PROPERTIES
  PreparingEnds
