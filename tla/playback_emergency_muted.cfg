SPECIFICATION Spec
CONSTANTS
  c1 = c1
  c2 = c2
  Clients <- OneClient
  Requests <- ShoutRequests
  BlockCount = 2
  CommandDepth = 1
  SessionLimit = 2
  SessionsWrap = TRUE
  FrameLimit = 4
  Faults = FALSE
  DecodeErrors = TRUE
  EmptySources = FALSE
  MediaBlocks = FALSE
  DmaOutruns = FALSE
PROPERTIES
  OutputKeptByOwner
