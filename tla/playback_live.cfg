SPECIFICATION FairSpec
CONSTANTS
  c1 = c1
  c2 = c2
  Clients <- OneClient
  Requests <- ListenRequests
  BlockCount = 3
  CommandDepth = 1
  SessionLimit = 2
  SessionsWrap = TRUE
  FrameLimit = 4
  Faults = FALSE
  DecodeErrors = TRUE
  EmptySources = FALSE
  MediaBlocks = FALSE
  DmaOutruns = FALSE
PROPERTIES
  PreparingEnds
  PlayingEnds
  VoiceSlotReleased
  CompletesFully
