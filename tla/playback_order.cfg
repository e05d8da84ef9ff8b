SPECIFICATION Spec
CONSTANTS
  c1 = c1
  c2 = c2
  Clients <- TwoClients
  Requests <- OrderRequests
  BlockCount = 2
  CommandDepth = 2
  SessionLimit = 2
  SessionsWrap = FALSE
  FrameLimit = 3
  Faults = TRUE
  DecodeErrors = FALSE
  EmptySources = TRUE
  MediaBlocks = FALSE
  DmaOutruns = FALSE
CHECK_DEADLOCK FALSE
INVARIANTS
  StreamOwned
  AudioGapless
  VoiceTextIntact
  VoiceSlotHasOwner
PROPERTIES
  OutputKeptByOwner
  RefillsIdleHalf
