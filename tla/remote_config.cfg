SPECIFICATION FairSpec
CONSTANTS
  Ids = {i1}
  NoId = NoId
  Clients = {c1, c2}
  LateWaits = {}
  FlowLimit = 1
  LineLimit = 2
INVARIANTS
  SlotAccounted
  NormalIsTransparent
  OwnReply
PROPERTIES
  ImplementsConfigRequest
  FlowEnds
