SPECIFICATION Spec
CONSTANTS
  Ids = {i1}
  NoId = NoId
  Clients = {c1}
  LateWaits = {"WRITE"}
  FlowLimit = 1
  LineLimit = 2
INVARIANTS
  OwnReply
