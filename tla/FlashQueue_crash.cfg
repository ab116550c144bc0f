\* Two crashes anywhere, also inside a record or a header write.
SPECIFICATION Spec
CONSTANTS
  m1 = m1
  m2 = m2
  m3 = m3
  NoId = NoId
  Ids <- MCIds3
  MsgSize <- MCMsgSize2
  UpdSize = 1
  Capacity = 10
  SectorSize = 2
  MaxMessages = 2
  ChurnLimit = 3
  MaxAttempts = 1
  MaxCrashes = 2
  MaxFaults = 0
  MaxGen = 9
  Faults <- Torn
SYMMETRY Symmetry
INVARIANTS
  TypeOK
  Durable
  IndexMatchesLog
  PayloadIntact
  OneActiveRegion
  AttemptsDurable
  AttemptsBounded
PROPERTY KeepsContract
