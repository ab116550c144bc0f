\* A crash anywhere and a flash fault of any kind.
SPECIFICATION Spec
CONSTANTS
  m1 = m1
  m2 = m2
  m3 = m3
  NoId = NoId
  Ids <- MCIds3
  MsgSize <- MCMsgSizeSmall
  UpdSize = 1
  Capacity = 6
  SectorSize = 2
  MaxMessages = 2
  ChurnLimit = 1
  MaxAttempts = 1
  MaxCrashes = 1
  MaxFaults = 1
  MaxGen = 4
  Faults <- AllFaults
SYMMETRY SymmetrySmall
INVARIANTS
  CompactionFits
  NewestIsUnique
  HeldInFlight
