\* A torn record, then a recovery.
SPECIFICATION Spec
CONSTANTS
  m1 = m1
  m2 = m2
  m3 = m3
  NoId = NoId
  Ids <- MCIds2
  MsgSize <- MCMsgSize2
  UpdSize = 1
  Capacity = 10
  SectorSize = 2
  MaxMessages = 2
  ChurnLimit = 3
  MaxAttempts = 1
  MaxCrashes = 2
  MaxFaults = 0
  MaxGen = 9
  Faults <- Torn
INVARIANT RecoverySucceeds
