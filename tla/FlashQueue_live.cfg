\* Crashes at any step, no flash faults: everything is resolved in the end.
SPECIFICATION FairSpec
CONSTANTS
  m1 = m1
  m2 = m2
  m3 = m3
  NoId = NoId
  Ids <- MCIds2
  MsgSize <- MCMsgSize2
  UpdSize = 1
  Capacity = 8
  SectorSize = 2
  MaxMessages = 2
  ChurnLimit = 3
  MaxAttempts = 2
  MaxCrashes = 1
  MaxFaults = 0
  MaxGen = 9
  Faults <- NoFaults
PROPERTIES
  Resolves
