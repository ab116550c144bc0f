\* Resets at any call, and a call of NVS that fails.
SPECIFICATION Spec
CONSTANTS
  m1 = m1
  m2 = m2
  m3 = m3
  NoId = NoId
  Ids <- MCIds3
  MaxMessages = 2
  MaxAttempts = 2
  MaxCrashes = 2
  MaxFaults = 1
  Faults <- AllFaults
SYMMETRY Symmetry
INVARIANTS
  Durable
  NoResurrection
  SlotsExclusive
  IndexMatchesDisk
  AttemptsCounted
  InFlightIsHeld
PROPERTY KeepsContract
