\* One message, one failed attempt, no reset and no failing call.
SPECIFICATION Spec
CONSTANTS
  m1 = m1
  m2 = m2
  m3 = m3
  NoId = NoId
  Ids <- MCIds3
  MaxMessages = 2
  MaxAttempts = 2
  MaxCrashes = 0
  MaxFaults = 0
  Faults <- NoFaults
SYMMETRY Symmetry
INVARIANT PayloadIntact
