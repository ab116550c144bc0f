\* Every configuration, attempt count and random value of a three-bit uint32_t.
SPECIFICATION Spec
CONSTANTS
  Word = 8
  DefaultInitial = 0
  DefaultMax = 6
INVARIANTS
  FollowsCurve
  DelayCapped
  LoopIsShort
