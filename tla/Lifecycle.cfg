\* Three instances after each other, each with any configuration.
SPECIFICATION Spec
CONSTANTS
  MaxInits = 3
  MaxEnding = 2
  MaxCalls = 2
INVARIANTS
  NothingLeaks
  InUseIsLive
