\* Three messages in two places, two priorities, a reset.
SPECIFICATION Spec
CONSTANTS
  MaxPublishes = 3
  Priorities = {0, 1}
  MaxMessages = 2
  MaxAttempts = 2
  Delays = {1, 2}
  MaxPublishers = 2
  MaxTime = 2
  MaxResets = 1
INVARIANTS
  StatsAccount
PROPERTIES
  ClaimsInOrder
  BackoffRespected
  DropsByPolicy
