\* Publishes, deliveries, stops, starts and a reset, in every order.
SPECIFICATION Spec
CONSTANTS
  m1 = m1
  m2 = m2
  m3 = m3
  p1 = p1
  p2 = p2
  NoId = NoId
  Ids <- MCIds3
  Publishers <- MCPublishers2
  MaxMessages = 2
  MaxAttempts = 2
  Dropping = TRUE
  QuietStart = TRUE
  MaxStarts = 2
  MaxRecoveries = 1
  MaxErrors = 0
SYMMETRY Symmetry
INVARIANTS
  NoLostWakeup
  QuietWhenStopped
  InFlightIsHeld
  NothingSilentlyDropped
  EventsAreTrue
CHECK_DEADLOCK FALSE
