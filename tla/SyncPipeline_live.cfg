\* Every accepted message is resolved, every stop returns, with a storage call that fails.
SPECIFICATION FairSpec
CONSTANTS
  m1 = m1
  m2 = m2
  m3 = m3
  p1 = p1
  p2 = p2
  NoId = NoId
  Ids <- MCIds2
  Publishers <- MCPublishers1
  MaxMessages = 1
  MaxAttempts = 2
  Dropping = TRUE
  QuietStart = FALSE
  MaxStarts = 2
  MaxRecoveries = 1
  MaxErrors = 1
INVARIANT NoResendAfterSuccess
PROPERTIES
  Resolves
  StopReturns
CHECK_DEADLOCK FALSE
