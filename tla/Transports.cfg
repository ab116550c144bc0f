\* Both transports, with lost, late and reordered acknowledgements.
SPECIFICATION FairSpec
CONSTANTS
  MaxDeliveries = 3
  Statuses <- MCStatuses
  Overrides <- MCOverrides
  NoOverride <- MCNoOverride
INVARIANTS
  SuccessIsAccepted
  AckNotLost
  GivenUpOnAnswer
PROPERTY DeliverReturns
