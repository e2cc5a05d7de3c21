SPECIFICATION FairSpec
CONSTANTS
  d1 = d1
  d2 = d2
  Delivery <- MCDelivery
  MaxAttempts = 1
  MaxObservations = 1
  MaxMoves = 0
  MaxFaults = 1
PROPERTY AppliedIsDisposed
CHECK_DEADLOCK FALSE
