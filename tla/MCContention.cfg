SPECIFICATION FairSpec
CONSTANTS
  d1 = d1
  d2 = d2
  Delivery <- MCDelivery
  MaxAttempts = 1
  MaxObservations = 2
  MaxMoves = 0
  MaxFaults = 0
PROPERTY IntentSettles
CHECK_DEADLOCK FALSE
