SPECIFICATION FairSpec
CONSTANTS
  d1 = d1
  d2 = d2
  Delivery <- MCDelivery
  MaxFaults = 1
PROPERTY RetainedIsRecoverable
CHECK_DEADLOCK FALSE
