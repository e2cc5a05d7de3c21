SPECIFICATION FairSpec
CONSTANTS
  d1 = d1
  d2 = d2
  Delivery <- MCDelivery
  MaxFaults = 2
INVARIANTS
  TypeOK
  ReadsAreTrue
PROPERTIES
  RetainedIsKept
  ExposedIsSettled
CHECK_DEADLOCK FALSE
