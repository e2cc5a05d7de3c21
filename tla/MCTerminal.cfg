SPECIFICATION Spec
CONSTANTS
  d1 = d1
  d2 = d2
  Delivery <- MCDelivery
  MaxAttempts = 2
  MaxObservations = 2
  MaxMoves = 1
  MaxFaults = 1
INVARIANTS
  TypeOK
  TruthfulRecord
  ExactParent
  SupportLifetime
  ClosedCheckoutFollows
PROPERTY ImplementsSettlement
CHECK_DEADLOCK FALSE
SYMMETRY Symmetric
