SPECIFICATION FairSpec
CONSTANTS
  Callers <- MCCallers
  MaxGrants = 2
  MaxOpenings = 2
  MaxFaults = 1
INVARIANTS
  TypeOK
  PendingIsCurrent
  AcknowledgedStopHolds
  FirstRequestStands
PROPERTIES
  ImplementsLedger
  ChargesAreReported
  FoldedAfterWork
CHECK_DEADLOCK FALSE
