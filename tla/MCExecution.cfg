SPECIFICATION FairSpec
CONSTANTS
  w1 = w1
  w2 = w2
  Workers <- MCWorkers
  Hooks = 1
  MaxFaults = 1
INVARIANTS
  TypeOK
  StartedOnAuthority
  ContainedForGood
  TruthfulReceipt
PROPERTIES
  ImplementsLife
  EvidenceIsFinal
  RetirementFollows
  RemovalFollows
CHECK_DEADLOCK FALSE
