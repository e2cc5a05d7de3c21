SPECIFICATION FairSpec
CONSTANTS
  s1 = s1
  s2 = s2
  c1 = c1
  c2 = c2
  c3 = c3
  Subject <- MCSubject
  Credential <- MCThreeCredentials
  MaxGenerations = 2
  MaxReceipts = 2
  MaxMoves = 1
  MaxFaults = 1
INVARIANTS
  TypeOK
  SessionIsClaimed
  IntentIsBound
PROPERTIES
  ImplementsLease
  IntentConcludes
CHECK_DEADLOCK FALSE
