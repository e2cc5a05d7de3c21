SPECIFICATION Spec
CONSTANTS
  a1 = a1
  a2 = a2
  Activity <- MCOneActivity
  Selection <- MCOneSelection
  Modality <- MCOneModality
  Mandates <- MCOneMandate
  Dispositions <- MCPassing
  Resource <- MCResource
  Charge <- MCCharge
  Grantable <- MCGrantable
  Ceilings <- MCCeilings
  MaxBoundaries = 2
  MaxCandidates = 3
  MaxSeals = 1
  MaxGrants = 2
INVARIANT ChargedWithinCeilings
PROPERTY ImplementsLedger
CHECK_DEADLOCK FALSE
