SPECIFICATION Spec
CONSTANTS
  a1 = a1
  a2 = a2
  Activity <- MCOneActivity
  Selection <- MCSelection
  Modality <- MCModality
  Mandates <- MCMandates
  Dispositions <- MCDispositions
  Resource <- MCResource
  Charge <- MCCharge
  Grantable <- MCGrantable
  Ceilings <- MCCeilings
  MaxBoundaries = 2
  MaxCandidates = 3
  MaxSeals = 1
  MaxGrants = 0
INVARIANT NextBoundaryIsFree
CHECK_DEADLOCK FALSE
