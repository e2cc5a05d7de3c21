SPECIFICATION Spec
CONSTANTS
  a1 = a1
  a2 = a2
  Activity <- MCActivity
  Selection <- MCSelection
  Modality <- MCModality
  Mandates <- MCMandates
  Dispositions <- MCDispositions
  Resource <- MCResource
  Charge <- MCCharge
  Grantable <- MCGrantable
  Ceilings <- MCCeilings
  MaxBoundaries = 2
  MaxCandidates = 4
  MaxSeals = 2
  MaxGrants = 0
INVARIANTS
  TypeOK
  OneOpenActivity
  ProofIsCurrent
  AcceptanceIsProven
  DecisionIsCurrent
  MandateGoverns
  OfferIsSound
PROPERTY ImplementsLifecycle
CHECK_DEADLOCK FALSE
