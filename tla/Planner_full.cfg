CONSTANTS
  Modulus = 25
  CertCap = 3
  TileCap = 2
  DimNames <- MCDims
  Models <- MCModels
  None = None
SPECIFICATION Spec
CHECK_DEADLOCK FALSE
INVARIANTS
  TypeOK
  PartitionIsSound
  PlanIsRight
  LaunchIsSafe
