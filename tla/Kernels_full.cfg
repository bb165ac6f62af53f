CONSTANTS
  Families <- MCFamilies
  None = None
SPECIFICATION Spec
CHECK_DEADLOCK FALSE
INVARIANTS
  TypeOK
  LaunchMeansBody
  TapsHoldBindings
