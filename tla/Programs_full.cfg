CONSTANTS
  Modulus = 49
  None = None
  Families <- MCFamilies
SPECIFICATION AllSpec
CHECK_DEADLOCK FALSE
INVARIANTS
  TypeOK
  GradientsAreRight
  PassesKeepMeaning
  RematIsFrugal
  UnitsAreHonest
  TrafficCoversReads
  ServedMeansUnits
