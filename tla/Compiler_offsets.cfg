CONSTANTS
  Width = 16
  Modulus = 13
  Size <- MCSize
  Vocabulary <- MCVocabulary
  Methods <- MCMethods
  Families <- MCOffsets
  None = None
SPECIFICATION Spec
CHECK_DEADLOCK FALSE
INVARIANTS
  CompiledMeansSource
