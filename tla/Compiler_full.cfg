CONSTANTS
  Width = 16
  Modulus = 13
  Size <- MCSize
  Vocabulary <- MCVocabulary
  Methods <- MCMethods
  Families <- MCFamilies
  None = None
SPECIFICATION Spec
CHECK_DEADLOCK FALSE
INVARIANTS
  TypeOK
  CompiledMeansSource
  BuildIsTyped
