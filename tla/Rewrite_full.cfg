SPECIFICATION Spec
CONSTANTS
  Width = 3
  Size <- MCSize
  x = x
  q = q
  z = z
  EnvTypes <- MCEnvTypes
  Programs <- MCPrograms
  Decompositions <- MCDecompositions
  Factor = 1
  Slack = 2
INVARIANTS
  TypeOK
  MeaningIsKept
  BuildIsDisciplined
