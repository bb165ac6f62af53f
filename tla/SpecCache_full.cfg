SPECIFICATION BoundedSpec
CONSTANTS
  a1 = a1
  h1 = h1
  h2 = h2
  h3 = h3
  code1 = code1
  code2 = code2
  here = here
  None = None
  Calls = {c1, c2, c3}
  Threads = {t1, t2}
  Keys <- SpecKeys
  Capacity = 1
  Deps <- NoDeps
  Contexts <- OneForbidden
  Codes = {code1, code2}
  Locs = {here}
  Handles = {h1, h2, h3}
  Args = {a1}
  LocOf <- OneLoc
  CodeOf <- TwoCodes
  MaxGeneration = 1
SYMMETRY Symmetry
INVARIANTS
  SpecInv
  DriftIsCaught
PROPERTIES
  ImplementsForgetfulMemo
