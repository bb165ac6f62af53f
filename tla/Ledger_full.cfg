SPECIFICATION Spec
CONSTANTS
  None = None
  Calls = {c1, c2, c3}
  Loads = {l1, l2}
  Keys = {k1, k2}
  MaxSessions = 2
  MaxSaves = 2
SYMMETRY Symmetry
INVARIANTS
  Inv
  Safety
