SPECIFICATION HistorySpec
CONSTANTS
  k1 = k1
  None = None
  Calls = {c1, c2, c3, c4}
  Threads = {t1, t2}
  Keys = {k1, k2, k3}
  Capacity = 2
  Deps <- DepsSelf
  Contexts <- OneForbidden
SYMMETRY Symmetry
INVARIANTS
  Inv
  Safety
  Bookkeeping
PROPERTIES
  ImplementsMemo
