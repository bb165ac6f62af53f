SPECIFICATION InTurnSpec
CONSTANTS
  f = f
  g = g
  ir = ir
  None = None
  Calls = {c1, c2, c3}
  Registrations = {r1}
  Threads = {t1, t2, t3}
  Kernels = {f, g}
  IrOf <- SameIr
  DoorOf <- Records
INVARIANTS
  Inv
  Safety
PROPERTIES
  EveryDispatchEnds
  TiersAreMemos
