SPECIFICATION Spec
CONSTANTS
  None = None
  Fill = Fill
  Tensors <- MCTensors
  Operands <- MCOperands
  NBytes = 12
  FieldOffset = 1
  Charts <- MCCharts
  Shifts <- MCShifts
  Factors = {1, 2}
  Taps <- MCTaps
  Levels = {"core"}
  MaxOps = 2
INVARIANTS
  TypeOK
  ViewsAreHonest
PROPERTIES
  IsAPointMap
  StoreReadsBack
CHECK_DEADLOCK FALSE
