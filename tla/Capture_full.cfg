SPECIFICATION Spec
CONSTANTS
  Width = 3
  Size <- MCSize
  Codes = {"k1", "k2"}
  Cells <- MCCells
  Plain <- MCPlain
  Classes <- MCClasses
  Instances <- MCInstances
  Results <- MCResults
  MaxHeld = 2
  MaxRecords = 1
INVARIANTS
  TypeOK
  KindLaws
  BytesAreTheCall
CHECK_DEADLOCK FALSE
