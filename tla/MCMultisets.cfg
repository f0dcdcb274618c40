SPECIFICATION Spec
CONSTANTS
  Cells <- MCCells
  Tolerance = 1
  MaxRows = 3
INVARIANTS
  NoFalsePass
  NoFalseMismatch
  ReportsTheRemainder
CHECK_DEADLOCK FALSE
