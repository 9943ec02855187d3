SPECIFICATION Spec
CONSTANTS
  Classes = {}
  MinInt <- MCMinInt
  MaxInt = 7
  Values <- MCValues
  Statements <- MCStatements
  Registers <- MCRegisters
  GlobalBase = 7
  Stack = 4
  Cells = {3, 4, 5, 6}
INVARIANTS TypeOK  Assembled
PROPERTIES Ends
CHECK_DEADLOCK FALSE
