SPECIFICATION SpecCode
CONSTANT
  Sources <- MCSources
  Globals <- MCGlobals
  MaxTests = 3
INVARIANTS
  TypeOK
  NoRepeats
  SameMeaning
PROPERTY
  Ends
CHECK_DEADLOCK FALSE
