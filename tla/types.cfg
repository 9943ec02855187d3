SPECIFICATION Spec
CONSTANTS
  Classes = {"C", "D"}
  Functions <- MCFunctions
  Events <- MCEvents
  Programs <- MCPrograms
  Uninitialised <- MCUninitialised
INVARIANTS TypeOK Converted Stable Agrees
CHECK_DEADLOCK FALSE
