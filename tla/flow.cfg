SPECIFICATION Spec
CONSTANT
  Programs <- MCServed
INVARIANTS
  Agreement
  Resolved
CHECK_DEADLOCK FALSE
