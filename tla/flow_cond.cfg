SPECIFICATION Spec
CONSTANT
  Programs <- MCConditions
INVARIANT
  ShortCircuit
CHECK_DEADLOCK FALSE
