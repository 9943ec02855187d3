\* Two names, six entries with the two that are there, one error survived.
SPECIFICATION Spec
CONSTANTS
  x = x
  y = y
  z = z
  NoName = NoName
  Names <- MCNames
  VarLists <- MCVarLists
  VarTypes = {"int", "double", "void"}
  PatternArgs <- MCPatternArgs
  GLOBAL_MAX_REG_COUNT = 1
  MAX_SCOPE_STACK_SIZE = 4
  MAX_ERROR_BEFORE_QUIT = 1
  MaxEntries = 6
INVARIANTS TypeOK GlobalStays Balanced CastsRight StorageDistinct LoopLabels
PROPERTIES Scoped
CHECK_DEADLOCK FALSE
