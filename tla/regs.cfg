\* One function and the global section; three integer and three float registers.
SPECIFICATION Spec
CONSTANTS
  gi = gi
  gm = gm
  gf = gf
  p = p
  t = t
  fun = fun
  gs = gs
  NoVar = NoVar
  NoModule = NoModule
  Var <- MCVar
  Module <- MCModule
  IsFloat <- MCIsFloat
  Kind <- MCKind
  Owner <- MCOwner
  ModKind <- MCModKind
  Params <- MCParams
  TOTAL_REG = 5
  INT_REG_AVAIL = 3
  FLOAT_REG_AVAIL = 3
INVARIANTS
  TypeOK
  IntExclusive
  IntAccounted
  SpecialSafe
  GlobalsFlushed
  ReleasedAtEnd
PROPERTY
  RegisterStable
CHECK_DEADLOCK FALSE
