\* The instance of regs.cfg with the pools sized for the question.
SPECIFICATION Spec
CONSTANTS
  gi = gi
  gm = gm
  gf = gf
  p = p
  t = t
  fun = fun
  gs = gs
  NoVar = NoVar
  NoModule = NoModule
  Var <- MCVar
  Module <- MCModule
  IsFloat <- MCIsFloat
  Kind <- MCKind
  Owner <- MCOwner
  ModKind <- MCModKind
  Params <- MCParams
  TOTAL_REG = 6
  INT_REG_AVAIL = 4
  FLOAT_REG_AVAIL = 5
INVARIANT
  FloatExclusive
CHECK_DEADLOCK FALSE
