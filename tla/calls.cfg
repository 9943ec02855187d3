\* A rule, a recursive function and a second function; one site with a late argument.
SPECIFICATION Spec
CONSTANTS
  a = a
  x = x
  y = y
  t = t
  z = z
  q = q
  m = m
  f = f
  g = g
  ra = ra
  rb = rb
  rc = rc
  rq = rq
  v0 = v0
  v1 = v1
  s1 = s1
  s2 = s2
  s3 = s3
  s4 = s4
  s5 = s5
  NoVar = NoVar
  NoSite = NoSite
  Junk = Junk
  Value = {v0, v1}
  Var <- MCVar
  Global = {q}
  Fun = {m, f, g}
  Main = m
  Locals <- MCLocals
  Formals <- MCFormals
  Site = {s1, s2, s3, s4, s5}
  Call <- MCCall
  Reg = {ra, rb, rc, rq}
  RegOf <- MCRegOf
  Address <- MCAddress
  Origin = 20
  TopCell = 21
  MaxDepth = 3
INVARIANTS
  TypeOK
  FramesIntact
PROPERTIES
  Balanced
  MeansCall
CHECK_DEADLOCK FALSE
