\* Rules for a and b; c has no parameter and is left to the rule "any".
SPECIFICATION Spec
CONSTANTS
  a = a
  b = b
  c = c
  AnyRule = AnyRule
  NoRule = NoRule
  Event = {a, b, c}
  Letter <- MCLetter
  Params <- MCParams
  Rules <- MCRules
  HasAny = TRUE
  Byte = {0, 98}
  WORD = 2
  Whole <- MCWhole
  MaxEvents = 2
INVARIANTS
  TypeOK
  Outcome
PROPERTIES
  Reacts
  Ends
CHECK_DEADLOCK FALSE
