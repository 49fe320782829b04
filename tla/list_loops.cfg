SPECIFICATION Spec
CONSTANTS
  a = a
  b = b
  c = c
  d = d
  Subs = {a, b, c, d}
  Requeried = {a, b, c}
  Readers = {r1}
  MaxJoins = 5
INVARIANTS ListOK RemovalLeavesLeftovers ServesTheListed
CHECK_DEADLOCK FALSE
