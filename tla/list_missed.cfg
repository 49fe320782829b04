SPECIFICATION Spec
CONSTANTS
  a = a
  b = b
  c = c
  d = d
  Subs = {a, b, c, d}
  Requeried = {a, b}
  Readers = {r1}
  MaxJoins = 4
INVARIANT AllListedServed
CHECK_DEADLOCK FALSE
