SPECIFICATION Spec
CONSTANTS
  u1 = u1
  u2 = u2
  u3 = u3
  c1 = c1
  c2 = c2
  c3 = c3
  c4 = c4
  c5 = c5
  None = None
  Users = {u1, u2, u3}
  Conns = {c1, c2, c3, c4, c5}
  Max = 2
  MaxWait = 6
INVARIANTS TypeOK AtMostMax GetGivesAConnection
CHECK_DEADLOCK FALSE
