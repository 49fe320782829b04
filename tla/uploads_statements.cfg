SPECIFICATION Spec
CONSTANTS
  g1 = g1
  g2 = g2
  g3 = g3
  root = root
  a = a
  ab = ab
  u1 = u1
  u2 = u2
  k = k
  v = v
  w = w
  Handlers = {g1, g2, g3}
  Mixes <- MCMixes
  Paths = {root, a, ab}
  Above <- MCAbove
  UUIDs = {u1, u2}
  Keys = {k}
  Values = {v, w}
  NA = NA
  Unset = Unset
  None = None
  Uploads <- MCUploads
  Packets <- MCPackets
  Objects = {o1, o2}
  Buffers = {b1, b2}
  Watched = {u1}
  StoreFails = TRUE
  Cap = 1
INVARIANTS TypeOK EveryTagWasSent ForwardedIsWatched NoForeignProperties OwnUnitIsKept OrderDoesNotMatter
CHECK_DEADLOCK FALSE
