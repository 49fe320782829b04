SPECIFICATION SerialSpec
CONSTANTS
  s1 = s1
  s2 = s2
  s3 = s3
  u1 = u1
  None = None
  Subs = {s1, s2, s3}
  Pubs = {p1}
  UUIDs = {u1}
  Queries = {"red", "one"}
  Keys <- MCKeys
  Values <- MCValues
  AlwaysKeys = {"uuid"}
  Unset = "none"
  QueryOf <- OneAndRed
  KeysOf <- MCKeysOf
  Where <- MCWhere
  Sets <- Recolor
  AddErrors = TRUE
  Messages <- AllKinds
  StoreFails = FALSE
  Cap = 1
  MaxPublished = 3
INVARIANTS NoMissedStream SoleClientExact
CHECK_DEADLOCK FALSE
