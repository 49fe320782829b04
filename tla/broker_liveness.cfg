SPECIFICATION FairSpec
CONSTANTS
  s1 = s1
  s2 = s2
  s3 = s3
  u1 = u1
  None = None
  Subs = {s1}
  Pubs = {p1, p2}
  UUIDs = {u1}
  Queries = {"red", "one"}
  Keys <- MCKeys
  Values <- MCValues
  AlwaysKeys = {"uuid"}
  Unset = "none"
  QueryOf <- AllRed
  KeysOf <- MCKeysOf
  Where <- MCWhere
  Sets <- Recolor
  AddErrors = TRUE
  Messages <- Retag
  StoreFails = FALSE
  Cap = 1
  MaxPublished = 2
PROPERTIES HandlingTerminates
CHECK_DEADLOCK FALSE
