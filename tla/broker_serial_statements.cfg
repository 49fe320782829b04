SPECIFICATION SerialSpec
CONSTANTS
  s1 = s1
  s2 = s2
  s3 = s3
  u1 = u1
  None = None
  Subs = {s1, s2, s3}
  Pubs = {p1}
  UUIDs = {u1}
  Queries = {"red", "one"}
  Keys <- MCKeys
  Values <- MCValues
  AlwaysKeys = {"uuid"}
  Unset = "none"
  QueryOf <- AllRed
  KeysOf <- MCKeysOf
  Where <- MCWhere
  Sets <- Recolor
  AddErrors = FALSE
  Messages <- Retag
  StoreFails = FALSE
  Cap = 1
  MaxPublished = 2
INVARIANTS SubscriptionIsLive EveryChangeIsFollowed NothingUnqualified
PROPERTY InitialIsCurrent
CHECK_DEADLOCK FALSE
