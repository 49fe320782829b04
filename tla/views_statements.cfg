SPECIFICATION FairSpec
CONSTANTS
  w1 = w1
  w2 = w2
  a = a
  b = b
  None = None
  Handler = handler
  URIs = {a, b}
  Workers = {w1, w2}
  Messages <- Values
  SubscribeFails = FALSE
  MaxMessages = 3
INVARIANT ViewFollowsMetadata
PROPERTY CheckTerminates
CHECK_DEADLOCK FALSE
