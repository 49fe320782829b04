SPECIFICATION FairSpec
CONSTANTS
  w1 = w1
  w2 = w2
  a = a
  b = b
  None = None
  Handler = handler
  URIs = {a, b}
  Workers = {w1, w2}
  Messages <- MCMessages
  SubscribeFails = TRUE
  MaxMessages = 3
INVARIANTS TypeOK OneSubscriptionPerURI ForwardedIsRemembered ViewIsExact
PROPERTY OnlyTheLockCycleBlocks
CHECK_DEADLOCK FALSE
