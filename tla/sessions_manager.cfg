SPECIFICATION FairSpec
CONSTANTS
  None = None
  Clients = {c1, c2}
  Protocols <- WebSockets
  Readers = {c1, c2}
  QueryFails = TRUE
  Cap = 1
INVARIANT TypeOK
PROPERTY OldConnectionsAreRemoved
CHECK_DEADLOCK FALSE
