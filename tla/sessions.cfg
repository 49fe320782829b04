SPECIFICATION FairSpec
CONSTANTS
  None = None
  Clients = {c1, c2}
  Protocols <- MCProtocols
  Readers = {c1}
  QueryFails = TRUE
  Cap = 2
PROPERTIES SessionsKeepThePromise DepartedAreRemoved StayersAreServed
CHECK_DEADLOCK FALSE
