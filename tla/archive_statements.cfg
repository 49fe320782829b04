SPECIFICATION Spec
CONSTANTS
  h1 = h1
  h2 = h2
  Handlers = {h1, h2}
  Message <- MCOthers
  URIs = {"u", "m"}
  Payloads <- MCOtherPayloads
  MsgPack = {33554432, 33554433}
  MaxRune = 1114111
  MaxData = 1
  MaxMetadata = 2
INVARIANTS SingleStream StreamsAreDistinct PassedOverIsArchived LatestMetadataStays
CHECK_DEADLOCK FALSE
