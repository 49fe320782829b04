SPECIFICATION Spec
CONSTANTS
  h1 = h1
  h2 = h2
  Handlers = {h1, h2}
  Message <- MCMessage
  URIs = {"u", "m"}
  Payloads <- MCPayloads
  MsgPack = {33554432, 33554433}
  MaxRune = 1114111
  MaxData = 1
  MaxMetadata = 1
INVARIANTS TypeOK OneStreamPerHash MetadataIsNotMissed
CHECK_DEADLOCK FALSE
