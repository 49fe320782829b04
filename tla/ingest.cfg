SPECIFICATION Spec
CONSTANTS
  p1 = p1
  p2 = p2
  s = s
  ms = ms
  na = na
  celsius = celsius
  Pubs = {p1, p2}
  Units = {s, ms}
  Seconds = s
  Measures = {na, celsius}
  NA = na
  Unset = Unset
  Missing = Missing
  Text = Text
  Messages <- AllMessages
  StoreFails = FALSE
  MaxMessages = 3
INVARIANTS TypeOK WrittenIsKnown DeclaredUnitHolds
CHECK_DEADLOCK FALSE
