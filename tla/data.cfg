SPECIFICATION DataSpec
CONSTANTS
  s1 = s1
  s2 = s2
  Backends = {"quasar", "btrdb"}
  Streams = {s1, s2}
  StreamUnits = {1, 2, 3, 4}
  Factor = 8
  MsLow = 64
  UsLow = 1088
  NsLow = 2172
  Word = 65536
  Byte = 16
  Instants <- MCInstants
  Queries <- MCQueries
INVARIANTS DataTypeOK AnswerIsExact TimesAreConverted
SYMMETRY MCSymmetry
CHECK_DEADLOCK FALSE
