CONSTANTS
  Numbers <- NumbersDef
  Dates <- DatesDef
  NowTime = 1000000
  ZeroTime <- ZeroTimeDef
  Factor = 10
  Word = 1073741824
  Matches <- MatchesDef
  Described <- DescribedDef
  Scripts <- ScriptsDef
  Buffer = 16
INIT LanguagesInit
NEXT LanguagesNext
CHECK_DEADLOCK FALSE
INVARIANTS TypeOK OnlyQueriesAreWatched CutTextsAreRefused AllStatementsMeanWhatTheySay NoQueryEndsTheProcess SlashedTagsAreFound SlashedTagsWakeTheirQueries NumbersAreFound NumbersReadBackAsText NegatedTermsAreAccepted OverlappingCallsDoNotMix NoIndexPanics EveryItemIsAsked ExampleIsRight
