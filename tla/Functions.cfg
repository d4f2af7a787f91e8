SPECIFICATION Spec
CONSTANTS
  LegacyChunks = {c1}
  Paths = {a, b}
  Stamps = {1, 2}
  MaxLog = 4
  Ids = {1, 2, 3}
  MaxJournal = 5
  MaxText = 4
  MaxSize = 3
  Number <- NumeralValues
  Features = {}
  MaxArgs = 3
  MaxPath = 4
  MaxShift = 2
  Limit = 8
  Buffer = 2
INVARIANTS
  ScansAreExact
  CompactionIsUnseen
  CompactionKeepsPending
  NothingLost
  WithinBudget
  FingerprintNamesCuts
  ValidationsAgree
  ReloadIsRestart
  OneStateFile
  PreflightIsExact
  UrisAreDistinct
  ExtensionsAgree
  WorkIsJudged
  RetriesEnd
  AnswerIgnoresPackets
CHECK_DEADLOCK FALSE
