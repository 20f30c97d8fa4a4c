SPECIFICATION PartsSpec
CONSTANTS
  Strings <- AnyString
  Files <- Written
  Changes <- SomeChanges
  Updates <- SomeUpdates
  News <- SomeNews
  Numbers <- Decimals
  Garbled <- NotUtf8
  HeaderLines = 1
  MaxCommands = 3
  File = {f1, f2}
  Id = {t1, t2, t3, t4, t5, t6}
  Sources <- AllSources
  Arguments <- UpToTwo
  MaxRuns = 2
  Env = {"io", "crash"}
CHECK_DEADLOCK FALSE
INVARIANTS
  SourceKept
  OneTaskPerComment
PROPERTIES
  ReadsBack
  UnaskedKept
  StrictStable
  TodoEnds
