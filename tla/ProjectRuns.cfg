SPECIFICATION PartsSpec
CONSTANTS
  Self = {"nob.c", "huid.c"}
  Embedded = {"tatr.lua"}
  Compiled = {"tatr.c", "huid.c"}
  MaxTime = 1
  MaxEdits = 2
  Projects <- SomeProjects
  Commands = {"nvim", "skill", "init"}
  Lines = {"*.o"}
  Padded <- SomePadded
  MaxRuns = 2
  MaxUserEdits = 1
  Keys = {"a", "b", "c"}
  Values = {"x", "y"}
  NoValue = "absent"
  Hash <- SomeHashes
  MinCap = 2
  Load = 70
  Task = {t1, t2}
  Tags = {"a", "b"}
  TaskFiles <- SomeFiles
  MaxWrites = 2
CHECK_DEADLOCK FALSE
INVARIANTS
  NobKept
  TatrCurrent
  SuccessIsEarned
  OwnCommand
  SuccessInstalled
  ReportsWhatWas
  GraphLeadsToTasks
PROPERTIES
  NobCurrent
  UserFilesKept
  Refines
