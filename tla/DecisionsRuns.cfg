SPECIFICATION PartsSpec
CONSTANTS
  Id = {1, 2, 3}
  None = None
  Missing = Missing
  Found <- AnyTask
  Words = {"a", "two", "priority", "not", "lt", "and", "or", "[", "]"}
  Tag = {"a"}
  Numbers = {"two"}
  Huids = {}
  Value <- Two
  Tasks <- TwoTasks
  MaxLen = 7
  Alphabet <- SomeAlphabet
  Longest <- SomeLongest
  DateDigits = 2
  TimeDigits = 1
  MaxName = 7
  IntMax = 31
  LongMax = 127
  WordMax = 255
  Unit <- SomeUnit
  BlockBytes = 3
  LengthBytes = 1
CHECK_DEADLOCK FALSE
INVARIANTS
  DecidesValidity
  AcceptsGrammar
  MachineAgrees
  ReadersAgree
  OutputReads
