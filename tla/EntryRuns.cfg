SPECIFICATION PartsSpec
CONSTANTS
  Lines <- AllLines
  Equals = FALSE
  Inserted = 2
  Trees <- SomeTrees
  Cwds <- SomeCwds
  Dbs <- SomeDbs
CHECK_DEADLOCK FALSE
INVARIANTS
  WritesLocked
  OneDatabase
  OpensWhatItMay
  NearestOpened
