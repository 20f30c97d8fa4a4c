SPECIFICATION PartsSpec
CONSTANTS
  Lines <- AllLines
  Equals = FALSE
  Inserted = 1
  Trees <- SomeTrees
  Cwds <- SomeCwds
  Dbs <- SomeDbs
CHECK_DEADLOCK FALSE
INVARIANTS
  NoCrash
