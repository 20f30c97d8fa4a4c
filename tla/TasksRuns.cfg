SPECIFICATION PartsSpec
CONSTANTS
  Id = {i1, i2, i3}
  None = None
  Absent = Absent
  Reserved = Reserved
  Keep = Keep
  Drafts = {}
  Changes <- RelateOrOutcome
  Commands = {"new", "set", "todo", "ls-update"}
  Actions = {"open", "close"}
SYMMETRY Symmetry
CHECK_DEADLOCK FALSE
INVARIANTS
  ReportIsTrue
  EveryMemberExplained
PROPERTIES
  KeepsValid
  CreationValidates
  DoneIsExplicit
  SnapshotVouches
