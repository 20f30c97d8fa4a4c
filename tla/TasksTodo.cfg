SPECIFICATION PartsSpec
CONSTANTS
  Id = {i1, i2, i3}
  None = None
  Absent = Absent
  Reserved = Reserved
  Keep = Keep
  Drafts <- OpenDrafts
  Changes <- RelateOrOutcome
  Commands = {"todo"}
  Actions = {"open", "close"}
SYMMETRY Symmetry
CHECK_DEADLOCK FALSE
PROPERTIES
  CreationValidates
