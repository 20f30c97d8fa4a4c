SPECIFICATION TroubledSpec
CONSTANTS
  Proc = {p1, p2}
  Id = {i1}
  Bytes = {b1, b2}
  DirIno = {d1, d2}
  FileIno = {f1, f2, f3}
  MaxAttempt = 2
  MaxOps = 3
  MaxEdits = 0
  Commands = {"find", "new", "set"}
  Env = {"io", "cleanup"}
  Nil = Nil
  Partial = Partial
INVARIANTS
  WriterAlone
  HonestReply
  HandledLeaveNothing
  DeadBlockNobody
PROPERTIES
  Implements
  CommandsEnd
