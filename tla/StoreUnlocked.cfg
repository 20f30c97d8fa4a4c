SPECIFICATION Spec
CONSTANTS
  Proc = {p1, p2}
  Id = {i1}
  Bytes = {b1, b2}
  DirIno = {d1}
  FileIno = {f1, f2, f3}
  MaxAttempt = 1
  MaxOps = 2
  MaxEdits = 0
  Commands = {"ls-update="}
  Env = {}
  Nil = Nil
  Partial = Partial
PROPERTIES
  GuardedRename
