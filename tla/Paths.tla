------------------------------- MODULE Paths --------------------------------
(***************************************************************************)
(* Which directory a command works on.  Without -db it walks up from the   *)
(* working directory (find_tasks_database, src/src/tatr.c), makes the      *)
(* answer relative (path_relative, src/src/path.c) and hands it to         *)
(* store_open (src/src/store.c), which makes it absolute again and opens   *)
(* one component after another, without following links and with a detour  *)
(* around directories that may be passed through but not read.             *)
(*                                                                         *)
(* A path is the sequence of its parts; the root is <<>>, where path.c has *)
(* an empty first part.  Nothing moves while a command looks.              *)
(***************************************************************************)
EXTENDS Naturals, Sequences, SequencesExt

CONSTANTS Trees,  \* file systems: paths to nodes, a node being its kind and where a link leads
          Cwds,   \* working directories
          Dbs     \* what may be given as -db: [absolute, parts]

VARIABLES tree, cwd,
          db,     \* the -db given, or "none"
          pc,
          dir,    \* the directory find_tasks_database has come to
          todo,   \* parts store_open still has to walk
          path,   \* the lexical path of what it has walked
          fd,     \* the directory it holds open, or "closed"
          code    \* "" or why it gave up

vars == <<tree, cwd, db, pc, dir, todo, path, fd, code>>

Kinds == {"dir",   \* a directory
          "pass",  \* one that may be searched, but not read
          "dark",  \* one that may not even be searched
          "file", "link"}
Directories == {"dir", "pass", "dark"}

\* What is there has a name, and is in a directory, up to the root.
PathsAssumption ==
  /\ \A t \in Trees : /\ \A p \in DOMAIN t : p \in Seq(STRING) /\ t[p].kind \in Kinds
                      /\ <<>> \in DOMAIN t /\ t[<<>>].kind \in Directories
                      /\ \A p \in DOMAIN t \ {<<>>} : /\ Last(p) \notin {"", ".", ".."}
                                                     /\ Front(p) \in DOMAIN t /\ t[Front(p)].kind \in Directories
  /\ \A d \in Dbs : d.parts \in Seq(STRING)

Init == /\ tree \in Trees /\ cwd \in {c \in Cwds \cap DOMAIN tree : tree[c].kind \in Directories}
        /\ db \in Dbs \cup {[absolute |-> FALSE, parts |-> <<"none">>]}
        /\ pc = "start" /\ dir = cwd /\ todo = <<>> /\ path = <<>> /\ fd = <<"closed">> /\ code = ""

-----------------------------------------------------------------------------
\* What the kernel finds at a path: a kind, or an error.  Parts on the way may be links.
Kind(p) == IF p \in DOMAIN tree THEN tree[p].kind ELSE "missing"
Leads(p) == IF Kind(p) = "link" THEN tree[p].to ELSE p
Enter(d, name) ==  \* the place of name in directory d, a place or an error
  IF d[1] # "at" THEN d
  ELSE CASE Kind(d[2]) = "missing" -> <<"missing">>
         [] Kind(d[2]) = "dark" -> <<"denied">>
         [] Kind(d[2]) = "file" -> <<"notdir">>
         [] OTHER -> <<"at", Append(d[2], name)>>
Through(d) == IF d[1] = "at" THEN <<"at", Leads(d[2])>> ELSE d
Places(p) == LET place[n \in 0 .. Len(p)] == IF n = 0 THEN <<"at", <<>>>> ELSE Enter(Through(place[n - 1]), p[n])
             IN place
Lstat(p) == Places(p)[Len(p)]
LstatKind(p) == LET d == Lstat(p) IN IF d[1] = "at" THEN Kind(d[2]) ELSE d[1]
StatKind(p) == LET d == Through(Lstat(p)) IN IF d[1] = "at" THEN Kind(d[2]) ELSE d[1]

\* open with O_DIRECTORY and O_NOFOLLOW: an open directory or an error.
OpenDir(d) == IF d[1] # "at" THEN d
              ELSE CASE Kind(d[2]) = "dir" -> <<"open", d[2]>>
                     [] Kind(d[2]) \in {"pass", "dark"} -> <<"denied">>
                     [] Kind(d[2]) = "missing" -> <<"missing">>
                     [] OTHER -> <<"notdir">>

Error(e) == CASE e = "missing" -> "database_not_found" [] e = "denied" -> "io_error" [] OTHER -> "unsafe_path"

-----------------------------------------------------------------------------
\* What the parts of an absolute path say, as long as there are no links.
Says(s, x) == CASE x \in {"", "."} -> s
                [] x = ".." -> IF s = <<>> THEN s ELSE Front(s)
                [] OTHER -> Append(s, x)
Saying(parts) == LET so[n \in 0 .. Len(parts)] == IF n = 0 THEN <<>> ELSE Says(so[n - 1], parts[n]) IN so
Normal(parts) == Saying(parts)[Len(parts)]

Common(a, b) == CHOOSE n \in 0 .. Len(a) :
                  /\ n <= Len(b) /\ SubSeq(a, 1, n) = SubSeq(b, 1, n)
                  /\ n < Len(a) /\ n < Len(b) => a[n + 1] # b[n + 1]

\* path_relative.
Relative(src, dst) ==
  LET n == Common(src, dst)
      up == [k \in 1 .. Len(src) - n |-> ".."] IN
  (IF up = <<>> THEN <<".">> ELSE up) \o SubSeq(dst, n + 1, Len(dst))

-----------------------------------------------------------------------------
NoDb == ~db.absolute /\ db.parts = <<"none">>
Walk(parts) == /\ pc' = "open" /\ todo' = parts /\ path' = <<>>
               /\ fd' = IF Kind(<<>>) = "dir" THEN <<"open", <<>>>> ELSE <<"closed">>
GiveUp(c) == pc' = "failed" /\ code' = c /\ UNCHANGED <<todo, path, fd>>

\* -db: absolute, or after the working directory.
Explicit == /\ pc = "start" /\ ~NoDb
            /\ Walk(IF db.absolute THEN db.parts ELSE cwd \o db.parts)
            /\ UNCHANGED <<tree, cwd, db, dir, code>>

Discover == /\ pc = "start" /\ NoDb /\ pc' = "find"
            /\ UNCHANGED <<tree, cwd, db, dir, todo, path, fd, code>>

\* Slip: a tasks that is no directory ends the search.
Here_Anything(d) == StatKind(Append(d, "tasks")) \notin {"missing", "denied", "notdir"}

\* get_file_type does not follow a link: a link to a directory is passed over.
Here(d) == LstatKind(Append(d, "tasks")) \in Directories

\* find_tasks_database stops before the root, whatever is there.
FindUp == /\ pc = "find" /\ dir # <<>> /\ ~Here(dir) /\ dir' = Front(dir)
          /\ UNCHANGED <<tree, cwd, db, pc, todo, path, fd, code>>
FindHere == /\ pc = "find" /\ dir # <<>> /\ Here(dir)
            /\ dir' = Append(dir, "tasks") /\ Walk(cwd \o Relative(cwd, Append(dir, "tasks")))
            /\ UNCHANGED <<tree, cwd, db, code>>
FindNone == /\ pc = "find" /\ dir = <<>> /\ GiveUp("no tasks") /\ UNCHANGED <<tree, cwd, db, dir>>

\* Slip: anywhere with ".." on the way.
Inside_Below == Relative(cwd, dir)[1] = ".."

\* id, and ref without an id, take the name of the working directory, if it is in tasks.
Inside == Relative(cwd, dir) = <<"..">>
IdPrints == IF Inside THEN Last(cwd) ELSE "nothing"

\* ref has grep look at everything tasks is kept with.
Searched == Relative(cwd, dir) \o <<"..">>

-----------------------------------------------------------------------------
Part == todo[1]
IsLast == \A n \in 2 .. Len(todo) : todo[n] = ""
Keeps == UNCHANGED <<tree, cwd, db, pc, dir, code>>

\* Slip: ".." right below the root is lost.
Lexical_Keeps(p, part) == IF part = ".." THEN IF Len(p) > 1 THEN Front(p) ELSE p ELSE Append(p, part)

\* The identity, part by part.
Lexical(p, part) == IF part = ".." THEN IF p = <<>> THEN p ELSE Front(p) ELSE Append(p, part)

Skip == /\ pc = "open" /\ todo # <<>> /\ Part \in {"", "."}
        /\ todo' = Tail(todo) /\ Keeps /\ UNCHANGED <<path, fd>>

\* openat from the directory at hand.  For ".." the kernel goes to the parent.
Below == OpenDir(IF Part = ".." THEN <<"at", IF fd[2] = <<>> THEN <<>> ELSE Front(fd[2])>>
                 ELSE Enter(<<"at", fd[2]>>, Part))

\* open by the whole path.  A ".." is looked at before, a directory or an error.
Named == LstatKind(Lexical(path, Part))
Whole == IF Part = ".." /\ Named \notin Directories THEN <<Named>> ELSE OpenDir(Lstat(Lexical(path, Part)))

\* Slip: whatever may not be read ends the walk.
MayPass_Never == FALSE

\* A directory that may not be read does not end the walk, unless it is the last part.
MayPass == Part = ".." \/ ~IsLast

Got == IF fd[1] = "open" /\ (Below[1] # "denied" \/ ~MayPass) THEN Below ELSE Whole
Passes == Got[1] = "denied" /\ MayPass
AtPart == pc = "open" /\ todo # <<>> /\ Part \notin {"", "."}
Step(f) == todo' = Tail(todo) /\ path' = Lexical(path, Part) /\ fd' = f /\ Keeps

Descend == AtPart /\ Got[1] = "open" /\ Step(Got)
PassBy == AtPart /\ Passes /\ Named \in Directories /\ Step(<<"closed">>)
Refuse == /\ AtPart /\ Got[1] # "open"
          /\ \/ ~Passes /\ GiveUp(Error(Got[1]))
             \/ Passes /\ Named \notin Directories /\ GiveUp(Error(Named))
          /\ UNCHANGED <<tree, cwd, db, dir>>

Opened == /\ pc = "open" /\ todo = <<>>
          /\ IF fd[1] = "open" THEN pc' = "opened" /\ UNCHANGED <<todo, path, fd, code>> ELSE GiveUp("io_error")
          /\ UNCHANGED <<tree, cwd, db, dir>>

Next == Explicit \/ Discover \/ FindUp \/ FindHere \/ FindNone \/ Skip \/ Descend \/ PassBy \/ Refuse \/ Opened
Spec == Init /\ [][Next]_vars

-----------------------------------------------------------------------------
\* What store_open was asked to open, and the lexical paths on the way.
Asked == IF db.absolute THEN db.parts ELSE cwd \o IF NoDb THEN Relative(cwd, dir) ELSE db.parts
Visited == Saying(Asked)
Above(p) == {SubSeq(p, 1, n) : n \in 0 .. Len(p) - 1}
Answered == pc \in {"opened", "failed"} /\ code # "no tasks"

\* A path is opened if and only if every part is a directory that can be reached and the
\* last one may be read, whichever ancestors may not.  What is opened, and locked, is the
\* directory its identity names, and no link leads to it: two commands with the same identity
\* exclude each other, and commands on the same directory report the same identity.
\* Otherwise nothing is reported missing that is there, and nothing unsafe that is just missing.
OpensWhatItMay == Answered =>
  /\ (pc = "opened") = /\ Kind(Normal(Asked)) = "dir"
                       /\ \A n \in DOMAIN Visited : /\ Kind(Visited[n]) \in Directories
                                                     /\ \A p \in Above(Visited[n]) : Kind(p) # "dark"
  /\ pc = "opened" => /\ fd[2] = path /\ path = Normal(Asked)
                      /\ \A p \in Above(path) : Kind(p) \in Directories
  /\ code = "database_not_found" => \E n \in DOMAIN Visited : Kind(Visited[n]) = "missing"
  /\ code = "unsafe_path" => \E n \in DOMAIN Visited : Kind(Visited[n]) \in {"file", "link"}

\* Without -db the nearest tasks directory above or at the working directory is the one
\* that is opened; one that cannot be opened hides those further up; the root has none.
\* The walk is from the root, through the working directory: below a directory that may not
\* be searched, one that is found from there is not opened.  And id names the task of a
\* working directory right in tasks, and of no other, as ref does, which searches the
\* directory tasks is in.
Tasks(n) == Append(SubSeq(cwd, 1, n), "tasks")
HasTasks == {n \in 1 .. Len(cwd) : Kind(Tasks(n)) \in Directories
                                   /\ \A p \in Above(Tasks(n)) : Kind(p) # "dark"}
NearestOpened == pc \in {"opened", "failed"} /\ NoDb =>
  IF HasTasks = {} THEN code = "no tasks"
  ELSE LET n == CHOOSE n \in HasTasks : \A k \in HasTasks : k <= n IN
       /\ IF pc = "opened" THEN path = Tasks(n)
          ELSE Kind(Tasks(n)) # "dir" \/ \E p \in Above(cwd) : Kind(p) = "dark"
       /\ IdPrints = IF cwd = Append(Tasks(n), Last(cwd)) THEN Last(cwd) ELSE "nothing"
       /\ Normal(cwd \o Searched) = SubSeq(cwd, 1, n)
=============================================================================
