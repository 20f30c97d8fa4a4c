---------------------------- MODULE FilesProofs -----------------------------
(***************************************************************************)
(* Proofs about what the commands do to single files, as MCFiles has them  *)
(* beside each other.  First todo: what it leaves of a source file, and    *)
(* that marks and tasks correspond.  Then the task files: what the parser, *)
(* Put and the folds of the updates compute, that a task survives being    *)
(* written and read, and so what new, set and ls -update do to the parts   *)
(* nobody asked to change.                                                 *)
(***************************************************************************)
EXTENDS MCFiles, FiniteSetTheorems, SequenceTheorems, WellFoundedInduction, TLAPS

\* The work on a file: from reading it to the next.
Working == {"scan", "prompt", "create", "open", "write"}
Plain == {"code", "comment"}
Texts == Seq(Plain \cup Id)
Subject == Head(args)

TodoTypes ==
  /\ source \in [File -> Texts] /\ written \in [File -> Seq(Plain)]
  /\ tasks \subseteq Id /\ IsFiniteSet(tasks)
  /\ args \in Seq(File) /\ lines \in Texts /\ at \in Nat \ {0}
  /\ pc \in Working \cup {"idle", "read"}
  /\ pc \in Working => args # <<>>

\* Lines as people wrote them, or the beginning of those, with tasks in the place of comments.
Marked(now, old) ==
  /\ Len(now) <= Len(old)
  /\ \A n \in 1 .. Len(now) : now[n] # old[n] => old[n] = "comment" /\ now[n] \in tasks

\* Every source file, and what todo has in memory of the one it works on, are such lines;
\* unless something failed, both are complete and the same, but for the write under way.
SourcesMarked ==
  /\ \A f \in File : /\ Marked(source[f], written[f])
                     /\ failed \/ (pc = "write" /\ f = Subject) \/ Len(source[f]) = Len(written[f])
  /\ pc \in Working => /\ Marked(lines, written[Subject])
                       /\ failed \/ Len(lines) = Len(written[Subject])
  /\ pc \in {"scan", "prompt", "create"} => failed \/ lines = source[Subject]
  /\ pc \in {"prompt", "create"} => at <= Len(lines) /\ lines[at] = "comment"

\* What is on disk, or will be once the write is done.
Current(f) == IF pc \in {"open", "write"} /\ f = Subject THEN lines ELSE source[f]

\* Marks and tasks correspond, unless something failed.
OneEach ==
  ~failed =>
    /\ \A f \in File : \A n \in T!Marks(Current(f)) : Current(f)[n] \in tasks
    /\ \A t \in tasks : \E f \in File : \E n \in T!Marks(Current(f)) : Current(f)[n] = t
    /\ \A f, g \in File : \A n \in T!Marks(Current(f)), m \in T!Marks(Current(g)) :
         Current(f)[n] = Current(g)[m] => f = g /\ n = m

TodoInv == TodoTypes /\ SourcesMarked /\ OneEach

-----------------------------------------------------------------------------
\* At the beginning, and where todo is not looked at.
LEMMA TodoInit == T!Init \/ NoTodo => TodoInv
<1> SUFFICES ASSUME T!Init \/ NoTodo PROVE TodoInv
  OBVIOUS
<1>1. /\ written \in [File -> Seq(Plain)] /\ source = written /\ tasks = {} /\ pc = "idle" /\ args = <<>>
      /\ lines = <<>> /\ at = 1 /\ failed = FALSE
  <2>1. <<>> \in Seq(Plain) /\ Sources \subseteq Seq(Plain)
    BY TodoAssumption DEF T!TodoAssumption, Plain
  <2>2. written \in [File -> Seq(Plain)]
    BY <2>1 DEF T!Init, NoTodo
  <2> QED BY <2>2 DEF T!Init, NoTodo
<1>2. \A f \in File : written[f] \in Seq(Plain) /\ source[f] \in Texts
  <2>1. \A s \in Seq(Plain) : s \in Texts
    BY DEF Texts
  <2> QED BY <1>1, <2>1
<1>3. TodoTypes
  <2>1. source \in [File -> Texts]
    BY <1>1, <1>2
  <2>2. <<>> \in Texts /\ <<>> \in Seq(File)
    BY DEF Texts
  <2>3. at \in Nat \ {0} /\ IsFiniteSet(tasks) /\ tasks \subseteq Id /\ pc \notin Working
    BY <1>1, FS_EmptySet DEF Working
  <2> QED BY <1>1, <2>1, <2>2, <2>3 DEF TodoTypes
<1>4. SourcesMarked
  BY <1>1, <1>2 DEF SourcesMarked, Marked, Working
<1>5. ASSUME NEW f \in File PROVE T!Marks(Current(f)) = {}
  <2>1. Id \cap Plain = {}
    BY TodoAssumption DEF T!TodoAssumption, Plain
  <2>2. Current(f) = written[f]
    BY <1>1 DEF Current
  <2> QED BY <1>2, <2>1, <2>2 DEF T!Marks
<1>6. OneEach
  BY <1>1, <1>5 DEF OneEach
<1> QED BY <1>3, <1>4, <1>6 DEF TodoInv

\* What neither makes a task nor changes what the files are to be leaves them in accord.
LEMMA OneEachStays ==
  ASSUME OneEach, tasks' = tasks, failed' \/ (~failed /\ \A f \in File : Current(f)' = Current(f))
  PROVE  OneEach'
BY DEF OneEach, T!Marks

\* Tasks that are made leave marked lines as they are.
LEMMA MarkedStays == ASSUME NEW now, NEW old, Marked(now, old), tasks \subseteq tasks' PROVE Marked(now, old)'
BY DEF Marked

\* A step that touches neither a file nor the database, if what it has in memory is right.
LEMMA QuietStep ==
  ASSUME TodoInv, UNCHANGED <<source, written, tasks>>, TodoTypes',
         failed' \/ (~failed /\ pc \notin {"open", "write"} /\ pc' \notin {"open", "write"}),
         pc' \in Working => /\ Marked(lines', written[Subject'])
                            /\ failed' \/ Len(lines') = Len(written[Subject']),
         pc' \in {"scan", "prompt", "create"} => failed' \/ lines' = source[Subject'],
         pc' \in {"prompt", "create"} => at' <= Len(lines') /\ lines'[at'] = "comment"
  PROVE  TodoInv'
<1>1. \A now, old : Marked(now, old)' <=> Marked(now, old)
  BY DEF Marked
<1>2. SourcesMarked'
  BY <1>1 DEF TodoInv, SourcesMarked, Marked
<1>3. OneEach'
  BY OneEachStays DEF TodoInv, Current
<1> QED BY <1>2, <1>3 DEF TodoInv

LEMMA FilesLeft == TodoInv /\ args # <<>> => Head(args) \in File /\ Tail(args) \in Seq(File)
BY DEF TodoInv, TodoTypes

\* Starting, giving up, and asking.
LEMMA StartsAndEnds ==
  ASSUME TodoInv, T!Start \/ T!Answer \/ T!Crash
  PROVE  TodoInv'
<1> USE DEF T!Goto, T!GiveUp, T!NextFile, T!Skip, T!EndOfInput, T!files, T!loop
<1>1. CASE T!Start
  <2>1. TodoTypes'
    BY <1>1, TodoAssumption DEF T!Start, TodoInv, TodoTypes, Working, T!TodoAssumption
  <2> QED BY <1>1, <2>1, QuietStep DEF T!Start, TodoInv, TodoTypes, Working
<1>2. CASE T!Answer
  <2>1. TodoTypes'
    <3>1. /\ UNCHANGED <<source, written, tasks, lines>> /\ at' \in {at, at + 1} /\ pc = "prompt"
          /\ pc' \in {"create", "scan", "idle", "read"} /\ (args' = args \/ (pc' = "read" /\ args' = Tail(args)))
      BY <1>2 DEF T!Answer
    <3>2. args \in Seq(File) /\ args # <<>> /\ at \in Nat \ {0}
      BY <3>1 DEF TodoInv, TodoTypes, Working
    <3>3. Tail(args) \in Seq(File) /\ at + 1 \in Nat \ {0}
      BY <3>2
    <3> QED BY <3>1, <3>2, <3>3 DEF TodoInv, TodoTypes, Working
  <2> QED BY <1>2, <2>1, QuietStep DEF T!Answer, TodoInv, TodoTypes, SourcesMarked, Working, Subject
<1>3. CASE T!Crash
  <2>1. TodoTypes'
    BY <1>3 DEF T!Crash, TodoInv, TodoTypes, Working
  <2> QED BY <1>3, <2>1, QuietStep DEF T!Crash, Working
<1> QED BY <1>1, <1>2, <1>3

\* Reading a file, and going over its lines.
LEMMA ReadsAndScans ==
  ASSUME TodoInv, T!Read \/ T!Scan
  PROVE  TodoInv'
<1> USE DEF T!Goto, T!GiveUp, T!NextFile, T!files, T!loop
<1>1. CASE T!Read
  <2>1. TodoTypes'
    <3>1. /\ UNCHANGED <<source, written, tasks, args>> /\ at' \in {at, 1}
          /\ \/ pc' = "idle" /\ lines' = lines
             \/ pc' = "scan" /\ args # <<>> /\ lines' = source[Head(args)]
      BY <1>1 DEF T!Read
    <3>2. args # <<>> => source[Head(args)] \in Texts
      BY FilesLeft DEF TodoInv, TodoTypes
    <3> QED BY <3>1, <3>2 DEF TodoInv, TodoTypes, Working
  <2>2. args # <<>> => Subject \in File
    BY DEF TodoInv, TodoTypes, Subject
  <2> QED BY <1>1, <2>1, <2>2, QuietStep DEF T!Read, TodoInv, TodoTypes, SourcesMarked, Working, Subject
<1>2. CASE T!Scan
  <2>1. TodoTypes'
    <3>1. /\ UNCHANGED <<source, written, tasks, lines, failed>> /\ at' \in {at, at + 1} /\ pc = "scan"
          /\ pc' \in {"create", "scan", "prompt", "read"} /\ (args' = args \/ (pc' = "read" /\ args' = Tail(args)))
      BY <1>2 DEF T!Scan
    <3>2. args \in Seq(File) /\ args # <<>> /\ at \in Nat \ {0}
      BY <3>1 DEF TodoInv, TodoTypes, Working
    <3>3. Tail(args) \in Seq(File) /\ at + 1 \in Nat \ {0}
      BY <3>2
    <3> QED BY <3>1, <3>2, <3>3 DEF TodoInv, TodoTypes, Working
  <2> QED BY <1>2, <2>1, QuietStep DEF T!Scan, TodoInv, TodoTypes, SourcesMarked, Working, Subject
<1> QED BY <1>1, <1>2

\* A new id is put in the place of one comment.
LEMMA CreateStep ==
  ASSUME TodoInv, T!Create
  PROVE  TodoInv'
<1> USE DEF T!Goto, T!GiveUp, T!loop, T!files
<1> DEFINE i == T!NewId
<1>1. i \in Id /\ i \notin tasks
  BY DEF T!Create, T!NewId, TodoInv, TodoTypes
<1>2. Id \cap Plain = {}
  BY TodoAssumption DEF T!TodoAssumption, Plain
<1>3. Subject \in File /\ args # <<>>
  BY DEF T!Create, TodoInv, TodoTypes, Working, Subject
<1>4. /\ lines \in Texts /\ at \in 1 .. Len(lines) /\ lines[at] = "comment"
      /\ Marked(lines, written[Subject]) /\ written[Subject] \in Seq(Plain)
  BY <1>3 DEF T!Create, TodoInv, TodoTypes, SourcesMarked, Working
<1> HIDE DEF i
<1>5. UNCHANGED <<source, written, args, at>> /\ pc = "create" /\ Subject' = Subject
  BY DEF T!Create, Subject
<1>6. tasks' \in {tasks, tasks \cup {i}} /\ IsFiniteSet(tasks') /\ tasks \subseteq tasks' /\ tasks' \subseteq Id
  <2>1. tasks' \in {tasks, tasks \cup {i}}
    BY DEF T!Create, i
  <2> QED BY <1>1, <2>1, FS_AddElement DEF TodoInv, TodoTypes
<1>7. CASE tasks' = tasks \cup {i} /\ lines' = [lines EXCEPT ![at] = i] /\ pc' = "open" /\ failed' = failed
  <2>1. /\ lines' \in Texts /\ Len(lines') = Len(lines) /\ lines'[at] = i
        /\ \A n \in 1 .. Len(lines) : n # at => lines'[n] = lines[n]
    BY <1>1, <1>4, <1>7 DEF Texts
  <2>2. TodoTypes'
    BY <1>3, <1>5, <1>6, <1>7, <2>1 DEF TodoInv, TodoTypes, Working
  <2>3. Marked(lines, written[Subject])'
    <3>1. written[Subject][at] = "comment"
      <4>1. at \in 1 .. Len(written[Subject]) /\ written[Subject][at] \in Plain
        BY <1>4 DEF Marked, Texts
      <4> QED BY <1>4, <4>1 DEF Marked
    <3> QED BY <1>1, <1>4, <1>5, <1>6, <1>7, <2>1, <3>1 DEF Marked
  <2>4. SourcesMarked'
    <3>1. \A f \in File : Marked(source[f], written[f])'
      BY <1>5, <1>6 DEF TodoInv, SourcesMarked, Marked
    <3>2. failed \/ Len(lines) = Len(written[Subject])
      BY <1>5 DEF TodoInv, SourcesMarked, Working
    <3> QED BY <1>5, <1>7, <2>1, <2>3, <3>1, <3>2 DEF TodoInv, SourcesMarked, Working
  <2>5. ASSUME ~failed PROVE OneEach'
    <3>1. source[Subject] = lines
      BY <1>5, <2>5 DEF TodoInv, SourcesMarked
    <3>2. \A f \in File : Current(f) = source[f]
      BY <1>5 DEF Current
    <3>3. \A f \in File : f # Subject => Current(f)' = source[f]
      BY <1>5, <1>7 DEF Current
    <3>4. \A f \in File : f = Subject => Current(f)' = lines'
      BY <1>5, <1>7 DEF Current
    <3>5. /\ T!Marks(lines') = T!Marks(lines) \cup {at} /\ at \notin T!Marks(lines)
          /\ \A n \in T!Marks(lines) : lines'[n] = lines[n]
      BY <1>1, <1>2, <1>4, <2>1 DEF T!Marks, Texts, Plain
    <3>6. ASSUME NEW f \in File
          PROVE  /\ \A n \in T!Marks(Current(f)) : n \in T!Marks(Current(f)') /\ Current(f)'[n] = Current(f)[n]
                 /\ \A n \in T!Marks(Current(f)') : \/ n \in T!Marks(Current(f)) /\ Current(f)'[n] = Current(f)[n]
                                                    \/ f = Subject /\ n = at /\ Current(f)'[n] = i
      <4>1. CASE f = Subject
        <5>1. Current(f) = lines /\ Current(f)' = lines'
          <6>1. Current(Subject) = lines
            BY <1>3, <3>1, <3>2
          <6> QED BY <3>4, <4>1, <6>1
        <5> QED BY <2>1, <3>5, <4>1, <5>1
      <4>2. CASE f # Subject
        BY <3>2, <3>3, <4>2
      <4> QED BY <4>1, <4>2
    <3>7. \A f \in File : f = Subject => Current(f)'[at] = i /\ at \in T!Marks(Current(f)')
      BY <2>1, <3>4, <3>5
    <3>8. /\ \A f \in File : \A n \in T!Marks(Current(f)) : Current(f)[n] \in tasks
          /\ \A t \in tasks : \E f \in File : \E n \in T!Marks(Current(f)) : Current(f)[n] = t
          /\ \A f, g \in File : \A n \in T!Marks(Current(f)), m \in T!Marks(Current(g)) :
               Current(f)[n] = Current(g)[m] => f = g /\ n = m
      BY <2>5 DEF TodoInv, OneEach
    <3>9. \A f \in File : \A n \in T!Marks(Current(f)') : Current(f)'[n] \in tasks'
      BY <1>7, <3>6, <3>8
    <3>10. \A t \in tasks' : \E f \in File : \E n \in T!Marks(Current(f)') : Current(f)'[n] = t
      <4>1. ASSUME NEW t \in tasks PROVE \E f \in File : \E n \in T!Marks(Current(f)') : Current(f)'[n] = t
        <5>1. PICK f \in File : \E n \in T!Marks(Current(f)) : Current(f)[n] = t
          BY <3>8
        <5> QED BY <3>6, <5>1
      <4> QED BY <1>3, <1>7, <3>7, <4>1
    <3>11. \A f, g \in File : \A n \in T!Marks(Current(f)'), m \in T!Marks(Current(g)') :
             Current(f)'[n] = Current(g)'[m] => f = g /\ n = m
      BY <1>1, <3>6, <3>8
    <3> QED BY <3>9, <3>10, <3>11 DEF OneEach, T!Marks
  <2>6. failed => OneEach'
    BY <1>7 DEF OneEach
  <2> QED BY <2>2, <2>4, <2>5, <2>6 DEF TodoInv
<1>8. CASE pc' = "idle" /\ failed' = TRUE /\ lines' = lines
  <2>1. TodoTypes'
    BY <1>5, <1>6, <1>8 DEF TodoInv, TodoTypes, Working
  <2>2. SourcesMarked'
    BY <1>5, <1>6, <1>8 DEF TodoInv, SourcesMarked, Marked, Working
  <2> QED BY <1>8, <2>1, <2>2 DEF TodoInv, OneEach
<1> QED BY <1>7, <1>8 DEF T!Create, i

\* The file is truncated.
LEMMA OpenStep ==
  ASSUME TodoInv, T!OpenSource
  PROVE  TodoInv'
<1> USE DEF T!Goto, T!GiveUp, T!loop, T!files
<1>1. Subject \in File /\ args # <<>> /\ pc = "open" /\ UNCHANGED <<written, tasks, args, lines, at, yes>> /\ Subject' = Subject
  BY DEF T!OpenSource, TodoInv, TodoTypes, Working, Subject
<1>2. CASE source' = [source EXCEPT ![Subject] = <<>>] /\ pc' = "write" /\ failed' = failed
  <2>1. <<>> \in Texts /\ source'[Subject] = <<>> /\ \A f \in File : f # Subject => source'[f] = source[f]
    BY <1>1, <1>2 DEF Texts, TodoInv, TodoTypes
  <2>2. TodoTypes'
    BY <1>1, <1>2, <2>1 DEF TodoInv, TodoTypes, Working
  <2>3. Marked(<<>>, written[Subject])
    BY <1>1 DEF Marked, TodoInv, TodoTypes
  <2>4. SourcesMarked'
    <3>1. \A f \in File : Marked(source[f], written[f])'
      BY <1>1, <1>2, <2>1, <2>3 DEF TodoInv, SourcesMarked, Marked
    <3>2. Marked(lines, written[Subject])'
      BY <1>1 DEF TodoInv, SourcesMarked, Marked, Working
    <3>3. \A f \in File : failed' \/ f = Subject \/ Len(source'[f]) = Len(written'[f])
      BY <1>1, <1>2, <2>1 DEF TodoInv, SourcesMarked
    <3>4. failed' \/ Len(lines') = Len(written'[Subject])
      BY <1>1, <1>2 DEF TodoInv, SourcesMarked, Working
    <3> QED BY <1>1, <1>2, <3>1, <3>2, <3>3, <3>4 DEF SourcesMarked
  <2>5. \A f \in File : Current(f)' = Current(f)
    BY <1>1, <1>2, <2>1 DEF Current
  <2>6. OneEach'
    BY <1>1, <1>2, <2>5, OneEachStays DEF TodoInv, OneEach
  <2> QED BY <2>2, <2>4, <2>6 DEF TodoInv
<1>3. CASE pc' = "idle" /\ failed' = TRUE /\ source' = source
  <2>1. TodoTypes'
    BY <1>1, <1>3 DEF TodoInv, TodoTypes, Working
  <2> QED BY <1>1, <1>3, <2>1, QuietStep DEF Working
<1> QED BY <1>2, <1>3 DEF T!OpenSource, Subject

\* The lines in memory, or the first of them, become the file.
LEMMA WriteStep ==
  ASSUME TodoInv, T!WriteSource
  PROVE  TodoInv'
<1> USE DEF T!Goto, T!Skip, T!loop, T!files
<1>1. /\ Subject \in File /\ args # <<>> /\ pc = "write" /\ UNCHANGED <<written, tasks, args, lines>> /\ Subject' = Subject
      /\ lines \in Texts /\ Marked(lines, written[Subject])
      /\ failed \/ Len(lines) = Len(written[Subject])
      /\ at \in Nat \ {0} /\ at' \in {at, at + 1}
      /\ written[Subject] \in Seq(Plain)
  BY DEF T!WriteSource, TodoInv, TodoTypes, SourcesMarked, Working, Subject
<1>2. ASSUME NEW new, new \in Texts, Marked(new, written[Subject]), source' = [source EXCEPT ![Subject] = new],
             pc' \in {"idle", "scan"},
             failed' = TRUE \/ (failed' = failed /\ new = lines)
      PROVE  TodoInv'
  <2>1. source'[Subject] = new /\ \A f \in File : f # Subject => source'[f] = source[f]
    BY <1>1, <1>2 DEF TodoInv, TodoTypes
  <2>2. TodoTypes'
    <3>1. source' \in [File -> Texts]
      BY <1>1, <1>2 DEF TodoInv, TodoTypes
    <3> QED BY <1>1, <1>2, <3>1 DEF TodoInv, TodoTypes, Working
  <2>3. SourcesMarked'
    <3>1. ASSUME NEW f \in File
          PROVE  Marked(source[f], written[f])' /\ (failed' \/ Len(source'[f]) = Len(written'[f]))
      <4>1. CASE f = Subject
        BY <1>1, <1>2, <2>1, <4>1 DEF Marked
      <4>2. CASE f # Subject
        BY <1>1, <1>2, <2>1, <4>2 DEF Marked, TodoInv, SourcesMarked
      <4> QED BY <4>1, <4>2
    <3> QED BY <1>1, <1>2, <2>1, <3>1 DEF SourcesMarked, Working, Marked
  <2>4. ~failed' => \A f \in File : Current(f)' = Current(f)
    BY <1>1, <1>2, <2>1 DEF Current
  <2>5. OneEach'
    BY <1>1, <1>2, <2>4, OneEachStays DEF TodoInv, OneEach
  <2> QED BY <2>2, <2>3, <2>5 DEF TodoInv
<1>3. CASE source' = [source EXCEPT ![Subject] = lines] /\ pc' = "scan" /\ failed' = failed
  BY <1>1, <1>2, <1>3
<1>4. CASE \E n \in 0 .. Len(lines) - 1 : /\ source' = [source EXCEPT ![Subject] = SubSeq(lines, 1, n)]
                                          /\ failed' = TRUE /\ pc' \in {"idle", "scan"}
  <2>1. PICK n \in 0 .. Len(lines) - 1 : /\ source' = [source EXCEPT ![Subject] = SubSeq(lines, 1, n)]
                                         /\ failed' = TRUE /\ pc' \in {"idle", "scan"}
    BY <1>4
  <2>2. /\ SubSeq(lines, 1, n) \in Texts /\ Len(SubSeq(lines, 1, n)) = n
        /\ \A k \in 1 .. n : SubSeq(lines, 1, n)[k] = lines[k]
    BY <1>1, <2>1 DEF Texts
  <2>3. Marked(SubSeq(lines, 1, n), written[Subject])
    BY <1>1, <2>1, <2>2 DEF Marked, Texts
  <2> QED BY <1>2, <2>1, <2>2, <2>3
<1> QED BY <1>3, <1>4 DEF T!WriteSource, T!Output, Subject

\* Every step.
LEMMA TodoNext ==
  ASSUME TodoInv, [T!Next]_todo
  PROVE  TodoInv'
<1>1. CASE UNCHANGED todo
  BY <1>1 DEF todo, TodoInv, TodoTypes, SourcesMarked, Marked, OneEach, Current, Subject, T!Marks
<1> QED BY <1>1, StartsAndEnds, ReadsAndScans, CreateStep, OpenStep, WriteStep DEF T!Next, T!Run

LEMMA TodoHolds ==
  /\ PartsInit => TodoInv
  /\ TodoInv /\ [PartsNext]_<<vars, todo, part>> => TodoInv'
<1>1. PartsInit => TodoInv
  BY TodoInit DEF PartsInit
<1>2. [PartsNext]_<<vars, todo, part>> => [T!Next]_todo
  BY DEF PartsNext
<1> QED BY <1>1, <1>2, TodoNext

\* Whatever fails and whoever dies, a source file is what people wrote with marks in the place
\* of comments, or the beginning of that.
THEOREM SourcesAreKept == PartsSpec => []SourceKept
<1>1. TodoInv => SourceKept
  <2> SUFFICES ASSUME TodoInv, NEW f \in File
               PROVE  /\ Len(source[f]) <= Len(written[f])
                      /\ \A n \in DOMAIN source[f] : source[f][n] # written[f][n]
                                                     => written[f][n] = "comment" /\ n \in T!Marks(source[f])
                      /\ Len(source[f]) = Len(written[f]) \/ failed \/ (pc = "write" /\ f = Head(args))
    BY DEF SourceKept, T!SourceKept
  <2>1. source[f] \in Texts /\ Marked(source[f], written[f]) /\ tasks \subseteq Id
    BY DEF TodoInv, TodoTypes, SourcesMarked
  <2>2. DOMAIN source[f] = 1 .. Len(source[f])
    BY <2>1 DEF Texts
  <2>3. failed \/ (pc = "write" /\ f = Head(args)) \/ Len(source[f]) = Len(written[f])
    BY DEF TodoInv, SourcesMarked, Subject
  <2> QED BY <2>1, <2>2, <2>3 DEF Marked, T!Marks
<1> QED BY <1>1, TodoHolds, PTL DEF PartsSpec

LEMMA TodoCardinality == \A X : T!Cardinality(X) = Cardinality(X)
BY DEF T!Cardinality, Cardinality

\* Places with tasks in them, each with one of its own, are as many as tasks if every task
\* has a place.
LEMMA PlacesCounted ==
  ASSUME NEW marks, NEW made, IsFiniteSet(made), NEW h \in [marks -> made],
         \A t \in made : \E m \in marks : h[m] = t,
         \A m, k \in marks : h[m] = h[k] => m = k
  PROVE  Cardinality(marks) = Cardinality(made)
<1>1. h \in Injection(marks, made)
  BY DEF Injection, IsInjective
<1>2. h \in Surjection(marks, made)
  BY DEF Surjection
<1> QED BY <1>1, <1>2, FS_Injection

\* Each id in a source file is that of a task, whatever happens; and when nothing has failed,
\* each task has one mark.
THEOREM MarksLeadToTasks == PartsSpec => []OneTaskPerComment
<1>1. TodoInv => OneTaskPerComment
  <2> SUFFICES ASSUME TodoInv PROVE OneTaskPerComment
    OBVIOUS
  <2> DEFINE marks == UNION {{<<f, n>> : n \in T!Marks(source[f])} : f \in File}
             Of(m) == source[m[1]][m[2]]
  <2>1. \A m : m \in marks <=> \E f \in File : \E n \in T!Marks(source[f]) : m = <<f, n>>
    OBVIOUS
  <2>2. ASSUME NEW f \in File, NEW n \in T!Marks(source[f]) PROVE source[f][n] \in tasks
    <3>1. source[f] \in Texts /\ written[f] \in Seq(Plain) /\ Marked(source[f], written[f])
      BY DEF TodoInv, TodoTypes, SourcesMarked
    <3>2. n \in 1 .. Len(source[f]) /\ source[f][n] \in Id /\ written[f][n] \in Plain
      BY <3>1 DEF T!Marks, Marked, Texts
    <3>3. source[f][n] # written[f][n]
      BY <3>2, TodoAssumption DEF Plain, T!TodoAssumption
    <3> QED BY <3>1, <3>2, <3>3 DEF Marked
  <2>3. \A m \in marks : Of(m) \in tasks
    BY <2>1, <2>2
  <2>4. ASSUME pc = "idle", ~failed
        PROVE  /\ \A t \in tasks : \E m \in marks : Of(m) = t
               /\ \A m, k \in marks : Of(m) = Of(k) => m = k
    <3>1. \A f \in File : Current(f) = source[f]
      BY <2>4 DEF Current
    <3>2. /\ \A t \in tasks : \E f \in File : \E n \in T!Marks(source[f]) : source[f][n] = t
          /\ \A f, g \in File : \A n \in T!Marks(source[f]), m \in T!Marks(source[g]) :
               source[f][n] = source[g][m] => f = g /\ n = m
      BY <2>4, <3>1 DEF TodoInv, OneEach
    <3>3. ASSUME NEW t \in tasks PROVE \E m \in marks : Of(m) = t
      <4>1. PICK f \in File : \E n \in T!Marks(source[f]) : source[f][n] = t
        BY <3>2
      <4>2. PICK n \in T!Marks(source[f]) : source[f][n] = t
        BY <4>1
      <4>3. <<f, n>> \in marks /\ Of(<<f, n>>) = t
        BY <2>1, <4>2
      <4> QED BY <4>3
    <3> QED BY <2>1, <3>2, <3>3
  <2>5. IsFiniteSet(tasks)
    BY DEF TodoInv, TodoTypes
  <2> HIDE DEF marks, Of
  <2>6. ASSUME pc = "idle", ~failed
        PROVE  Cardinality(marks) = Cardinality(tasks) /\ {Of(m) : m \in marks} = tasks
    <3>1. /\ \A t \in tasks : \E m \in marks : Of(m) = t
          /\ \A m, k \in marks : Of(m) = Of(k) => m = k
      BY <2>4, <2>6
    <3>2. Cardinality(marks) = Cardinality(tasks)
      <4> DEFINE h == [m \in marks |-> Of(m)]
      <4>1. h \in [marks -> tasks] /\ \A m \in marks : h[m] = Of(m)
        BY <2>3
      <4> HIDE DEF h
      <4> QED BY <2>5, <3>1, <4>1, PlacesCounted
    <3> QED BY <2>3, <3>1, <3>2
  <2>7. {Of(m) : m \in marks} \subseteq tasks
    BY <2>3
  <2>8. pc = "idle" /\ ~failed => T!Cardinality(marks) = T!Cardinality(tasks) /\ {Of(m) : m \in marks} = tasks
    BY <2>6, TodoCardinality
  <2> QED BY <2>7, <2>8 DEF OneTaskPerComment, T!OneTaskPerComment, marks, Of
<1> QED BY <1>1, TodoHolds, PTL DEF PartsSpec

-----------------------------------------------------------------------------

\* A set of numbers has a least one.
LEMMA LeastOf ==
  ASSUME NEW S \in SUBSET Nat, S # {}
  PROVE  \E x \in S : \A y \in S : x <= y
<1> DEFINE Less == {ss \in Nat \X Nat : ss[1] < ss[2]}
<1>1. IsWellFoundedOn(Less, Nat)
  BY NatLessThanWellFounded DEF OpToRel
<1>2. PICK x \in S : \A y \in S : ~(<<y, x>> \in Less)
  <2> HIDE DEF Less
  <2> QED BY <1>1, WFMin
<1>3. ASSUME NEW y \in S PROVE x <= y
  <2>1. x \in Nat /\ y \in Nat /\ ~(y < x)
    BY <1>2
  <2> QED BY <2>1
<1> QED BY <1>3

\* The first of some places, 0 if there is none.
FirstOf(I) == IF I # {} THEN Min(I) ELSE 0

LEMMA FirstOfIs ==
  ASSUME NEW n \in Nat, NEW I \in SUBSET (1 .. n)
  PROVE  \/ I = {} /\ FirstOf(I) = 0
         \/ FirstOf(I) \in I /\ FirstOf(I) \in 1 .. n /\ \A i \in I : FirstOf(I) <= i
<1>1. CASE I # {}
  <2>1. I \in SUBSET Nat
    OBVIOUS
  <2>2. \E x \in I : \A y \in I : x <= y
    BY <1>1, <2>1, LeastOf
  <2>3. Min(I) \in I /\ \A i \in I : Min(I) <= i
    BY <2>2, Zenon DEF Min
  <2> QED BY <1>1, <2>3 DEF FirstOf
<1>2. CASE I = {}
  BY <1>2 DEF FirstOf
<1> QED BY <1>1, <1>2

\* A sequence whose places are those of two others is the one followed by the other.
LEMMA JoinIs ==
  ASSUME NEW A, NEW a \in Seq(A), NEW b \in Seq(A), NEW c \in Seq(A), Len(c) = Len(a) + Len(b),
         \A i \in 1 .. Len(a) : c[i] = a[i], \A i \in 1 .. Len(b) : c[Len(a) + i] = b[i]
  PROVE  c = a \o b
<1>1. /\ a \o b \in Seq(A) /\ Len(a \o b) = Len(a) + Len(b) /\ Len(a) \in Nat /\ Len(b) \in Nat
      /\ \A i \in 1 .. Len(a) + Len(b) : (a \o b)[i] = IF i <= Len(a) THEN a[i] ELSE b[i - Len(a)]
  BY ConcatProperties
<1>2. ASSUME NEW i \in 1 .. Len(a) + Len(b) PROVE c[i] = (a \o b)[i]
  <2>1. CASE i <= Len(a)
    BY <1>1, <2>1
  <2>2. CASE ~(i <= Len(a))
    <3>1. i - Len(a) \in 1 .. Len(b) /\ Len(a) + (i - Len(a)) = i
      BY <1>1, <2>2
    <3>2. c[i] = b[i - Len(a)]
      BY <3>1
    <3> QED BY <1>1, <2>2, <3>2
  <2> QED BY <2>1, <2>2
<1> DEFINE d == a \o b
<1>3. d \in Seq(A) /\ Len(d) = Len(c) /\ \A i \in 1 .. Len(c) : c[i] = d[i]
  BY <1>1, <1>2
<1> HIDE DEF d
<1>4. c = d
  BY <1>3, SeqEqual
<1> QED BY <1>4 DEF d

PropList == Seq(Property)
NoNul(f) == \A n \in DOMAIN f : f[n].kind # "nul"

\* What the parser sees: the lines before the first NUL.
LEMMA SeenIs ==
  ASSUME NEW f \in Seq(Line)
  PROVE  \E m \in 0 .. Len(f) : /\ Seen(f) = SubSeq(f, 1, m)
                                /\ \A i \in 1 .. m : f[i].kind # "nul"
                                /\ m = Len(f) \/ f[m + 1].kind = "nul"
<1> DEFINE I == {i \in 1 .. Len(f) : f[i].kind = "nul"} m == FirstOf(I)
<1>1. Seen(f) = IF m = 0 THEN f ELSE SubSeq(f, 1, m - 1)
  BY DEF Seen, SelectInSeq, FirstOf
<1>2. Len(f) \in Nat /\ I \in SUBSET (1 .. Len(f))
  OBVIOUS
<1>3. \A i \in 1 .. Len(f) : i \in I <=> f[i].kind = "nul"
  OBVIOUS
<1> HIDE DEF I
<1>4. (I = {} /\ m = 0) \/ (m \in I /\ m \in 1 .. Len(f) /\ \A i \in I : m <= i)
  BY <1>2, FirstOfIs
<1> HIDE DEF m
<1>5. CASE m = 0
  <2>1. Seen(f) = SubSeq(f, 1, Len(f))
    BY <1>1, <1>5, SubSeqFull, Zenon
  <2> QED BY <1>2, <1>3, <1>4, <1>5, <2>1
<1>6. CASE m # 0
  <2>1. m - 1 \in 0 .. Len(f) /\ (m - 1) + 1 = m /\ \A i \in 1 .. m - 1 : i \in 1 .. Len(f) /\ ~(m <= i)
    BY <1>2, <1>4, <1>6
  <2> QED BY <1>1, <1>3, <1>4, <1>6, <2>1
<1> QED BY <1>5, <1>6

\* A file without NUL is seen as a whole.
LEMMA SeenAll ==
  ASSUME NEW f \in Seq(Line), NoNul(f)
  PROVE  Seen(f) = f
<1>1. PICK m \in 0 .. Len(f) : Seen(f) = SubSeq(f, 1, m) /\ (m = Len(f) \/ f[m + 1].kind = "nul")
  BY SeenIs
<1>2. m = Len(f)
  BY <1>1 DEF NoNul
<1> QED BY <1>1, <1>2, SubSeqFull

\* Leaving out the blank lines at the beginning.
LEMMA SkipIs ==
  ASSUME NEW f \in Seq(Line)
  PROVE  \E m \in 0 .. Len(f) : /\ SkipBlank(f) = SubSeq(f, m + 1, Len(f))
                                /\ \A i \in 1 .. m : f[i] = Blank
                                /\ m = Len(f) \/ f[m + 1] # Blank
<1> DEFINE I == {i \in 1 .. Len(f) : f[i] # Blank} m == FirstOf(I)
<1>1. SkipBlank(f) = IF m = 0 THEN <<>> ELSE SubSeq(f, m, Len(f))
  BY DEF SkipBlank, SelectInSeq, FirstOf
<1>2. Len(f) \in Nat /\ I \in SUBSET (1 .. Len(f))
  OBVIOUS
<1>3. \A i \in 1 .. Len(f) : i \in I <=> f[i] # Blank
  OBVIOUS
<1> HIDE DEF I
<1>4. (I = {} /\ m = 0) \/ (m \in I /\ m \in 1 .. Len(f) /\ \A i \in I : m <= i)
  BY <1>2, FirstOfIs
<1> HIDE DEF m
<1>5. CASE m = 0
  <2>1. SubSeq(f, Len(f) + 1, Len(f)) = <<>>
    BY SubSeqEmpty, <1>2
  <2> QED BY <1>1, <1>2, <1>3, <1>4, <1>5, <2>1
<1>6. CASE m # 0
  <2>1. m - 1 \in 0 .. Len(f) /\ (m - 1) + 1 = m /\ \A i \in 1 .. m - 1 : i \in 1 .. Len(f) /\ ~(m <= i)
    BY <1>2, <1>4, <1>6
  <2> QED BY <1>1, <1>3, <1>4, <1>6, <2>1
<1> QED BY <1>5, <1>6

\* It is determined by where the first other line is.
LEMMA SkipTo ==
  ASSUME NEW f \in Seq(Line), NEW m \in 0 .. Len(f), \A i \in 1 .. m : f[i] = Blank,
         m = Len(f) \/ f[m + 1] # Blank
  PROVE  SkipBlank(f) = SubSeq(f, m + 1, Len(f))
<1>1. PICK k \in 0 .. Len(f) : /\ SkipBlank(f) = SubSeq(f, k + 1, Len(f))
                               /\ \A i \in 1 .. k : f[i] = Blank
                               /\ k = Len(f) \/ f[k + 1] # Blank
  BY SkipIs
<1>2. k = m
  BY <1>1
<1> QED BY <1>1, <1>2

\* The header is the longest beginning of property lines,
LEMMA HeaderIs ==
  ASSUME NEW f \in Seq(Line)
  PROVE  /\ HeaderLength(f) \in 0 .. Len(f)
         /\ \A i \in 1 .. HeaderLength(f) : f[i].kind = "prop"
         /\ HeaderLength(f) = Len(f) \/ f[HeaderLength(f) + 1].kind # "prop"
<1> DEFINE I == {i \in 1 .. Len(f) : f[i].kind # "prop"} m == FirstOf(I)
<1>1. HeaderLength(f) = IF m = 0 THEN Len(f) ELSE m - 1
  BY DEF HeaderLength, SelectInSeq, FirstOf
<1>2. Len(f) \in Nat /\ I \in SUBSET (1 .. Len(f))
  OBVIOUS
<1>3. \A i \in 1 .. Len(f) : i \in I <=> f[i].kind # "prop"
  OBVIOUS
<1> HIDE DEF I
<1>4. (I = {} /\ m = 0) \/ (m \in I /\ m \in 1 .. Len(f) /\ \A i \in I : m <= i)
  BY <1>2, FirstOfIs
<1> HIDE DEF m
<1>5. CASE m = 0
  BY <1>1, <1>2, <1>3, <1>4, <1>5
<1>6. CASE m # 0
  <2>1. m - 1 \in 0 .. Len(f) /\ (m - 1) + 1 = m /\ \A i \in 1 .. m - 1 : i \in 1 .. Len(f) /\ ~(m <= i)
    BY <1>2, <1>4, <1>6
  <2> QED BY <1>1, <1>3, <1>4, <1>6, <2>1
<1> QED BY <1>5, <1>6

\* and any such beginning is the header.
LEMMA HeaderTo ==
  ASSUME NEW f \in Seq(Line), NEW m \in 0 .. Len(f), \A i \in 1 .. m : f[i].kind = "prop",
         m = Len(f) \/ f[m + 1].kind # "prop"
  PROVE  HeaderLength(f) = m
BY HeaderIs

-----------------------------------------------------------------------------
\* Get and Has, on a list that has no key twice.
LEMMA GetIs ==
  ASSUME NEW ps \in PropList, Once(ps)
  PROVE  /\ \A n \in DOMAIN ps : Get(ps, ps[n][1]) = ps[n][2] /\ ps[n][1] \in KeysOf(ps)
         /\ \A k : k \notin KeysOf(ps) => Get(ps, k) = <<>>
         /\ \A k : Has(ps, k) <=> k \in KeysOf(ps)
         /\ \A k \in KeysOf(ps) : \E n \in DOMAIN ps : ps[n][1] = k
<1>1. \A k : k \in KeysOf(ps) <=> \E n \in DOMAIN ps : ps[n][1] = k
  BY DEF KeysOf, ToSet
<1>2. ASSUME NEW k PROVE LET I == {i \in 1 .. Len(ps) : ps[i][1] = k} IN
                         Get(ps, k) = IF I = {} THEN <<>> ELSE ps[FirstOf(I)][2]
  <2> DEFINE I == {i \in 1 .. Len(ps) : ps[i][1] = k}
  <2>1. Get(ps, k) = LET n == FirstOf(I) IN IF n = 0 THEN <<>> ELSE ps[n][2]
    BY DEF Get, SelectInSeq, FirstOf
  <2>2. Len(ps) \in Nat /\ I \in SUBSET (1 .. Len(ps))
    BY DEF PropList
  <2> HIDE DEF I
  <2>3. (I = {} /\ FirstOf(I) = 0) \/ (FirstOf(I) \in I /\ FirstOf(I) \in 1 .. Len(ps))
    BY <2>2, FirstOfIs
  <2>4. Get(ps, k) = IF I = {} THEN <<>> ELSE ps[FirstOf(I)][2]
    BY <2>1, <2>3
  <2> QED BY <2>4 DEF I
<1>3. ASSUME NEW n \in DOMAIN ps PROVE Get(ps, ps[n][1]) = ps[n][2]
  <2> DEFINE I == {i \in 1 .. Len(ps) : ps[i][1] = ps[n][1]}
  <2>1. n \in I /\ \A i \in I : i = n
    BY DEF Once, PropList
  <2>2. FirstOf(I) \in I
    <3>1. Len(ps) \in Nat /\ I \in SUBSET (1 .. Len(ps)) /\ I # {}
      BY <2>1 DEF PropList
    <3> HIDE DEF I
    <3> QED BY <3>1, FirstOfIs
  <2>3. FirstOf(I) = n
    BY <2>1, <2>2
  <2>4. Get(ps, ps[n][1]) = IF I = {} THEN <<>> ELSE ps[FirstOf(I)][2]
    BY <1>2
  <2> HIDE DEF I
  <2> QED BY <2>1, <2>3, <2>4
<1>4. ASSUME NEW k, k \notin KeysOf(ps) PROVE Get(ps, k) = <<>>
  <2>1. {i \in 1 .. Len(ps) : ps[i][1] = k} = {}
    BY <1>1, <1>4 DEF PropList
  <2> QED BY <1>2, <2>1
<1>5. \A k : Has(ps, k) <=> k \in KeysOf(ps)
  BY <1>1 DEF Has
<1> QED BY <1>1, <1>3, <1>4, <1>5

\* A key taken out: the others move up.
LEMMA WithoutIs ==
  ASSUME NEW ps \in PropList, NEW k
  PROVE  /\ k \notin KeysOf(ps) => Without(ps, k) = ps
         /\ k \in KeysOf(ps) => \E n \in DOMAIN ps :
              /\ ps[n][1] = k /\ Without(ps, k) \in PropList /\ Len(Without(ps, k)) = Len(ps) - 1
              /\ \A i \in 1 .. Len(ps) - 1 : Without(ps, k)[i] = IF i < n THEN ps[i] ELSE ps[i + 1]
<1> DEFINE I == {i \in 1 .. Len(ps) : ps[i][1] = k}
<1>1. I # {} <=> k \in KeysOf(ps)
  BY DEF KeysOf, ToSet, PropList
<1>2. I # {} => FirstOf(I) \in I
  <2>1. Len(ps) \in Nat /\ I \in SUBSET (1 .. Len(ps))
    BY DEF PropList
  <2> HIDE DEF I
  <2> QED BY <2>1, FirstOfIs
<1>3. (\E i \in 1 .. Len(ps) : ps[i][1] = k) <=> I # {}
  OBVIOUS
<1>4. Without(ps, k) = IF I # {} THEN RemoveAt(ps, FirstOf(I)) ELSE ps
  <2>1. Without(ps, k) = IF \E i \in 1 .. Len(ps) : ps[i][1] = k THEN RemoveAt(ps, FirstOf(I)) ELSE ps
    BY DEF Without, RemoveFirstMatch, SelectInSeq, FirstOf
  <2> QED BY <1>3, <2>1
<1> HIDE DEF I
<1>5. ASSUME k \in KeysOf(ps)
      PROVE  \E n \in DOMAIN ps :
              /\ ps[n][1] = k /\ Without(ps, k) \in PropList /\ Len(Without(ps, k)) = Len(ps) - 1
              /\ \A i \in 1 .. Len(ps) - 1 : Without(ps, k)[i] = IF i < n THEN ps[i] ELSE ps[i + 1]
  <2> DEFINE n == FirstOf(I)
  <2>1. n \in 1 .. Len(ps) /\ ps[n][1] = k
    BY <1>1, <1>2, <1>5 DEF I
  <2>2. Without(ps, k) = SubSeq(ps, 1, n - 1) \o SubSeq(ps, n + 1, Len(ps))
    BY <1>1, <1>4, <1>5 DEF RemoveAt
  <2> HIDE DEF n
  <2>3. /\ SubSeq(ps, 1, n - 1) \in PropList /\ Len(SubSeq(ps, 1, n - 1)) = n - 1
        /\ \A i \in 1 .. n - 1 : SubSeq(ps, 1, n - 1)[i] = ps[i]
    BY <2>1 DEF PropList
  <2>4. /\ SubSeq(ps, n + 1, Len(ps)) \in PropList /\ Len(SubSeq(ps, n + 1, Len(ps))) = Len(ps) - n
        /\ \A i \in 1 .. Len(ps) - n : SubSeq(ps, n + 1, Len(ps))[i] = ps[n + i]
    BY <2>1 DEF PropList
  <2> DEFINE a == SubSeq(ps, 1, n - 1) b == SubSeq(ps, n + 1, Len(ps))
  <2> HIDE DEF a, b
  <2>5. /\ a \o b \in PropList /\ Len(a \o b) = Len(ps) - 1
        /\ \A i \in 1 .. Len(ps) - 1 : (a \o b)[i] = IF i < n THEN ps[i] ELSE ps[i + 1]
    <3>1. /\ a \in PropList /\ Len(a) = n - 1 /\ \A i \in 1 .. n - 1 : a[i] = ps[i]
          /\ b \in PropList /\ Len(b) = Len(ps) - n /\ \A i \in 1 .. Len(ps) - n : b[i] = ps[n + i]
      BY <2>3, <2>4 DEF a, b
    <3>2. /\ a \o b \in PropList /\ Len(a \o b) = Len(a) + Len(b)
          /\ \A i \in 1 .. Len(a) + Len(b) : (a \o b)[i] = IF i <= Len(a) THEN a[i] ELSE b[i - Len(a)]
      BY <3>1, ConcatProperties DEF PropList
    <3>3. Len(ps) \in Nat
      BY DEF PropList
    <3>4. ASSUME NEW i \in 1 .. Len(ps) - 1
          PROVE  (a \o b)[i] = IF i < n THEN ps[i] ELSE ps[i + 1]
      <4>1. (a \o b)[i] = IF i <= n - 1 THEN a[i] ELSE b[i - (n - 1)]
        BY <3>1, <3>2, <3>3, <2>1
      <4>2. CASE i < n
        BY <4>1, <4>2, <3>1, <2>1
      <4>3. CASE ~(i < n)
        <5>1. i - (n - 1) \in 1 .. Len(ps) - n /\ n + (i - (n - 1)) = i + 1 /\ ~(i <= n - 1)
          BY <4>3, <2>1, <3>3
        <5> QED BY <4>1, <4>3, <5>1, <3>1
      <4> QED BY <4>2, <4>3
    <3>5. Len(a \o b) = Len(ps) - 1
      BY <2>1, <3>1, <3>2, <3>3
    <3> QED BY <3>2, <3>4, <3>5
  <2>6. DOMAIN ps = 1 .. Len(ps)
    BY DEF PropList
  <2> QED BY <2>1, <2>2, <2>5, <2>6 DEF a, b
<1> QED BY <1>1, <1>4, <1>5

\* One property put in: the new words, the others as they were and in their order.
LEMMA PutIs ==
  ASSUME NEW ps \in PropList, Once(ps), NEW p \in Property
  PROVE  LET q == Put(ps, p) IN
         /\ q \in PropList /\ Once(q) /\ KeysOf(q) = KeysOf(ps) \cup {p[1]}
         /\ Get(q, p[1]) = p[2] /\ \A k : k # p[1] => Get(q, k) = Get(ps, k)
         /\ \A k, l : k # p[1] /\ l # p[1] => (Before(q, k, l) <=> Before(ps, k, l))
         /\ p[1] \notin KeysOf(ps) => q = Append(ps, p)
<1> DEFINE w == Without(ps, p[1]) q == Put(ps, p)
<1>1. q = Append(w, p)
  BY DEF Put
<1>2. \A k : k \in KeysOf(ps) <=> \E n \in DOMAIN ps : ps[n][1] = k
  BY DEF KeysOf, ToSet
<1>3. CASE p[1] \notin KeysOf(ps)
  <2>1. q = Append(ps, p)
    BY <1>1, <1>3, WithoutIs
  <2> HIDE DEF q
  <2>2. /\ q \in PropList /\ Len(q) = Len(ps) + 1 /\ q[Len(ps) + 1] = p
        /\ \A i \in 1 .. Len(ps) : q[i] = ps[i]
    BY <2>1 DEF PropList
  <2>3. Len(ps) \in Nat /\ DOMAIN ps = 1 .. Len(ps) /\ DOMAIN q = 1 .. Len(ps) + 1
    BY <2>2 DEF PropList
  <2>4. Once(q)
    BY <1>2, <1>3, <2>2, <2>3 DEF Once
  <2>5. \A k : k \in KeysOf(q) <=> k \in KeysOf(ps) \/ k = p[1]
    <3>1. \A k : k \in KeysOf(q) <=> \E n \in 1 .. Len(ps) + 1 : q[n][1] = k
      BY <2>3 DEF KeysOf, ToSet
    <3> QED BY <1>2, <2>2, <2>3, <3>1
  <2>6. Get(q, p[1]) = p[2] /\ \A k : k # p[1] => Get(q, k) = Get(ps, k)
    <3>1. Get(q, p[1]) = p[2]
      BY <2>2, <2>3, <2>4, GetIs
    <3>2. ASSUME NEW k, k # p[1], k \in KeysOf(ps) PROVE Get(q, k) = Get(ps, k)
      <4>1. PICK n \in DOMAIN ps : ps[n][1] = k
        BY <1>2, <3>2
      <4>2. n \in DOMAIN q /\ q[n] = ps[n]
        BY <2>2, <2>3
      <4> QED BY <4>1, <4>2, <2>2, <2>4, GetIs
    <3>3. ASSUME NEW k, k # p[1], k \notin KeysOf(ps) PROVE Get(q, k) = Get(ps, k)
      BY <3>3, <2>2, <2>4, <2>5, GetIs
    <3> QED BY <3>1, <3>2, <3>3
  <2>7. \A k, l : k # p[1] /\ l # p[1] => (Before(q, k, l) <=> Before(ps, k, l))
    BY <2>2, <2>3 DEF Before
  <2> QED BY <2>1, <2>2, <2>4, <2>5, <2>6, <2>7 DEF q
<1>4. CASE p[1] \in KeysOf(ps)
  <2>0. \E n \in DOMAIN ps :
              /\ ps[n][1] = p[1] /\ w \in PropList /\ Len(w) = Len(ps) - 1
              /\ \A i \in 1 .. Len(ps) - 1 : w[i] = IF i < n THEN ps[i] ELSE ps[i + 1]
    <3> DEFINE k == p[1]
    <3>1. k \in KeysOf(ps)
      BY <1>4
    <3> HIDE DEF k
    <3>2. \E n \in DOMAIN ps :
              /\ ps[n][1] = k /\ Without(ps, k) \in PropList /\ Len(Without(ps, k)) = Len(ps) - 1
              /\ \A i \in 1 .. Len(ps) - 1 : Without(ps, k)[i] = IF i < n THEN ps[i] ELSE ps[i + 1]
      BY <3>1, WithoutIs
    <3> QED BY <3>2 DEF k
  <2>1. PICK n \in DOMAIN ps :
              /\ ps[n][1] = p[1] /\ w \in PropList /\ Len(w) = Len(ps) - 1
              /\ \A i \in 1 .. Len(ps) - 1 : w[i] = IF i < n THEN ps[i] ELSE ps[i + 1]
    BY <2>0
  <2> HIDE DEF q, w
  <2>2. /\ q \in PropList /\ Len(q) = Len(w) + 1 /\ q[Len(w) + 1] = p
        /\ \A i \in 1 .. Len(w) : q[i] = w[i]
    BY <1>1, <2>1 DEF PropList
  <2>3. Len(ps) \in Nat /\ DOMAIN ps = 1 .. Len(ps) /\ DOMAIN q = 1 .. Len(ps)
    BY <2>1, <2>2 DEF PropList
  <2>4. /\ q[Len(ps)] = p
        /\ \A i \in 1 .. Len(ps) - 1 : q[i] = IF i < n THEN ps[i] ELSE ps[i + 1]
    BY <2>1, <2>2, <2>3
  <2> DEFINE old(i) == IF i < n THEN i ELSE i + 1
             new(i) == IF i < n THEN i ELSE i - 1
             Kept == {i \in 1 .. Len(ps) : i # n}
             Rest == 1 .. Len(ps) - 1
  <2>5. n \in 1 .. Len(ps)
    BY <2>3
  <2>a. \A i \in Kept : new(i) \in Rest /\ q[new(i)] = ps[i]
    <3>1. \A i \in Kept : new(i) \in Rest /\ (IF new(i) < n THEN new(i) ELSE new(i) + 1) = i
      BY <2>3, <2>5
    <3> QED BY <2>4, <3>1
  <2>b. \A i \in Rest : old(i) \in Kept /\ q[i] = ps[old(i)]
    BY <2>3, <2>4, <2>5
  <2>c. \A i, j \in Kept : i < j <=> new(i) < new(j)
    BY <2>3, <2>5
  <2>d. \A i, j \in Rest : i < j <=> old(i) < old(j)
    BY <2>3, <2>5
  <2>e. Kept \in SUBSET Nat /\ Rest \in SUBSET Nat /\ \A i \in Kept : i \in DOMAIN ps
    BY <2>3
  <2>f. /\ \A i \in Rest : i \in DOMAIN q /\ i # Len(ps)
        /\ \A i \in 1 .. Len(ps) : i \in Rest \/ i = Len(ps)
    <3>1. Len(ps) \in Nat
      BY <2>3
    <3>2. \A i \in Rest : i \in 1 .. Len(ps) /\ i # Len(ps)
      BY <3>1
    <3>3. \A i \in 1 .. Len(ps) : i \in Rest \/ i = Len(ps)
      BY <3>1
    <3> HIDE DEF Rest
    <3> QED BY <2>3, <3>2, <3>3, Zenon
  <2> HIDE DEF old, new
  <2>6. \A i \in 1 .. Len(ps) : i # n => ps[i][1] # p[1]
    BY <2>1, <2>3 DEF Once
  <2>7. Once(q)
    <3> SUFFICES ASSUME NEW i \in 1 .. Len(ps), NEW j \in 1 .. Len(ps), q[i][1] = q[j][1], i < j PROVE FALSE
      BY <2>3 DEF Once
    <3>1. i \in Rest
      BY <2>3
    <3>2. CASE j = Len(ps)
      BY <3>1, <3>2, <2>4, <2>6, <2>b
    <3>3. CASE j \in Rest
      <4>1. old(i) \in Kept /\ old(j) \in Kept /\ ps[old(i)][1] = ps[old(j)][1]
        BY <3>1, <3>3, <2>b
      <4>2. old(i) = old(j)
        BY <4>1, <2>3 DEF Once
      <4>3. old(i) < old(j) /\ old(i) \in Nat
        BY <3>1, <3>3, <4>1, <2>3, <2>d
      <4> QED BY <4>2, <4>3
    <3> QED BY <2>f, <3>2, <3>3
  <2>8. \A k : k \in KeysOf(q) <=> k \in KeysOf(ps)
    <3>1. \A k : k \in KeysOf(q) <=> \E i \in 1 .. Len(ps) : q[i][1] = k
      BY <2>3 DEF KeysOf, ToSet
    <3>2. ASSUME NEW i \in 1 .. Len(ps) PROVE q[i][1] \in KeysOf(ps)
      <4>1. CASE i \in Rest
        BY <1>2, <4>1, <2>b, <2>e
      <4>2. CASE i = Len(ps)
        BY <1>4, <4>2, <2>4
      <4> QED BY <2>f, <4>1, <4>2
    <3>3. ASSUME NEW i \in 1 .. Len(ps) PROVE ps[i][1] \in KeysOf(q)
      <4>1. CASE i \in Kept
        BY <3>1, <4>1, <2>3, <2>a
      <4>2. CASE i = n
        <5>1. q[Len(ps)][1] = ps[i][1] /\ Len(ps) \in 1 .. Len(ps)
          BY <4>2, <2>1, <2>3, <2>4, <2>5
        <5> QED BY <3>1, <5>1
      <4> QED BY <4>1, <4>2
    <3> QED BY <1>2, <2>3, <3>1, <3>2, <3>3
  <2>9. Get(q, p[1]) = p[2] /\ \A k : k # p[1] => Get(q, k) = Get(ps, k)
    <3>1. Get(q, p[1]) = p[2]
      <4>1. Len(ps) \in DOMAIN q
        BY <2>3
      <4> QED BY <4>1, <2>2, <2>4, <2>7, GetIs
    <3>2. ASSUME NEW k, k # p[1], k \in KeysOf(ps) PROVE Get(q, k) = Get(ps, k)
      <4>1. PICK i \in DOMAIN ps : ps[i][1] = k
        BY <1>2, <3>2
      <4>2. i \in Kept
        BY <3>2, <4>1, <2>1, <2>3
      <4>3. new(i) \in DOMAIN q /\ q[new(i)] = ps[i]
        BY <4>2, <2>3, <2>a, <2>f
      <4>4. Get(ps, k) = ps[i][2] /\ Get(q, k) = q[new(i)][2]
        BY <4>1, <4>3, <2>2, <2>7, GetIs
      <4> QED BY <4>3, <4>4
    <3>3. ASSUME NEW k, k # p[1], k \notin KeysOf(ps) PROVE Get(q, k) = Get(ps, k)
      BY <3>3, <2>2, <2>7, <2>8, GetIs
    <3> QED BY <3>1, <3>2, <3>3
  <2>10. ASSUME NEW k, NEW l, k # p[1], l # p[1] PROVE Before(q, k, l) <=> Before(ps, k, l)
    <3>1. ASSUME Before(q, k, l) PROVE Before(ps, k, l)
      <4>1. PICK i, j \in 1 .. Len(ps) : i < j /\ q[i][1] = k /\ q[j][1] = l
        BY <3>1, <2>3 DEF Before
      <4>2. i \in Rest /\ j \in Rest
        BY <4>1, <2>3, <2>4, <2>10
      <4>3. old(i) < old(j) /\ ps[old(i)][1] = k /\ ps[old(j)][1] = l /\ old(i) \in DOMAIN ps /\ old(j) \in DOMAIN ps
        BY <4>1, <4>2, <2>b, <2>d, <2>e
      <4> QED BY <4>3 DEF Before
    <3>2. ASSUME Before(ps, k, l) PROVE Before(q, k, l)
      <4>1. PICK i, j \in 1 .. Len(ps) : i < j /\ ps[i][1] = k /\ ps[j][1] = l
        BY <3>2, <2>3 DEF Before
      <4>2. i \in Kept /\ j \in Kept
        BY <4>1, <2>1, <2>10
      <4>3. new(i) < new(j) /\ q[new(i)][1] = k /\ q[new(j)][1] = l /\ new(i) \in DOMAIN q /\ new(j) \in DOMAIN q
        BY <4>1, <4>2, <2>a, <2>c, <2>f
      <4> QED BY <4>3 DEF Before
    <3> QED BY <3>1, <3>2
  <2> QED BY <1>4, <2>2, <2>7, <2>8, <2>9, <2>10 DEF q
<1> QED BY <1>3, <1>4

-----------------------------------------------------------------------------
\* A fold from the left as the folds of the community modules define it: g holds the
\* results for the sets of positions, the greatest of which comes last.
Folds(g, op, base, qs, n) ==
  g = [s \in SUBSET (1 .. n) |->
         IF s = {} THEN base ELSE op[<<g[s \ {Max(s)}], qs[Max(s)]>>]]

LEMMA MaxIs ==
  ASSUME NEW n \in Nat, NEW s \in SUBSET (1 .. n + 1), n + 1 \in s
  PROVE  Max(s) = n + 1
<1>1. \A y \in s : y \in Nat /\ n + 1 >= y
  OBVIOUS
<1>2. \A x \in s : (\A y \in s : x >= y) => x = n + 1
  BY <1>1
<1>3. \E x \in s : \A y \in s : x >= y
  BY <1>1
<1>4. Max(s) \in s /\ \A y \in s : Max(s) >= y
  BY <1>3, Zenon DEF Max
<1> QED BY <1>2, <1>4

LEMMA GreatestIs ==
  ASSUME NEW n \in Nat, NEW s \in SUBSET (1 .. n), s # {}
  PROVE  Max(s) \in s /\ Max(s) \in 1 .. n /\ s \ {Max(s)} \in SUBSET (1 .. n)
<1> DEFINE I == {n - i : i \in s}
<1>1. I \in SUBSET Nat /\ I # {}
  <2>1. \A i \in s : n - i \in Nat
    OBVIOUS
  <2>2. PICK i \in s : TRUE
    OBVIOUS
  <2>3. n - i \in I
    OBVIOUS
  <2> QED BY <2>1, <2>3
<1>2. PICK x \in I : \A y \in I : x <= y
  <2> HIDE DEF I
  <2> QED BY <1>1, LeastOf
<1>3. PICK m \in s : x = n - m
  OBVIOUS
<1>4. ASSUME NEW i \in s PROVE m >= i
  <2>1. n - m <= n - i
    BY <1>2, <1>3
  <2> QED BY <2>1
<1>5. Max(s) \in s
  BY <1>4, Zenon DEF Max
<1> QED BY <1>5

\* The sets of the first so many positions.
LEMMA FirstSets ==
  ASSUME NEW n \in Nat
  PROVE  /\ 1 .. 0 = {} /\ \A k \in 0 .. n : 1 .. k \in SUBSET (1 .. n)
         /\ \A k \in 1 .. n : /\ k \in 0 .. n /\ k - 1 \in 0 .. n /\ 1 .. k # {}
                              /\ Max(1 .. k) = k /\ (1 .. k) \ {k} = 1 .. k - 1
<1>1. 1 .. 0 = {} /\ \A k \in 0 .. n : 1 .. k \in SUBSET (1 .. n)
  OBVIOUS
<1>2. ASSUME NEW k \in 1 .. n
      PROVE  /\ k \in 0 .. n /\ k - 1 \in 0 .. n /\ 1 .. k # {}
             /\ Max(1 .. k) = k /\ (1 .. k) \ {k} = 1 .. k - 1
  <2>1. k \in 0 .. n /\ k - 1 \in 0 .. n /\ k \in Nat /\ k \in 1 .. k /\ k - 1 \in Nat /\ (k - 1) + 1 = k
    OBVIOUS
  <2>2. \A i : i \in (1 .. k) \ {k} <=> i \in 1 .. k - 1
    BY <2>1
  <2>3. (1 .. k) \ {k} = 1 .. k - 1
    BY <2>2, Zenon
  <2>4. Max(1 .. k) = k
    BY <2>1, MaxIs
  <2> QED BY <2>1, <2>3, <2>4
<1> QED BY <1>1, <1>2

\* Induction over the positions of a chain.
LEMMA AlongChain ==
  ASSUME NEW n \in Nat, NEW S, 0 \in S, \A k \in 1 .. n : k - 1 \in S => k \in S
  PROVE  \A k \in 0 .. n : k \in S
<1> DEFINE Bad == {k \in 0 .. n : k \notin S}
<1>1. SUFFICES ASSUME Bad # {} PROVE FALSE
  OBVIOUS
<1>2. Bad \in SUBSET Nat
  OBVIOUS
<1>3. PICK k \in Bad : \A y \in Bad : k <= y
  <2> HIDE DEF Bad
  <2> QED BY <1>1, <1>2, LeastOf
<1>4. k \in 1 .. n /\ k \notin S /\ k - 1 \in 0 .. n /\ ~(k <= k - 1)
  OBVIOUS
<1>5. k - 1 \in S
  BY <1>3, <1>4
<1> QED BY <1>4, <1>5

\* There is such a fold,
LEMMA FoldsExist ==
  ASSUME NEW A, NEW B, NEW op \in [A \X B -> A], NEW base \in A, NEW qs \in Seq(B)
  PROVE  \E g \in [SUBSET (1 .. Len(qs)) -> A] : Folds(g, op, base, qs, Len(qs))
<1> DEFINE Bad == {n \in 0 .. Len(qs) : ~ \E g \in [SUBSET (1 .. n) -> A] : Folds(g, op, base, qs, n)}
<1>1. SUFFICES ASSUME Bad # {} PROVE FALSE
  <2>1. Bad = {} => Len(qs) \notin Bad
    OBVIOUS
  <2>2. Len(qs) \in 0 .. Len(qs)
    OBVIOUS
  <2> QED BY <2>1, <2>2, Zenon
<1>2. Bad \in SUBSET Nat
  OBVIOUS
<1>3. PICK n \in Bad : \A y \in Bad : n <= y
  <2> HIDE DEF Bad
  <2> QED BY <1>1, <1>2, LeastOf
<1>4. n \in 0 .. Len(qs)
  OBVIOUS
<1>5. ~ \E g \in [SUBSET (1 .. n) -> A] : Folds(g, op, base, qs, n)
  OBVIOUS
<1>6. CASE n = 0
  <2> DEFINE g == [s \in SUBSET (1 .. 0) |-> base]
  <2>1. 1 .. 0 = {}
    OBVIOUS
  <2>2. \A s \in SUBSET (1 .. 0) : s = {}
    BY <2>1
  <2>3. g \in [SUBSET (1 .. 0) -> A]
    OBVIOUS
  <2>4. Folds(g, op, base, qs, 0)
    BY <2>2, Zenon DEF Folds
  <2> HIDE DEF g
  <2> QED BY <1>5, <1>6, <2>3, <2>4
<1>7. CASE n # 0
  <2> DEFINE m == n - 1
  <2>1. m \in 0 .. Len(qs) /\ m \in Nat /\ n = m + 1 /\ ~(n <= m) /\ n \in 1 .. Len(qs)
    BY <1>4, <1>7
  <2> HIDE DEF m
  <2>2. PICK g \in [SUBSET (1 .. m) -> A] : Folds(g, op, base, qs, m)
    BY <1>3, <2>1
  <2>3. \A s \in SUBSET (1 .. n) : s \ {n} \in SUBSET (1 .. m)
    BY <2>1
  <2>4. \A s \in SUBSET (1 .. n) : n \notin s => s \in SUBSET (1 .. m)
    BY <2>1
  <2>5. n \notin 1 .. m
    BY <2>1
  <2>6. \A s \in SUBSET (1 .. n) : n \in s => Max(s) = n
    BY <2>1, MaxIs
  <2> DEFINE h == [s \in SUBSET (1 .. n) |-> IF n \in s THEN op[<<g[s \ {n}], qs[n]>>] ELSE g[s]]
  <2>7. \A s \in SUBSET (1 .. m) : g[s] \in A
    OBVIOUS
  <2>8. qs[n] \in B
    BY <2>1
  <2>9. h \in [SUBSET (1 .. n) -> A]
    <3>1. ASSUME NEW s \in SUBSET (1 .. n)
          PROVE  (IF n \in s THEN op[<<g[s \ {n}], qs[n]>>] ELSE g[s]) \in A
      <4>1. CASE n \in s
        <5>1. g[s \ {n}] \in A
          BY <2>3, <2>7
        <5>2. <<g[s \ {n}], qs[n]>> \in A \X B
          BY <5>1, <2>8
        <5> QED BY <4>1, <5>2
      <4>2. CASE n \notin s
        BY <4>2, <2>4, <2>7
      <4> QED BY <4>1, <4>2
    <3> QED BY <3>1
  <2>10. \A s \in SUBSET (1 .. m) : h[s] = g[s]
    <3>1. \A s \in SUBSET (1 .. m) : s \in SUBSET (1 .. n) /\ n \notin s
      BY <2>1, <2>5
    <3> QED BY <3>1
  <2>11. ASSUME NEW s \in SUBSET (1 .. n)
         PROVE  h[s] = IF s = {} THEN base ELSE op[<<h[s \ {Max(s)}], qs[Max(s)]>>]
    <3>1. CASE n \in s
      <4>1. h[s] = op[<<g[s \ {n}], qs[n]>>]
        BY <3>1
      <4>2. h[s \ {n}] = g[s \ {n}]
        BY <2>3, <2>10
      <4> HIDE DEF h
      <4> QED BY <3>1, <4>1, <4>2, <2>6
    <3>2. CASE n \notin s
      <4>1. s \in SUBSET (1 .. m) /\ s \ {Max(s)} \in SUBSET (1 .. m)
        BY <3>2, <2>4
      <4>2. g[s] = IF s = {} THEN base ELSE op[<<g[s \ {Max(s)}], qs[Max(s)]>>]
        <5>1. g = [z \in SUBSET (1 .. m) |->
                     IF z = {} THEN base ELSE op[<<g[z \ {Max(z)}], qs[Max(z)]>>]]
          BY <2>2 DEF Folds
        <5> QED BY <4>1, <5>1, Zenon
      <4> HIDE DEF h
      <4> QED BY <4>1, <4>2, <2>10
    <3> QED BY <3>1, <3>2
  <2>12. Folds(h, op, base, qs, n)
    <3>1. h = [s \in SUBSET (1 .. n) |-> h[s]]
      BY <2>9
    <3> HIDE DEF h
    <3>2. h = [s \in SUBSET (1 .. n) |->
                 IF s = {} THEN base ELSE op[<<h[s \ {Max(s)}], qs[Max(s)]>>]]
      BY <3>1, <2>11, Zenon
    <3> QED BY <3>2 DEF Folds
  <2> HIDE DEF h
  <2> QED BY <1>5, <2>9, <2>12
<1> QED BY <1>6, <1>7

\* The same of f, which need not be g, as far as its values are in A.
Unfolds(f, op, base, qs, A) ==
  /\ f[{}] = base
  /\ \A s \in SUBSET (1 .. Len(qs)) : s # {} /\ f[s \ {Max(s)}] \in A =>
       f[s] = op[<<f[s \ {Max(s)}], qs[Max(s)]>>]

\* What it holds for the first so many positions.
Chained(f, op, base, qs, A) ==
  \E h \in [0 .. Len(qs) -> A] :
    /\ h[0] = base /\ h[Len(qs)] = f[1 .. Len(qs)]
    /\ \A k \in 1 .. Len(qs) : h[k] = op[<<h[k - 1], qs[k]>>]

\* and it is what one application after the other makes.
LEMMA FoldsChain ==
  ASSUME NEW A, NEW B, NEW op \in [A \X B -> A], NEW base \in A, NEW qs \in Seq(B), NEW f,
         Unfolds(f, op, base, qs, A)
  PROVE  Chained(f, op, base, qs, A)
<1> DEFINE h == [k \in 0 .. Len(qs) |-> f[1 .. k]] S == {k \in 0 .. Len(qs) : f[1 .. k] \in A}
<1>1. Len(qs) \in Nat /\ \A i \in 1 .. Len(qs) : qs[i] \in B
  OBVIOUS
<1>2. f[1 .. 0] = base
  BY <1>1, FirstSets DEF Unfolds
<1>3. ASSUME NEW k \in 1 .. Len(qs), f[1 .. k - 1] \in A
      PROVE  f[1 .. k] = op[<<f[1 .. k - 1], qs[k]>>] /\ f[1 .. k] \in A
  <2>1. /\ 1 .. k \in SUBSET (1 .. Len(qs)) /\ 1 .. k # {}
        /\ Max(1 .. k) = k /\ (1 .. k) \ {k} = 1 .. k - 1
    <3>1. k \in 0 .. Len(qs)
      BY <1>1
    <3> QED BY <1>1, <3>1, FirstSets
  <2>2. f[1 .. k] = op[<<f[1 .. k - 1], qs[k]>>]
    BY <1>3, <2>1, Zenon DEF Unfolds
  <2>3. <<f[1 .. k - 1], qs[k]>> \in A \X B
    BY <1>1, <1>3
  <2> QED BY <2>2, <2>3
<1>4. \A k \in 0 .. Len(qs) : k \in S
  <2>1. 0 \in S
    BY <1>1, <1>2
  <2>2. \A k \in 1 .. Len(qs) : k \in 0 .. Len(qs)
    BY <1>1
  <2>3. \A k \in 1 .. Len(qs) : k - 1 \in S => k \in S
    <3>1. \A k \in 1 .. Len(qs) : k - 1 \in S => f[1 .. k - 1] \in A
      OBVIOUS
    <3> QED BY <1>3, <2>2, <3>1
  <2> HIDE DEF S
  <2> QED BY <1>1, <2>1, <2>3, AlongChain
<1>5. h \in [0 .. Len(qs) -> A]
  BY <1>4
<1>6. \A k \in 1 .. Len(qs) : h[k] = op[<<h[k - 1], qs[k]>>]
  <2>1. ASSUME NEW k \in 1 .. Len(qs) PROVE h[k] = op[<<h[k - 1], qs[k]>>]
    <3>1. k \in 0 .. Len(qs) /\ k - 1 \in 0 .. Len(qs)
      BY <1>1
    <3>2. f[1 .. k - 1] \in A
      BY <1>4, <3>1
    <3> QED BY <1>3, <3>1, <3>2
  <2> QED BY <2>1
<1>7. h[0] = base /\ h[Len(qs)] = f[1 .. Len(qs)]
  BY <1>1, <1>2
<1> HIDE DEF h
<1> QED BY <1>5, <1>6, <1>7 DEF Chained

\* Property lists without two of the same key; Put on them as a function.
OnceLists == {ps \in PropList : Once(ps)}
Putting == [x \in OnceLists \X Property |-> Put(x[1], x[2])]

\* PutAll is what one Put after the other makes.
LEMMA PutChain ==
  ASSUME NEW ps \in OnceLists, NEW qs \in PropList
  PROVE  \E h \in [0 .. Len(qs) -> OnceLists] :
           /\ h[0] = ps /\ h[Len(qs)] = PutAll(ps, qs)
           /\ \A k \in 1 .. Len(qs) : h[k] = Put(h[k - 1], qs[k])
<1>1. \A x \in OnceLists, p \in Property : Put(x, p) \in OnceLists
  BY PutIs DEF OnceLists
<1>2. Putting \in [OnceLists \X Property -> OnceLists]
  BY <1>1 DEF Putting
<1>3. /\ Len(qs) \in Nat /\ qs \in Seq(Property) /\ DOMAIN qs = 1 .. Len(qs)
      /\ \A i \in 1 .. Len(qs) : qs[i] \in Property
  BY DEF PropList
<1>4. \E f : /\ f = [s \in SUBSET DOMAIN qs |->
                      IF s = {} THEN ps ELSE LET x == Max(s) IN Put(f[s \ {x}], qs[x])]
             /\ PutAll(ps, qs) = f[DOMAIN qs]
  <2>1. PICK g \in [SUBSET (1 .. Len(qs)) -> OnceLists] : Folds(g, Putting, ps, qs, Len(qs))
    BY <1>2, <1>3, FoldsExist
  <2>2. \A s \in SUBSET (1 .. Len(qs)) : s # {} => Max(s) \in 1 .. Len(qs) /\ s \ {Max(s)} \in SUBSET (1 .. Len(qs))
    BY <1>3, GreatestIs
  <2>3. ASSUME NEW s \in SUBSET (1 .. Len(qs))
        PROVE  (IF s = {} THEN ps ELSE Putting[<<g[s \ {Max(s)}], qs[Max(s)]>>])
               = IF s = {} THEN ps ELSE Put(g[s \ {Max(s)}], qs[Max(s)])
    <3>1. CASE s = {}
      BY <3>1
    <3>2. CASE s # {}
      <4>1. g[s \ {Max(s)}] \in OnceLists /\ qs[Max(s)] \in Property
        BY <3>2, <1>3, <2>2
      <4> QED BY <3>2, <4>1 DEF Putting
    <3> QED BY <3>1, <3>2
  <2>4. g = [s \in SUBSET (1 .. Len(qs)) |->
               IF s = {} THEN ps ELSE Putting[<<g[s \ {Max(s)}], qs[Max(s)]>>]]
    BY <2>1 DEF Folds
  <2>5. g = [s \in SUBSET (1 .. Len(qs)) |->
               IF s = {} THEN ps ELSE Put(g[s \ {Max(s)}], qs[Max(s)])]
    BY <2>3, <2>4, Zenon
  <2>6. g = [s \in SUBSET DOMAIN qs |->
               IF s = {} THEN ps ELSE LET x == Max(s) IN Put(g[s \ {x}], qs[x])]
    BY <2>5, <1>3, Zenon
  <2> HIDE DEF OnceLists, Putting
  <2> QED BY <2>6, Zenon DEF PutAll, FoldLeft, MapThenFoldSet
<1>5. PICK f : /\ f = [s \in SUBSET DOMAIN qs |->
                      IF s = {} THEN ps ELSE LET x == Max(s) IN Put(f[s \ {x}], qs[x])]
               /\ PutAll(ps, qs) = f[DOMAIN qs]
  BY <1>4
<1>6. \A s \in SUBSET (1 .. Len(qs)) : f[s] = IF s = {} THEN ps ELSE Put(f[s \ {Max(s)}], qs[Max(s)])
  BY <1>3, <1>5, Zenon
<1>7. \A x \in OnceLists, p \in Property : Putting[<<x, p>>] = Put(x, p)
  BY DEF Putting
<1>8. PICK h \in [0 .. Len(qs) -> OnceLists] :
           /\ h[0] = ps /\ h[Len(qs)] = f[1 .. Len(qs)]
           /\ \A k \in 1 .. Len(qs) : h[k] = Putting[<<h[k - 1], qs[k]>>]
  <2>1. ASSUME NEW s \in SUBSET (1 .. Len(qs)), s # {}, f[s \ {Max(s)}] \in OnceLists
        PROVE  f[s] = Putting[<<f[s \ {Max(s)}], qs[Max(s)]>>]
    <3>1. Max(s) \in 1 .. Len(qs)
      BY <1>3, <2>1, GreatestIs
    <3> QED BY <1>3, <1>6, <1>7, <2>1, <3>1
  <2>2. f[{}] = ps
    BY <1>6
  <2>3. Unfolds(f, Putting, ps, qs, OnceLists)
    BY <2>1, <2>2, Zenon DEF Unfolds
  <2>4. Chained(f, Putting, ps, qs, OnceLists)
    BY <1>2, <1>3, <2>3, FoldsChain
  <2> QED BY <2>4 DEF Chained
<1>9. \A k \in 1 .. Len(qs) : h[k] = Put(h[k - 1], qs[k])
  <2>1. \A k \in 1 .. Len(qs) : h[k - 1] \in OnceLists /\ qs[k] \in Property
    BY <1>3
  <2> QED BY <1>7, <1>8, <2>1
<1> QED BY <1>3, <1>5, <1>8, <1>9

\* What PutAll makes of lists without two of the same key: the given values, the others
\* as they were and in their order, and what is new at the end.
LEMMA PutAllIs ==
  ASSUME NEW ps \in OnceLists, NEW qs \in OnceLists
  PROVE  LET q == PutAll(ps, qs) IN
         /\ q \in OnceLists /\ KeysOf(q) = KeysOf(ps) \cup KeysOf(qs)
         /\ \A n \in DOMAIN qs : Get(q, qs[n][1]) = qs[n][2]
         /\ \A k : k \notin KeysOf(qs) => Get(q, k) = Get(ps, k)
         /\ \A k, l : k \notin KeysOf(qs) /\ l \notin KeysOf(qs) => (Before(q, k, l) <=> Before(ps, k, l))
         /\ KeysOf(ps) \cap KeysOf(qs) = {} => q = ps \o qs
<1>0. /\ Len(qs) \in Nat /\ Len(ps) \in Nat /\ qs \in PropList /\ ps \in PropList /\ DOMAIN qs = 1 .. Len(qs)
      /\ \A i \in 1 .. Len(qs) : qs[i] \in Property
  BY DEF OnceLists, PropList
<1>1. PICK h \in [0 .. Len(qs) -> OnceLists] :
           /\ h[0] = ps /\ h[Len(qs)] = PutAll(ps, qs)
           /\ \A k \in 1 .. Len(qs) : h[k] = Put(h[k - 1], qs[k])
  BY <1>0, PutChain
<1> DEFINE Given(k) == {qs[i][1] : i \in 1 .. k}
           Same == KeysOf(ps) \cap KeysOf(qs) = {}
           Good(k) == /\ \A key : key \in KeysOf(h[k]) <=> key \in KeysOf(ps) \/ key \in Given(k)
                      /\ \A i \in 1 .. k : Get(h[k], qs[i][1]) = qs[i][2]
                      /\ \A key : key \notin Given(k) => Get(h[k], key) = Get(ps, key)
                      /\ \A a, b : a \notin Given(k) /\ b \notin Given(k) => (Before(h[k], a, b) <=> Before(ps, a, b))
                      /\ Same => /\ Len(h[k]) = Len(ps) + k
                                 /\ \A i \in 1 .. Len(ps) : h[k][i] = ps[i]
                                 /\ \A i \in 1 .. k : h[k][Len(ps) + i] = qs[i]
           S == {k \in 0 .. Len(qs) : Good(k)}
<1>2. 1 .. 0 = {} /\ Given(0) = {}
  OBVIOUS
<1>3. Good(0)
  BY <1>0, <1>1, <1>2
<1>4. \A k \in 1 .. Len(qs) : qs[k][1] \in KeysOf(qs)
  BY <1>0 DEF KeysOf, ToSet
<1>5. ASSUME NEW k \in 1 .. Len(qs), Good(k - 1) PROVE Good(k)
  <2> DEFINE was == h[k - 1] is == h[k] key == qs[k][1]
  <2>1. k - 1 \in 0 .. Len(qs) /\ k \in 0 .. Len(qs) /\ was \in PropList /\ Once(was) /\ qs[k] \in Property
    BY <1>0, <1>1 DEF OnceLists
  <2>2. /\ is \in PropList /\ Once(is) /\ KeysOf(is) = KeysOf(was) \cup {key}
        /\ Get(is, key) = qs[k][2] /\ \A a : a # key => Get(is, a) = Get(was, a)
        /\ \A a, b : a # key /\ b # key => (Before(is, a, b) <=> Before(was, a, b))
        /\ key \notin KeysOf(was) => is = Append(was, qs[k])
    BY <1>1, <2>1, PutIs
  <2>3. /\ Given(k) = Given(k - 1) \cup {key} /\ \A i \in 1 .. k : i = k \/ i \in 1 .. k - 1
        /\ \A i \in 1 .. k - 1 : i \in 1 .. k /\ i # k
    OBVIOUS
  <2>4. \A i \in 1 .. k - 1 : qs[i][1] # key
    BY <1>0 DEF OnceLists, Once
  <2> HIDE DEF Given, Same
  <2>5. \A a : a \in KeysOf(is) <=> a \in KeysOf(ps) \/ a \in Given(k)
    BY <1>5, <2>2, <2>3
  <2>6. \A i \in 1 .. k : Get(is, qs[i][1]) = qs[i][2]
    BY <1>5, <2>2, <2>3, <2>4
  <2>7. \A a : a \notin Given(k) => Get(is, a) = Get(ps, a)
    BY <1>5, <2>2, <2>3
  <2>8. \A a, b : a \notin Given(k) /\ b \notin Given(k) => (Before(is, a, b) <=> Before(ps, a, b))
    BY <1>5, <2>2, <2>3
  <2>9. Same => /\ Len(is) = Len(ps) + k
                /\ \A i \in 1 .. Len(ps) : is[i] = ps[i]
                /\ \A i \in 1 .. k : is[Len(ps) + i] = qs[i]
    <3>1. SUFFICES ASSUME Same
                   PROVE  /\ Len(is) = Len(ps) + k
                          /\ \A i \in 1 .. Len(ps) : is[i] = ps[i]
                          /\ \A i \in 1 .. k : is[Len(ps) + i] = qs[i]
      OBVIOUS
    <3>2. key \notin KeysOf(was)
      <4>1. key \notin KeysOf(ps)
        BY <1>4, <3>1 DEF Same
      <4>2. key \notin Given(k - 1)
        BY <2>4 DEF Given
      <4> QED BY <1>5, <4>1, <4>2
    <3>3. is = Append(was, qs[k])
      BY <2>2, <3>2
    <3>4. /\ Len(was) = Len(ps) + (k - 1) /\ \A i \in 1 .. Len(ps) : was[i] = ps[i]
          /\ \A i \in 1 .. k - 1 : was[Len(ps) + i] = qs[i]
      BY <1>5, <3>1
    <3> HIDE DEF is, was
    <3>5. /\ Len(is) = Len(ps) + k /\ \A i \in 1 .. Len(ps) + (k - 1) : is[i] = was[i]
          /\ is[Len(ps) + k] = qs[k]
      <4>1. Len(is) = Len(was) + 1 /\ is[Len(was) + 1] = qs[k] /\ \A i \in 1 .. Len(was) : is[i] = was[i]
        BY <2>1, <3>3 DEF PropList
      <4>2. Len(was) + 1 = Len(ps) + k
        BY <1>0, <3>4
      <4> QED BY <3>4, <4>1, <4>2
    <3>6. /\ \A i \in 1 .. Len(ps) : i \in 1 .. Len(ps) + (k - 1)
          /\ \A i \in 1 .. k - 1 : Len(ps) + i \in 1 .. Len(ps) + (k - 1)
      BY <1>0
    <3> QED BY <2>3, <3>4, <3>5, <3>6
  <2> QED BY <2>5, <2>6, <2>7, <2>8, <2>9
<1>6. Good(Len(qs))
  <2>1. 0 \in S /\ \A k \in 1 .. Len(qs) : k - 1 \in S => k \in S
    <3>1. 0 \in S
      BY <1>0, <1>3
    <3>2. \A k \in 1 .. Len(qs) : k \in 0 .. Len(qs)
      BY <1>0
    <3>3. \A k \in 1 .. Len(qs) : k - 1 \in S => Good(k - 1)
      OBVIOUS
    <3> HIDE DEF Good
    <3> QED BY <1>5, <3>1, <3>2, <3>3
  <2>2. \A k \in 0 .. Len(qs) : k \in S
    <3> HIDE DEF S
    <3> QED BY <1>0, <2>1, AlongChain
  <2>3. Len(qs) \in S
    BY <1>0, <2>2
  <2> QED BY <2>3
<1>7. \A key : key \in KeysOf(qs) <=> key \in Given(Len(qs))
  BY <1>0 DEF KeysOf, ToSet
<1> DEFINE q == PutAll(ps, qs)
<1>8. q = h[Len(qs)] /\ q \in OnceLists
  BY <1>0, <1>1
<1>9. Same => q = ps \o qs
  <2>1. SUFFICES ASSUME Same PROVE q = ps \o qs
    OBVIOUS
  <2>2. /\ q \in Seq(Property) /\ Len(q) = Len(ps) + Len(qs)
        /\ \A i \in 1 .. Len(ps) : q[i] = ps[i]
        /\ \A i \in 1 .. Len(qs) : q[Len(ps) + i] = qs[i]
    BY <1>6, <1>8, <2>1 DEF OnceLists, PropList
  <2> HIDE DEF q
  <2> QED BY <1>0, <2>2, JoinIs DEF PropList
<1>10. KeysOf(q) = KeysOf(ps) \cup KeysOf(qs)
  BY <1>6, <1>7, <1>8
<1> HIDE DEF q, Given
<1>11. \A n \in DOMAIN qs : Get(q, qs[n][1]) = qs[n][2]
  BY <1>0, <1>6, <1>8
<1>12. \A k : k \notin KeysOf(qs) => Get(q, k) = Get(ps, k)
  BY <1>6, <1>7, <1>8
<1>13. \A k, l : k \notin KeysOf(qs) /\ l \notin KeysOf(qs) => (Before(q, k, l) <=> Before(ps, k, l))
  BY <1>6, <1>7, <1>8
<1> QED BY <1>8, <1>9, <1>10, <1>11, <1>12, <1>13 DEF q

-----------------------------------------------------------------------------
Untagging(A, g) == [x \in Seq(A) \X A |->
                   LET n == SelectInSeq(x[1], LAMBDA y : y = g) IN
                   IF n = 0 THEN x[1] ELSE SwapRemove(x[1], n)]

\* Tags remain tags.
LEMMA SwapRemoveIs ==
  ASSUME NEW A, NEW s \in Seq(A), NEW n \in 1 .. Len(s)
  PROVE  SwapRemove(s, n) \in Seq(A)
<1>1. \A t \in Seq(A) : t # <<>> => Front(t) \in Seq(A)
  BY DEF Front
<1>2. Len(s) \in Nat /\ s # <<>> /\ Last(s) \in A
  BY DEF Last
<1> DEFINE t == [s EXCEPT ![n] = Last(s)]
<1>3. t \in Seq(A) /\ Len(t) = Len(s)
  BY <1>2
<1>4. t # <<>>
  BY <1>2, <1>3
<1> HIDE DEF t
<1> QED BY <1>1, <1>2, <1>3, <1>4 DEF SwapRemove, t

LEMMA UntaggedIs ==
  ASSUME NEW A, NEW tags \in Seq(A), NEW g
  PROVE  Untagged(tags, g) \in Seq(A)
<1> DEFINE Op(s) == LET n == SelectInSeq(s, LAMBDA y : y = g) IN IF n = 0 THEN s ELSE SwapRemove(s, n)
<1>1. ASSUME NEW s \in Seq(A) PROVE Op(s) \in Seq(A)
  <2> DEFINE I == {i \in 1 .. Len(s) : s[i] = g}
  <2>1. SelectInSeq(s, LAMBDA y : y = g) = FirstOf(I)
    BY DEF SelectInSeq, FirstOf
  <2>2. Len(s) \in Nat /\ I \in SUBSET (1 .. Len(s))
    OBVIOUS
  <2> HIDE DEF I
  <2>3. FirstOf(I) # 0 => FirstOf(I) \in 1 .. Len(s)
    BY <2>2, FirstOfIs
  <2> QED BY <2>1, <2>3, SwapRemoveIs
<1>2. Untagging(A, g) \in [Seq(A) \X A -> Seq(A)]
  BY <1>1 DEF Untagging
<1>3. /\ Len(tags) \in Nat /\ DOMAIN tags = 1 .. Len(tags)
      /\ \A i \in 1 .. Len(tags) : tags[i] \in A
  OBVIOUS
<1>4. \A s \in Seq(A), x \in A : Untagging(A, g)[<<s, x>>] = Op(s)
  BY DEF Untagging
<1>5. \E f : /\ f = [s \in SUBSET DOMAIN tags |->
                      IF s = {} THEN tags ELSE LET x == Max(s) IN Op(f[s \ {x}])]
             /\ Untagged(tags, g) = f[DOMAIN tags]
  <2>1. PICK f \in [SUBSET (1 .. Len(tags)) -> Seq(A)] : Folds(f, Untagging(A, g), tags, tags, Len(tags))
    BY <1>2, FoldsExist
  <2>2. \A s \in SUBSET (1 .. Len(tags)) : s # {} => Max(s) \in 1 .. Len(tags) /\ s \ {Max(s)} \in SUBSET (1 .. Len(tags))
    BY <1>3, GreatestIs
  <2>3. ASSUME NEW s \in SUBSET (1 .. Len(tags))
        PROVE  (IF s = {} THEN tags ELSE Untagging(A, g)[<<f[s \ {Max(s)}], tags[Max(s)]>>])
               = IF s = {} THEN tags ELSE Op(f[s \ {Max(s)}])
    <3>1. CASE s = {}
      BY <3>1
    <3>2. CASE s # {}
      <4>1. f[s \ {Max(s)}] \in Seq(A) /\ tags[Max(s)] \in A
        BY <3>2, <1>3, <2>2
      <4> HIDE DEF Op
      <4> QED BY <3>2, <4>1, <1>4
    <3> QED BY <3>1, <3>2
  <2>4. f = [s \in SUBSET (1 .. Len(tags)) |->
               IF s = {} THEN tags ELSE Untagging(A, g)[<<f[s \ {Max(s)}], tags[Max(s)]>>]]
    BY <2>1 DEF Folds
  <2>5. f = [s \in SUBSET (1 .. Len(tags)) |-> IF s = {} THEN tags ELSE Op(f[s \ {Max(s)}])]
    BY <2>3, <2>4, Zenon
  <2>6. f = [s \in SUBSET DOMAIN tags |-> IF s = {} THEN tags ELSE LET x == Max(s) IN Op(f[s \ {x}])]
    BY <2>5, <1>3, Zenon
  <2> QED BY <2>6, Zenon DEF Untagged, FoldLeft, MapThenFoldSet
<1>6. PICK f : /\ f = [s \in SUBSET DOMAIN tags |->
                        IF s = {} THEN tags ELSE LET x == Max(s) IN Op(f[s \ {x}])]
               /\ Untagged(tags, g) = f[DOMAIN tags]
  BY <1>5
<1> HIDE DEF Op
<1>7. \A s \in SUBSET (1 .. Len(tags)) : f[s] = IF s = {} THEN tags ELSE Op(f[s \ {Max(s)}])
  BY <1>3, <1>6, Zenon
<1>8. ASSUME NEW s \in SUBSET (1 .. Len(tags)), s # {}, f[s \ {Max(s)}] \in Seq(A)
      PROVE  f[s] = Untagging(A, g)[<<f[s \ {Max(s)}], tags[Max(s)]>>]
  <2>1. Max(s) \in 1 .. Len(tags)
    BY <1>3, <1>8, GreatestIs
  <2> QED BY <1>3, <1>4, <1>7, <1>8, <2>1
<1>9. f[{}] = tags
  BY <1>7
<1>10. PICK h \in [0 .. Len(tags) -> Seq(A)] : h[Len(tags)] = f[1 .. Len(tags)]
  <2>1. Unfolds(f, Untagging(A, g), tags, tags, Seq(A))
    BY <1>8, <1>9, Zenon DEF Unfolds
  <2>2. Chained(f, Untagging(A, g), tags, tags, Seq(A))
    BY <1>2, <2>1, FoldsChain
  <2> QED BY <2>2 DEF Chained
<1> QED BY <1>3, <1>6, <1>10

-----------------------------------------------------------------------------
\* A sequence is one over any set that has its elements.
LEMMA SeqWithin == ASSUME NEW A, NEW B, A \subseteq B, NEW s \in Seq(A) PROVE s \in Seq(B)
<1>1. Len(s) \in Nat /\ s = [i \in 1 .. Len(s) |-> s[i]] /\ \A i \in 1 .. Len(s) : s[i] \in B
  OBVIOUS
<1> QED BY <1>1

\* An empty tag is lost, the others are spelled as they are.
LEMMA SpelledIs ==
  ASSUME NEW G \in SUBSET Strings, NEW tags \in Seq(G)
  PROVE  /\ Spelled(tags) \in Seq(G \ {Nothing})
         /\ tags \in Seq(Words) => Spelled(tags) = tags
<1> DEFINE A == Seq(G \ {Nothing})
           Op(s, g) == IF g = Nothing THEN s ELSE Append(s, g)
           Spells == [x \in A \X G |-> Op(x[1], x[2])]
<1>1. ASSUME NEW s \in A, NEW g \in G PROVE Op(s, g) \in A
  <2>1. CASE g = Nothing
    BY <2>1
  <2>2. CASE g # Nothing
    <3>1. g \in G \ {Nothing}
      BY <2>2
    <3> QED BY <2>2, <3>1
  <2> QED BY <2>1, <2>2
<1>2. <<>> \in A
  OBVIOUS
<1>3. /\ Len(tags) \in Nat /\ DOMAIN tags = 1 .. Len(tags)
      /\ \A i \in 1 .. Len(tags) : tags[i] \in G
  OBVIOUS
<1>4. \E f : /\ f = [s \in SUBSET DOMAIN tags |->
                      IF s = {} THEN <<>> ELSE LET x == Max(s) IN Op(f[s \ {x}], tags[x])]
             /\ Spelled(tags) = f[DOMAIN tags]
  <2> HIDE DEF A
  <2>0. Spells \in [A \X G -> A]
    BY <1>1
  <2>1. PICK f \in [SUBSET (1 .. Len(tags)) -> A] : Folds(f, Spells, <<>>, tags, Len(tags))
    <3> HIDE DEF Spells
    <3> QED BY <1>2, <2>0, FoldsExist
  <2>2. \A s \in SUBSET (1 .. Len(tags)) : s # {} => Max(s) \in 1 .. Len(tags) /\ s \ {Max(s)} \in SUBSET (1 .. Len(tags))
    BY <1>3, GreatestIs
  <2>3. ASSUME NEW s \in SUBSET (1 .. Len(tags))
        PROVE  (IF s = {} THEN <<>> ELSE Spells[<<f[s \ {Max(s)}], tags[Max(s)]>>])
               = IF s = {} THEN <<>> ELSE Op(f[s \ {Max(s)}], tags[Max(s)])
    <3>1. CASE s = {}
      BY <3>1
    <3>2. CASE s # {}
      <4>1. f[s \ {Max(s)}] \in A /\ tags[Max(s)] \in G
        BY <3>2, <1>3, <2>2
      <4> HIDE DEF Op
      <4>2. \A x \in A, g \in G : Spells[<<x, g>>] = Op(x, g)
        OBVIOUS
      <4> HIDE DEF Spells
      <4> QED BY <3>2, <4>1, <4>2
    <3> QED BY <3>1, <3>2
  <2> HIDE DEF Spells, Op
  <2>4. f = [s \in SUBSET (1 .. Len(tags)) |->
               IF s = {} THEN <<>> ELSE Spells[<<f[s \ {Max(s)}], tags[Max(s)]>>]]
    BY <2>1 DEF Folds
  <2>5. f = [s \in SUBSET (1 .. Len(tags)) |-> IF s = {} THEN <<>> ELSE Op(f[s \ {Max(s)}], tags[Max(s)])]
    BY <2>3, <2>4, Zenon
  <2>6. f = [s \in SUBSET DOMAIN tags |-> IF s = {} THEN <<>> ELSE LET x == Max(s) IN Op(f[s \ {x}], tags[x])]
    BY <2>5, <1>3, Zenon
  <2> QED BY <2>6, Zenon DEF Spelled, FoldLeft, MapThenFoldSet, Op
<1>5. PICK f : /\ f = [s \in SUBSET DOMAIN tags |->
                        IF s = {} THEN <<>> ELSE LET x == Max(s) IN Op(f[s \ {x}], tags[x])]
               /\ Spelled(tags) = f[DOMAIN tags]
  BY <1>4
<1>6. \A s \in A, g \in G : Spells[<<s, g>>] = Op(s, g)
  <2> HIDE DEF A, Op
  <2> QED OBVIOUS
<1>7. Spells \in [A \X G -> A]
  <2> HIDE DEF A, Op
  <2> QED BY <1>1
<1> HIDE DEF A, Op, Spells
<1>8. \A s \in SUBSET (1 .. Len(tags)) : f[s] = IF s = {} THEN <<>> ELSE Op(f[s \ {Max(s)}], tags[Max(s)])
  BY <1>3, <1>5, Zenon
<1>9. ASSUME NEW s \in SUBSET (1 .. Len(tags)), s # {}, f[s \ {Max(s)}] \in A
      PROVE  f[s] = Spells[<<f[s \ {Max(s)}], tags[Max(s)]>>]
  <2>1. Max(s) \in 1 .. Len(tags)
    BY <1>3, <1>9, GreatestIs
  <2> QED BY <1>3, <1>6, <1>8, <1>9, <2>1
<1>10. f[{}] = <<>>
  BY <1>8
<1>11. PICK h \in [0 .. Len(tags) -> A] :
         /\ h[0] = <<>> /\ h[Len(tags)] = f[1 .. Len(tags)]
         /\ \A k \in 1 .. Len(tags) : h[k] = Spells[<<h[k - 1], tags[k]>>]
  <2>1. Unfolds(f, Spells, <<>>, tags, A)
    BY <1>9, <1>10, Zenon DEF Unfolds
  <2>2. Chained(f, Spells, <<>>, tags, A)
    BY <1>2, <1>7, <2>1, FoldsChain
  <2> QED BY <2>2 DEF Chained
<1>12. Spelled(tags) = h[Len(tags)]
  BY <1>3, <1>5, <1>11
<1>13. Spelled(tags) \in A
  BY <1>3, <1>11, <1>12
<1>14. ASSUME tags \in Seq(Words) PROVE Spelled(tags) = tags
  <2> DEFINE Good(k) == Len(h[k]) = k /\ \A i \in 1 .. k : h[k][i] = tags[i]
             S == {k \in 0 .. Len(tags) : Good(k)}
  <2>1. \A k \in 1 .. Len(tags) : h[k] = Append(h[k - 1], tags[k])
    <3> SUFFICES ASSUME NEW k \in 1 .. Len(tags) PROVE h[k] = Append(h[k - 1], tags[k])
      OBVIOUS
    <3>1. h[k - 1] \in A /\ tags[k] \in G
      BY <1>3
    <3>2. tags[k] # Nothing
      BY <1>14 DEF Words
    <3>3. h[k] = Op(h[k - 1], tags[k])
      BY <1>6, <1>11, <3>1
    <3> QED BY <3>2, <3>3 DEF Op
  <2>2. Good(0)
    BY <1>11
  <2>3. ASSUME NEW k \in 1 .. Len(tags), Good(k - 1) PROVE Good(k)
    <3> DEFINE was == h[k - 1]
    <3>0. tags[k] # Nothing
      BY <1>14 DEF Words
    <3>0a. h[k - 1] \in A /\ h[k] = Append(h[k - 1], tags[k]) /\ tags[k] \in G
      BY <1>3, <2>1
    <3>1. was \in Seq(G \ {Nothing}) /\ tags[k] \in G \ {Nothing} /\ h[k] = Append(was, tags[k])
      BY <3>0, <3>0a DEF A
    <3>2. Len(was) = k - 1 /\ \A i \in 1 .. k - 1 : was[i] = tags[i]
      BY <2>3
    <3> HIDE DEF was
    <3>3. Len(h[k]) = k /\ h[k][k] = tags[k] /\ \A i \in 1 .. k - 1 : h[k][i] = was[i]
      BY <3>1, <3>2
    <3> QED BY <3>2, <3>3
  <2>4. 0 \in S /\ \A k \in 1 .. Len(tags) : k - 1 \in S => k \in S
    <3>1. 0 \in S
      BY <1>3, <2>2
    <3>2. \A k \in 1 .. Len(tags) : k \in 0 .. Len(tags)
      BY <1>3
    <3>3. \A k \in 1 .. Len(tags) : k - 1 \in S => Good(k - 1)
      OBVIOUS
    <3> HIDE DEF Good
    <3> QED BY <2>3, <3>1, <3>2, <3>3
  <2>5. \A k \in 0 .. Len(tags) : k \in S
    <3> HIDE DEF S
    <3> QED BY <1>3, <2>4, AlongChain
  <2>6. Good(Len(tags))
    BY <1>3, <2>5
  <2> DEFINE is == Spelled(tags)
  <2>7. is \in Seq(G \ {Nothing}) /\ Len(is) = Len(tags) /\ \A i \in 1 .. Len(tags) : is[i] = tags[i]
    BY <1>12, <1>13, <2>6 DEF A
  <2> HIDE DEF is
  <2>8. is \in Seq(G)
    BY <2>7, SeqWithin
  <2>9. is = tags
    BY <1>3, <2>7, <2>8, SeqEqual
  <2> QED BY <2>9 DEF is
<1> QED BY <1>13, <1>14 DEF A

-----------------------------------------------------------------------------
\* Actions whose tags to add are of a set.
OpsOf(G) == {op \in {"close", "open", "tag", "untag"} \X Strings : op[1] = "tag" => op[2] \in G}
TaskType == [title : Strings, status : Seq(Words), priority : Numbers, tags : Seq(Strings),
             props : OnceLists, body : Seq(Line)]

\* An open task has no outcome.
Settled(t) == t.status = <<"OPEN">> =>
                \A i \in DOMAIN t.props : t.props[i][1] = "RESOLUTION" => t.props[i][2] = <<>>

\* What actions may make of a task, its tags being of a set.
UpdatesOf(t0, G) ==
  {t \in TaskType :
     /\ t.tags \in Seq(G)
     /\ t.title = t0.title /\ t.body = t0.body /\ t.priority = t0.priority
     /\ t.status \in {t0.status, <<"OPEN">>, <<"CLOSED">>}
     /\ DOMAIN t.props = DOMAIN t0.props
     /\ \A i \in DOMAIN t0.props :
          /\ t.props[i][1] = t0.props[i][1]
          /\ t.props[i][2] = t0.props[i][2] \/ (t.props[i][1] = "RESOLUTION" /\ t.props[i][2] = <<>>)
     /\ Settled(t0) => Settled(t)}

LEMMA OfOne == ASSUME NEW S, NEW x \in S PROVE <<x>> \in Seq(S)
OBVIOUS

LEMMA Singly == <<"OPEN">> \in Seq(Words) /\ <<"CLOSED">> \in Seq(Words) /\ \A n \in Numbers : <<n>> \in Seq(Words)
<1>1. "OPEN" \in Words /\ "CLOSED" \in Words /\ \A n \in Numbers : n \in Words
  <2>1. "OPEN" # "" /\ "CLOSED" # ""
    OBVIOUS
  <2> QED BY <2>1, TaskFileAssumption DEF Words, Nothing
<1> QED BY <1>1, OfOne

\* An outcome taken back leaves the keys as they are.
LEMMA ClearedIs ==
  ASSUME NEW ps \in OnceLists
  PROVE  LET qs == [n \in DOMAIN ps |-> ClearOutcome(ps[n])] IN
         /\ qs \in OnceLists /\ DOMAIN qs = DOMAIN ps
         /\ \A i \in DOMAIN ps : /\ qs[i][1] = ps[i][1]
                                 /\ qs[i][2] = IF ps[i][1] = "RESOLUTION" THEN <<>> ELSE ps[i][2]
<1> DEFINE qs == [n \in DOMAIN ps |-> ClearOutcome(ps[n])]
<1>1. ps \in Seq(Property) /\ DOMAIN ps = 1 .. Len(ps) /\ Len(ps) \in Nat /\ Once(ps)
  BY DEF OnceLists, PropList
<1>2. \A p \in Property : /\ ClearOutcome(p) \in Property /\ ClearOutcome(p)[1] = p[1]
                          /\ ClearOutcome(p)[2] = IF p[1] = "RESOLUTION" THEN <<>> ELSE p[2]
  <2>1. ASSUME NEW p \in Property, p[1] = "RESOLUTION"
        PROVE  ClearOutcome(p) \in Property /\ ClearOutcome(p) = <<p[1], <<>>>>
    <3>1. <<>> \in Seq(Words)
      OBVIOUS
    <3> QED BY <2>1, <3>1 DEF Property, ClearOutcome
  <2>2. ASSUME NEW p \in Property, p[1] # "RESOLUTION" PROVE ClearOutcome(p) = p
    BY <2>2 DEF ClearOutcome
  <2> QED BY <2>1, <2>2
<1>3. \A i \in DOMAIN ps : ps[i] \in Property
  BY <1>1
<1>4. qs = [n \in 1 .. Len(ps) |-> ClearOutcome(ps[n])]
  BY <1>1
<1>5. qs \in Seq(Property) /\ DOMAIN qs = DOMAIN ps
  BY <1>1, <1>2, <1>3, <1>4
<1>6. \A i \in DOMAIN ps : /\ qs[i][1] = ps[i][1]
                           /\ qs[i][2] = IF ps[i][1] = "RESOLUTION" THEN <<>> ELSE ps[i][2]
  BY <1>2, <1>3
<1> HIDE DEF qs
<1>7. Once(qs)
  BY <1>1, <1>5, <1>6 DEF Once
<1> QED BY <1>5, <1>6, <1>7 DEF OnceLists, PropList, qs

\* One action after others.
LEMMA UpdateOpIs ==
  ASSUME NEW G \in SUBSET Strings, NEW t0 \in TaskType, NEW t \in UpdatesOf(t0, G), NEW op \in OpsOf(G)
  PROVE  UpdateOp(t, op) \in UpdatesOf(t0, G)
<1>1. op[1] \in {"close", "open", "tag", "untag"} /\ op[2] \in Strings /\ (op[1] = "tag" => op[2] \in G)
  BY DEF OpsOf
<1>2. /\ t \in TaskType /\ t.tags \in Seq(G)
      /\ t.title = t0.title /\ t.body = t0.body /\ t.priority = t0.priority
      /\ t.status \in {t0.status, <<"OPEN">>, <<"CLOSED">>}
      /\ DOMAIN t.props = DOMAIN t0.props
      /\ \A i \in DOMAIN t0.props :
          /\ t.props[i][1] = t0.props[i][1]
          /\ t.props[i][2] = t0.props[i][2] \/ (t.props[i][1] = "RESOLUTION" /\ t.props[i][2] = <<>>)
      /\ Settled(t0) => Settled(t)
  BY DEF UpdatesOf
<1>3. <<"OPEN">> \in Seq(Words) /\ <<"CLOSED">> \in Seq(Words)
  BY Singly
<1>4. CASE op[1] = "close"
  <2> DEFINE u == [t EXCEPT !.status = <<"CLOSED">>]
  <2>1. UpdateOp(t, op) = u
    BY <1>4 DEF UpdateOp
  <2>2. u \in TaskType
    BY <1>2, <1>3 DEF TaskType
  <2>3. /\ u.title = t.title /\ u.body = t.body /\ u.priority = t.priority /\ u.props = t.props
        /\ u.status = <<"CLOSED">> /\ u.tags = t.tags
    BY <1>2 DEF TaskType
  <2> HIDE DEF u
  <2>4. Settled(u)
    BY <2>3 DEF Settled
  <2>5. \A i \in DOMAIN t0.props : u.props[i] = t.props[i]
    BY <2>3
  <2>6. \A i \in DOMAIN t0.props :
          /\ u.props[i][1] = t0.props[i][1]
          /\ u.props[i][2] = t0.props[i][2] \/ (u.props[i][1] = "RESOLUTION" /\ u.props[i][2] = <<>>)
    BY <1>2, <2>5
  <2>7. /\ u.title = t0.title /\ u.body = t0.body /\ u.priority = t0.priority
        /\ DOMAIN u.props = DOMAIN t0.props
    BY <1>2, <2>3
  <2>8. u \in UpdatesOf(t0, G)
    BY <1>2, <2>2, <2>3, <2>4, <2>6, <2>7 DEF UpdatesOf
  <2> QED BY <2>1, <2>8
<1>5. CASE op[1] = "open"
  <2> DEFINE qs == [n \in DOMAIN t.props |-> ClearOutcome(t.props[n])]
             u == [t EXCEPT !.status = <<"OPEN">>, !.props = qs]
  <2>1. UpdateOp(t, op) = u
    BY <1>5 DEF UpdateOp
  <2>2. t.props \in OnceLists
    BY <1>2 DEF TaskType
  <2>3. /\ qs \in OnceLists /\ DOMAIN qs = DOMAIN t.props
        /\ \A i \in DOMAIN t.props : /\ qs[i][1] = t.props[i][1]
                                     /\ qs[i][2] = IF t.props[i][1] = "RESOLUTION" THEN <<>> ELSE t.props[i][2]
    BY <2>2, ClearedIs
  <2> HIDE DEF qs
  <2>4. u \in TaskType
    BY <1>2, <1>3, <2>3 DEF TaskType
  <2>5. /\ u.title = t.title /\ u.body = t.body /\ u.priority = t.priority /\ u.props = qs
        /\ u.status = <<"OPEN">> /\ u.tags = t.tags
    BY <1>2 DEF TaskType
  <2> HIDE DEF u
  <2>6. Settled(u)
    BY <2>3, <2>5 DEF Settled
  <2>7. /\ u.title = t0.title /\ u.body = t0.body /\ u.priority = t0.priority
        /\ DOMAIN u.props = DOMAIN t0.props
    BY <1>2, <2>3, <2>5
  <2>8. ASSUME NEW i \in DOMAIN t0.props
        PROVE  /\ u.props[i][1] = t0.props[i][1]
               /\ u.props[i][2] = t0.props[i][2] \/ (u.props[i][1] = "RESOLUTION" /\ u.props[i][2] = <<>>)
    BY <1>2, <2>3, <2>5
  <2> QED BY <1>2, <2>1, <2>4, <2>5, <2>6, <2>7, <2>8 DEF UpdatesOf
<1>6. ASSUME NEW w \in Seq(G) PROVE [t EXCEPT !.tags = w] \in UpdatesOf(t0, G)
  <2> DEFINE u == [t EXCEPT !.tags = w]
  <2>0. w \in Seq(Strings)
    BY SeqWithin
  <2>1. u \in TaskType
    BY <1>2, <2>0 DEF TaskType
  <2>2. /\ u.title = t.title /\ u.body = t.body /\ u.priority = t.priority /\ u.props = t.props
        /\ u.status = t.status /\ u.tags = w
    BY <1>2 DEF TaskType
  <2> HIDE DEF u
  <2>3. Settled(t) => Settled(u)
    BY <2>2 DEF Settled
  <2>4. u \in UpdatesOf(t0, G)
    BY <1>2, <2>1, <2>2, <2>3 DEF UpdatesOf
  <2> QED BY <2>4 DEF u
<1>7. CASE op[1] = "tag"
  <2>1. UpdateOp(t, op) = IF Contains(t.tags, op[2]) THEN t ELSE [t EXCEPT !.tags = Append(t.tags, op[2])]
    BY <1>7 DEF UpdateOp
  <2>2. Append(t.tags, op[2]) \in Seq(G)
    BY <1>1, <1>2, <1>7
  <2> QED BY <1>6, <2>1, <2>2
<1>8. CASE op[1] = "untag"
  <2>1. UpdateOp(t, op) = [t EXCEPT !.tags = Untagged(t.tags, op[2])]
    BY <1>8 DEF UpdateOp
  <2>2. Untagged(t.tags, op[2]) \in Seq(G)
    BY <1>2, UntaggedIs
  <2> QED BY <1>6, <2>1, <2>2
<1> QED BY <1>1, <1>4, <1>5, <1>7, <1>8

Updating(A, O) == [x \in A \X O |-> UpdateOp(x[1], x[2])]

\* All actions of an update.
LEMMA UpdatedIs ==
  ASSUME NEW G \in SUBSET Strings, NEW t0 \in TaskType, t0.tags \in Seq(G), NEW u \in Seq(OpsOf(G))
  PROVE  Updated(t0, u) \in UpdatesOf(t0, G)
<1> DEFINE A == UpdatesOf(t0, G) O == OpsOf(G)
<1>0. t0 \in A
  BY DEF UpdatesOf
<1>1. \A t \in A, op \in O : UpdateOp(t, op) \in A
  BY UpdateOpIs
<1> HIDE DEF A, O
<1>2. Updating(A, O) \in [A \X O -> A]
  BY <1>1 DEF Updating
<1>3. u \in Seq(O) /\ Len(u) \in Nat /\ DOMAIN u = 1 .. Len(u) /\ \A i \in 1 .. Len(u) : u[i] \in O
  BY DEF O
<1>4. \A t \in A, op \in O : Updating(A, O)[<<t, op>>] = UpdateOp(t, op)
  BY DEF Updating
<1>5. \E f : /\ f = [s \in SUBSET DOMAIN u |->
                      IF s = {} THEN t0 ELSE LET x == Max(s) IN UpdateOp(f[s \ {x}], u[x])]
             /\ Updated(t0, u) = f[DOMAIN u]
  <2>1. PICK f \in [SUBSET (1 .. Len(u)) -> A] : Folds(f, Updating(A, O), t0, u, Len(u))
    BY <1>0, <1>2, <1>3, FoldsExist
  <2>2. \A s \in SUBSET (1 .. Len(u)) : s # {} => Max(s) \in 1 .. Len(u) /\ s \ {Max(s)} \in SUBSET (1 .. Len(u))
    BY <1>3, GreatestIs
  <2>3. ASSUME NEW s \in SUBSET (1 .. Len(u))
        PROVE  (IF s = {} THEN t0 ELSE Updating(A, O)[<<f[s \ {Max(s)}], u[Max(s)]>>])
               = IF s = {} THEN t0 ELSE UpdateOp(f[s \ {Max(s)}], u[Max(s)])
    <3>1. CASE s = {}
      BY <3>1
    <3>2. CASE s # {}
      <4>1. f[s \ {Max(s)}] \in A /\ u[Max(s)] \in O
        BY <3>2, <1>3, <2>2
      <4> QED BY <3>2, <4>1, <1>4
    <3> QED BY <3>1, <3>2
  <2>4. f = [s \in SUBSET (1 .. Len(u)) |->
               IF s = {} THEN t0 ELSE Updating(A, O)[<<f[s \ {Max(s)}], u[Max(s)]>>]]
    BY <2>1 DEF Folds
  <2>5. f = [s \in SUBSET (1 .. Len(u)) |-> IF s = {} THEN t0 ELSE UpdateOp(f[s \ {Max(s)}], u[Max(s)])]
    BY <2>3, <2>4, Zenon
  <2>6. f = [s \in SUBSET DOMAIN u |->
               IF s = {} THEN t0 ELSE LET x == Max(s) IN UpdateOp(f[s \ {x}], u[x])]
    BY <2>5, <1>3, Zenon
  <2> QED BY <2>6, Zenon DEF Updated, FoldLeft, MapThenFoldSet
<1>6. PICK f : /\ f = [s \in SUBSET DOMAIN u |->
                        IF s = {} THEN t0 ELSE LET x == Max(s) IN UpdateOp(f[s \ {x}], u[x])]
               /\ Updated(t0, u) = f[DOMAIN u]
  BY <1>5
<1>7. \A s \in SUBSET (1 .. Len(u)) : f[s] = IF s = {} THEN t0 ELSE UpdateOp(f[s \ {Max(s)}], u[Max(s)])
  BY <1>3, <1>6, Zenon
<1>8. ASSUME NEW s \in SUBSET (1 .. Len(u)), s # {}, f[s \ {Max(s)}] \in A
      PROVE  f[s] = Updating(A, O)[<<f[s \ {Max(s)}], u[Max(s)]>>]
  <2>1. Max(s) \in 1 .. Len(u)
    BY <1>3, <1>8, GreatestIs
  <2> QED BY <1>3, <1>4, <1>7, <1>8, <2>1
<1>9. f[{}] = t0
  BY <1>7
<1>10. PICK h \in [0 .. Len(u) -> A] : h[Len(u)] = f[1 .. Len(u)]
  <2>1. Unfolds(f, Updating(A, O), t0, u, A)
    BY <1>8, <1>9, Zenon DEF Unfolds
  <2>2. Chained(f, Updating(A, O), t0, u, A)
    BY <1>0, <1>2, <1>3, <2>1, FoldsChain
  <2> QED BY <2>2 DEF Chained
<1>11. Updated(t0, u) \in A
  BY <1>3, <1>6, <1>10
<1> QED BY <1>11 DEF A

-----------------------------------------------------------------------------
\* The end and the beginning of a sequence.
LEMMA SuffixIs ==
  ASSUME NEW S, NEW f \in Seq(S), NEW m \in 0 .. Len(f)
  PROVE  LET g == SubSeq(f, m + 1, Len(f)) IN
         g \in Seq(S) /\ Len(g) = Len(f) - m /\ \A i \in 1 .. Len(f) - m : g[i] = f[m + i]
<1>1. Len(f) \in Nat /\ \A i \in 1 .. Len(f) : f[i] \in S
  OBVIOUS
<1> DEFINE g == SubSeq(f, m + 1, Len(f))
<1>2. /\ g \in Seq(S) /\ Len(g) = IF m + 1 <= Len(f) THEN Len(f) - (m + 1) + 1 ELSE 0
      /\ \A i \in 1 .. Len(f) - (m + 1) + 1 : g[i] = f[(m + 1) + i - 1]
  <2>1. m + 1 \in Int /\ Len(f) \in Int /\ \A i \in (m + 1) .. Len(f) : f[i] \in S
    BY <1>1
  <2> QED BY <2>1, SubSeqProperties
<1> HIDE DEF g
<1>3. Len(g) = Len(f) - m /\ Len(f) - (m + 1) + 1 = Len(f) - m
  BY <1>1, <1>2
<1>4. ASSUME NEW i \in 1 .. Len(f) - m PROVE g[i] = f[m + i]
  <2>1. i \in 1 .. Len(f) - (m + 1) + 1 /\ (m + 1) + i - 1 = m + i
    BY <1>1
  <2> QED BY <1>2, <2>1
<1> QED BY <1>2, <1>3, <1>4 DEF g

LEMMA PrefixIs ==
  ASSUME NEW S, NEW f \in Seq(S), NEW m \in 0 .. Len(f)
  PROVE  LET g == SubSeq(f, 1, m) IN
         g \in Seq(S) /\ Len(g) = m /\ \A i \in 1 .. m : g[i] = f[i]
<1>1. Len(f) \in Nat /\ \A i \in 1 .. Len(f) : f[i] \in S
  OBVIOUS
<1> DEFINE g == SubSeq(f, 1, m)
<1>2. /\ g \in Seq(S) /\ Len(g) = IF 1 <= m THEN m - 1 + 1 ELSE 0
      /\ \A i \in 1 .. m - 1 + 1 : g[i] = f[1 + i - 1]
  <2>1. 1 \in Int /\ m \in Int /\ \A i \in 1 .. m : f[i] \in S
    BY <1>1
  <2> QED BY <2>1, SubSeqProperties
<1> HIDE DEF g
<1>3. Len(g) = m /\ m - 1 + 1 = m
  BY <1>1, <1>2
<1>4. ASSUME NEW i \in 1 .. m PROVE g[i] = f[i]
  <2>1. i \in 1 .. m - 1 + 1 /\ 1 + i - 1 = i
    BY <1>1
  <2> QED BY <1>2, <2>1
<1> QED BY <1>2, <1>3, <1>4 DEF g

\* The property lines of a header as properties.
LEMMA PairsAre ==
  ASSUME NEW ls \in Seq(Line)
  PROVE  /\ Pairs(ls) \in PropList /\ Len(Pairs(ls)) = Len(ls)
         /\ \A i \in 1 .. Len(ls) : Pairs(ls)[i] = <<ls[i].text, ls[i].words>>
<1>1. Len(ls) \in Nat /\ DOMAIN ls = 1 .. Len(ls) /\ \A i \in 1 .. Len(ls) : ls[i] \in Line
  OBVIOUS
<1>2. \A l \in Line : Pair(l) \in Property
  BY DEF Line, Pair, Property
<1>3. Pairs(ls) = [n \in 1 .. Len(ls) |-> Pair(ls[n])]
  BY <1>1, Zenon DEF Pairs
<1>4. \A i \in 1 .. Len(ls) : Pair(ls[i]) \in Property
  BY <1>1, <1>2
<1>5. Pairs(ls) \in Seq(Property) /\ Len(Pairs(ls)) = Len(ls)
  BY <1>1, <1>3, <1>4
<1>6. \A i \in 1 .. Len(ls) : Pairs(ls)[i] = Pair(ls[i])
  BY <1>3
<1> QED BY <1>5, <1>6 DEF PropList, Pair

\* Whatever is put into a list without two of the same key, it remains one.
LEMMA PutAllList ==
  ASSUME NEW ps \in OnceLists, NEW qs \in PropList
  PROVE  PutAll(ps, qs) \in OnceLists
<1>1. PICK h \in [0 .. Len(qs) -> OnceLists] : h[Len(qs)] = PutAll(ps, qs)
  BY PutChain
<1>2. Len(qs) \in 0 .. Len(qs)
  BY DEF PropList
<1> QED BY <1>1, <1>2

LEMMA EmptyList == <<>> \in OnceLists /\ KeysOf(<<>>) = {}
<1>1. <<>> \in Seq(Property)
  OBVIOUS
<1>2. DOMAIN <<>> = {}
  OBVIOUS
<1>3. KeysOf(<<>>) = {}
  BY <1>2 DEF KeysOf, ToSet
<1> QED BY <1>1, <1>2, <1>3 DEF OnceLists, PropList, Once

\* A body: what does not go on with the header.
IsBody(b) == b \in Seq(Line) /\ NoNul(b) /\ (b = <<>> \/ b[1].kind # "prop")

\* What is left of lines without NUL is lines without NUL.
LEMMA SkipLines ==
  ASSUME NEW f \in Seq(Line)
  PROVE  /\ SkipBlank(f) \in Seq(Line) /\ (NoNul(f) => NoNul(SkipBlank(f)))
         /\ \A S : f \in Seq(S) => SkipBlank(f) \in Seq(S)
<1> DEFINE t == SkipBlank(f)
<1>1. PICK m \in 0 .. Len(f) : t = SubSeq(f, m + 1, Len(f))
  BY SkipIs
<1> HIDE DEF t
<1>2. t \in Seq(Line) /\ Len(t) = Len(f) - m /\ \A i \in 1 .. Len(f) - m : t[i] = f[m + i]
  BY <1>1, SuffixIs
<1>3. ASSUME NoNul(f) PROVE NoNul(t)
  <2>1. ASSUME NEW i \in 1 .. Len(t) PROVE t[i].kind # "nul"
    <3>1. m + i \in 1 .. Len(f) /\ i \in 1 .. Len(f) - m
      BY <1>2
    <3> QED BY <1>2, <1>3, <3>1 DEF NoNul
  <2> QED BY <1>2, <2>1 DEF NoNul
<1>4. ASSUME NEW S, f \in Seq(S) PROVE t \in Seq(S)
  BY <1>1, <1>4, SuffixIs
<1> QED BY <1>2, <1>3, <1>4 DEF t

LEMMA TailLines ==
  ASSUME NEW t \in Seq(Line), t # <<>>
  PROVE  /\ Tail(t) \in Seq(Line) /\ (NoNul(t) => NoNul(Tail(t)))
         /\ t[1] \in Line /\ t[1].text \in Strings
         /\ \A S : t \in Seq(S) => Tail(t) \in Seq(S) /\ t[1] \in S
<1>1. /\ Tail(t) \in Seq(Line) /\ Len(Tail(t)) = Len(t) - 1
      /\ \A i \in 1 .. Len(Tail(t)) : Tail(t)[i] = t[i + 1]
  BY HeadTailProperties
<1>2. ASSUME NoNul(t) PROVE NoNul(Tail(t))
  <2> DEFINE u == Tail(t)
  <2>1. u \in Seq(Line) /\ Len(u) = Len(t) - 1 /\ \A i \in 1 .. Len(u) : u[i] = t[i + 1]
    BY <1>1
  <2> HIDE DEF u
  <2>2. ASSUME NEW i \in 1 .. Len(u) PROVE u[i].kind # "nul"
    <3>1. i + 1 \in 1 .. Len(t)
      BY <2>1
    <3> QED BY <1>2, <2>1, <3>1 DEF NoNul
  <2>3. NoNul(u)
    BY <2>1, <2>2 DEF NoNul
  <2> QED BY <2>3 DEF u
<1>3. t[1] \in Line
  OBVIOUS
<1>4. ASSUME NEW S, t \in Seq(S) PROVE Tail(t) \in Seq(S) /\ t[1] \in S
  <2>1. Tail(t) \in Seq(S)
    BY <1>4, HeadTailProperties
  <2>2. t[1] \in S
    BY <1>4
  <2> QED BY <2>1, <2>2
<1> QED BY <1>1, <1>2, <1>3, <1>4 DEF Line

\* The parser makes of any lines a title, a list that has no key twice, and a body.
LEMMA ParseIs ==
  ASSUME NEW f \in Seq(Line)
  PROVE  LET p == Parse(f) IN p.title \in Strings /\ p.props \in OnceLists /\ IsBody(p.body)
<1> DEFINE p == Parse(f) s == Seen(f) t == SkipBlank(s)
<1>1. s \in Seq(Line) /\ NoNul(s)
  <2>1. PICK m \in 0 .. Len(f) : s = SubSeq(f, 1, m) /\ \A i \in 1 .. m : f[i].kind # "nul"
    BY SeenIs
  <2>2. s \in Seq(Line) /\ Len(s) = m /\ \A i \in 1 .. m : s[i] = f[i]
    BY <2>1, PrefixIs
  <2> HIDE DEF s
  <2> QED BY <2>1, <2>2 DEF NoNul
<1> HIDE DEF s
<1>2. t \in Seq(Line) /\ NoNul(t)
  BY <1>1, SkipLines
<1> HIDE DEF t
<1>3. CASE t = <<>> \/ t[1].kind # "title"
  <2>1. p = [title |-> "INVALID", props |-> <<>>, body |-> <<>>]
    BY <1>3 DEF Parse, t, s
  <2>2. "INVALID" \in Strings
    BY TaskFileAssumption
  <2>3. IsBody(<<>>)
    BY DEF IsBody, NoNul
  <2> QED BY <2>1, <2>2, <2>3, EmptyList
<1>4. CASE t # <<>> /\ t[1].kind = "title"
  <2> DEFINE r == SkipBlank(Tail(t)) n == HeaderLength(r)
  <2>1. p = [title |-> t[1].text, props |-> PutAll(<<>>, Pairs(SubSeq(r, 1, n))), body |-> SubSeq(r, n + 1, Len(r))]
    BY <1>4 DEF Parse, t, s
  <2>3. t[1].text \in Strings /\ Tail(t) \in Seq(Line) /\ NoNul(Tail(t))
    BY <1>2, <1>4, TailLines
  <2>5. r \in Seq(Line) /\ NoNul(r)
    BY <2>3, SkipLines
  <2> HIDE DEF r
  <2>6. n \in 0 .. Len(r) /\ (n = Len(r) \/ r[n + 1].kind # "prop")
    BY <2>5, HeaderIs
  <2> HIDE DEF n
  <2>7. SubSeq(r, 1, n) \in Seq(Line)
    BY <2>5, <2>6, PrefixIs
  <2>8. PutAll(<<>>, Pairs(SubSeq(r, 1, n))) \in OnceLists
    BY <2>7, PairsAre, EmptyList, PutAllList
  <2> DEFINE b == SubSeq(r, n + 1, Len(r))
  <2>9. b \in Seq(Line) /\ Len(b) = Len(r) - n /\ \A i \in 1 .. Len(r) - n : b[i] = r[n + i]
    BY <2>5, <2>6, SuffixIs
  <2> HIDE DEF b
  <2>10. IsBody(b)
    <3>1. Len(r) \in Nat
      BY <2>5
    <3>2. \A i \in 1 .. Len(r) - n : n + i \in 1 .. Len(r)
      BY <2>6, <3>1
    <3>3. NoNul(b)
      <4>1. ASSUME NEW i \in 1 .. Len(b) PROVE b[i].kind # "nul"
        <5>1. b[i] = r[n + i] /\ n + i \in 1 .. Len(r)
          BY <2>9, <3>2
        <5> QED BY <2>5, <5>1 DEF NoNul
      <4> QED BY <2>9, <4>1 DEF NoNul
    <3>4. ASSUME b # <<>> PROVE b[1].kind # "prop"
      <4>1. Len(b) # 0
        BY <2>9, <3>4
      <4>2. 1 \in 1 .. Len(r) - n /\ n # Len(r)
        BY <2>6, <2>9, <3>1, <4>1
      <4> QED BY <2>6, <2>9, <4>2
    <3> QED BY <2>9, <3>3, <3>4 DEF IsBody
  <2> QED BY <2>1, <2>3, <2>8, <2>10 DEF b
<1> QED BY <1>3, <1>4

-----------------------------------------------------------------------------
\* A file as render_task_md lays it out.
Laid(x, ls, b) == <<Title(x), Blank>> \o ls \o b

\* The parser finds the parts of a laid out file where they were put.
LEMMA LaidIs ==
  ASSUME NEW x \in Strings, NEW ls \in Seq(Line), ls # <<>>, \A i \in 1 .. Len(ls) : ls[i].kind = "prop",
         NEW b, IsBody(b)
  PROVE  LET f == Laid(x, ls, b) r == ls \o b IN
         /\ f \in Seq(Line) /\ f # <<>> /\ NoNul(f) /\ f[1] = Title(x)
         /\ SkipBlank(f) = f /\ SkipBlank(Tail(f)) = r /\ HeaderLength(r) = Len(ls)
         /\ r \in Seq(Line) /\ SubSeq(r, 1, Len(ls)) = ls /\ SubSeq(r, Len(ls) + 1, Len(r)) = b
         /\ Len(r) = Len(ls) + Len(b) /\ \A i \in 1 .. Len(ls) : r[i] = ls[i]
         /\ b # <<>> => r[Len(ls) + 1] = b[1]
<1> DEFINE f == Laid(x, ls, b) r == ls \o b top == <<Title(x), Blank>>
<1>1. /\ Title(x) \in Line /\ Blank \in Line /\ Title(x) # Blank
      /\ Title(x).kind = "title" /\ Blank.kind = "text"
  <2>0. <<>> \in Seq(Words)
    OBVIOUS
  <2>1. x \in Strings /\ Nothing \in Strings
    BY TaskFileAssumption
  <2>2. Title(x) \in Line /\ Blank \in Line
    BY <2>0, <2>1 DEF Title, Blank, Text, Line
  <2>3. Title(x).kind = "title" /\ Blank.kind = "text"
    BY DEF Title, Blank, Text
  <2>4. Title(x) # Blank
    BY <2>3
  <2> QED BY <2>2, <2>3, <2>4
<1>2. top \in Seq(Line) /\ Len(top) = 2 /\ top[1] = Title(x) /\ top[2] = Blank
  BY <1>1
<1>3a. b \in Seq(Line) /\ Len(b) \in Nat /\ Len(ls) \in Nat /\ Len(ls) # 0 /\ (b # <<>> => Len(b) # 0)
  BY DEF IsBody
<1>4. /\ r \in Seq(Line) /\ Len(r) = Len(ls) + Len(b)
      /\ \A i \in 1 .. Len(ls) + Len(b) : r[i] = IF i <= Len(ls) THEN ls[i] ELSE b[i - Len(ls)]
  BY <1>3a, ConcatProperties
<1>5. f = top \o r
  BY <1>2, <1>3a, ConcatAssociative DEF Laid
<1> HIDE DEF r, top, f
<1>6. /\ f \in Seq(Line) /\ Len(f) = Len(top) + Len(r)
      /\ \A i \in 1 .. Len(top) + Len(r) : f[i] = IF i <= Len(top) THEN top[i] ELSE r[i - Len(top)]
  <2>1. /\ top \o r \in Seq(Line) /\ Len(top \o r) = Len(top) + Len(r)
        /\ \A i \in 1 .. Len(top) + Len(r) : (top \o r)[i] = IF i <= Len(top) THEN top[i] ELSE r[i - Len(top)]
    <3>1. top \in Seq(Line) /\ r \in Seq(Line)
      BY <1>2, <1>4
    <3> QED BY <3>1, ConcatProperties
  <2> QED BY <1>5, <2>1
<1>7. Len(r) \in Nat /\ Len(r) # 0 /\ Len(f) = 2 + Len(r) /\ f[1] = Title(x) /\ f[2] = Blank
  BY <1>2, <1>3a, <1>4, <1>6
<1>8. ASSUME NEW i \in 1 .. Len(r) PROVE f[2 + i] = r[i]
  <2>1. 2 + i \in 1 .. 2 + Len(r) /\ ~(2 + i <= 2) /\ (2 + i) - 2 = i
    BY <1>7
  <2> QED BY <1>2, <1>6, <2>1
<1>9. \A i \in 1 .. Len(ls) : i \in 1 .. Len(r) /\ r[i] = ls[i]
  BY <1>3a, <1>4
<1>10. ASSUME NEW i \in 1 .. Len(b) PROVE Len(ls) + i \in 1 .. Len(r) /\ r[Len(ls) + i] = b[i]
  <2>1. Len(ls) + i \in 1 .. Len(ls) + Len(b) /\ ~(Len(ls) + i <= Len(ls)) /\ (Len(ls) + i) - Len(ls) = i
    BY <1>3a
  <2> QED BY <1>4, <2>1
<1>11. ASSUME NEW i \in 1 .. Len(r) PROVE r[i].kind # "nul"
  <2>1. CASE i <= Len(ls)
    BY <2>1, <1>9, <1>3a
  <2>2. CASE ~(i <= Len(ls))
    <3>1. i - Len(ls) \in 1 .. Len(b) /\ Len(ls) + (i - Len(ls)) = i
      BY <2>2, <1>3a, <1>4
    <3>2. r[i] = b[i - Len(ls)]
      BY <1>10, <3>1
    <3> QED BY <3>1, <3>2 DEF IsBody, NoNul
  <2> QED BY <2>1, <2>2
<1>12. NoNul(f)
  <2>1. ASSUME NEW i \in 1 .. Len(f) PROVE f[i].kind # "nul"
    <3>1. i = 1 \/ i = 2 \/ (i - 2 \in 1 .. Len(r) /\ 2 + (i - 2) = i)
      BY <1>7
    <3> QED BY <3>1, <1>1, <1>7, <1>8, <1>11
  <2> QED BY <2>1, <1>6 DEF NoNul
<1>13. SkipBlank(f) = f
  <2>1. 0 \in 0 .. Len(f) /\ (\A i \in 1 .. 0 : f[i] = Blank) /\ f[0 + 1] # Blank
    BY <1>1, <1>7
  <2>2. SkipBlank(f) = SubSeq(f, 0 + 1, Len(f))
    BY <1>6, <2>1, SkipTo
  <2> QED BY <1>6, <2>2, SubSeqFull
<1>14. SkipBlank(Tail(f)) = r
  <2> DEFINE u == Tail(f)
  <2>1. f # <<>>
    BY <1>7
  <2>2. u \in Seq(Line) /\ Len(u) = Len(f) - 1 /\ \A i \in 1 .. Len(u) : u[i] = f[i + 1]
    BY <1>6, <2>1, HeadTailProperties
  <2> HIDE DEF u
  <2>3. Len(u) = 1 + Len(r) /\ u[1] = Blank
    BY <1>7, <2>2
  <2>4. ASSUME NEW i \in 1 .. Len(r) PROVE u[1 + i] = r[i]
    <3>1. 1 + i \in 1 .. Len(u) /\ (1 + i) + 1 = 2 + i
      BY <1>7, <2>3
    <3> QED BY <1>8, <2>2, <3>1
  <2>5. u[1 + 1] # Blank
    <3>1. 1 \in 1 .. Len(ls) /\ 1 \in 1 .. Len(r)
      BY <1>3a, <1>9
    <3> QED BY <1>1, <1>9, <2>4, <3>1
  <2>6. 1 \in 0 .. Len(u) /\ \A i \in 1 .. 1 : u[i] = Blank
    BY <1>7, <2>3
  <2>7. SkipBlank(u) = SubSeq(u, 1 + 1, Len(u))
    BY <2>2, <2>5, <2>6, SkipTo
  <2> DEFINE g == SubSeq(u, 1 + 1, Len(u))
  <2>8. g \in Seq(Line) /\ Len(g) = Len(u) - 1 /\ \A i \in 1 .. Len(u) - 1 : g[i] = u[1 + i]
    BY <2>2, <2>6, SuffixIs
  <2> HIDE DEF g
  <2>9. g = r
    <3>1. Len(g) = Len(r) /\ Len(u) - 1 = Len(r)
      BY <1>7, <2>3, <2>8
    <3>2. \A i \in 1 .. Len(g) : g[i] = r[i]
      BY <2>4, <2>8, <3>1
    <3> QED BY <1>4, <2>8, <3>1, <3>2, SeqEqual
  <2> QED BY <2>7, <2>9 DEF u, g
<1>15. HeaderLength(r) = Len(ls)
  <2>1. Len(ls) \in 0 .. Len(r) /\ \A i \in 1 .. Len(ls) : r[i].kind = "prop"
    BY <1>3a, <1>4, <1>9
  <2>2. Len(ls) = Len(r) \/ r[Len(ls) + 1].kind # "prop"
    <3>1. CASE b = <<>>
      <4>1. Len(b) = 0
        BY <3>1
      <4> QED BY <1>3a, <1>4, <4>1
    <3>2. CASE b # <<>>
      <4>1. 1 \in 1 .. Len(b)
        BY <3>2, <1>3a
      <4> QED BY <3>2, <4>1, <1>10 DEF IsBody
    <3> QED BY <3>1, <3>2
  <2> QED BY <1>4, <2>1, <2>2, HeaderTo
<1>16. SubSeq(r, 1, Len(ls)) = ls
  <2> DEFINE g == SubSeq(r, 1, Len(ls))
  <2>1. Len(ls) \in 0 .. Len(r)
    BY <1>3a, <1>4
  <2>2. g \in Seq(Line) /\ Len(g) = Len(ls) /\ \A i \in 1 .. Len(ls) : g[i] = r[i]
    BY <1>4, <2>1, PrefixIs
  <2> HIDE DEF g
  <2>3. \A i \in 1 .. Len(g) : g[i] = ls[i]
    BY <1>9, <2>2
  <2>4. g = ls
    BY <2>2, <2>3, SeqEqual
  <2> QED BY <2>4 DEF g
<1>17. SubSeq(r, Len(ls) + 1, Len(r)) = b
  <2> DEFINE g == SubSeq(r, Len(ls) + 1, Len(r))
  <2>1. Len(ls) \in 0 .. Len(r) /\ Len(r) - Len(ls) = Len(b)
    BY <1>3a, <1>4
  <2>2. g \in Seq(Line) /\ Len(g) = Len(r) - Len(ls) /\ \A i \in 1 .. Len(r) - Len(ls) : g[i] = r[Len(ls) + i]
    BY <1>4, <2>1, SuffixIs
  <2> HIDE DEF g
  <2>3. \A i \in 1 .. Len(g) : g[i] = b[i]
    BY <1>10, <2>1, <2>2
  <2>4. g = b
    BY <1>3a, <2>1, <2>2, <2>3, SeqEqual
  <2> QED BY <2>4 DEF g
<1>18. b # <<>> => r[Len(ls) + 1] = b[1]
  BY <1>3a, <1>10
<1>19. f # <<>>
  BY <1>7
<1> QED BY <1>4, <1>6, <1>7, <1>9, <1>12, <1>13, <1>14, <1>15, <1>16, <1>17, <1>18, <1>19 DEF f, r

\* A list with the keys of another in the same places.
LEMMA SameKeys ==
  ASSUME NEW ps \in OnceLists, NEW qs \in PropList, Len(qs) = Len(ps),
         \A i \in 1 .. Len(ps) : qs[i][1] = ps[i][1]
  PROVE  /\ qs \in OnceLists /\ KeysOf(qs) = KeysOf(ps) /\ DOMAIN qs = DOMAIN ps /\ DOMAIN ps = 1 .. Len(ps)
         /\ \A a, b : Before(qs, a, b) <=> Before(ps, a, b)
<1>1. DOMAIN ps = 1 .. Len(ps) /\ DOMAIN qs = 1 .. Len(ps) /\ Once(ps)
  BY DEF OnceLists, PropList
<1>2. Once(qs)
  BY <1>1 DEF Once
<1>3. \A k : k \in KeysOf(ps) <=> \E i \in 1 .. Len(ps) : ps[i][1] = k
  BY <1>1 DEF KeysOf, ToSet
<1>4. \A k : k \in KeysOf(qs) <=> \E i \in 1 .. Len(ps) : qs[i][1] = k
  BY <1>1 DEF KeysOf, ToSet
<1>5. \A a, b : Before(qs, a, b) <=> Before(ps, a, b)
  BY <1>1 DEF Before
<1> QED BY <1>1, <1>2, <1>3, <1>4, <1>5 DEF OnceLists

\* What is written as the value of a property.
Shown(t, k, v) == IF k = "STATUS" THEN t.status
                  ELSE IF k = "PRIORITY" THEN <<t.priority>>
                  ELSE IF k = "TAGS" THEN Spelled(t.tags) ELSE v

\* What the parser makes of a rendered task, and the places of its lines.
LEMMA RenderIs ==
  ASSUME NEW t \in TaskType, t.props # <<>>, IsBody(t.body)
  PROVE  LET f == Render(t) p == Parse(f) r == SkipBlank(Tail(f)) IN
         /\ f \in Seq(Line) /\ f # <<>> /\ NoNul(f) /\ SkipBlank(f) = f /\ f[1] = Title(t.title)
         /\ p.title = t.title /\ p.body = t.body
         /\ p.props \in OnceLists /\ Len(p.props) = Len(t.props)
         /\ \A i \in 1 .. Len(t.props) :
              p.props[i] = <<t.props[i][1], Shown(t, t.props[i][1], t.props[i][2])>>
         /\ KeysOf(p.props) = KeysOf(t.props) /\ \A a, b : Before(p.props, a, b) <=> Before(t.props, a, b)
         /\ \A k \in KeysOf(t.props) : Get(p.props, k) = Shown(t, k, Get(t.props, k))
         /\ \A k : k \notin KeysOf(t.props) => Get(p.props, k) = <<>>
         /\ HeaderLength(r) = Len(t.props) /\ Len(r) = Len(t.props) + Len(t.body)
         /\ \A i \in 1 .. Len(t.props) : r[i].text = t.props[i][1]
         /\ t.body # <<>> => r[Len(t.props) + 1] = t.body[1]
<1> DEFINE ps == t.props
           ls == [n \in DOMAIN ps |-> Rendered(t, ps[n])]
           f == Render(t)
           p == Parse(f)
           r == SkipBlank(Tail(f))
<1>1. /\ t.title \in Strings /\ t.status \in Seq(Words) /\ t.priority \in Numbers /\ t.tags \in Seq(Strings)
      /\ ps \in OnceLists /\ t.body \in Seq(Line)
  BY DEF TaskType
<1>2. /\ ps \in Seq(Property) /\ Len(ps) \in Nat /\ Len(ps) # 0 /\ DOMAIN ps = 1 .. Len(ps) /\ Once(ps)
      /\ \A i \in 1 .. Len(ps) : ps[i] \in Property
  BY <1>1 DEF OnceLists, PropList
<1>3. ASSUME NEW x \in Property
      PROVE  Rendered(t, x) \in Line /\ Rendered(t, x) = Prop(x[1], Shown(t, x[1], x[2]))
  <2>1. x[1] \in Strings /\ x[2] \in Seq(Words) /\ <<t.priority>> \in Seq(Words)
    BY <1>1, Singly DEF Property
  <2>1a. Spelled(t.tags) \in Seq(Words)
    BY <1>1, SpelledIs DEF Words
  <2>2. Rendered(t, x) = Prop(x[1], Shown(t, x[1], x[2]))
    BY DEF Rendered, Shown
  <2>3. Shown(t, x[1], x[2]) \in Seq(Words)
    BY <1>1, <2>1, <2>1a DEF Shown
  <2> QED BY <2>1, <2>2, <2>3 DEF Prop, Line
<1>4. /\ ls \in Seq(Line) /\ Len(ls) = Len(ps)
      /\ \A i \in 1 .. Len(ps) : ls[i] = Prop(ps[i][1], Shown(t, ps[i][1], ps[i][2]))
  <2>1. ls = [n \in 1 .. Len(ps) |-> Rendered(t, ps[n])]
    BY <1>2
  <2>2. \A i \in 1 .. Len(ps) : Rendered(t, ps[i]) \in Line
    BY <1>2, <1>3
  <2>3. ls \in Seq(Line) /\ Len(ls) = Len(ps)
    BY <1>2, <2>1, <2>2
  <2>4. \A i \in 1 .. Len(ps) : ls[i] = Rendered(t, ps[i])
    BY <2>1
  <2> QED BY <1>2, <1>3, <2>3, <2>4
<1>5. f = Laid(t.title, ls, t.body)
  BY DEF Render, Laid
<1> HIDE DEF ls
<1>6. /\ \A i \in 1 .. Len(ls) : /\ ls[i].kind = "prop" /\ ls[i].text = ps[i][1]
                                 /\ ls[i].words = Shown(t, ps[i][1], ps[i][2])
      /\ ls # <<>>
  <2>1. ls # <<>>
    BY <1>2, <1>4
  <2>2. \A a, b : Prop(a, b).kind = "prop" /\ Prop(a, b).text = a /\ Prop(a, b).words = b
    BY DEF Prop
  <2> QED BY <1>4, <2>1, <2>2
<1> HIDE DEF f
<1>7. /\ f \in Seq(Line) /\ f # <<>> /\ NoNul(f) /\ f[1] = Title(t.title)
      /\ SkipBlank(f) = f /\ HeaderLength(r) = Len(ls)
      /\ r \in Seq(Line) /\ SubSeq(r, 1, Len(ls)) = ls /\ SubSeq(r, Len(ls) + 1, Len(r)) = t.body
      /\ Len(r) = Len(ls) + Len(t.body) /\ \A i \in 1 .. Len(ls) : r[i] = ls[i]
      /\ t.body # <<>> => r[Len(ls) + 1] = t.body[1]
  <2> DEFINE g == ls \o t.body
  <2>1. LET h == Laid(t.title, ls, t.body) IN
        /\ h \in Seq(Line) /\ h # <<>> /\ NoNul(h) /\ h[1] = Title(t.title)
        /\ SkipBlank(h) = h /\ SkipBlank(Tail(h)) = g /\ HeaderLength(g) = Len(ls)
        /\ g \in Seq(Line) /\ SubSeq(g, 1, Len(ls)) = ls /\ SubSeq(g, Len(ls) + 1, Len(g)) = t.body
        /\ Len(g) = Len(ls) + Len(t.body) /\ \A i \in 1 .. Len(ls) : g[i] = ls[i]
        /\ t.body # <<>> => g[Len(ls) + 1] = t.body[1]
    <3> DEFINE x == t.title b == t.body
    <3>1. x \in Strings /\ IsBody(b) /\ \A i \in 1 .. Len(ls) : ls[i].kind = "prop"
      BY <1>1, <1>6
    <3> HIDE DEF x, b
    <3>2. LET h == Laid(x, ls, b) k == ls \o b IN
          /\ h \in Seq(Line) /\ h # <<>> /\ NoNul(h) /\ h[1] = Title(x)
          /\ SkipBlank(h) = h /\ SkipBlank(Tail(h)) = k /\ HeaderLength(k) = Len(ls)
          /\ k \in Seq(Line) /\ SubSeq(k, 1, Len(ls)) = ls /\ SubSeq(k, Len(ls) + 1, Len(k)) = b
          /\ Len(k) = Len(ls) + Len(b) /\ \A i \in 1 .. Len(ls) : k[i] = ls[i]
          /\ b # <<>> => k[Len(ls) + 1] = b[1]
      BY <1>4, <1>6, <3>1, LaidIs
    <3> QED BY <3>2 DEF x, b
  <2> HIDE DEF g
  <2>2. r = g
    BY <1>5, <2>1
  <2> HIDE DEF r
  <2> QED BY <1>5, <2>1, <2>2
<1>8. p = [title |-> t.title, props |-> PutAll(<<>>, Pairs(ls)), body |-> t.body]
  <2>1. Seen(f) = f
    BY <1>7, SeenAll
  <2>2. f[1].kind = "title" /\ f[1].text = t.title
    BY <1>7 DEF Title
  <2>3. p = [title |-> f[1].text, props |-> PutAll(<<>>, Pairs(SubSeq(r, 1, HeaderLength(r)))),
             body |-> SubSeq(r, HeaderLength(r) + 1, Len(r))]
    BY <1>7, <2>1, <2>2 DEF Parse
  <2> HIDE DEF p, r
  <2> QED BY <1>7, <2>2, <2>3
<1> DEFINE qs == Pairs(ls)
<1>9. /\ qs \in PropList /\ Len(qs) = Len(ps)
      /\ \A i \in 1 .. Len(ps) : qs[i] = <<ps[i][1], Shown(t, ps[i][1], ps[i][2])>>
  BY <1>4, <1>6, PairsAre
<1> HIDE DEF qs
<1>10. \A i \in 1 .. Len(ps) : qs[i][1] = ps[i][1] /\ qs[i][2] = Shown(t, ps[i][1], ps[i][2])
  BY <1>9
<1>11. /\ qs \in OnceLists /\ KeysOf(qs) = KeysOf(ps) /\ DOMAIN qs = DOMAIN ps
       /\ \A a, b : Before(qs, a, b) <=> Before(ps, a, b)
  BY <1>1, <1>9, <1>10, SameKeys
<1>12. p.props = qs
  <2>1. PutAll(<<>>, qs) = <<>> \o qs
    BY <1>11, EmptyList, PutAllIs
  <2>2. <<>> \o qs = qs
    BY <1>9, ConcatEmptySeq DEF PropList
  <2> QED BY <1>8, <2>1, <2>2 DEF qs
<1>13. ASSUME NEW k \in KeysOf(ps) PROVE Get(qs, k) = Shown(t, k, Get(ps, k))
  <2>1. PICK i \in 1 .. Len(ps) : ps[i][1] = k
    BY <1>1, <1>2, GetIs DEF OnceLists
  <2>2. Get(ps, k) = ps[i][2]
    BY <1>1, <1>2, <2>1, GetIs DEF OnceLists
  <2>3. Get(qs, qs[i][1]) = qs[i][2]
    BY <1>2, <1>11, <2>1, GetIs DEF OnceLists
  <2> QED BY <1>10, <2>1, <2>2, <2>3
<1>14. ASSUME NEW k, k \notin KeysOf(ps) PROVE Get(qs, k) = <<>>
  BY <1>11, <1>14, GetIs DEF OnceLists
<1>15. p.title = t.title /\ p.body = t.body
  BY <1>8
<1> HIDE DEF p, r
<1>16. /\ HeaderLength(r) = Len(ps) /\ Len(r) = Len(ps) + Len(t.body)
       /\ \A i \in 1 .. Len(ps) : r[i].text = ps[i][1]
       /\ t.body # <<>> => r[Len(ps) + 1] = t.body[1]
  BY <1>4, <1>6, <1>7
<1>17. \A k \in KeysOf(ps) : Get(qs, k) = Shown(t, k, Get(ps, k))
  BY <1>13
<1>18. \A k : k \notin KeysOf(ps) => Get(qs, k) = <<>>
  BY <1>14
<1> QED BY <1>7, <1>9, <1>11, <1>12, <1>15, <1>16, <1>17, <1>18 DEF f, p, r

-----------------------------------------------------------------------------
\* The kinds of what the properties say.
LEMMA GetType ==
  ASSUME NEW ps \in OnceLists, NEW k
  PROVE  Get(ps, k) \in Seq(Words)
<1>1. CASE k \in KeysOf(ps)
  <2>1. PICK i \in DOMAIN ps : ps[i][1] = k
    BY <1>1, GetIs DEF OnceLists
  <2>2. ps[i] \in Property
    BY DEF OnceLists, PropList
  <2>3. Get(ps, k) = ps[i][2]
    BY <2>1, GetIs DEF OnceLists
  <2> QED BY <2>2, <2>3 DEF Property
<1>2. CASE k \notin KeysOf(ps)
  <2>1. Get(ps, k) = <<>>
    BY <1>2, GetIs DEF OnceLists
  <2> QED BY <2>1
<1> QED BY <1>1, <1>2

LEMMA AtoiType == ASSUME NEW w PROVE Atoi(w) \in Numbers
BY TaskFileAssumption DEF Atoi

\* A canonical property added, if it is missing.
LEMMA DefaultIs ==
  ASSUME NEW ps \in OnceLists, NEW key \in Strings
  PROVE  LET q == Default(ps, key) IN
         /\ q \in OnceLists /\ KeysOf(q) = KeysOf(ps) \cup {key} /\ \A k : Get(q, k) = Get(ps, k)
         /\ \A a, b \in KeysOf(ps) : Before(q, a, b) <=> Before(ps, a, b)
<1>0. ps \in PropList /\ Once(ps)
  BY DEF OnceLists
<1>1. CASE key \in KeysOf(ps)
  <2>1. Default(ps, key) = ps
    BY <1>0, <1>1, GetIs DEF Default
  <2> QED BY <1>1, <2>1
<1>2. CASE key \notin KeysOf(ps)
  <2> DEFINE p == <<key, <<>>>> q == Put(ps, p)
  <2>1. Default(ps, key) = q
    BY <1>0, <1>2, GetIs DEF Default
  <2>2. p \in Property /\ p[1] = key /\ p[2] = <<>>
    <3>1. <<>> \in Seq(Words)
      OBVIOUS
    <3> QED BY <3>1 DEF Property
  <2> HIDE DEF p
  <2>3. /\ q \in PropList /\ Once(q) /\ KeysOf(q) = KeysOf(ps) \cup {p[1]}
        /\ Get(q, p[1]) = p[2] /\ \A k : k # p[1] => Get(q, k) = Get(ps, k)
        /\ \A k, l : k # p[1] /\ l # p[1] => (Before(q, k, l) <=> Before(ps, k, l))
    BY <1>0, <2>2, PutIs
  <2>4. Get(ps, key) = <<>>
    BY <1>0, <1>2, GetIs
  <2>5. \A k : Get(q, k) = Get(ps, k)
    BY <2>2, <2>3, <2>4
  <2> HIDE DEF q
  <2>6. \A a, b \in KeysOf(ps) : Before(q, a, b) <=> Before(ps, a, b)
    BY <1>2, <2>2, <2>3
  <2> QED BY <2>1, <2>2, <2>3, <2>5, <2>6 DEF OnceLists
<1> QED BY <1>1, <1>2

LEMMA Names ==
  /\ "STATUS" \in Strings /\ "PRIORITY" \in Strings /\ "TAGS" \in Strings /\ "RESOLUTION" \in Strings
BY TaskFileAssumption

\* What load_tasks makes of any file.
LEMMA LoadIs ==
  ASSUME NEW f \in Seq(Line)
  PROVE  LET t == Load(f) p == Parse(f) IN
         /\ t \in TaskType /\ t.title = p.title /\ t.body = p.body /\ t.props # <<>>
         /\ t.status = IF "STATUS" \in KeysOf(p.props) THEN Get(p.props, "STATUS") ELSE <<"OPEN">>
         /\ t.priority = IF "PRIORITY" \in KeysOf(p.props) THEN Atoi(Get(p.props, "PRIORITY")) ELSE "999999"
         /\ t.tags = Get(p.props, "TAGS")
         /\ KeysOf(t.props) = KeysOf(p.props) \cup Canonical
         /\ \A k : Get(t.props, k) = Get(p.props, k)
         /\ \A a, b \in KeysOf(p.props) : Before(t.props, a, b) <=> Before(p.props, a, b)
<1> DEFINE t == Load(f) p == Parse(f) ps == p.props
           p1 == Default(ps, "STATUS") p2 == Default(p1, "PRIORITY") p3 == Default(p2, "TAGS")
           st == IF "STATUS" \in KeysOf(ps) THEN Get(ps, "STATUS") ELSE <<"OPEN">>
           pr == IF "PRIORITY" \in KeysOf(ps) THEN Atoi(Get(ps, "PRIORITY")) ELSE "999999"
<1>1. p.title \in Strings /\ ps \in OnceLists /\ p.body \in Seq(Line)
  BY ParseIs DEF IsBody
<1> HIDE DEF p
<1>2. t = [title |-> p.title, status |-> st, priority |-> pr, tags |-> Get(ps, "TAGS"),
           props |-> p3, body |-> p.body]
  <2>1. (Has(ps, "STATUS") <=> "STATUS" \in KeysOf(ps)) /\ (Has(ps, "PRIORITY") <=> "PRIORITY" \in KeysOf(ps))
    BY <1>1, GetIs DEF OnceLists
  <2> QED BY <2>1 DEF Load, AsTask, p
<1>3. /\ p1 \in OnceLists /\ KeysOf(p1) = KeysOf(ps) \cup {"STATUS"} /\ \A k : Get(p1, k) = Get(ps, k)
      /\ \A a, b \in KeysOf(ps) : Before(p1, a, b) <=> Before(ps, a, b)
  BY <1>1, Names, DefaultIs
<1> HIDE DEF p1
<1>4. /\ p2 \in OnceLists /\ KeysOf(p2) = KeysOf(p1) \cup {"PRIORITY"} /\ \A k : Get(p2, k) = Get(p1, k)
      /\ \A a, b \in KeysOf(p1) : Before(p2, a, b) <=> Before(p1, a, b)
  BY <1>3, Names, DefaultIs
<1> HIDE DEF p2
<1>5. /\ p3 \in OnceLists /\ KeysOf(p3) = KeysOf(p2) \cup {"TAGS"} /\ \A k : Get(p3, k) = Get(p2, k)
      /\ \A a, b \in KeysOf(p2) : Before(p3, a, b) <=> Before(p2, a, b)
  BY <1>4, Names, DefaultIs
<1> HIDE DEF p3, t
<1>6. /\ KeysOf(p3) = KeysOf(ps) \cup Canonical /\ \A k : Get(p3, k) = Get(ps, k)
      /\ \A a, b \in KeysOf(ps) : Before(p3, a, b) <=> Before(ps, a, b)
  BY <1>3, <1>4, <1>5 DEF Canonical
<1>7. p3 # <<>>
  BY <1>6, EmptyList DEF Canonical
<1>8. st \in Seq(Words) /\ pr \in Numbers /\ Get(ps, "TAGS") \in Seq(Strings)
  <2>1. Get(ps, "TAGS") \in Seq(Words) /\ Words \subseteq Strings
    BY <1>1, GetType DEF Words
  <2>2. Get(ps, "TAGS") \in Seq(Strings)
    BY <2>1, SeqWithin
  <2> QED BY <1>1, <2>2, GetType, AtoiType, Singly, TaskFileAssumption
<1> HIDE DEF st, pr
<1>9. t \in TaskType
  BY <1>1, <1>2, <1>5, <1>8 DEF TaskType
<1> QED BY <1>2, <1>6, <1>7, <1>9 DEF t, p, st, pr

\* Nothing that is not UTF-8: words, lines and properties.
CleanWords == Words \ Garbled
CleanLine == {l \in Line : l.text \notin Garbled /\ l.words \in Seq(CleanWords)}
CleanProps(ps) == \A k \in KeysOf(ps) : k \notin Garbled /\ Get(ps, k) \in Seq(CleanWords)
AllClean(f) == \A n \in DOMAIN f : f[n].text \notin Garbled /\ ToSet(f[n].words) \cap Garbled = {}

LEMMA CleanIs ==
  ASSUME NEW f \in Seq(Line)
  PROVE  AllClean(f) <=> f \in Seq(CleanLine)
<1>1. /\ Len(f) \in Nat /\ DOMAIN f = 1 .. Len(f) /\ \A i \in 1 .. Len(f) : f[i] \in Line
      /\ f = [i \in 1 .. Len(f) |-> f[i]]
  OBVIOUS
<1>2. ASSUME NEW w \in Seq(Words) PROVE ToSet(w) \cap Garbled = {} <=> w \in Seq(CleanWords)
  <2>1. /\ Len(w) \in Nat /\ DOMAIN w = 1 .. Len(w) /\ \A i \in 1 .. Len(w) : w[i] \in Words
        /\ w = [i \in 1 .. Len(w) |-> w[i]]
    OBVIOUS
  <2>2. ASSUME ToSet(w) \cap Garbled = {} PROVE w \in Seq(CleanWords)
    <3>1. \A i \in 1 .. Len(w) : w[i] \in CleanWords
      BY <2>1, <2>2 DEF ToSet, CleanWords
    <3> QED BY <2>1, <3>1
  <2>3. ASSUME w \in Seq(CleanWords) PROVE ToSet(w) \cap Garbled = {}
    <3>1. \A i \in 1 .. Len(w) : w[i] \in CleanWords
      BY <2>1, <2>3
    <3> QED BY <2>1, <3>1 DEF ToSet, CleanWords
  <2> QED BY <2>2, <2>3
<1>3. ASSUME NEW l \in Line
      PROVE  l.text \notin Garbled /\ ToSet(l.words) \cap Garbled = {} <=> l \in CleanLine
  <2>1. l.words \in Seq(Words)
    BY DEF Line
  <2> QED BY <1>2, <2>1 DEF CleanLine
<1>4. ASSUME AllClean(f) PROVE f \in Seq(CleanLine)
  <2>1. \A i \in 1 .. Len(f) : f[i] \in CleanLine
    BY <1>1, <1>3, <1>4 DEF AllClean
  <2> QED BY <1>1, <2>1
<1>5. ASSUME f \in Seq(CleanLine) PROVE AllClean(f)
  <2>1. \A i \in 1 .. Len(f) : f[i] \in CleanLine
    BY <1>1, <1>5
  <2> QED BY <1>1, <1>3, <2>1 DEF AllClean
<1> QED BY <1>4, <1>5

\* What the strict checks say of what the parser makes of a file.
LEMMA StrictIs ==
  ASSUME NEW f \in Seq(Line), Strict(f)
  PROVE  LET p == Parse(f) IN
         /\ p.title # Nothing /\ "near" \notin KeysOf(p.props)
         /\ p.body = <<>> \/ p.body[1].text # "near"
         /\ "STATUS" \in KeysOf(p.props) /\ "PRIORITY" \in KeysOf(p.props)
         /\ Get(p.props, "STATUS") \in {<<"OPEN">>, <<"CLOSED">>} /\ IsNumber(Get(p.props, "PRIORITY"))
         /\ Get(p.props, "RESOLUTION") \in {<<>>, <<"DONE">>, <<"CANCELLED">>}
         /\ Get(p.props, "STATUS") = <<"OPEN">> => Get(p.props, "RESOLUTION") = <<>>
         /\ IsInjective(Get(p.props, "DEPENDS"))
         /\ p.title \notin Garbled /\ CleanProps(p.props) /\ p.body \in Seq(CleanLine)
<1> DEFINE p == Parse(f) t == SkipBlank(f) r == SkipBlank(Tail(t)) n == HeaderLength(r)
           ls == SubSeq(r, 1, n) b == SubSeq(r, n + 1, Len(r))
<1>1. /\ Get(p.props, "STATUS") \in {<<"OPEN">>, <<"CLOSED">>} /\ IsNumber(Get(p.props, "PRIORITY"))
      /\ Get(p.props, "RESOLUTION") \in {<<>>, <<"DONE">>, <<"CANCELLED">>}
      /\ Get(p.props, "STATUS") = <<"OPEN">> => Get(p.props, "RESOLUTION") = <<>>
      /\ IsInjective(Get(p.props, "DEPENDS"))
  BY Zenon DEF Strict
<1>2. /\ NoNul(f) /\ AllClean(f) /\ t # <<>> /\ t[1].kind = "title" /\ t[1].text # Nothing
      /\ \A i, j \in 1 .. n : r[i].text = r[j].text => i = j
      /\ \A i \in 1 .. n + 1 : i <= Len(r) => r[i].text # "near"
  BY Zenon DEF Strict, HeaderOK, NoNul, AllClean
<1>2a. f \in Seq(CleanLine)
  BY <1>2, CleanIs
<1>3. p.props \in OnceLists
  BY ParseIs
<1>4. "STATUS" \in KeysOf(p.props) /\ "PRIORITY" \in KeysOf(p.props)
  <2>1. \A k : k \notin KeysOf(p.props) => Get(p.props, k) = <<>>
    BY <1>3, GetIs DEF OnceLists
  <2>2. Get(p.props, "STATUS") # <<>>
    <3>1. <<"OPEN">> # <<>> /\ <<"CLOSED">> # <<>>
      OBVIOUS
    <3> HIDE DEF p
    <3> QED BY <1>1, <3>1, Zenon
  <2>3. Get(p.props, "PRIORITY") # <<>>
    BY <1>1 DEF IsNumber
  <2> QED BY <2>1, <2>2, <2>3
<1>5. t \in Seq(Line) /\ t \in Seq(CleanLine)
  BY <1>2a, SkipLines
<1>6. p = [title |-> t[1].text, props |-> PutAll(<<>>, Pairs(ls)), body |-> b]
  <2>1. Seen(f) = f
    BY <1>2, SeenAll
  <2> QED BY <1>2, <2>1 DEF Parse
<1> HIDE DEF p, t
<1>7. r \in Seq(Line) /\ r \in Seq(CleanLine) /\ t[1] \in CleanLine
  <2>1. Tail(t) \in Seq(Line) /\ Tail(t) \in Seq(CleanLine) /\ t[1] \in CleanLine
    BY <1>2, <1>5, TailLines
  <2> QED BY <2>1, SkipLines
<1> HIDE DEF r
<1>8. n \in 0 .. Len(r)
  BY <1>7, HeaderIs
<1> HIDE DEF n
<1>9. ls \in Seq(Line) /\ ls \in Seq(CleanLine) /\ Len(ls) = n /\ \A i \in 1 .. n : ls[i] = r[i]
  BY <1>7, <1>8, PrefixIs
<1>10. b \in Seq(Line) /\ b \in Seq(CleanLine) /\ Len(b) = Len(r) - n /\ \A i \in 1 .. Len(r) - n : b[i] = r[n + i]
  BY <1>7, <1>8, SuffixIs
<1> HIDE DEF ls, b
<1>11. b = <<>> \/ b[1].text # "near"
  <2>1. CASE Len(b) = 0
    BY <1>10, <2>1
  <2>2. CASE Len(b) # 0
    <3>1. Len(b) \in Nat /\ Len(r) \in Nat
      BY <1>7, <1>10
    <3>2. 1 \in 1 .. Len(r) - n /\ n + 1 \in 1 .. n + 1 /\ n + 1 <= Len(r)
      BY <1>8, <1>10, <2>2, <3>1
    <3> QED BY <1>2, <1>10, <3>2
  <2> QED BY <2>1, <2>2
<1> DEFINE qs == Pairs(ls)
<1>12. /\ qs \in PropList /\ Len(qs) = n /\ \A i \in 1 .. n : qs[i][1] = r[i].text
       /\ \A i \in 1 .. n : qs[i] = <<ls[i].text, ls[i].words>>
  BY <1>9, PairsAre
<1> HIDE DEF qs
<1>13. qs \in OnceLists
  <2>1. DOMAIN qs = 1 .. n
    BY <1>12 DEF PropList
  <2> QED BY <1>2, <1>12, <2>1 DEF OnceLists, Once
<1>14. p.props = qs
  <2>1. PutAll(<<>>, qs) = <<>> \o qs
    BY <1>13, EmptyList, PutAllIs
  <2>2. <<>> \o qs = qs
    BY <1>12, ConcatEmptySeq DEF PropList
  <2> QED BY <1>6, <2>1, <2>2 DEF qs
<1>15. "near" \notin KeysOf(qs)
  <2>1. SUFFICES ASSUME "near" \in KeysOf(qs) PROVE FALSE
    OBVIOUS
  <2>2. PICK i \in DOMAIN qs : qs[i][1] = "near"
    BY <1>13, <2>1, GetIs DEF OnceLists
  <2>3. i \in 1 .. n
    BY <1>12 DEF PropList
  <2>4. i \in 1 .. n + 1 /\ i <= Len(r)
    <3>1. Len(r) \in Nat
      BY <1>7
    <3> QED BY <1>8, <2>3, <3>1
  <2> QED BY <1>2, <1>12, <2>2, <2>3, <2>4
<1>16. p.title # Nothing /\ p.body = b
  BY <1>2, <1>6
<1>17. p.title \notin Garbled
  BY <1>6, <1>7 DEF CleanLine
<1>18. CleanProps(qs)
  <2>1. SUFFICES ASSUME NEW k \in KeysOf(qs) PROVE k \notin Garbled /\ Get(qs, k) \in Seq(CleanWords)
    BY DEF CleanProps
  <2>2. PICK i \in DOMAIN qs : qs[i][1] = k
    BY <1>13, GetIs DEF OnceLists
  <2>3. i \in 1 .. n
    BY <1>12 DEF PropList
  <2>4. ls[i] \in CleanLine
    BY <1>9, <2>3
  <2>5. Get(qs, k) = qs[i][2]
    BY <1>13, <2>2, GetIs DEF OnceLists
  <2>6. qs[i][1] = ls[i].text /\ qs[i][2] = ls[i].words
    BY <1>12, <2>3
  <2> QED BY <2>2, <2>4, <2>5, <2>6 DEF CleanLine
<1> QED BY <1>1, <1>4, <1>10, <1>11, <1>14, <1>15, <1>16, <1>17, <1>18 DEF p

-----------------------------------------------------------------------------
\* Loading what was rendered gives the task again, but for the values of the canonical
\* properties, which the task has beside the list.
LEMMA LoadRender ==
  ASSUME NEW t \in TaskType, IsBody(t.body), Canonical \subseteq KeysOf(t.props)
  PROVE  LET is == Load(Render(t)) IN
         /\ is = [title |-> t.title, status |-> t.status, priority |-> t.priority, tags |-> Spelled(t.tags),
                  props |-> Parse(Render(t)).props, body |-> t.body]
         /\ Outline(is.props) = Outline(t.props)
<1> DEFINE f == Render(t) p == Parse(f) ps == p.props is == Load(f)
<1>0. /\ t.props \in OnceLists /\ t.priority \in Numbers
  BY DEF TaskType
<1>1. t.props # <<>>
  BY EmptyList DEF Canonical
<1>2. /\ f \in Seq(Line) /\ p.title = t.title /\ p.body = t.body
      /\ ps \in OnceLists /\ Len(ps) = Len(t.props)
      /\ \A i \in 1 .. Len(t.props) : ps[i] = <<t.props[i][1], Shown(t, t.props[i][1], t.props[i][2])>>
      /\ KeysOf(ps) = KeysOf(t.props)
      /\ \A k \in KeysOf(t.props) : Get(ps, k) = Shown(t, k, Get(t.props, k))
  BY <1>1, RenderIs
<1> HIDE DEF f, p
<1>3. "STATUS" \in KeysOf(ps) /\ "PRIORITY" \in KeysOf(ps) /\ "TAGS" \in KeysOf(ps)
  BY <1>2 DEF Canonical
<1>4. Has(ps, "STATUS") /\ Has(ps, "PRIORITY") /\ Has(ps, "TAGS")
  BY <1>2, <1>3, GetIs DEF OnceLists
<1>5. Get(ps, "STATUS") = t.status /\ Get(ps, "PRIORITY") = <<t.priority>> /\ Get(ps, "TAGS") = Spelled(t.tags)
  BY <1>2, <1>3 DEF Shown
<1>6. Atoi(<<t.priority>>) = t.priority
  BY <1>0 DEF Atoi
<1>7. Default(Default(Default(ps, "STATUS"), "PRIORITY"), "TAGS") = ps
  BY <1>4 DEF Default
<1>8. is = [title |-> t.title, status |-> t.status, priority |-> t.priority, tags |-> Spelled(t.tags),
            props |-> ps, body |-> t.body]
  BY <1>2, <1>4, <1>5, <1>6, <1>7 DEF Load, AsTask, p
<1>9. Outline(ps) = Outline(t.props)
  <2>1. DOMAIN ps = 1 .. Len(t.props) /\ DOMAIN t.props = 1 .. Len(t.props)
    BY <1>0, <1>2 DEF OnceLists, PropList
  <2>2. ASSUME NEW i \in 1 .. Len(t.props)
        PROVE  (IF ps[i][1] \in Canonical THEN <<ps[i][1], <<>>>> ELSE ps[i])
               = IF t.props[i][1] \in Canonical THEN <<t.props[i][1], <<>>>> ELSE t.props[i]
    <3>1. t.props[i] \in Property
      BY <1>0, <2>1 DEF OnceLists, PropList
    <3>2. t.props[i] = <<t.props[i][1], t.props[i][2]>>
      BY <3>1 DEF Property
    <3>3. ps[i] = <<t.props[i][1], Shown(t, t.props[i][1], t.props[i][2])>> /\ ps[i][1] = t.props[i][1]
      BY <1>2
    <3>4. CASE t.props[i][1] \in Canonical
      BY <3>3, <3>4
    <3>5. CASE t.props[i][1] \notin Canonical
      <4>1. Shown(t, t.props[i][1], t.props[i][2]) = t.props[i][2]
        BY <3>5 DEF Shown, Canonical
      <4> QED BY <3>2, <3>3, <3>5, <4>1
    <3> QED BY <3>4, <3>5
  <2> HIDE DEF ps
  <2>3. Outline(ps) = [i \in 1 .. Len(t.props) |-> IF ps[i][1] \in Canonical THEN <<ps[i][1], <<>>>> ELSE ps[i]]
    BY <2>1, Zenon DEF Outline
  <2>4. Outline(t.props) = [i \in 1 .. Len(t.props) |->
                              IF t.props[i][1] \in Canonical THEN <<t.props[i][1], <<>>>> ELSE t.props[i]]
    BY <2>1, Zenon DEF Outline
  <2> QED BY <2>2, <2>3, <2>4, Zenon
<1> HIDE DEF is
<1> QED BY <1>8, <1>9 DEF is, f, p

\* What ls -update makes of any file it loads.
LEMMA UpdatedTask ==
  ASSUME NEW f \in Seq(Line), NEW G \in SUBSET Strings, Load(f).tags \in Seq(G), NEW u \in Seq(OpsOf(G))
  PROVE  LET t0 == Load(f) t == Updated(t0, u) IN
         /\ t \in UpdatesOf(t0, G) /\ t \in TaskType /\ IsBody(t.body) /\ t.props # <<>>
         /\ KeysOf(t.props) = KeysOf(Parse(f).props) \cup Canonical
         /\ \A a, b \in KeysOf(Parse(f).props) : Before(t.props, a, b) <=> Before(Parse(f).props, a, b)
         /\ \A k : k # "RESOLUTION" => Get(t.props, k) = Get(Parse(f).props, k)
         /\ Get(t.props, "RESOLUTION") \in {Get(Parse(f).props, "RESOLUTION"), <<>>}
<1> DEFINE t0 == Load(f) t == Updated(t0, u) p == Parse(f)
<1>1. /\ t0 \in TaskType /\ t0.body = p.body /\ t0.props # <<>>
      /\ KeysOf(t0.props) = KeysOf(p.props) \cup Canonical /\ \A k : Get(t0.props, k) = Get(p.props, k)
      /\ \A a, b \in KeysOf(p.props) : Before(t0.props, a, b) <=> Before(p.props, a, b)
  BY LoadIs
<1>2. IsBody(p.body) /\ t0.tags \in Seq(G)
  BY ParseIs
<1> HIDE DEF t0, p
<1>3. t \in UpdatesOf(t0, G)
  BY <1>1, <1>2, UpdatedIs
<1> HIDE DEF t
<1>4. /\ t \in TaskType /\ t.body = t0.body /\ DOMAIN t.props = DOMAIN t0.props
      /\ \A i \in DOMAIN t0.props :
          /\ t.props[i][1] = t0.props[i][1]
          /\ t.props[i][2] = t0.props[i][2] \/ (t.props[i][1] = "RESOLUTION" /\ t.props[i][2] = <<>>)
  BY <1>3 DEF UpdatesOf
<1>5. t.props \in OnceLists /\ t0.props \in OnceLists
  BY <1>1, <1>4 DEF TaskType
<1>6. t.props \in PropList /\ Once(t.props) /\ t0.props \in PropList /\ Once(t0.props)
  BY <1>5 DEF OnceLists
<1>7. Len(t.props) = Len(t0.props) /\ DOMAIN t0.props = 1 .. Len(t0.props)
  BY <1>4, <1>6 DEF PropList
<1>8. /\ KeysOf(t.props) = KeysOf(t0.props)
      /\ \A a, b : Before(t.props, a, b) <=> Before(t0.props, a, b)
  <2>1. \A i \in 1 .. Len(t0.props) : t.props[i][1] = t0.props[i][1]
    BY <1>4, <1>7
  <2> QED BY <1>5, <1>6, <1>7, <2>1, SameKeys
<1>9. ASSUME NEW k \in KeysOf(t0.props)
      PROVE  Get(t.props, k) = Get(t0.props, k) \/ (k = "RESOLUTION" /\ Get(t.props, k) = <<>>)
  <2>1. PICK i \in DOMAIN t0.props : t0.props[i][1] = k
    BY <1>6, GetIs
  <2>2. Get(t0.props, k) = t0.props[i][2]
    BY <1>6, <2>1, GetIs
  <2>3. i \in DOMAIN t.props /\ t.props[i][1] = k
    BY <1>4, <2>1
  <2>4. Get(t.props, k) = t.props[i][2]
    BY <1>6, <2>3, GetIs
  <2> QED BY <1>4, <2>1, <2>2, <2>4
<1>10. ASSUME NEW k, k \notin KeysOf(t0.props) PROVE Get(t.props, k) = Get(t0.props, k)
  BY <1>6, <1>8, <1>10, GetIs
<1>11. t.props # <<>>
  BY <1>1, <1>8, EmptyList DEF Canonical
<1>12. \A k : k # "RESOLUTION" => Get(t.props, k) = Get(p.props, k)
  BY <1>1, <1>9, <1>10
<1>13. Get(t.props, "RESOLUTION") \in {Get(p.props, "RESOLUTION"), <<>>}
  BY <1>1, <1>9, <1>10
<1>14. \A a, b \in KeysOf(p.props) : Before(t.props, a, b) <=> Before(p.props, a, b)
  BY <1>1, <1>8
<1> QED BY <1>1, <1>2, <1>3, <1>4, <1>8, <1>11, <1>12, <1>13, <1>14 DEF t, t0, p

\* Three sequences one after the other.
LEMMA ThreeParts ==
  ASSUME NEW S, NEW a \in Seq(S), NEW b \in Seq(S), NEW c \in Seq(S)
  PROVE  /\ a \o b \o c \in Seq(S) /\ Len(a \o b \o c) = Len(a) + Len(b) + Len(c)
         /\ \A i \in 1 .. Len(c) : (a \o b \o c)[Len(a) + Len(b) + i] = c[i]
<1> DEFINE d == a \o b
<1>1. d \in Seq(S) /\ Len(d) = Len(a) + Len(b)
  OBVIOUS
<1>2. Len(a) \in Nat /\ Len(b) \in Nat /\ Len(c) \in Nat
  OBVIOUS
<1> HIDE DEF d
<1>3. d \o c \in Seq(S) /\ Len(d \o c) = Len(d) + Len(c)
  BY <1>1
<1>4. \A i \in 1 .. Len(c) : (d \o c)[Len(d) + i] = c[i]
  BY <1>1, <1>2
<1> QED BY <1>1, <1>3, <1>4 DEF d

\* A task with nothing but UTF-8 is rendered as such lines.
LEMMA RenderClean ==
  ASSUME NEW t \in TaskType,
         t.title \notin Garbled, t.status \in Seq(CleanWords), t.tags \in Seq(Strings \ Garbled), CleanProps(t.props),
         t.body \in Seq(CleanLine)
  PROVE  Render(t) \in Seq(CleanLine)
<1> DEFINE ps == t.props
           ls == [n \in DOMAIN ps |-> Rendered(t, ps[n])]
           two == <<Title(t.title), Blank>>
<1>1. t.title \in Strings /\ t.priority \in Numbers /\ ps \in OnceLists
  BY DEF TaskType
<1>2. /\ ps \in Seq(Property) /\ Len(ps) \in Nat /\ DOMAIN ps = 1 .. Len(ps) /\ Once(ps)
      /\ \A i \in 1 .. Len(ps) : ps[i] \in Property
  BY <1>1 DEF OnceLists, PropList
<1>3. <<t.priority>> \in Seq(CleanWords)
  <2>1. t.priority \in CleanWords
    BY <1>1, TaskFileAssumption DEF CleanWords
  <2> QED BY <2>1, OfOne
<1>4. Spelled(t.tags) \in Seq(CleanWords)
  <2> DEFINE G == Strings \ Garbled
  <2>1. G \in SUBSET Strings /\ t.tags \in Seq(G) /\ G \ {Nothing} = CleanWords
    BY DEF CleanWords, Words
  <2> HIDE DEF G
  <2> QED BY <2>1, SpelledIs
<1>5. ASSUME NEW i \in 1 .. Len(ps) PROVE Rendered(t, ps[i]) \in CleanLine
  <2> DEFINE x == ps[i] w == Shown(t, x[1], x[2])
  <2>1. x \in Property /\ i \in DOMAIN ps
    BY <1>2
  <2>2. x[1] \in KeysOf(ps) /\ Get(ps, x[1]) = x[2]
    BY <1>2, <2>1, GetIs DEF PropList
  <2>3. x[1] \notin Garbled /\ x[2] \in Seq(CleanWords)
    BY <2>2 DEF CleanProps
  <2>4. w \in Seq(CleanWords)
    BY <1>3, <1>4, <2>3 DEF Shown
  <2>5. Rendered(t, x) = Prop(x[1], w)
    BY DEF Rendered, Shown
  <2> HIDE DEF w
  <2>6. w \in Seq(Words)
    <3>1. CleanWords \subseteq Words
      BY DEF CleanWords
    <3> QED BY <2>4, <3>1, SeqWithin
  <2>7. x[1] \in Strings
    BY <2>1 DEF Property
  <2> QED BY <2>3, <2>4, <2>5, <2>6, <2>7 DEF Prop, Line, CleanLine
<1>6. ls \in Seq(CleanLine)
  <2>1. ls = [n \in 1 .. Len(ps) |-> Rendered(t, ps[n])]
    BY <1>2
  <2> QED BY <1>2, <1>5, <2>1
<1>7. Title(t.title) \in CleanLine /\ Blank \in CleanLine
  <2>1. <<>> \in Seq(Words) /\ <<>> \in Seq(CleanWords) /\ Nothing \in Strings /\ Nothing \notin Garbled
    BY TaskFileAssumption
  <2> QED BY <1>1, <2>1 DEF Title, Blank, Text, Line, CleanLine
<1>8. two \in Seq(CleanLine)
  BY <1>7
<1> DEFINE b == t.body
<1>9. b \in Seq(CleanLine) /\ Render(t) = two \o ls \o b
  BY DEF Render
<1> HIDE DEF ls, two, b
<1>10. two \o ls \o b \in Seq(CleanLine)
  BY <1>6, <1>8, <1>9, ThreeParts
<1> QED BY <1>9, <1>10

\* The rendered text of such a task passes the checks of scheduler_header.
LEMMA RenderOK ==
  ASSUME NEW t \in TaskType, t.props # <<>>, IsBody(t.body), t.title # Nothing, "near" \notin KeysOf(t.props),
         t.body = <<>> \/ t.body[1].text # "near",
         t.title \notin Garbled, t.status \in Seq(CleanWords), t.tags \in Seq(Strings \ Garbled), CleanProps(t.props),
         t.body \in Seq(CleanLine)
  PROVE  HeaderOK(Render(t))
<1> DEFINE f == Render(t) r == SkipBlank(Tail(f)) n == HeaderLength(r)
<1>1. /\ f \in Seq(Line) /\ f # <<>> /\ NoNul(f) /\ SkipBlank(f) = f /\ f[1] = Title(t.title)
      /\ n = Len(t.props) /\ Len(r) = Len(t.props) + Len(t.body)
      /\ \A i \in 1 .. Len(t.props) : r[i].text = t.props[i][1]
      /\ t.body # <<>> => r[Len(t.props) + 1] = t.body[1]
  BY RenderIs
<1> HIDE DEF f, r, n
<1>2. t.props \in PropList /\ Once(t.props) /\ t.body \in Seq(Line)
  BY DEF TaskType, OnceLists, IsBody
<1>2a. DOMAIN t.props = 1 .. Len(t.props) /\ Len(t.props) \in Nat
  BY <1>2 DEF PropList
<1>2b. Len(t.body) \in Nat /\ (t.body = <<>> => Len(t.body) = 0)
  BY <1>2
<1>3. \A i \in 1 .. n : t.props[i][1] \in KeysOf(t.props)
  BY <1>1, <1>2a DEF KeysOf, ToSet
<1>4. \A i, j \in 1 .. n : r[i].text = r[j].text => i = j
  <2>1. \A i \in 1 .. n : i \in DOMAIN t.props /\ r[i].text = t.props[i][1]
    BY <1>1, <1>2a
  <2> QED BY <1>2, <2>1 DEF Once
<1>5. ASSUME NEW i \in 1 .. n + 1, i <= Len(r) PROVE r[i].text # "near"
  <2>0. n \in Nat /\ n = Len(t.props) /\ Len(r) = n + Len(t.body)
    BY <1>1, <1>2a
  <2>1. CASE i \in 1 .. n
    BY <2>1, <1>1, <1>3
  <2>2. CASE i = n + 1
    <3>1. Len(t.body) # 0
      BY <1>2b, <1>5, <2>0, <2>2
    <3> QED BY <1>1, <1>2b, <2>2, <3>1
  <2>3. i \in 1 .. n \/ i = n + 1
    <3>1. n \in Nat
      BY <2>0
    <3> QED BY <3>1
  <2> QED BY <2>1, <2>2, <2>3
<1>6. f[1].kind = "title" /\ f[1].text # Nothing
  <2>1. f[1] = Title(t.title)
    BY <1>1
  <2> QED BY <2>1 DEF Title
<1>7. \A i \in DOMAIN f : f[i].kind # "nul"
  BY <1>1 DEF NoNul
<1>8. \A i \in DOMAIN f : f[i].text \notin Garbled /\ ToSet(f[i].words) \cap Garbled = {}
  <2>1. f \in Seq(CleanLine)
    BY RenderClean DEF f
  <2> QED BY <1>1, <2>1, CleanIs DEF AllClean
<1> QED BY <1>1, <1>4, <1>5, <1>6, <1>7, <1>8 DEF HeaderOK, f, r, n

\* A bulk update of a file that passes the strict checks makes one that does, if the tags
\* it adds are UTF-8.
LEMMA UpdateStrict ==
  ASSUME NEW f \in Seq(Line), NEW u \in Seq(OpsOf(Strings \ Garbled)), Strict(f)
  PROVE  Strict(Render(Updated(Load(f), u)))
<1> DEFINE t0 == Load(f) t == Updated(t0, u) p == Parse(f) g == Render(t) q == Parse(g)
<1>1. /\ p.title # Nothing /\ "near" \notin KeysOf(p.props) /\ (p.body = <<>> \/ p.body[1].text # "near")
      /\ "STATUS" \in KeysOf(p.props) /\ "PRIORITY" \in KeysOf(p.props)
      /\ Get(p.props, "STATUS") \in {<<"OPEN">>, <<"CLOSED">>}
      /\ Get(p.props, "RESOLUTION") \in {<<>>, <<"DONE">>, <<"CANCELLED">>}
      /\ Get(p.props, "STATUS") = <<"OPEN">> => Get(p.props, "RESOLUTION") = <<>>
      /\ IsInjective(Get(p.props, "DEPENDS"))
      /\ p.title \notin Garbled /\ CleanProps(p.props) /\ p.body \in Seq(CleanLine)
  BY StrictIs
<1>1a. p.props \in OnceLists
  BY ParseIs
<1>2. /\ t0 \in TaskType /\ t0.title = p.title /\ t0.body = p.body /\ t0.tags = Get(p.props, "TAGS")
      /\ t0.status = IF "STATUS" \in KeysOf(p.props) THEN Get(p.props, "STATUS") ELSE <<"OPEN">>
      /\ \A k : Get(t0.props, k) = Get(p.props, k)
  BY LoadIs
<1>2a. \A k : Get(p.props, k) \in Seq(CleanWords)
  <2> SUFFICES ASSUME NEW k PROVE Get(p.props, k) \in Seq(CleanWords)
    OBVIOUS
  <2>1. CASE k \in KeysOf(p.props)
    BY <1>1, <2>1 DEF CleanProps
  <2>2. CASE k \notin KeysOf(p.props)
    <3>1. Get(p.props, k) = <<>>
      BY <1>1a, <2>2, GetIs DEF OnceLists
    <3> QED BY <3>1
  <2> QED BY <2>1, <2>2
<1>2b. t0.tags \in Seq(Strings \ Garbled)
  <2>1. CleanWords \subseteq Strings \ Garbled
    BY DEF CleanWords, Words
  <2> QED BY <1>2, <1>2a, <2>1, SeqWithin
<1>3. /\ t \in UpdatesOf(t0, Strings \ Garbled) /\ t \in TaskType /\ IsBody(t.body) /\ t.props # <<>>
      /\ KeysOf(t.props) = KeysOf(p.props) \cup Canonical
      /\ Get(t.props, "RESOLUTION") \in {Get(p.props, "RESOLUTION"), <<>>}
      /\ \A k : k # "RESOLUTION" => Get(t.props, k) = Get(p.props, k)
  BY <1>2b, UpdatedTask
<1> HIDE DEF t0, p, t
<1>4. /\ t.title = t0.title /\ t.body = t0.body /\ t.status \in {t0.status, <<"OPEN">>, <<"CLOSED">>}
      /\ Settled(t0) => Settled(t)
      /\ t.tags \in Seq(Strings \ Garbled)
  BY <1>3 DEF UpdatesOf
<1>5. t.props \in PropList /\ Once(t.props) /\ t0.props \in PropList /\ Once(t0.props) /\ t.priority \in Numbers
  BY <1>2, <1>3 DEF TaskType, OnceLists
<1>6. Settled(t0)
  <2>1. ASSUME t0.status = <<"OPEN">>, NEW i \in DOMAIN t0.props, t0.props[i][1] = "RESOLUTION"
        PROVE  t0.props[i][2] = <<>>
    <3>1. Get(t0.props, "RESOLUTION") = t0.props[i][2]
      BY <1>5, <2>1, GetIs
    <3>2. Get(p.props, "RESOLUTION") = <<>>
      BY <1>1, <1>2, <2>1
    <3> QED BY <1>2, <3>1, <3>2
  <2> QED BY <2>1 DEF Settled
<1>7. t.status = <<"OPEN">> => Get(t.props, "RESOLUTION") = <<>>
  <2>1. SUFFICES ASSUME t.status = <<"OPEN">>, "RESOLUTION" \in KeysOf(t.props)
                 PROVE  Get(t.props, "RESOLUTION") = <<>>
    BY <1>5, GetIs
  <2>2. PICK i \in DOMAIN t.props : t.props[i][1] = "RESOLUTION"
    BY <1>5, <2>1, GetIs
  <2>3. Get(t.props, "RESOLUTION") = t.props[i][2]
    BY <1>5, <2>2, GetIs
  <2>4. t.props[i][2] = <<>>
    BY <1>4, <1>6, <2>1, <2>2 DEF Settled
  <2> QED BY <2>3, <2>4
<1>8. t.status \in {<<"OPEN">>, <<"CLOSED">>}
  BY <1>1, <1>2, <1>4
<1>9. "near" \notin KeysOf(t.props)
  BY <1>1, <1>3 DEF Canonical
<1>10. HeaderOK(g)
  <2>1. t.title # Nothing /\ (t.body = <<>> \/ t.body[1].text # "near")
    BY <1>1, <1>2, <1>4
  <2>2. t.title \notin Garbled /\ t.body \in Seq(CleanLine)
    BY <1>1, <1>2, <1>4
  <2>3. t.status \in Seq(CleanWords)
    <3>1. "OPEN" \in CleanWords /\ "CLOSED" \in CleanWords
      <4>1. "OPEN" # "" /\ "CLOSED" # ""
        OBVIOUS
      <4> QED BY <4>1, TaskFileAssumption DEF CleanWords, Words, Nothing
    <3>2. <<"OPEN">> \in Seq(CleanWords) /\ <<"CLOSED">> \in Seq(CleanWords)
      BY <3>1, OfOne
    <3> QED BY <1>8, <3>2, Zenon
  <2>4. CleanProps(t.props)
    <3>1. SUFFICES ASSUME NEW k \in KeysOf(t.props) PROVE k \notin Garbled /\ Get(t.props, k) \in Seq(CleanWords)
      BY DEF CleanProps
    <3>2. k \notin Garbled
      <4>1. Canonical \cap Garbled = {}
        BY TaskFileAssumption DEF Canonical
      <4> QED BY <1>1, <1>3, <3>1, <4>1 DEF CleanProps
    <3>3. <<>> \in Seq(CleanWords)
      OBVIOUS
    <3>4. ASSUME k = "RESOLUTION" PROVE Get(t.props, k) \in Seq(CleanWords)
      <4>1. Get(t.props, "RESOLUTION") \in {Get(p.props, "RESOLUTION"), <<>>}
        BY <1>3
      <4> QED BY <1>2a, <3>3, <3>4, <4>1, Zenon
    <3>5. ASSUME k # "RESOLUTION" PROVE Get(t.props, k) \in Seq(CleanWords)
      <4>1. Get(t.props, k) = Get(p.props, k)
        BY <1>3, <3>5
      <4> QED BY <1>2a, <4>1, Zenon
    <3> QED BY <3>2, <3>4, <3>5
  <2> QED BY <1>3, <1>4, <1>9, <2>1, <2>2, <2>3, <2>4, RenderOK
<1>11. /\ \A k \in KeysOf(t.props) : Get(q.props, k) = Shown(t, k, Get(t.props, k))
       /\ \A k : k \notin KeysOf(t.props) => Get(q.props, k) = <<>>
  BY <1>3, RenderIs
<1> HIDE DEF q, g
<1>12. Get(q.props, "STATUS") = t.status /\ Get(q.props, "PRIORITY") = <<t.priority>>
  BY <1>3, <1>11 DEF Canonical, Shown
<1>13. Get(q.props, "RESOLUTION") = Get(t.props, "RESOLUTION")
  <2>1. CASE "RESOLUTION" \in KeysOf(t.props)
    BY <1>11, <2>1 DEF Shown
  <2>2. CASE "RESOLUTION" \notin KeysOf(t.props)
    BY <1>5, <1>11, <2>2, GetIs
  <2> QED BY <2>1, <2>2
<1>14. IsNumber(<<t.priority>>)
  BY <1>5 DEF IsNumber
<1>15. Get(t.props, "RESOLUTION") \in {<<>>, <<"DONE">>, <<"CANCELLED">>}
  BY <1>1, <1>3, Zenon
<1>15a. IsInjective(Get(q.props, "DEPENDS"))
  <2>1. Get(q.props, "DEPENDS") = Get(t.props, "DEPENDS")
    <3>1. CASE "DEPENDS" \in KeysOf(t.props)
      BY <1>11, <3>1 DEF Shown
    <3>2. CASE "DEPENDS" \notin KeysOf(t.props)
      BY <1>5, <1>11, <3>2, GetIs
    <3> QED BY <3>1, <3>2
  <2>2. Get(t.props, "DEPENDS") = Get(p.props, "DEPENDS")
    BY <1>3
  <2> QED BY <1>1, <2>1, <2>2
<1>16. Strict(g)
  BY <1>15a, <1>7, <1>8, <1>10, <1>12, <1>13, <1>14, <1>15, Zenon DEF Strict, q
<1> QED BY <1>16 DEF g, t, t0

-----------------------------------------------------------------------------
\* Taking back the outcome adds no key but that.
LEMMA AssignedIs ==
  ASSUME NEW c \in OnceLists
  PROVE  LET a == Assigned(c) IN
         /\ a \in OnceLists /\ KeysOf(c) \subseteq KeysOf(a) /\ KeysOf(a) \subseteq KeysOf(c) \cup {"RESOLUTION"}
         /\ \A k : Get(a, k) = Get(c, k)
<1>0. c \in PropList /\ Once(c)
  BY DEF OnceLists
<1> DEFINE p == <<"RESOLUTION", <<>>>>
<1>1. p \in Property /\ p[1] = "RESOLUTION" /\ p[2] = <<>>
  <2>1. <<>> \in Seq(Words)
    OBVIOUS
  <2> QED BY <2>1, Names DEF Property
<1>2. \/ Assigned(c) = c
      \/ Assigned(c) = Put(c, p) /\ Get(c, "RESOLUTION") = <<>>
  BY DEF Assigned
<1> HIDE DEF p
<1>3. CASE Assigned(c) = Put(c, p) /\ Get(c, "RESOLUTION") = <<>>
  <2> DEFINE q == Put(c, p)
  <2>1. /\ q \in PropList /\ Once(q) /\ KeysOf(q) = KeysOf(c) \cup {p[1]}
        /\ Get(q, p[1]) = p[2] /\ \A k : k # p[1] => Get(q, k) = Get(c, k)
    BY <1>0, <1>1, PutIs
  <2> HIDE DEF q
  <2>2. \A k : Get(q, k) = Get(c, k)
    BY <1>1, <1>3, <2>1
  <2>3. Assigned(c) = q
    BY <1>3 DEF q
  <2> QED BY <1>1, <2>1, <2>2, <2>3 DEF OnceLists
<1> QED BY <1>2, <1>3

\* What set makes of a file: the words given, and the other properties as they were.
LEMMA ChangedIs ==
  ASSUME NEW f \in Seq(Line), NEW c \in OnceLists
  PROVE  LET p == Parse(f) q == Parse(Changed(f, c)) a == Assigned(c)
             V(k) == IF k \in KeysOf(a) THEN Get(a, k) ELSE Get(p.props, k) IN
         /\ Changed(f, c) \in Seq(Line) /\ q.title = p.title /\ q.body = p.body /\ q.props \in OnceLists
         /\ KeysOf(q.props) = KeysOf(p.props) \cup KeysOf(a) \cup {"TAGS"}
         /\ \A k, l \in KeysOf(p.props) \ KeysOf(a) : Before(q.props, k, l) <=> Before(p.props, k, l)
         /\ \A k : k # "PRIORITY" => Get(q.props, k) = V(k)
         /\ "PRIORITY" \in KeysOf(q.props) => Get(q.props, "PRIORITY") = <<Atoi(V("PRIORITY"))>>
<1> DEFINE p == Parse(f) a == Assigned(c) all == PutAll(p.props, a) ps == Default(all, "TAGS")
           t == AsTask(p, Get(ps, "STATUS"), Atoi(Get(ps, "PRIORITY")), Get(ps, "TAGS"), ps)
           g == Changed(f, c) q == Parse(g)
           V(k) == IF k \in KeysOf(a) THEN Get(a, k) ELSE Get(p.props, k)
<1>1. p.title \in Strings /\ p.props \in OnceLists /\ IsBody(p.body)
  BY ParseIs
<1>2. a \in OnceLists
  BY AssignedIs
<1>3. g = Render(t)
  BY DEF Changed
<1> HIDE DEF p, a, g
<1>4. /\ all \in OnceLists /\ KeysOf(all) = KeysOf(p.props) \cup KeysOf(a)
      /\ \A n \in DOMAIN a : Get(all, a[n][1]) = a[n][2]
      /\ \A k : k \notin KeysOf(a) => Get(all, k) = Get(p.props, k)
      /\ \A k, l : k \notin KeysOf(a) /\ l \notin KeysOf(a) => (Before(all, k, l) <=> Before(p.props, k, l))
  BY <1>1, <1>2, PutAllIs
<1> HIDE DEF all
<1>5. ASSUME NEW k \in KeysOf(a) PROVE Get(all, k) = Get(a, k)
  <2>1. PICK n \in DOMAIN a : a[n][1] = k
    BY <1>2, GetIs DEF OnceLists
  <2>2. Get(a, k) = a[n][2]
    BY <1>2, <2>1, GetIs DEF OnceLists
  <2> QED BY <1>4, <2>1, <2>2
<1>6. \A k : Get(all, k) = V(k)
  BY <1>4, <1>5
<1> HIDE DEF V
<1>7. /\ ps \in OnceLists /\ KeysOf(ps) = KeysOf(all) \cup {"TAGS"} /\ \A k : Get(ps, k) = Get(all, k)
      /\ \A x, y \in KeysOf(all) : Before(ps, x, y) <=> Before(all, x, y)
  BY <1>4, Names, DefaultIs
<1> HIDE DEF ps
<1>8. /\ t \in TaskType /\ t.title = p.title /\ t.body = p.body /\ t.props = ps /\ t.status = Get(ps, "STATUS")
      /\ t.priority = Atoi(Get(ps, "PRIORITY")) /\ t.tags = Get(ps, "TAGS")
  <2>1. Get(ps, "STATUS") \in Seq(Words) /\ Get(ps, "TAGS") \in Seq(Strings)
    <3>1. Get(ps, "STATUS") \in Seq(Words) /\ Get(ps, "TAGS") \in Seq(Words) /\ Words \subseteq Strings
      BY <1>7, GetType DEF Words
    <3> QED BY <3>1, SeqWithin
  <2>2. Atoi(Get(ps, "PRIORITY")) \in Numbers /\ p.body \in Seq(Line)
    BY <1>1, AtoiType DEF IsBody
  <2> QED BY <1>1, <1>7, <2>1, <2>2 DEF AsTask, TaskType
<1>9. t.props # <<>> /\ IsBody(t.body)
  BY <1>1, <1>7, <1>8, EmptyList
<1> HIDE DEF t
<1>9a. Spelled(t.tags) = Get(ps, "TAGS")
  <2>1. t.tags \in Seq(Words) /\ t.tags \in Seq(Strings)
    BY <1>7, <1>8, GetType DEF TaskType
  <2> QED BY <1>8, <2>1, SpelledIs
<1>10. /\ g \in Seq(Line) /\ q.title = t.title /\ q.body = t.body /\ q.props \in OnceLists
       /\ KeysOf(q.props) = KeysOf(t.props) /\ \A x, y : Before(q.props, x, y) <=> Before(t.props, x, y)
       /\ \A k \in KeysOf(t.props) : Get(q.props, k) = Shown(t, k, Get(t.props, k))
       /\ \A k : k \notin KeysOf(t.props) => Get(q.props, k) = <<>>
  BY <1>3, <1>8, <1>9, RenderIs
<1> HIDE DEF q
<1>11. KeysOf(q.props) = KeysOf(p.props) \cup KeysOf(a) \cup {"TAGS"}
  BY <1>4, <1>7, <1>8, <1>10
<1>12. \A k, l \in KeysOf(p.props) \ KeysOf(a) : Before(q.props, k, l) <=> Before(p.props, k, l)
  BY <1>4, <1>7, <1>8, <1>10
<1>13. ASSUME NEW k, k # "PRIORITY" PROVE Get(q.props, k) = V(k)
  <2>1. CASE k \in KeysOf(ps)
    BY <1>6, <1>7, <1>8, <1>9a, <1>10, <1>13, <2>1 DEF Shown
  <2>2. CASE k \notin KeysOf(ps)
    <3>1. Get(ps, k) = <<>>
      BY <1>7, <2>2, GetIs DEF OnceLists
    <3> QED BY <1>6, <1>7, <1>8, <1>10, <2>2, <3>1
  <2> QED BY <2>1, <2>2
<1>14. ASSUME "PRIORITY" \in KeysOf(q.props) PROVE Get(q.props, "PRIORITY") = <<Atoi(V("PRIORITY"))>>
  BY <1>6, <1>7, <1>8, <1>10, <1>14 DEF Shown
<1>15. \A k : k # "PRIORITY" => Get(q.props, k) = V(k)
  BY <1>13
<1> QED BY <1>8, <1>10, <1>11, <1>12, <1>14, <1>15 DEF V, q, g, a, p

\* The arguments people give are of their kinds.
LEMMA ArgumentsAre ==
  /\ \A c \in Changes : c \in OnceLists
  /\ \A u \in Updates : u \in Seq(OpsOf(Strings))
  /\ \A f \in Files : f \in Seq(Line)
  /\ \A n \in News : /\ n.title \in Strings /\ n.priority \in Numbers /\ n.tags \in Seq(Words)
                     /\ n.props \in OnceLists /\ n.body \in Seq(Line)
<1>1. \A c \in Changes : c \in OnceLists
  BY TaskFileAssumption DEF OnceLists, PropList
<1>2. \A u \in Updates : u \in Seq(OpsOf(Strings))
  <2>1. {"close", "open", "tag", "untag"} \X Strings \subseteq OpsOf(Strings)
    BY DEF OpsOf
  <2>2. \A u \in Updates : u \in Seq({"close", "open", "tag", "untag"} \X Strings)
    BY TaskFileAssumption
  <2> QED BY <2>1, <2>2, SeqWithin
<1>3. \A f \in Files : f \in Seq(Line)
  BY TaskFileAssumption
<1>4. \A n \in News : /\ n.title \in Strings /\ n.priority \in Numbers /\ n.tags \in Seq(Words)
                      /\ n.props \in Seq(Property) /\ Once(n.props) /\ n.body \in Seq(Line)
  BY TaskFileAssumption
<1> QED BY <1>1, <1>2, <1>3, <1>4 DEF OnceLists, PropList

\* The properties a new task has before those it is given.
Firsts == <<<<"STATUS", <<>>>>, <<"PRIORITY", <<>>>>, <<"TAGS", <<>>>>>>

LEMMA FirstsAre == Firsts \in OnceLists /\ Len(Firsts) = 3 /\ KeysOf(Firsts) = Canonical
                   /\ \A i \in 1 .. 3 : Firsts[i] = <<<<"STATUS", "PRIORITY", "TAGS">>[i], <<>>>> /\ Firsts[i][1] \in Canonical
<1>0. /\ "STATUS" # "PRIORITY" /\ "STATUS" # "TAGS" /\ "PRIORITY" # "TAGS"
  OBVIOUS
<1>1. <<>> \in Seq(Words)
  OBVIOUS
<1>2. <<"STATUS", <<>>>> \in Property /\ <<"PRIORITY", <<>>>> \in Property /\ <<"TAGS", <<>>>> \in Property
  BY <1>1, Names DEF Property
<1>3. Len(Firsts) = 3 /\ Firsts[1] = <<"STATUS", <<>>>> /\ Firsts[2] = <<"PRIORITY", <<>>>> /\ Firsts[3] = <<"TAGS", <<>>>>
  BY DEF Firsts
<1>4. Firsts \in PropList
  BY <1>2 DEF Firsts, PropList
<1>5. DOMAIN Firsts = 1 .. 3
  BY <1>3, <1>4 DEF PropList
<1> HIDE DEF Firsts
<1>6. Firsts[1][1] = "STATUS" /\ Firsts[2][1] = "PRIORITY" /\ Firsts[3][1] = "TAGS"
  BY <1>3
<1>7. Once(Firsts)
  BY <1>0, <1>5, <1>6 DEF Once
<1>8. KeysOf(Firsts) = Canonical
  <2>1. \A p : p \in ToSet(Firsts) <=> \E i \in 1 .. 3 : Firsts[i] = p
    BY <1>5 DEF ToSet
  <2>2. KeysOf(Firsts) = {Firsts[1][1], Firsts[2][1], Firsts[3][1]}
    BY <2>1 DEF KeysOf
  <2> QED BY <1>6, <2>2 DEF Canonical
<1>9. \A i \in 1 .. 3 : Firsts[i] = <<<<"STATUS", "PRIORITY", "TAGS">>[i], <<>>>>
  BY <1>3
<1>10. \A i \in 1 .. 3 : Firsts[i][1] \in Canonical
  BY <1>6 DEF Canonical
<1> QED BY <1>3, <1>4, <1>7, <1>8, <1>9, <1>10 DEF OnceLists

\* The lines of any task, its body beginning and containing what it may.
LEMMA RenderLines ==
  ASSUME NEW t \in TaskType
  PROVE  /\ Render(t) \in Seq(Line) /\ Len(Render(t)) = 2 + Len(t.props) + Len(t.body)
         /\ \A i \in 1 .. Len(t.body) : Render(t)[2 + Len(t.props) + i] = t.body[i]
<1> DEFINE ps == t.props
           ls == [n \in DOMAIN ps |-> Rendered(t, ps[n])]
           b == t.body
           f == Render(t)
<1>1. /\ t.title \in Strings /\ t.status \in Seq(Words) /\ t.priority \in Numbers /\ t.tags \in Seq(Strings)
      /\ ps \in OnceLists /\ b \in Seq(Line)
  BY DEF TaskType
<1>2. /\ ps \in Seq(Property) /\ Len(ps) \in Nat /\ DOMAIN ps = 1 .. Len(ps)
      /\ \A i \in 1 .. Len(ps) : ps[i] \in Property
  BY <1>1 DEF OnceLists, PropList
<1>3. ASSUME NEW x \in Property PROVE Rendered(t, x) \in Line
  <2>1. x[1] \in Strings /\ x[2] \in Seq(Words) /\ <<t.priority>> \in Seq(Words)
    BY <1>1, Singly DEF Property
  <2>1a. Spelled(t.tags) \in Seq(Words)
    BY <1>1, SpelledIs DEF Words
  <2>2. Rendered(t, x) = Prop(x[1], Shown(t, x[1], x[2]))
    BY DEF Rendered, Shown
  <2>3. Shown(t, x[1], x[2]) \in Seq(Words)
    BY <1>1, <2>1, <2>1a DEF Shown
  <2> QED BY <2>1, <2>2, <2>3 DEF Prop, Line
<1>4. ls \in Seq(Line) /\ Len(ls) = Len(ps)
  <2>1. ls = [n \in 1 .. Len(ps) |-> Rendered(t, ps[n])]
    BY <1>2
  <2> QED BY <1>2, <1>3, <2>1
<1>5. Title(t.title) \in Line /\ Blank \in Line
  <2>1. <<>> \in Seq(Words) /\ Nothing \in Strings
    BY TaskFileAssumption
  <2> QED BY <1>1, <2>1 DEF Title, Blank, Text, Line
<1>6. f = <<Title(t.title), Blank>> \o ls \o b
  BY DEF Render
<1> DEFINE two == <<Title(t.title), Blank>>
<1>7. two \in Seq(Line) /\ Len(two) = 2
  BY <1>5
<1> HIDE DEF ls, b, f, two, ps
<1>8. /\ two \o ls \o b \in Seq(Line) /\ Len(two \o ls \o b) = Len(two) + Len(ls) + Len(b)
      /\ \A i \in 1 .. Len(b) : (two \o ls \o b)[Len(two) + Len(ls) + i] = b[i]
  <2>1. two \in Seq(Line) /\ ls \in Seq(Line) /\ b \in Seq(Line)
    BY <1>1, <1>4, <1>7
  <2> QED BY <2>1, ThreeParts
<1>9. Len(two) = 2 /\ Len(ls) = Len(ps)
  BY <1>4, <1>7
<1>10. f = two \o ls \o b
  BY <1>6 DEF two
<1> QED BY <1>8, <1>9, <1>10 DEF f, ps, b

\* A blank line more before a body.
LEMMA BlankBefore ==
  ASSUME NEW b \in Seq(Line)
  PROVE  /\ <<Blank>> \o b \in Seq(Line) /\ (<<Blank>> \o b)[1] = Blank /\ Len(<<Blank>> \o b) = Len(b) + 1
         /\ <<Blank>> \o b # <<>> /\ SkipBlank(<<Blank>> \o b) = SkipBlank(b)
<1>1. Blank \in Line
  BY TaskFileAssumption, EmptySeq DEF Text, Blank, Line
<1> DEFINE g == <<Blank>> \o b
<1>2. /\ g \in Seq(Line) /\ g[1] = Blank /\ Len(g) = Len(b) + 1 /\ Len(b) \in Nat
      /\ \A i \in 1 .. Len(b) : g[i + 1] = b[i]
  BY <1>1
<1> HIDE DEF g
<1>3. PICK m \in 0 .. Len(b) : /\ SkipBlank(b) = SubSeq(b, m + 1, Len(b))
                               /\ \A i \in 1 .. m : b[i] = Blank
                               /\ m = Len(b) \/ b[m + 1] # Blank
  BY SkipIs
<1>4. \A i \in 1 .. m + 1 : g[i] = Blank
  <2> SUFFICES ASSUME NEW i \in 1 .. m + 1 PROVE g[i] = Blank
    OBVIOUS
  <2>1. CASE i = 1
    BY <1>2, <2>1
  <2>2. CASE i # 1
    <3> DEFINE j == i - 1
    <3>1. j \in 1 .. m /\ j \in 1 .. Len(b) /\ j + 1 = i
      BY <1>2, <2>2
    <3> HIDE DEF j
    <3> QED BY <1>2, <1>3, <3>1
  <2> QED BY <2>1, <2>2
<1>5. m + 1 = Len(g) \/ g[(m + 1) + 1] # Blank
  <2>1. CASE m = Len(b)
    BY <1>2, <2>1
  <2>2. CASE m # Len(b)
    <3> DEFINE j == m + 1
    <3>1. j \in 1 .. Len(b)
      BY <1>2, <2>2
    <3>2. b[j] # Blank
      BY <1>3, <2>2
    <3> HIDE DEF j
    <3>3. g[j + 1] # Blank
      BY <1>2, <3>1, <3>2
    <3> QED BY <3>3 DEF j
  <2> QED BY <2>1, <2>2
<1> DEFINE k == m + 1
<1>6. k \in 0 .. Len(g) /\ k \in Nat
  BY <1>2
<1>7. /\ \A i \in 1 .. k : g[i] = Blank
      /\ k = Len(g) \/ g[k + 1] # Blank
  BY <1>4, <1>5
<1> HIDE DEF k
<1>8. SkipBlank(g) = SubSeq(g, k + 1, Len(g))
  BY <1>2, <1>6, <1>7, SkipTo
<1>9. SubSeq(g, k + 1, Len(g)) = SubSeq(b, m + 1, Len(b))
  <2> DEFINE x == SubSeq(g, k + 1, Len(g)) y == SubSeq(b, m + 1, Len(b))
  <2>1. /\ x \in Seq(Line) /\ Len(x) = Len(g) - k /\ \A i \in 1 .. Len(g) - k : x[i] = g[k + i]
    BY <1>2, <1>6, SuffixIs
  <2>2. /\ y \in Seq(Line) /\ Len(y) = Len(b) - m /\ \A i \in 1 .. Len(b) - m : y[i] = b[m + i]
    BY SuffixIs
  <2> HIDE DEF x, y
  <2>3. Len(x) = Len(y) /\ Len(y) \in Nat
    BY <1>2, <2>1, <2>2 DEF k
  <2>4. \A i \in 1 .. Len(y) : x[i] = y[i]
    <3> SUFFICES ASSUME NEW i \in 1 .. Len(y) PROVE x[i] = y[i]
      OBVIOUS
    <3>1. x[i] = g[k + i] /\ y[i] = b[m + i]
      BY <2>1, <2>2, <2>3
    <3> DEFINE j == m + i
    <3>2. j \in 1 .. Len(b) /\ k + i = j + 1
      BY <1>2, <2>2 DEF k
    <3> HIDE DEF j
    <3>3. g[j + 1] = b[j]
      BY <1>2, <3>2
    <3> QED BY <3>1, <3>2, <3>3 DEF j
  <2>5. x = y
    BY <2>1, <2>2, <2>3, <2>4, SeqEqual
  <2> QED BY <2>5 DEF x, y
<1>10. g # <<>>
  BY <1>2
<1> QED BY <1>2, <1>3, <1>8, <1>9, <1>10 DEF g

\* The task new makes of its arguments.
Fresh(n) == [title |-> n.title, status |-> <<"OPEN">>, priority |-> n.priority, tags |-> n.tags,
             props |-> PutAll(Firsts, n.props), body |-> Payload(n.body)]

\* It is a task, and if the file passes the strict checks its body is a body.
LEMMA FreshIs ==
  ASSUME NEW n \in News, \A i \in DOMAIN n.props : n.props[i][1] \notin Canonical
  PROVE  /\ Created(n) = Render(Fresh(n)) /\ Fresh(n) \in TaskType /\ Fresh(n).props = Firsts \o n.props
         /\ Canonical \subseteq KeysOf(Fresh(n).props) /\ Created(n) \in Seq(Line)
         /\ Strict(Created(n)) => IsBody(Fresh(n).body)
<1> DEFINE t == Fresh(n) ps == PutAll(Firsts, n.props) b == Payload(n.body) f == Created(n)
<1>1. /\ n.title \in Strings /\ n.priority \in Numbers /\ n.tags \in Seq(Words)
      /\ n.props \in OnceLists /\ n.body \in Seq(Line)
  BY ArgumentsAre
<1>2. Firsts \in OnceLists /\ KeysOf(Firsts) = Canonical
  BY FirstsAre
<1>3. KeysOf(n.props) \cap Canonical = {}
  BY <1>1, GetIs DEF OnceLists
<1>4. ps \in OnceLists /\ KeysOf(ps) = Canonical \cup KeysOf(n.props) /\ ps = Firsts \o n.props
  BY <1>1, <1>2, <1>3, PutAllIs
<1>5. b = <<Blank>> \o n.body /\ b \in Seq(Line) /\ b[1] = Blank
  BY <1>1, BlankBefore DEF Payload
<1>6. f = Render(t)
  BY DEF Created, Firsts, Fresh
<1> HIDE DEF ps, b, f
<1>6a. n.tags \in Seq(Strings)
  <2>1. Words \subseteq Strings
    BY DEF Words
  <2> QED BY <1>1, <2>1, SeqWithin
<1>7. t \in TaskType /\ t.props = ps /\ t.body = b
  BY <1>1, <1>4, <1>6a, <1>5, Singly DEF TaskType, Fresh, ps, b
<1> HIDE DEF t
<1>8. /\ f \in Seq(Line) /\ Len(f) = 2 + Len(ps) + Len(b)
      /\ \A i \in 1 .. Len(b) : f[2 + Len(ps) + i] = b[i]
  BY <1>6, <1>7, RenderLines
<1>9. ASSUME Strict(f) PROVE IsBody(b)
  <2>1. NoNul(f)
    BY <1>9 DEF Strict, HeaderOK, NoNul
  <2>2. Len(ps) \in Nat /\ Len(b) \in Nat
    BY <1>4, <1>5 DEF OnceLists, PropList
  <2>3. \A i \in 1 .. Len(b) : 2 + Len(ps) + i \in 1 .. Len(f)
    BY <1>8, <2>2
  <2>4. DOMAIN f = 1 .. Len(f) /\ DOMAIN b = 1 .. Len(b)
    BY <1>5, <1>8, LenProperties
  <2>5. NoNul(b)
    BY <1>8, <2>1, <2>3, <2>4, Zenon DEF NoNul
  <2>6. b[1].kind # "prop"
    BY <1>5 DEF Blank, Text
  <2> QED BY <1>5, <2>5, <2>6 DEF IsBody
<1> QED BY <1>4, <1>6, <1>7, <1>8, <1>9 DEF f, t

\* What new writes reads back as what it was given.
LEMMA NewReads ==
  ASSUME NEW n \in News, \A i \in DOMAIN n.props : n.props[i][1] \notin Canonical, Strict(Created(n))
  PROVE  LET t == Load(Created(n)) IN
         /\ t.title = n.title /\ t.priority = n.priority /\ t.tags = n.tags /\ t.status = <<"OPEN">>
         /\ Outline(t.props) = [i \in 1 .. 3 |-> <<<<"STATUS", "PRIORITY", "TAGS">>[i], <<>>>>] \o n.props
         /\ SkipBlank(t.body) = SkipBlank(n.body)
<1> DEFINE t == Load(Created(n)) s == Fresh(n)
           Names3 == [i \in 1 .. 3 |-> <<<<"STATUS", "PRIORITY", "TAGS">>[i], <<>>>>]
<1>1. /\ Created(n) = Render(s) /\ s \in TaskType /\ s.props = Firsts \o n.props
      /\ Canonical \subseteq KeysOf(s.props) /\ IsBody(s.body)
  BY FreshIs
<1>2. /\ s.title = n.title /\ s.status = <<"OPEN">> /\ s.priority = n.priority /\ s.tags = n.tags
      /\ s.body = <<Blank>> \o n.body
  BY DEF Fresh, Payload
<1> HIDE DEF s
<1>2a. Spelled(s.tags) = s.tags
  <2>1. s.tags \in Seq(Words) /\ s.tags \in Seq(Strings)
    BY <1>1, <1>2, ArgumentsAre DEF TaskType
  <2> QED BY <2>1, SpelledIs
<1>3. /\ t.title = s.title /\ t.status = s.status /\ t.priority = s.priority /\ t.tags = s.tags
      /\ t.body = s.body /\ Outline(t.props) = Outline(s.props)
  <2> DEFINE r == Parse(Render(s)).props
  <2>1. LET is == Load(Render(s)) IN
        /\ is = [title |-> s.title, status |-> s.status, priority |-> s.priority, tags |-> Spelled(s.tags),
                 props |-> r, body |-> s.body]
        /\ Outline(is.props) = Outline(s.props)
    BY <1>1, LoadRender
  <2>2. /\ t = [title |-> s.title, status |-> s.status, priority |-> s.priority, tags |-> Spelled(s.tags),
                props |-> r, body |-> s.body]
        /\ Outline(t.props) = Outline(s.props)
    BY <1>1, <2>1
  <2> HIDE DEF t, r
  <2> QED BY <1>2a, <2>2
<1> HIDE DEF t
<1>4. n.body \in Seq(Line) /\ n.props \in OnceLists
  BY ArgumentsAre
<1>5. SkipBlank(t.body) = SkipBlank(n.body)
  BY <1>2, <1>3, <1>4, BlankBefore
<1>6. Outline(s.props) = Names3 \o n.props
  <2> DEFINE ps == n.props a == Firsts \o ps o == Outline(a)
  <2>1. /\ Firsts \in Seq(Property) /\ Len(Firsts) = 3
        /\ \A i \in 1 .. 3 : Firsts[i] = Names3[i] /\ Firsts[i][1] \in Canonical
    BY FirstsAre DEF OnceLists, PropList
  <2>2. ps \in Seq(Property) /\ Len(ps) \in Nat /\ DOMAIN ps = 1 .. Len(ps)
    BY <1>4 DEF OnceLists, PropList
  <2>3. Names3 = Firsts
    <3>1. DOMAIN Firsts = 1 .. 3 /\ Firsts = [i \in 1 .. 3 |-> Firsts[i]]
      BY <2>1
    <3>2. Names3 = [i \in 1 .. 3 |-> Names3[i]]
      OBVIOUS
    <3> HIDE DEF Names3
    <3> QED BY <2>1, <3>1, <3>2, Zenon
  <2> HIDE DEF Names3
  <2>4. /\ a \in Seq(Property) /\ Len(a) = 3 + Len(ps)
        /\ \A i \in 1 .. Len(a) : a[i] = IF i <= 3 THEN Firsts[i] ELSE ps[i - 3]
    <3>1. ps \in Seq(Property) /\ Firsts \in Seq(Property) /\ Len(Firsts) = 3
      BY <2>1, <2>2
    <3> HIDE DEF ps
    <3>2. /\ Firsts \o ps \in Seq(Property) /\ Len(Firsts \o ps) = Len(Firsts) + Len(ps)
          /\ \A i \in 1 .. Len(Firsts) + Len(ps) :
               (Firsts \o ps)[i] = IF i <= Len(Firsts) THEN Firsts[i] ELSE ps[i - Len(Firsts)]
      BY <3>1, ConcatProperties
    <3> QED BY <3>1, <3>2, Zenon
  <2> HIDE DEF a
  <2>5. \A i \in 1 .. Len(a) : (IF a[i][1] \in Canonical THEN <<a[i][1], <<>>>> ELSE a[i]) = a[i]
    <3> SUFFICES ASSUME NEW i \in 1 .. Len(a)
                 PROVE (IF a[i][1] \in Canonical THEN <<a[i][1], <<>>>> ELSE a[i]) = a[i]
      OBVIOUS
    <3>1. CASE i <= 3
      <4>1. i \in 1 .. 3
        BY <2>2, <2>4, <3>1
      <4>2. a[i] = Firsts[i] /\ Firsts[i] = <<Firsts[i][1], <<>>>>
        <5>1. Firsts[i] = <<<<"STATUS", "PRIORITY", "TAGS">>[i], <<>>>>
          BY <4>1, FirstsAre
        <5> QED BY <2>4, <3>1, <5>1
      <4> QED BY <4>2
    <3>2. CASE ~(i <= 3)
      <4> DEFINE j == i - 3
      <4>1. j \in 1 .. Len(ps) /\ j \in DOMAIN ps
        BY <2>2, <2>4, <3>2
      <4>2. a[i] = ps[j]
        BY <2>4, <3>2
      <4>3. ps[j][1] \notin Canonical
        BY <4>1
      <4> QED BY <4>2, <4>3
    <3> QED BY <3>1, <3>2
  <2>6. DOMAIN a = 1 .. Len(a)
    BY <2>4
  <2>7. o = [i \in 1 .. Len(a) |-> IF a[i][1] \in Canonical THEN <<a[i][1], <<>>>> ELSE a[i]]
    BY <2>6, Zenon DEF Outline
  <2>8. a = [i \in 1 .. Len(a) |-> a[i]]
    BY <2>4
  <2>9. o = a
    <3> HIDE DEF o
    <3> QED BY <2>5, <2>7, <2>8, Zenon
  <2> QED BY <1>1, <2>3, <2>9 DEF o, a
<1> QED BY <1>2, <1>3, <1>5, <1>6 DEF t

-----------------------------------------------------------------------------
\* What a bulk update makes of a file.
LEMMA BulkIs ==
  ASSUME NEW f \in Seq(Line), NEW u \in Updates
  PROVE  LET t == Updated(Load(f), u) IN
         /\ Render(t) \in Seq(Line) /\ t \in TaskType /\ IsBody(t.body) /\ t.props # <<>>
         /\ Canonical \subseteq KeysOf(t.props) /\ u \in Seq(OpsOf(Strings))
<1> DEFINE t == Updated(Load(f), u)
<1>1. u \in Seq(OpsOf(Strings)) /\ Load(f).tags \in Seq(Strings)
  BY ArgumentsAre, LoadIs DEF TaskType
<1>2. t \in TaskType /\ IsBody(t.body) /\ t.props # <<>> /\ KeysOf(t.props) = KeysOf(Parse(f).props) \cup Canonical
  BY <1>1, UpdatedTask
<1> HIDE DEF t
<1>3. Render(t) \in Seq(Line)
  BY <1>2, RenderLines
<1> QED BY <1>1, <1>2, <1>3 DEF t

\* A step that changes the file, in the words of the lemmas.
LEMMA Steps ==
  ASSUME Next
  PROVE  \/ \E n \in News : /\ file = <<>> /\ \A i \in DOMAIN n.props : n.props[i][1] \notin Canonical
                            /\ Strict(Created(n)) /\ file' = Created(n) /\ Did("new", << <<"new", n>> >>, TRUE)
         \/ \E c \in Changes : file' = file /\ Did("refused", c, FALSE)
         \/ \E c \in Changes : /\ file' = file /\ Did("set", c, FALSE) /\ Strict(file) /\ Strict(Changed(file, c))
                               /\ EffectiveEqual(file, Changed(file, c), Compared(file, c))
         \/ \E c \in Changes : /\ file' = Changed(file, c) /\ Did("set", c, TRUE) /\ Strict(file) /\ Strict(file')
                               /\ ~EffectiveEqual(file, Changed(file, c), Compared(file, c))
         \/ \E u \in Updates : file' = file /\ Did("bulk", u, FALSE)
         \/ \E u \in Updates : file' = Render(Updated(Load(file), u)) /\ Did("bulk", u, TRUE)
         \/ file = <<>> /\ file' \in Files /\ Did("edit", <<>>, TRUE)
<1>1. CASE New
  BY <1>1 DEF New, Canonical
<1>2. CASE Set
  <2>1. PICK c \in Changes :
         IF ~Strict(file) \/ ~IsNumber(Get(PutAll(Parse(file).props, c), "PRIORITY")) \/ ~Strict(Changed(file, c))
         THEN UNCHANGED file /\ Did("refused", c, FALSE)
         ELSE IF EffectiveEqual(file, Changed(file, c), Compared(file, c))
              THEN UNCHANGED file /\ Did("set", c, FALSE)
              ELSE file' = Changed(file, c) /\ Did("set", c, TRUE)
    BY <1>2 DEF Set
  <2> QED BY <2>1
<1>3. CASE Bulk
  <2>1. PICK u \in Updates : \E touched \in BOOLEAN :
         /\ IF touched THEN file' = Render(Updated(Load(file), u)) ELSE UNCHANGED file
         /\ Did("bulk", u, touched)
    BY <1>3, Zenon DEF Bulk
  <2> QED BY <2>1
<1>4. CASE Edit
  BY <1>4 DEF Edit
<1> QED BY <1>1, <1>2, <1>3, <1>4 DEF Next

\* The file is always a sequence of lines.
LEMMA LinesStay == ASSUME file \in Seq(Line), Next PROVE file' \in Seq(Line)
<1>1. \A n \in News : (\A i \in DOMAIN n.props : n.props[i][1] \notin Canonical) => Created(n) \in Seq(Line)
  BY FreshIs
<1>2. \A c \in Changes : Changed(file, c) \in Seq(Line)
  BY ArgumentsAre, ChangedIs
<1>3. \A u \in Updates : Render(Updated(Load(file), u)) \in Seq(Line)
  BY BulkIs
<1> QED BY <1>1, <1>2, <1>3, Steps, ArgumentsAre

\* There is nothing strict about no file.
LEMMA NoFile == ~Strict(<<>>)
<1> DEFINE f == <<>>
<1>1. f \in Seq(Line) /\ Len(f) = 0 /\ \A g \in Seq(Line) : Len(g) = 0 => g = f
  OBVIOUS
<1> HIDE DEF f
<1>2. PICK m \in 0 .. Len(f) : SkipBlank(f) = SubSeq(f, m + 1, Len(f))
  BY <1>1, SkipIs
<1>3. SkipBlank(f) \in Seq(Line) /\ Len(SkipBlank(f)) = Len(f) - m
  BY <1>1, <1>2, SuffixIs
<1>4. SkipBlank(f) = f
  BY <1>1, <1>2, <1>3
<1>5. ~Strict(f)
  BY <1>4 DEF Strict, HeaderOK, f
<1> QED BY <1>5 DEF f

\* A bulk update adds a tag that is not UTF-8.
GarbledTag(u) == \E n \in DOMAIN u : u[n][1] = "tag" /\ u[n][2] \in Garbled

\* No other step makes a file fail the strict checks that passed them.
LEMMA StrictStays ==
  ASSUME file \in Seq(Line), Next, Strict(file)
  PROVE  Strict(file') \/ (Wrote("bulk") /\ GarbledTag(did'.args))
<1>1. file # <<>>
  BY NoFile
<1>2. ASSUME NEW u \in Updates, ~GarbledTag(u) PROVE Strict(Render(Updated(Load(file), u)))
  <2>1. u \in Seq(OpsOf(Strings))
    BY ArgumentsAre
  <2>2. /\ Len(u) \in Nat /\ DOMAIN u = 1 .. Len(u) /\ \A i \in 1 .. Len(u) : u[i] \in OpsOf(Strings)
        /\ u = [i \in 1 .. Len(u) |-> u[i]]
    BY <2>1
  <2>3. \A i \in 1 .. Len(u) : u[i] \in OpsOf(Strings \ Garbled)
    BY <1>2, <2>2 DEF GarbledTag, OpsOf
  <2>4. u \in Seq(OpsOf(Strings \ Garbled))
    <3> DEFINE O == OpsOf(Strings \ Garbled)
    <3>1. \A i \in 1 .. Len(u) : u[i] \in O
      BY <2>3
    <3> HIDE DEF O
    <3>2. u \in Seq(O)
      BY <2>2, <3>1
    <3> QED BY <3>2 DEF O
  <2> QED BY <2>4, UpdateStrict
<1>3. ASSUME NEW u \in Updates, file' = Render(Updated(Load(file), u)), Did("bulk", u, TRUE)
      PROVE  Strict(file') \/ (Wrote("bulk") /\ GarbledTag(did'.args))
  <2>1. did'.op = "bulk" /\ did'.args = u /\ did'.wrote = TRUE
    BY <1>3 DEF Did
  <2> QED BY <1>2, <1>3, <2>1 DEF Wrote
<1>4. \/ \E u \in Updates : file' = Render(Updated(Load(file), u)) /\ Did("bulk", u, TRUE)
      \/ file' = file \/ Strict(file')
  BY <1>1, Steps
<1> QED BY <1>3, <1>4

-----------------------------------------------------------------------------
\* Before, on the part of the properties that is kept.
LEMMA BulkKeeps ==
  ASSUME NEW f \in Seq(Line), NEW u \in Updates, Strict(f)
  PROVE  LET p == Parse(f) q == Parse(Render(Updated(Load(f), u))) IN
         /\ q.title = p.title /\ q.body = p.body /\ KeysOf(p.props) \subseteq KeysOf(q.props)
         /\ \A k, l \in KeysOf(p.props) : Before(q.props, k, l) <=> Before(p.props, k, l)
         /\ \A k \in KeysOf(p.props) \ (Canonical \cup {"RESOLUTION"}) : Get(q.props, k) = Get(p.props, k)
<1> DEFINE p == Parse(f) t0 == Load(f) t == Updated(t0, u) q == Parse(Render(t))
<1>1. u \in Seq(OpsOf(Strings)) /\ t0.tags \in Seq(Strings)
  BY ArgumentsAre, LoadIs DEF TaskType
<1>2. t0.title = p.title /\ t0.body = p.body
  BY LoadIs
<1>3. /\ t \in UpdatesOf(t0, Strings) /\ t \in TaskType /\ IsBody(t.body) /\ t.props # <<>>
      /\ KeysOf(t.props) = KeysOf(p.props) \cup Canonical
      /\ \A a, b \in KeysOf(p.props) : Before(t.props, a, b) <=> Before(p.props, a, b)
      /\ \A k : k # "RESOLUTION" => Get(t.props, k) = Get(p.props, k)
  BY <1>1, UpdatedTask
<1>4. t.title = t0.title /\ t.body = t0.body
  BY <1>3 DEF UpdatesOf
<1> HIDE DEF t0, t, p
<1>5. /\ q.title = t.title /\ q.body = t.body /\ KeysOf(q.props) = KeysOf(t.props)
      /\ \A a, b : Before(q.props, a, b) <=> Before(t.props, a, b)
      /\ \A k \in KeysOf(t.props) : Get(q.props, k) = Shown(t, k, Get(t.props, k))
  BY <1>3, RenderIs
<1> HIDE DEF q
<1>6. \A k \in KeysOf(p.props) \ (Canonical \cup {"RESOLUTION"}) : Get(q.props, k) = Get(p.props, k)
  BY <1>3, <1>5 DEF Shown, Canonical
<1>7. /\ q.title = p.title /\ q.body = p.body /\ KeysOf(p.props) \subseteq KeysOf(q.props)
      /\ \A k, l \in KeysOf(p.props) : Before(q.props, k, l) <=> Before(p.props, k, l)
  BY <1>2, <1>3, <1>4, <1>5
<1> QED BY <1>6, <1>7 DEF q, t, t0, p

\* Loading what a bulk update wrote gives the task it made.
LEMMA BulkReads ==
  ASSUME NEW f \in Seq(Line), NEW u \in Updates
  PROVE  LET was == Updated(Load(f), u) is == Load(Render(was)) IN
         [is EXCEPT !.props = Outline(@)] = [was EXCEPT !.props = Outline(@), !.tags = Spelled(@)]
<1> DEFINE t == Updated(Load(f), u) is == Load(Render(t)) r == Parse(Render(t)).props
<1>1. t \in TaskType /\ IsBody(t.body) /\ Canonical \subseteq KeysOf(t.props)
  BY BulkIs
<1> HIDE DEF t
<1>2. /\ is = [title |-> t.title, status |-> t.status, priority |-> t.priority, tags |-> Spelled(t.tags),
               props |-> r, body |-> t.body]
      /\ Outline(is.props) = Outline(t.props)
  BY <1>1, LoadRender
<1>3. t = [title |-> t.title, status |-> t.status, priority |-> t.priority, tags |-> t.tags,
           props |-> t.props, body |-> t.body]
  BY <1>1 DEF TaskType
<1> HIDE DEF is, r
<1>4. [is EXCEPT !.props = Outline(@)]
      = [title |-> t.title, status |-> t.status, priority |-> t.priority, tags |-> Spelled(t.tags),
         props |-> Outline(is.props), body |-> t.body]
  BY <1>2
<1>5. [t EXCEPT !.props = Outline(@), !.tags = Spelled(@)]
      = [title |-> t.title, status |-> t.status, priority |-> t.priority, tags |-> Spelled(t.tags),
         props |-> Outline(t.props), body |-> t.body]
  <2> DEFINE o == Outline(t.props) w == Spelled(t.tags) v == [t EXCEPT !.props = o]
  <2>1. v = [title |-> t.title, status |-> t.status, priority |-> t.priority, tags |-> t.tags,
             props |-> o, body |-> t.body]
    <3> HIDE DEF o
    <3> QED BY <1>3
  <2> HIDE DEF o, w, v
  <2>2. [v EXCEPT !.tags = w] = [title |-> t.title, status |-> t.status, priority |-> t.priority, tags |-> w,
                                 props |-> o, body |-> t.body]
    BY <2>1
  <2> QED BY <2>2 DEF o, w, v
<1> QED BY <1>2, <1>4, <1>5 DEF is, t

\* Set leaves alone what it was not asked for, in a file that passes the strict checks.
LEMMA SetKeeps ==
  ASSUME NEW f \in Seq(Line), NEW c \in Changes, Strict(f)
  PROVE  LET p == Parse(f) q == Parse(Changed(f, c))
             asked == {c[n][1] : n \in DOMAIN c} \cup {"RESOLUTION"} kept == KeysOf(p.props) \ asked IN
         /\ q.title = p.title /\ q.body = p.body /\ kept \subseteq KeysOf(q.props)
         /\ \A k, l \in kept : Before(q.props, k, l) <=> Before(p.props, k, l)
         /\ \A k \in kept : Get(q.props, k) = Get(p.props, k)
<1> DEFINE p == Parse(f) q == Parse(Changed(f, c)) a == Assigned(c)
           asked == {c[n][1] : n \in DOMAIN c} \cup {"RESOLUTION"} kept == KeysOf(p.props) \ asked
           V(k) == IF k \in KeysOf(a) THEN Get(a, k) ELSE Get(p.props, k)
<1>1. c \in OnceLists
  BY ArgumentsAre
<1>2. KeysOf(a) \subseteq KeysOf(c) \cup {"RESOLUTION"}
  BY <1>1, AssignedIs
<1>3. \A k \in KeysOf(c) : \E n \in DOMAIN c : c[n][1] = k
  BY <1>1, GetIs DEF OnceLists
<1>4. \A k \in kept : k \in KeysOf(p.props) /\ k \notin KeysOf(a)
  BY <1>2, <1>3
<1>5. "PRIORITY" \in KeysOf(p.props) /\ IsNumber(Get(p.props, "PRIORITY")) /\ p.props \in OnceLists
  BY StrictIs, ParseIs
<1>6. /\ q.title = p.title /\ q.body = p.body /\ KeysOf(q.props) = KeysOf(p.props) \cup KeysOf(a) \cup {"TAGS"}
      /\ \A k, l \in KeysOf(p.props) \ KeysOf(a) : Before(q.props, k, l) <=> Before(p.props, k, l)
      /\ \A k : k # "PRIORITY" => Get(q.props, k) = V(k)
      /\ "PRIORITY" \in KeysOf(q.props) => Get(q.props, "PRIORITY") = <<Atoi(V("PRIORITY"))>>
  BY <1>1, ChangedIs
<1> HIDE DEF p, q, a, kept
<1>7. <<Atoi(Get(p.props, "PRIORITY"))>> = Get(p.props, "PRIORITY")
  <2> DEFINE w == Get(p.props, "PRIORITY")
  <2>1. w \in Seq(Words) /\ Len(w) = 1 /\ w[1] \in Numbers
    BY <1>5, GetType DEF IsNumber
  <2> HIDE DEF w
  <2>2. w = <<w[1]>> /\ w # <<>>
    <3> DEFINE v == <<w[1]>>
    <3>1. v \in Seq(Words) /\ Len(v) = 1 /\ v[1] = w[1]
      BY <2>1, TaskFileAssumption
    <3> HIDE DEF v
    <3>2. w = v
      BY <2>1, <3>1, SeqEqual
    <3>3. w # <<>>
      <4>1. Len(<<>>) = 0
        OBVIOUS
      <4>2. Len(w) # 0
        BY <2>1
      <4> QED BY <4>1, <4>2, Zenon
    <3> QED BY <3>2, <3>3 DEF v
  <2>3. Atoi(w) = w[1]
    BY <2>1, <2>2 DEF Atoi
  <2> QED BY <2>2, <2>3 DEF w
<1>8. \A k \in kept : Get(q.props, k) = Get(p.props, k)
  BY <1>4, <1>5, <1>6, <1>7
<1>9. kept \subseteq KeysOf(q.props) /\ \A k, l \in kept : Before(q.props, k, l) <=> Before(p.props, k, l)
  BY <1>4, <1>6
<1> QED BY <1>6, <1>8, <1>9 DEF p, q, kept

\* What was not asked for is kept, in each step.
LEMMA UnaskedStays ==
  ASSUME file \in Seq(Line), Next, Strict(file), Wrote("set") \/ Wrote("bulk")
  PROVE  LET asked == IF did'.op = "set" THEN {did'.args[n][1] : n \in DOMAIN did'.args} \cup {"RESOLUTION"}
                      ELSE {}
             was == Parse(file) is == Parse(file')
             kept == KeysOf(was.props) \ asked IN
         /\ is.title = was.title /\ is.body = was.body
         /\ kept \subseteq KeysOf(is.props)
         /\ \A k, l \in kept : Before(is.props, k, l) <=> Before(was.props, k, l)
         /\ \A k \in kept \ (IF did'.op = "set" THEN {} ELSE Canonical \cup {"RESOLUTION"}) :
              Get(is.props, k) = Get(was.props, k)
<1>1. \/ \E c \in Changes : file' = Changed(file, c) /\ did'.op = "set" /\ did'.args = c
      \/ \E u \in Updates : file' = Render(Updated(Load(file), u)) /\ did'.op = "bulk"
  BY Steps DEF Did, Wrote
<1>2. CASE \E c \in Changes : file' = Changed(file, c) /\ did'.op = "set" /\ did'.args = c
  <2>1. PICK c \in Changes : file' = Changed(file, c) /\ did'.op = "set" /\ did'.args = c
    BY <1>2
  <2>2. {did'.args[n][1] : n \in DOMAIN did'.args} = {c[n][1] : n \in DOMAIN c}
    BY <2>1
  <2> QED BY <2>1, <2>2, SetKeeps
<1>3. CASE \E u \in Updates : file' = Render(Updated(Load(file), u)) /\ did'.op = "bulk"
  <2>1. PICK u \in Updates : file' = Render(Updated(Load(file), u)) /\ did'.op = "bulk"
    BY <1>3
  <2> QED BY <2>1, BulkKeeps
<1> QED BY <1>1, <1>2, <1>3

\* The keys compared are those given, and the outcome, if it is taken back.
LEMMA ComparedIs ==
  ASSUME NEW f, NEW c \in OnceLists
  PROVE  LET d == Compared(f, c) IN
         d \in OnceLists /\ KeysOf(c) \subseteq KeysOf(d) /\ KeysOf(d) \subseteq KeysOf(Assigned(c))
<1>1. Assigned(c) \in OnceLists /\ KeysOf(c) \subseteq KeysOf(Assigned(c))
  BY AssignedIs
<1>2. Compared(f, c) = Assigned(c) \/ Compared(f, c) = c
  BY DEF Compared
<1> QED BY <1>1, <1>2

\* Two property lists with the same meaning have the same words for a key other than
\* those the meaning names, or both lack it.
LEMMA SameOthers ==
  ASSUME NEW ps \in OnceLists, NEW qs \in OnceLists, NEW k, k \notin Canonical \cup {"RESOLUTION", "DEPENDS"},
         {p \in ToSet(ps) : p[1] \notin Canonical \cup {"RESOLUTION", "DEPENDS"}}
         = {p \in ToSet(qs) : p[1] \notin Canonical \cup {"RESOLUTION", "DEPENDS"}}
  PROVE  (k \in KeysOf(ps) <=> k \in KeysOf(qs)) /\ Get(ps, k) = Get(qs, k)
<1> DEFINE R(s) == {p \in ToSet(s) : p[1] \notin Canonical \cup {"RESOLUTION", "DEPENDS"}}
<1>1. ASSUME NEW s \in OnceLists
      PROVE  /\ k \in KeysOf(s) => \E p \in R(s) : p[1] = k /\ p[2] = Get(s, k)
             /\ \A p \in R(s) : p[1] = k => k \in KeysOf(s) /\ p[2] = Get(s, k)
             /\ k \notin KeysOf(s) => Get(s, k) = <<>>
  <2>1. /\ \A n \in DOMAIN s : Get(s, s[n][1]) = s[n][2] /\ s[n][1] \in KeysOf(s)
        /\ \A x : x \notin KeysOf(s) => Get(s, x) = <<>>
        /\ \A x \in KeysOf(s) : \E n \in DOMAIN s : s[n][1] = x
    BY GetIs DEF OnceLists
  <2>2. \A p : p \in ToSet(s) <=> \E n \in DOMAIN s : s[n] = p
    BY DEF ToSet
  <2>3. ASSUME k \in KeysOf(s) PROVE \E p \in R(s) : p[1] = k /\ p[2] = Get(s, k)
    <3>1. PICK n \in DOMAIN s : s[n][1] = k
      BY <2>1, <2>3
    <3>2. s[n] \in R(s)
      BY <2>2, <3>1
    <3> QED BY <2>1, <3>1, <3>2
  <2>4. ASSUME NEW p \in R(s), p[1] = k PROVE k \in KeysOf(s) /\ p[2] = Get(s, k)
    <3>1. PICK n \in DOMAIN s : s[n] = p
      BY <2>2
    <3> QED BY <2>1, <2>4, <3>1
  <2> QED BY <2>1, <2>3, <2>4
<1>2. R(ps) = R(qs)
  OBVIOUS
<1> HIDE DEF R
<1> QED BY <1>1, <1>2

\* The words that are read of a key are what they were to be.
Reads(k, v, w) == CASE k = "PRIORITY" -> Atoi(v) = Atoi(w)
                    [] k = "DEPENDS" -> ToSet(v) = ToSet(w)
                    [] OTHER -> v = w

\* The words set was given are read, and it writes if and only if the meaning changes.
LEMMA SetReads ==
  ASSUME NEW f \in Seq(Line), NEW c \in Changes, Strict(f), Strict(Changed(f, c))
  PROVE  LET g == Changed(f, c) equal == EffectiveEqual(f, g, Compared(f, c))
             Asked(h) == \A n \in DOMAIN c : LET v == Get(Parse(h).props, c[n][1]) IN
                           Reads(c[n][1], v, c[n][2]) IN
         Asked(g) /\ (equal => Asked(f)) /\ (~equal => Meaning(g) # Meaning(f))
<1> DEFINE g == Changed(f, c) p == Parse(f) q == Parse(g) a == Assigned(c) d == Compared(f, c)
           V(k) == IF k \in KeysOf(a) THEN Get(a, k) ELSE Get(p.props, k)
           equal == EffectiveEqual(f, g, d)
           Right(h, n) == LET v == Get(Parse(h).props, c[n][1]) IN
                          Reads(c[n][1], v, c[n][2])
<1>1. c \in OnceLists
  BY ArgumentsAre
<1>2. /\ a \in OnceLists /\ KeysOf(c) \subseteq KeysOf(a) /\ \A k : Get(a, k) = Get(c, k)
  BY <1>1, AssignedIs
<1>3. \A n \in DOMAIN c : Get(c, c[n][1]) = c[n][2] /\ c[n][1] \in KeysOf(c)
  BY <1>1, GetIs DEF OnceLists
<1>4. p.props \in OnceLists
  BY ParseIs
<1>5. /\ g \in Seq(Line) /\ q.props \in OnceLists /\ KeysOf(q.props) = KeysOf(p.props) \cup KeysOf(a) \cup {"TAGS"}
      /\ \A k : k # "PRIORITY" => Get(q.props, k) = V(k)
      /\ "PRIORITY" \in KeysOf(q.props) => Get(q.props, "PRIORITY") = <<Atoi(V("PRIORITY"))>>
  BY <1>1, ChangedIs
<1>6. "STATUS" \in KeysOf(p.props) /\ "STATUS" \in KeysOf(q.props)
  <2>1. "STATUS" \in KeysOf(p.props)
    BY StrictIs
  <2> QED BY <1>5, <2>1
<1>7. d \in OnceLists /\ KeysOf(c) \subseteq KeysOf(d) /\ KeysOf(d) \subseteq KeysOf(a)
  BY <1>1, ComparedIs
<1>8. /\ \A k : Has(p.props, k) <=> k \in KeysOf(p.props)
      /\ \A k : Has(q.props, k) <=> k \in KeysOf(q.props)
  BY <1>4, <1>5, GetIs DEF OnceLists
<1>9. equal <=> \A n \in DOMAIN d : SameProperty(p.props, q.props, d[n][1])
  BY DEF EffectiveEqual
<1>10. Meaning(f) = [status |-> Get(p.props, "STATUS"), priority |-> Atoi(Get(p.props, "PRIORITY")),
                     tags |-> Get(p.props, "TAGS"), outcome |-> Get(p.props, "RESOLUTION"), depends |-> ToSet(Get(p.props, "DEPENDS")),
                     others |-> {x \in ToSet(p.props) : x[1] \notin Canonical \cup {"RESOLUTION", "DEPENDS"}}]
  BY DEF Meaning
<1>11. Meaning(g) = [status |-> Get(q.props, "STATUS"), priority |-> Atoi(Get(q.props, "PRIORITY")),
                     tags |-> Get(q.props, "TAGS"), outcome |-> Get(q.props, "RESOLUTION"), depends |-> ToSet(Get(q.props, "DEPENDS")),
                     others |-> {x \in ToSet(q.props) : x[1] \notin Canonical \cup {"RESOLUTION", "DEPENDS"}}]
  BY DEF Meaning
<1> HIDE DEF p, q, a, d, g, equal
<1>12. ASSUME NEW n \in DOMAIN c PROVE Right(g, n)
  <2>1. V(c[n][1]) = c[n][2] /\ c[n][1] \in KeysOf(q.props)
    BY <1>2, <1>3, <1>5
  <2>2. CASE c[n][1] = "PRIORITY"
    <3>1. Get(q.props, c[n][1]) = <<Atoi(c[n][2])>>
      BY <1>5, <2>1, <2>2
    <3>2. Atoi(<<Atoi(c[n][2])>>) = Atoi(c[n][2])
      BY AtoiType DEF Atoi
    <3> QED BY <2>2, <3>1, <3>2 DEF q, Reads
  <2>3. CASE c[n][1] # "PRIORITY"
    BY <1>5, <2>1, <2>3 DEF q, Reads
  <2> QED BY <2>2, <2>3
<1>13. ASSUME equal, NEW n \in DOMAIN c PROVE Right(f, n)
  <2> DEFINE k == c[n][1]
  <2>1. k \in KeysOf(d)
    BY <1>3, <1>7
  <2>2. SameProperty(p.props, q.props, k)
    <3>1. PICK m \in DOMAIN d : d[m][1] = k
      BY <1>7, <2>1, GetIs DEF OnceLists
    <3> QED BY <1>9, <1>13, <3>1
  <2>3. Right(g, n)
    BY <1>12
  <2>4. CASE k = "PRIORITY"
    <3>1. Atoi(Get(p.props, k)) = Atoi(Get(q.props, k))
      BY <2>2, <2>4 DEF SameProperty
    <3> QED BY <2>3, <2>4, <3>1 DEF p, q, Reads
  <2>5. CASE k = "DEPENDS"
    <3>1. ToSet(Get(p.props, k)) = ToSet(Get(q.props, k))
      BY <2>2, <2>5 DEF SameProperty
    <3> QED BY <2>3, <2>5, <3>1 DEF p, q, Reads
  <2>6. CASE k # "PRIORITY" /\ k # "DEPENDS"
    <3>1. Get(p.props, k) = Get(q.props, k)
      BY <2>2, <2>6 DEF SameProperty
    <3> QED BY <2>3, <2>6, <3>1 DEF p, q, Reads
  <2> QED BY <2>4, <2>5, <2>6
<1>14. ASSUME Meaning(g) = Meaning(f) PROVE equal
  <2>1. /\ Get(p.props, "STATUS") = Get(q.props, "STATUS")
        /\ Atoi(Get(p.props, "PRIORITY")) = Atoi(Get(q.props, "PRIORITY"))
        /\ Get(p.props, "TAGS") = Get(q.props, "TAGS") /\ Get(p.props, "RESOLUTION") = Get(q.props, "RESOLUTION")
        /\ ToSet(Get(p.props, "DEPENDS")) = ToSet(Get(q.props, "DEPENDS"))
        /\ {x \in ToSet(p.props) : x[1] \notin Canonical \cup {"RESOLUTION", "DEPENDS"}}
           = {x \in ToSet(q.props) : x[1] \notin Canonical \cup {"RESOLUTION", "DEPENDS"}}
    BY <1>10, <1>11, <1>14
  <2>2. ASSUME NEW k \in KeysOf(a) PROVE SameProperty(p.props, q.props, k)
    <3>1. CASE k = "PRIORITY"
      BY <2>1, <3>1 DEF SameProperty
    <3>2. CASE k = "TAGS" \/ k = "RESOLUTION"
      BY <2>1, <3>2 DEF SameProperty
    <3>3. CASE k = "STATUS"
      BY <1>6, <1>8, <2>1, <3>3 DEF SameProperty
    <3>3a. CASE k = "DEPENDS"
      BY <2>1, <3>3a DEF SameProperty
    <3>4. CASE k \notin Canonical \cup {"RESOLUTION", "DEPENDS"}
      <4>1. (k \in KeysOf(p.props) <=> k \in KeysOf(q.props)) /\ Get(p.props, k) = Get(q.props, k)
        BY <1>4, <1>5, <2>1, <3>4, SameOthers
      <4>2. Has(p.props, k) /\ Has(q.props, k)
        BY <1>5, <1>8, <4>1
      <4>3. k # "PRIORITY" /\ k # "DEPENDS"
        BY <3>4 DEF Canonical
      <4> QED BY <4>1, <4>2, <4>3 DEF SameProperty
    <3> QED BY <3>1, <3>2, <3>3, <3>3a, <3>4 DEF Canonical
  <2>3. \A n \in DOMAIN d : d[n][1] \in KeysOf(a)
    BY <1>7, GetIs DEF OnceLists
  <2> QED BY <1>9, <2>2, <2>3
<1> HIDE DEF Right
<1>15. \A n \in DOMAIN c : Right(g, n) /\ (equal => Right(f, n))
  BY <1>12, <1>13
<1>16. /\ \A n \in DOMAIN c : Right(g, n)
       /\ equal => \A n \in DOMAIN c : Right(f, n)
       /\ ~equal => Meaning(g) # Meaning(f)
  BY <1>14, <1>15
<1> QED BY <1>16 DEF Right, equal, g, d

\* What is written reads back, in each step.
LEMMA ReadsStep == ASSUME file \in Seq(Line), Next PROVE BulkReadsBack /\ NewReadsBack /\ SetReadsBack
<1>1. BulkReadsBack
  <2> SUFFICES ASSUME Wrote("bulk")
               PROVE  LET was == Updated(Load(file), did'.args) is == Load(file') IN
                      [is EXCEPT !.props = Outline(@)] = [was EXCEPT !.props = Outline(@), !.tags = Spelled(@)]
    BY DEF BulkReadsBack
  <2>1. PICK u \in Updates : file' = Render(Updated(Load(file), u)) /\ did'.args = u
    BY Steps DEF Did, Wrote
  <2> QED BY <2>1, BulkReads
<1>2. NewReadsBack
  <2> SUFFICES ASSUME Wrote("new")
               PROVE  LET n == did'.args[1][2] t == Load(file') IN
                      /\ t.title = n.title /\ t.priority = n.priority /\ t.tags = n.tags
                      /\ t.status = <<"OPEN">>
                      /\ Outline(t.props) = [i \in 1 .. 3 |-> <<<<"STATUS", "PRIORITY", "TAGS">>[i], <<>>>>] \o n.props
                      /\ SkipBlank(t.body) = SkipBlank(n.body)
    BY DEF NewReadsBack
  <2>1. PICK n \in News : /\ \A i \in DOMAIN n.props : n.props[i][1] \notin Canonical
                          /\ Strict(Created(n)) /\ file' = Created(n) /\ did'.args = << <<"new", n>> >>
    BY Steps DEF Did, Wrote
  <2>2. did'.args[1][2] = n
    BY <2>1
  <2> QED BY <2>1, <2>2, NewReads
<1>3. SetReadsBack
  <2> DEFINE Asked(h, c) == \A n \in DOMAIN c : LET v == Get(Parse(h).props, c[n][1]) IN
                              Reads(c[n][1], v, c[n][2])
  <2> SUFFICES ASSUME did'.op = "set"
               PROVE  did'.wrote = (Meaning(file') # Meaning(file)) /\ Asked(file', did'.args)
    BY DEF SetReadsBack, Reads
  <2>1. PICK c \in Changes :
          /\ did'.args = c /\ Strict(file) /\ Strict(Changed(file, c))
          /\ LET equal == EffectiveEqual(file, Changed(file, c), Compared(file, c)) IN
             \/ did'.wrote = FALSE /\ file' = file /\ equal
             \/ did'.wrote = TRUE /\ file' = Changed(file, c) /\ ~equal
    BY Steps DEF Did
  <2> DEFINE g == Changed(file, c) equal == EffectiveEqual(file, g, Compared(file, c))
  <2>2. Asked(g, c) /\ (equal => Asked(file, c)) /\ (~equal => Meaning(g) # Meaning(file))
    BY <2>1, SetReads
  <2> HIDE DEF Asked, g, equal
  <2>3. \/ did'.wrote = FALSE /\ file' = file /\ equal
        \/ did'.wrote = TRUE /\ file' = g /\ ~equal
    BY <2>1 DEF g, equal
  <2> QED BY <2>1, <2>2, <2>3
<1> QED BY <1>1, <1>2, <1>3

-----------------------------------------------------------------------------
\* A step of either part is one of the task file or leaves it alone.
LEMMA TaskSteps == PartsNext => Next \/ UNCHANGED vars
BY DEF PartsNext

\* Whatever is written, by a person or by a command, TASK.md is a sequence of lines.
THEOREM AlwaysLines == PartsSpec => [](file \in Seq(Line))
<1>1. PartsInit => file \in Seq(Line)
  <2>1. <<>> \in Seq(Line)
    OBVIOUS
  <2> QED BY <2>1 DEF PartsInit, Init
<1>2. file \in Seq(Line) /\ [PartsNext]_<<vars, todo, part>> => (file \in Seq(Line))'
  BY LinesStay, TaskSteps DEF vars
<1> QED BY <1>1, <1>2, PTL DEF PartsSpec

\* What new, set and ls -update write reads back as what they were asked to write, and set
\* writes if and only if this changes what the task means.
THEOREM WrittenReadsBack == PartsSpec => ReadsBack
<1>1. file \in Seq(Line) /\ [PartsNext]_<<vars, todo, part>>
      => [BulkReadsBack /\ NewReadsBack /\ SetReadsBack]_vars
  BY ReadsStep, TaskSteps
<1> QED BY <1>1, AlwaysLines, PTL DEF PartsSpec, ReadsBack

\* Set and ls -update leave the rest of a file that passes the strict checks as it is.
THEOREM NothingElseChanges == PartsSpec => UnaskedKept
<1>1. file \in Seq(Line) /\ [PartsNext]_<<vars, todo, part>> =>
      [Strict(file) /\ (Wrote("set") \/ Wrote("bulk")) =>
       LET asked == IF did'.op = "set" THEN {did'.args[n][1] : n \in DOMAIN did'.args} \cup {"RESOLUTION"}
                    ELSE {}
           was == Parse(file) is == Parse(file')
           kept == KeysOf(was.props) \ asked IN
       /\ is.title = was.title /\ is.body = was.body
       /\ kept \subseteq KeysOf(is.props)
       /\ \A k, l \in kept : Before(is.props, k, l) <=> Before(was.props, k, l)
       /\ \A k \in kept \ (IF did'.op = "set" THEN {} ELSE Canonical \cup {"RESOLUTION"}) :
            Get(is.props, k) = Get(was.props, k)]_vars
  BY UnaskedStays, TaskSteps
<1> QED BY <1>1, AlwaysLines, PTL DEF PartsSpec, UnaskedKept

\* No command makes a task the scheduler refuses to look at of one it does not, but for a
\* bulk update with a tag that is not UTF-8.
THEOREM StrictRemains == PartsSpec => StrictStable
<1>1. file \in Seq(Line) /\ [PartsNext]_<<vars, todo, part>>
      => [Strict(file) => \/ Strict(file')
                          \/ Wrote("bulk") /\ \E n \in DOMAIN did'.args :
                               did'.args[n][1] = "tag" /\ did'.args[n][2] \in Garbled]_vars
  BY StrictStays, TaskSteps DEF GarbledTag
<1> QED BY <1>1, AlwaysLines, PTL DEF PartsSpec, StrictStable
=============================================================================
