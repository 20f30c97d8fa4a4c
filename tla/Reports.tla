------------------------------ MODULE Reports -------------------------------
(***************************************************************************)
(* summary and graph (src/src/tatr.c), which read the database without     *)
(* its lock: task by task, by names that may come to mean something else   *)
(* in between.  Meanwhile other commands create tasks, fail to, and        *)
(* replace files, each as Store has them do it: a task is a directory      *)
(* before it is a file, and a file is replaced as a whole.                 *)
(***************************************************************************)
EXTENDS Naturals, Sequences, FiniteSets, SequencesExt

CONSTANTS Task, Tags,
          TaskFiles,  \* what may be in a TASK.md
          MaxWrites

VARIABLES db,       \* every task: nothing, a directory without a file, or the file
          writes,
          asked,    \* "summary", "summary -c" or "graph"
          pc,
          todo,     \* the children of the directory that are left
          child,    \* the one that is being loaded
          loaded,   \* the tasks that have been
          unseen,   \* the mentions graph has not looked at yet, each with the task it is in
          edges, dot,  \* what it has found, and what is in graph.dot
          summary,
          was,      \* the database when the report began
          since,    \* the files every task has had since then
          fault     \* whether something has failed, here or in a new that was undone

vars == <<db, writes, asked, pc, todo, child, loaded, unseen, edges, dot, summary, was, since, fault>>

Dir == [kind |-> "dir"]
Absent == [kind |-> "none"]
IsFile(x) == x.kind = "file"

ReportsAssumption ==
  /\ \A v \in TaskFiles : IsFile(v) /\ v.closed \in BOOLEAN /\ v.tags \in Seq(Tags) /\ v.mentions \subseteq Task
  /\ IsFiniteSet(Task) /\ MaxWrites \in Nat

NoSummary == [total |-> 0, untagged |-> 0, count |-> [t \in Tags |-> 0]]

Init == /\ db \in [Task -> {Absent} \cup TaskFiles] /\ writes = 0
        /\ asked = "nothing" /\ pc = "idle" /\ todo = {} /\ child = "nobody" /\ loaded = [i \in {} |-> Absent]
        /\ unseen = {} /\ edges = {} /\ dot = "nothing" /\ summary = NoSummary
        /\ was = db /\ since = [i \in Task |-> {}] /\ fault = FALSE

-----------------------------------------------------------------------------
\* The other commands.
Changes(i, x) == /\ writes < MaxWrites /\ writes' = writes + 1
                 /\ db' = [db EXCEPT ![i] = x]
                 /\ since' = IF IsFile(x) THEN [since EXCEPT ![i] = @ \cup {x}] ELSE since
                 /\ UNCHANGED <<asked, pc, todo, child, loaded, unseen, edges, dot, summary, was>>
Make(i) == db[i] = Absent /\ Changes(i, Dir) /\ UNCHANGED fault
Unmake(i) == db[i] = Dir /\ Changes(i, Absent) /\ fault' = TRUE
Replace(i) == /\ db[i] # Absent
              /\ \E v \in TaskFiles \ {db[i]} : Changes(i, v)
              /\ UNCHANGED fault

-----------------------------------------------------------------------------
Fails == /\ pc' = "failed" /\ fault' = TRUE
         /\ UNCHANGED <<db, writes, asked, todo, child, loaded, unseen, edges, dot, summary, was, since>>
Env == UNCHANGED <<db, writes, asked, was, since, fault>>

Start == /\ pc = "idle" /\ pc' = "list" /\ asked' \in {"summary", "summary -c", "graph"}
         /\ was' = db /\ since' = [i \in Task |-> IF IsFile(db[i]) THEN {db[i]} ELSE {}] /\ fault' = FALSE
         /\ UNCHANGED <<db, writes, todo, child, loaded, unseen, edges, dot, summary>>

\* load_tasks: the children, ...
List == /\ pc = "list" /\ pc' = "look" /\ todo' = {i \in Task : db[i] # Absent}
        /\ Env /\ UNCHANGED <<child, loaded, unseen, edges, dot, summary>>

\* ... what each of them is, which fails if it has gone, ...
Look == /\ pc = "look" /\ todo # {}
        /\ \E i \in todo :
             /\ todo' = todo \ {i}
             /\ \/ db[i] # Absent /\ child' = i /\ pc' = "exists"
                \/ db[i] = Absent /\ pc' = "failed" /\ UNCHANGED child
        /\ Env /\ UNCHANGED <<loaded, unseen, edges, dot, summary>>

\* Slip: a directory without a TASK.md is an error.
Passed_Failed == "failed"

Passed == "look"

\* ... whether it has a TASK.md, ...
Exists == /\ pc = "exists" /\ pc' = IF IsFile(db[child]) THEN "read" ELSE Passed
          /\ Env /\ UNCHANGED <<todo, child, loaded, unseen, edges, dot, summary>>

\* ... and what is in that.
Read == /\ pc = "read" /\ pc' = "look"
        /\ loaded' = [i \in DOMAIN loaded \cup {child} |-> IF i = child THEN db[child] ELSE loaded[i]]
        /\ Env /\ UNCHANGED <<todo, child, unseen, edges, dot, summary>>
Loaded == pc = "look" /\ todo = {}

-----------------------------------------------------------------------------
\* graph: one look at the file system for each mention.
Mentions == /\ Loaded /\ asked = "graph" /\ pc' = "mentions"
            /\ unseen' = UNION {{<<i, m>> : m \in loaded[i].mentions} : i \in DOMAIN loaded}
            /\ Env /\ UNCHANGED <<todo, child, loaded, edges, dot, summary>>

\* Slip: whatever looks like an id is linked.
Linked_Any(m) == TRUE

Linked(m) == IsFile(db[m])

Mention == /\ pc = "mentions"
           /\ \E e \in unseen : /\ unseen' = unseen \ {e}
                                /\ edges' = IF Linked(e[2]) THEN edges \cup {e} ELSE edges
           /\ Env /\ UNCHANGED <<pc, todo, child, loaded, dot, summary>>

\* write_entire_file, and neato, which makes graph.svg of it.
Dot == /\ \/ pc = "mentions" /\ unseen = {} /\ pc' = "dot" /\ dot' = "part"
          \/ pc = "dot" /\ pc' = "neato" /\ dot' = "whole"
       /\ Env /\ UNCHANGED <<todo, child, loaded, unseen, edges, summary>>
Neato == /\ pc = "neato" /\ pc' = "done"
         /\ Env /\ UNCHANGED <<todo, child, loaded, unseen, edges, dot, summary>>

-----------------------------------------------------------------------------
\* summary: the tasks that are closed, or those that are not, by their tags.
Chosen == {i \in DOMAIN loaded : loaded[i].closed = (asked = "summary -c")}

\* Slip: tasks are untagged from the first one without a tag on.
Untagged_Kept == {i \in Chosen : \E j \in Chosen : loaded[j].tags = <<>>}

Untagged == {i \in Chosen : loaded[i].tags = <<>>}

Occurs(t, s) == {n \in DOMAIN s : s[n] = t}
Count == /\ Loaded /\ asked # "graph" /\ pc' = "done"
         /\ summary' = [total |-> Cardinality(Chosen), untagged |-> Cardinality(Untagged),
                        count |-> [t \in Tags |-> Cardinality(UNION {{i} \X Occurs(t, loaded[i].tags) : i \in Chosen})]]
         /\ Env /\ UNCHANGED <<todo, child, loaded, unseen, edges, dot>>

\* The directory, a file or a child may fail the report at every step that uses one.
Fault == pc \in {"list", "look", "read", "mentions", "dot", "neato"} /\ Fails

Next == \/ \E i \in Task : Make(i) \/ Unmake(i) \/ Replace(i)
        \/ Start \/ List \/ Look \/ Exists \/ Read
        \/ Mentions \/ Mention \/ Dot \/ Neato \/ Count \/ Fault
Spec == Init /\ [][Next]_vars

-----------------------------------------------------------------------------
\* Without a lock a report is still one of tasks that were there: every task there was when
\* it began is in it, once, as it has been at some time since; no command that works as it
\* should makes it fail, though a task may be half created when it is found; and a summary
\* adds up: every task of the total is untagged or has a tag, and a tag's count is that of
\* its tasks, unless one of them has it twice.
AddsUp ==
  /\ summary.total = summary.untagged + Cardinality({i \in Chosen : \E t \in Tags : Contains(loaded[i].tags, t)})
  /\ \A t \in Tags : LET has == {i \in Chosen : Contains(loaded[i].tags, t)} IN
       /\ summary.count[t] >= Cardinality(has)
       /\ (\A i \in has : Cardinality(Occurs(t, loaded[i].tags)) = 1) => summary.count[t] = Cardinality(has)
ReportsWhatWas ==
  /\ pc = "failed" => fault
  /\ pc = "done" => /\ {i \in Task : IsFile(was[i])} \subseteq DOMAIN loaded
                    /\ \A i \in DOMAIN loaded : loaded[i] \in since[i]
  /\ pc = "done" /\ asked # "graph" => AddsUp

\* The graph leads from tasks to tasks: each arrow is a mention that was in the one, of
\* another that is there when graph ends, and what did not change meanwhile is all in it.
GraphLeadsToTasks ==
  pc = "done" /\ asked = "graph" =>
    /\ \A e \in edges : IsFile(db[e[2]]) /\ \E v \in since[e[1]] : e[2] \in v.mentions
    /\ \A i, m \in Task : /\ IsFile(was[i]) /\ since[i] = {was[i]} /\ m \in was[i].mentions /\ IsFile(was[m])
                          => <<i, m>> \in edges
=============================================================================
