-------------------------------- MODULE Tasks -------------------------------
(***************************************************************************)
(* The commands that change a database, at the level of whole tasks: new   *)
(* and set (src/src/scheduler.c), todo's creation, and the bulk update of  *)
(* ls (src/src/tatr.c).  Each holds the exclusive lock from before it reads *)
(* until after it writes and store.c publishes a task in one step, which   *)
(* module Store is about; so a command is one action here, except that new *)
(* may die between mkdirat and renameat or find files unreadable in a check *)
(* that goes on without them, and that ls -update replaces one task after  *)
(* the other and may stop in between.  People's drafts, legacy tasks and   *)
(* what dead commands left are in the initial states.                      *)
(***************************************************************************)
EXTENDS Relations

CONSTANTS Absent,    \* no directory of that name
          Reserved,  \* a directory store_read refuses, such as one without TASK.md
          Drafts,    \* tasks people wrote
          Changes,   \* the property assignments given to set
          Keep,      \* "this property is not assigned"
          Commands,  \* the commands of an instance
          Actions    \* what ls -update is asked for in it: garble adds a tag that is not UTF-8,
                     \* which nobody checks, and clean takes it away

ASSUME TasksAssumption ==
  /\ Drafts \subseteq Task
  /\ \A a \in Changes : /\ a.status \in {"OPEN", "CLOSED", Keep}
                        /\ a.resolution \in {"", "DONE", "CANCELLED", Keep}
                        /\ a.spec \in Id \cup {None, Keep}
                        /\ a.depends = Keep \/ a.depends \subseteq Id
  /\ Absent # Reserved /\ {Absent, Reserved} \cap Task = {}
  /\ Commands \subseteq {"new", "set", "todo", "ls-update", "crash", "io"}
  /\ Actions \subseteq {"open", "close", "garble", "clean"}

VARIABLES db,   \* Id -> the task, or Absent or Reserved
          bulk,  \* the bulk update under way: its operation and the tasks left
          unread \* the tasks that the check of the last creation could not read

vars == <<db, bulk, unread>>

NoBulk == [op |-> "none", left |-> {}]

TypeOK == /\ db \in [Id -> Task \cup {Absent, Reserved}]
          /\ bulk \in [op: {"none"} \cup Actions, left: SUBSET Id]
          /\ unread \subseteq Id

\* The readable tasks.  load_tasks wants all of them, scheduler_discover also a header it
\* can classify; otherwise they read nothing at all.
Records(d) == [i \in {j \in DOMAIN d : d[j] \notin {Absent, Reserved}} |-> d[i]]
Loaded == \A i \in Id : db[i] # Reserved
Discovered == Loaded /\ \A i \in DOMAIN Records(db) : db[i].header # "garbled"

With(rs, i, t) == [j \in DOMAIN rs \cup {i} |-> IF j = i THEN t ELSE rs[j]]

Init == /\ db \in [Id -> Drafts \cup {Absent, Reserved}]
        /\ bulk = NoBulk /\ unread = {}

Put(i, t) == db' = [db EXCEPT ![i] = t]
Idle(c) == c \in Commands /\ bulk = NoBulk

-----------------------------------------------------------------------------
Open(spec, depends) == [header |-> "strict", status |-> "OPEN", resolution |-> "",
                        spec |-> spec, depends |-> depends]

\* Slip: only a SPEC is noticed, a dependency is not.
Incoming_Spec(rs, i) == \E j \in DOMAIN rs : rs[j].spec = i

\* scheduler_incoming_candidate: a draft already names the new id.
Incoming(rs, i) == \E j \in DOMAIN rs : i \in Edges(rs[j])

\* The graphs new validates: around the new task, as a container if drafts make it
\* one, and around every task that depends on it.
NewGraphOK(rs, i) ==
  /\ IF i \in Containers(rs) THEN ScopeOK(rs, i) ELSE GraphOK(rs, i)
  /\ \A j \in DOMAIN rs \ {i} : i \in rs[j].depends => GraphOK(rs, j)

\* The draft check takes a directory or a file it cannot read for one that names nothing.
Missable(t) == IF "io" \in Commands /\ Edges(t) = {} THEN SUBSET DOMAIN Records(db) ELSE {{}}
Without(rs, missed) == [j \in DOMAIN rs \ missed |-> rs[j]]

NewAccepts(i, t, missed) ==
  LET rs == Records(db) IN
  /\ Strict(i, t)
  /\ Edges(t) # {} \/ Incoming(Without(rs, missed), i) => Discovered /\ NewGraphOK(With(rs, i, t), i)

New(i, spec, depends) ==
  /\ Idle("new") /\ db[i] = Absent
  /\ \E missed \in Missable(Open(spec, depends)) :
       NewAccepts(i, Open(spec, depends), missed) /\ unread' = missed
  /\ \/ Put(i, Open(spec, depends))
     \/ "crash" \in Commands /\ Put(i, Reserved)
  /\ UNCHANGED bulk

\* scheduler_create_legacy looks at no other task.
Todo(i) == /\ Idle("todo") /\ db[i] = Absent
           /\ Put(i, Open(None, {}))
           /\ unread' = {} /\ UNCHANGED bulk

\* scheduler_render_changes: assigning OPEN without a resolution clears it.
Assigned(old, new) == IF new = Keep THEN old ELSE new
Apply(t, a) ==
  [t EXCEPT !.status = Assigned(@, a.status),
            !.resolution = IF a.status = "OPEN" /\ a.resolution = Keep THEN ""
                           ELSE Assigned(@, a.resolution),
            !.spec = Assigned(@, a.spec),
            !.depends = Assigned(@, a.depends)]

EffectiveEqual(t, next) == t = next

\* With a fresh fingerprint; an assignment without effect writes nothing.
Set(i, a) ==
  LET next == Apply(db[i], a) IN
  /\ Idle("set") /\ Discovered /\ db[i] # Absent
  /\ Strict(i, db[i]) /\ Strict(i, next)
  /\ GraphOK(With(Records(db), i, next), i)
  /\ ~EffectiveEqual(db[i], next) /\ Put(i, next)
  /\ unread' = {} /\ UNCHANGED bulk

-----------------------------------------------------------------------------
(* ls -update: select under the lock, then replace one task after another. *)

\* A query selects among the open tasks, or with -c among the closed ones.
BulkStart(op, S) ==
  /\ Idle("ls-update") /\ Loaded
  /\ S # {} /\ S \subseteq DOMAIN Records(db)
  /\ \A i, j \in S : db[i].status = db[j].status
  /\ bulk' = [op |-> op, left |-> S] /\ unread' = {}
  /\ UNCHANGED db

\* update_task.
Updated(t, op) == CASE op = "close" -> [t EXCEPT !.status = "CLOSED"]
                    [] op = "open" -> [t EXCEPT !.status = "OPEN", !.resolution = ""]
                    [] OTHER -> t

\* How the header may be when it is written again: with the fields a legacy task left to
\* defaults, and with the tags the task has now.
Headers(t, op) ==
  CASE op = "garble" -> {"garbled"}
    [] op # "garble" /\ t.header = "garbled" -> IF op = "clean" THEN {"strict", "legacy", "garbled"} ELSE {"garbled"}
    [] OTHER -> {t.header, "strict"}

BulkReplace(i) ==
  /\ i \in bulk.left
  /\ LET next == Updated(db[i], bulk.op) IN
     \/ next = db[i] /\ bulk.op # "garble" /\ UNCHANGED db
     \/ /\ next # db[i] \/ bulk.op = "garble" \/ (bulk.op = "clean" /\ db[i].header = "garbled")
        /\ \E h \in Headers(db[i], bulk.op) : Put(i, [next EXCEPT !.header = h])
  /\ unread' = {} /\ bulk' = IF bulk.left = {i} THEN NoBulk ELSE [bulk EXCEPT !.left = @ \ {i}]

\* A replacement failed, or the process died: the rest stays as it is.
BulkStop == bulk # NoBulk /\ bulk' = NoBulk /\ unread' = {} /\ UNCHANGED db

-----------------------------------------------------------------------------
Next == \/ \E i \in Id : \/ \E spec \in Id \cup {None}, depends \in SUBSET Id :
                              New(i, spec, depends)
                         \/ Todo(i)
                         \/ \E a \in Changes : Set(i, a)
                         \/ BulkReplace(i)
        \/ \E op \in Actions, S \in SUBSET Id : BulkStart(op, S)
        \/ BulkStop

Spec == Init /\ [][Next]_vars

-----------------------------------------------------------------------------
\* No command breaks a graph: a task whose container and prerequisites were all
\* there, sound and acyclic still has that after any new, set, todo or ls -update,
\* whichever other task the command was about.  The one way to break it is to have ls -update
\* write a tag that is not UTF-8 into a task of that graph.
KeepsValid ==
  [][\A i \in Id : Valid(Records(db), i) =>
       \/ Valid(Records(db)', i)
       \/ bulk.op = "garble" /\ \E j \in Reach(Records(db), i) : db'[j].header = "garbled"]_vars

\* A creation that makes a dangling reference resolve leaves no invalid graph
\* behind it: all tasks that name the new one are valid afterwards, if any of them could
\* be read when new looked for them.
CreationValidates ==
  [][\A i \in DOMAIN Records(db)' \ DOMAIN Records(db) :
       LET naming == {j \in DOMAIN Records(db)' : i \in Edges(db'[j])} IN
       naming \subseteq unread' \/ \A j \in naming : Valid(Records(db)', j)]_vars

\* Nothing becomes satisfied unless somebody wrote DONE or dropped a prerequisite:
\* closing tasks, alone or in bulk, never completes a task or what depends on it.
DoneIsExplicit ==
  [][LET old == Records(db) new == Records(db)' IN
     (\E i \in Id : Valid(old, i) /\ Valid(new, i)
                    /\ ~Satisfied(old)[i] /\ Satisfied(new)[i])
     => \E k \in DOMAIN old : \/ old[k].resolution # "DONE" /\ new[k].resolution = "DONE"
                             \/ ~(old[k].depends \subseteq new[k].depends)]_vars

\* The prerequisites of i, and theirs.
Prerequisites(rs, i) ==
  LET closed == {S \in SUBSET Id : /\ rs[i].depends \subseteq S
                                   /\ \A k \in S \cap DOMAIN rs : rs[k].depends \subseteq S}
  IN {j \in Id : \A S \in closed : j \in S}

\* ready authorises exactly the open members all of whose direct and indirect
\* prerequisites are closed as DONE, and reports complete only if everything is.
ReadyIsRunnable ==
  LET rs == Records(db)
      Finished(S) == \A j \in S : rs[j].status = "CLOSED" /\ rs[j].resolution = "DONE"
  IN \A s \in Id : ScopeOK(rs, s) =>
       LET r == Report(rs, s) M == Members(rs, s) IN
       /\ r.ready = {i \in M : rs[i].status = "OPEN" /\ Finished(Prerequisites(rs, i))}
       /\ r.state = "complete" <=> M # {} /\ \A i \in M : Finished({i} \cup Prerequisites(rs, i))

\* No member drops out of sight: each is ready, blocked with a reason, unresolved or
\* satisfied, and never two of these.
EveryMemberExplained ==
  LET rs == Records(db) IN
  \A s \in Id : ScopeOK(rs, s) =>
    LET r == Report(rs, s)
        blocked == {b.id : b \in r.blocked}
        satisfied == {i \in Members(rs, s) : Satisfied(rs)[i]}
        Parts == <<r.ready, blocked, r.unresolved, satisfied>>
    IN \A i \in Members(rs, s) : Cardinality({n \in 1 .. 4 : i \in Parts[n]}) = 1

\* Work never gets stuck by itself: when nothing is ready but the spec is not
\* complete, some member or prerequisite was closed without DONE, or an open
\* prerequisite belongs to another spec or to none.
BlockedHasCause ==
  LET rs == Records(db) IN
  \A s \in Id : ScopeOK(rs, s) /\ Report(rs, s).state = "blocked" =>
    \E i \in Members(rs, s) : \E j \in {i} \cup Prerequisites(rs, i) :
      \/ rs[j].status = "CLOSED" /\ rs[j].resolution # "DONE"
      \/ rs[j].status = "OPEN" /\ j \notin Members(rs, s)

\* What ready answers can be acted on: what it authorises is runnable, what it calls
\* complete is, and what it calls blocked waits for something that can be named.
ReportIsTrue == ReadyIsRunnable /\ BlockedHasCause

\* The snapshot token vouches for the report: if it did not change, neither did
\* what ready says, whatever happened to the rest of the database.
SnapshotVouches ==
  [][LET old == Records(db) new == Records(db)' IN
     \A s \in Id : /\ ScopeOK(old, s) /\ ScopeOK(new, s)
                   /\ Snapshot(old, s) = Snapshot(new, s)
                   => Report(old, s) = Report(new, s)]_vars
=============================================================================
