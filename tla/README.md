# A verification development of tatr

tatr keeps tasks as files: a directory per task, named by a time stamp (a HUID), with a
`TASK.md` in it. One short-lived process runs per command, and several may run at once,
next to people who edit the files by hand. This directory models what can go wrong in
that, checks it with TLC, and proves with TLAPS what matters most of the storage layer, the
scheduler's graphs and reports, the task files, the query language, the command line, setup,
the reports without a lock, and the build program with its test plan.

## The system

| Part | Source | State | Operations |
|-|-|-|-|
| Store | `src/src/store.c` | an flock on the database, open descriptors, a result code | open, close, read, replace, create |
| Scheduler | `src/src/scheduler.c` | the records it read: header facts, colours, flags | `new`, `set`, `find`, `ls -json`, `check`, `ready`, and the dispatch of all locked commands |
| Bulk update | `src/src/tatr.c` (`ls_run`), `update.c` | the tasks loaded, the position in the list | `ls -update` |
| Query language | `src/src/query.c` | the compiled operations, a value stack | compile, match |
| todo | `src/src/tatr.c` (`todo_run`) | the lines of a source file, the position, "yes to all" | walk, ask, create, rewrite |
| Task files | `src/src/md.c`, `task.c` | none | parse, check, render, load |
| Ids, numbers, text | `src/src/huid.c`, `scheduler.c`, `query.c`, `thirdparty/flag.h`, `thirdparty/sha256.c` | none | read and write ids, integers, UTF-8, JSON, fingerprints |
| Paths | `src/src/path.c`, `tatr.c`, `store.c` | the directory the search is at | discovery, `id`, `ref`, opening a database |
| init and setup | `src/src/tatr.c`, `setup.c` | what has been checked so far | `init`, `nvim-setup`, `skill-setup` |
| Reports | `src/src/tatr.c`, `task.c` | the tasks loaded, counters | `summary`, `graph` |
| Hash table | `src/thirdparty/ht.h` | slots, live and filled counts | put, find, delete, iterate, grow |
| Build program | `src/nob.c`, `thirdparty/nob.h` | binaries and their times, `build.h`, the files a test writes | rebuild itself, build, test, run |
| Editor plugin | `contrib/nvim/tatr.lua` | buffers | it runs tatr and shows what it prints |

How they interact: `main` finds the command; `scheduler_dispatch` scans the arguments,
opens the store, with an exclusive lock if the command changes tasks, runs the command and
closes the store. Commands read every task through `store_read` (`scheduler_discover`,
`load_tasks`), decide, and write one task with `store_create` or `store_replace`;
`ls -update` writes several, `todo` creates several and rewrites source files that no lock
protects. `summary`, `graph` and `ref` read without the lock; `id` reads no
task, `tag` and `untag` only print what to use instead.
Processes share nothing but the file system.

What is hard here: the system calls of one command interleave with those of others and of
editors without the lock; each of them may fail, and the process may die between any two;
inodes and process identifiers are reused; a change to one task can break the graph of
another; a report is acted on after the lock is gone; the same text is read by several
parsers with rules of their own. The list, with lines, is under "hazards" in
`PROJECT.json`.

What makes each part correct:

- Store: nobody sees a half-written task, no update is lost, replies are true, failures
  clean up after themselves, the lock is given back.
- Dispatch: the lock and the database are those of the command that runs in the end.
- Graph validation: a verdict for every graph, the right one.
- `new`, `set`, bulk updates: a valid graph stays valid, whichever task was changed.
- `ready`: authorises exactly what can be worked on, explains the rest, and its token
  stands for all that it says.
- Queries: what is accepted, what it means, and that errors show before the first write.
- `todo`: no mark without a task, no source line changed otherwise, no comment twice.
- Task files: what is written reads back, and what nobody asked to change stays.
- Text: what one reader accepts the next reads in the same way.
- Paths: the nearest database, and never one behind a link.
- Setup: nothing of the user's is overwritten, and success means installed.
- Reports: every task reported was one; nobody's absence fails a report but a failed `new`.
- Build: always a build program, never a stale one, and an honest exit status.

## Modules

| Module | Models | Builds on |
|-|-|-|
| `Database` | what the store promises: compare and swap, reserve then publish | |
| `Store` | `store.c`, a step per system call, and the lock mode of dispatch | |
| `StoreSafety` | properties of Store, the inductive invariants, the refinement | Store, Database |
| `StoreProofs` | proofs about Store: no torn files, exclusion, no lost updates, its promises, `Database` implemented | StoreSafety |
| `StoreFaultsProofs` | the same for the failures and deaths of `MCStoreFaults` | StoreProofs |
| `Relations` | records, strictness, graph validity, readiness, the snapshot, as functions | |
| `Tasks` | `new`, `set`, todo's creation and `ls -update` on whole tasks | Relations |
| `TasksProofs` | proofs about reachability, cycles, satisfaction and changed graphs, and about Tasks | Tasks |
| `Visit` | the depth-first search of `scheduler_visit` and `scheduler_graph`, step by step | Relations |
| `TaskFile` | one `TASK.md`, line by line: parsing, strict checks, rendering, every writer | |
| `Todo` | `todo_run` and the source files it rewrites | |
| `FilesProofs` | proofs about Todo and TaskFile | MCFiles |
| `Query` | `query.c`: the compiler, the machine, and the grammar they must agree with | |
| `Text` | readers of ids, integers, UTF-8, JSON strings, with their widths | |
| `Formats` | tag lists, TUL, paths, JSON replies, the message a fingerprint hashes | Text |
| `TextProofs` | proofs that what is written can be read | MCDecisions |
| `DecisionsProofs` | proofs that the search decides validity, that compiler and machine agree with the grammar, and that readers agree | TextProofs |
| `Dispatch` | a command line from `main` to its effect: scan, flag parser, handler | |
| `EntryProofs` | proofs about Dispatch and Paths | MCEntry |
| `Paths` | the walk up, `id` and `ref`, and `store_open`'s walk down | |
| `Setup` | `init`, `nvim-setup` and `skill-setup`, a step per call | |
| `Reports` | `summary` and `graph` without the lock | |
| `Dictionary` | what a table promises | |
| `HashTable` | `ht.h`, a step per slot that is moved | Dictionary |
| `Build` | the build program up to the compilation of tatr | |
| `Phases` | its phases, tests and commands, a step per call | |
| `ProjectProofs` | proofs about Build, Setup, Phases, Reports and HashTable | MCProject |
| `MC*` | values for TLC, and the modules that are checked together | |

**Store.** `pc` is the next step of a store call, named after the function or call it makes;
`call` holds its descriptors and locals (`taskst`, `dfd`, `ffd` and the temporary);
`loaded` is what `store_read` returned, which callers compare with. `node` gives each
directory identity its `TASK.md` (identity and bytes) and its temporary files. Identities
(device and inode) are taken from small sets and handed out again once neither a name nor a
descriptor leads to them, so reuse happens in the runs. A process's temporary names consist
of its identifier, which is reused after exit, and the attempt. `Env` says what an instance
allows: failing calls (`io`), the failing `fstat` after creation (`stat`), death (`crash`),
an editor without the lock (`editor`); and `cleanup`, the removal of a temporary file
(`remove_owned`) or of the reserved directory failing, which nobody is told of. `stuck` remembers
what such a removal has left, and a directory cannot be removed while a temporary is in it.
An interrupted call that the code repeats is one step. `committed` is `write_state`.

**Dispatch.** An argument is a flag, with the mark the parser sees, or a word good for
something. The scan and the parser are two loops over the same arguments; `opened`, `lock`
and `handler` are what the scan decided, `flags` what the parser understood, `effect` how the
command ended. Each command has its table of flags, and each `Run…` is what its handler
checks before it works.

**Paths.** A file system is a set of paths with a kind each, a link leading to another path.
`dir` is where `find_tasks_database` has come to; `fd`, `path` and `todo` are the descriptor,
the identity and the rest of `store_open`. Directories that may be passed but not read are
the reason for the detour at `store.c:144`; a directory may also be one that cannot even be
searched (`"dark"`). `PathsAssumption` says what every file system keeps to: what is there has
a real name, and is in a directory, up to the root.

**Relations and Visit.** A record keeps the facts decisions depend on. `header` stands for
everything else `scheduler_strict` wants of the text: it is `"strict"`, or `"legacy"` when something is missing or
malformed, or `"garbled"` when the header is not even UTF-8; then the task cannot be classified
at all, and `scheduler_discover` refuses the whole database. `Relations` states validity with reachable sets and acyclic sets;
`Visit` walks the records with colours and a stack as the code does, and the two agree.

**Tasks.** A command is one action, because `Store` shows that it is alone and that
publication is one step. `new` may die half way (`Reserved`); `ls -update` goes task by task
and may stop anywhere. The records people and older versions wrote are the initial states.
`Actions` is what a bulk update is asked for, one action at a time (`TaskFile` has sequences of
them): `garble` stands for a tag that is not UTF-8, which the code writes as it is, and `clean`
for taking one away. The search for drafts that name a new id takes a directory or file it cannot
read for one that names nothing (`scheduler.c:236`): `unread` remembers which tasks the last
creation missed in this way, any of them if `"io"` is among the commands.

**TaskFile.** A line is a title, a property with its words, another text, or has a NUL in it.
`Parse` is the lenient parser, `Strict` the scheduler's, `Render` the writer; `did` remembers
the last command for the properties. A property's words are not empty (`Words`), but a tag given
to `ls -update` may be, and is nothing between two commas once it is written (`Spelled`).
`Garbled` are the strings that are not UTF-8.

**Todo.** A line is code, a comment, or a mark, which is the id of its task. Ids in the model
come in no order. A line ends with its newline; that the rewritten file gets one behind a last line
that had none (`lines_concat`, `tatr.c:493`) is below this grain. One process runs at a time, since `todo` keeps the exclusive lock while it
asks. The prompt may get every answer, and the end of input, on which the program aborts.

**Query, Text, Formats.** A state is a text; each property is evaluated on every text. The
functions of the query compiler are one recursive function, `Compiled`, over `Points`: a
position, and either a level of expressions (primary, comparison, conjunction, disjunction) or
the loop of a level. `Readings` is the grammar: the set of readings of each span of words at each
level, a reading being a tree with what it means for each task. `QueryAssumption` has literals
that fit in 32 bits, and that a tag, a number and an id look different, which is how
`compile_query_primary` tells them apart. In `Text` the widths are parameters, so that the ends
of `int`, `long` and `uint64_t` are a few digits away; blocks in `Formats` are short for the same
reason. A JSON reply is a sequence of tokens.

**Setup and Reports.** What git, Neovim and `neato` answer is a choice. In `Setup` the user
changes any file between any two calls; `quiet` says that he has not. In `Reports` the other
commands do to a task what `Store` lets them do: a directory first, then a file, replaced as
a whole, or the directory undone.

**HashTable.** A put is one step for each capacity tried, one for each slot moved, and the last;
`Dictionary` sees the first and the last. Slots found are written at once, as its callers do.

**Build and Phases.** A file is a version and a time in whole seconds. `Build` is
`nob__go_rebuild_urself` and what makes tatr; `Phases` is the plan of `main` after that, each
command being opened, started, waited for and closed, with the working directory, the files
the tests judge by, and the exit status. Sources may belong to both programs, as `huid.c` and
`nob.h` do. When the check for a rebuild itself fails (`nob.h:1127`) the program exits before it has
changed anything, which leaves what a kill at that point leaves.

## Runs

Modules that do not share state are checked in one run: the variable `part` of an `MC` module
chooses one of them at the beginning and never changes, and the others stay as they are.
What a property says of one part, its run checks for that part's behaviours.

| Run | Bounds | Shows |
|-|-|-|
| `StoreFaults` | 2 processes, 1 task, 2 contents; 3 calls each of which any may fail, its cleanup too, or 2 with death at any step | exclusion, true replies, only the dead and failed cleanups leave files, the dead block nobody, refinement of `Database`, commands end |
| `StoreEditor` | 2 calls each, 2 edits, failing calls and `fstat`, death | no lost update, no torn task, the invariant `GInv` |
| `TasksRuns` | every database of 3 drafts and one command, any of them unreadable; 3 drafts of one relationship at most and bulk updates with tags that are not UTF-8; 3 tasks grown from nothing by all commands | valid graphs stay valid but for such tags, creations validate, `ready` explains every member and what it answers can be acted on, DONE is explicit, the snapshot vouches |
| `EntryRuns` | a usable line of each locked command with up to 2 arguments inserted, short lines of the others; 3-level trees with links and unreadable directories | locks, databases, discovery, opening |
| `FilesRuns` | files of 4 beginnings, 4 headers with a line added, 5 bodies, 3 commands; 2 runs of `todo` over 2 files of 2 or 3 lines, failures, death | reading back (but for an empty tag), strict files stay strict (but for a tag that is not UTF-8), nothing else changed, marks and tasks correspond, `todo` ends |
| `DecisionsRuns` | every graph of 3 records; queries of up to 7 words; texts of up to 8 characters | the search decides validity, the compiler and the machine agree with the grammar, readers agree, what is written can be read |
| `ProjectRuns` | 3 kinds of sources, 2 edits, 2 seconds; the whole test plan; 2 setup commands and 1 edit; 2 tasks and 2 writes; 3 colliding keys | everything about building, setup, reports and the table |
| `StoreUnlocked` | 2 bulk updates spelled `-update=OPS` | a lost update (violation) |
| `TasksTodo` | every database of 3 drafts, then `todo` | an invalid graph appears (violation) |
| `DispatchEquals` | lines with `-db=DIR` | `new` writes to another database (violation) |
| `DispatchCrash` | the lines of `EntryRuns` | `todo -json` crashes (violation) |
| `FileLegacy` | the files of `FilesRuns` | a bulk update loses a header (violation) |

Why the bounds are enough to be of interest. In Store every hazard is about one task and two
parties: two writers, a writer and what a dead namesake left, a writer and an editor; two
directory and three file identities are the fewest with which reuse can deceive a check.
In the graphs, three records hold a container, a member and a prerequisite, or a cycle
through two others; longer chains are what the theorems are for. In queries, seven words hold
brackets with an operator inside and one outside, `not` before brackets, all pairs of
precedences, and comparisons under a connective; a text with two words side by side that can
never be so (`Hopeless`) is checked but not continued, since the compiler stops there.
Two inserted arguments are a
flag and its word, or a flag behind another's; three levels of directories hold one that
cannot be read above one that can. In the table, three keys whose probes meet fill the
smallest array beyond its load with entries and tombstones. Texts are as long as it takes to
pass the end of an id, of the widest integer, of the longest UTF-8 sequence, of a block.
Bounded counters: `MaxOps`, `MaxEdits`, `MaxUserEdits`, `MaxWrites`, `MaxTime`, `MaxAttempt`
(100 in the code; 2 is enough for "skip one, then run out"), `MaxRuns`, `MaxCommands`,
`MaxLen`, `Longest`. In `StoreFaults` and `FilesRuns` identities are not declared symmetric,
because the runs check liveness.

Deadlock is checked where the system cannot stop: the store always has a command that can
start. In the other modules a search, a text, a plan or a number of calls comes to its end.

Fairness. `Store`: a running process is scheduled, so it takes its next step and, after its
last call, closes; nothing makes a command start, a process die or an editor edit. `Todo`:
the process goes on and somebody answers the prompt; without the answer, the lock is held
for ever, as the documentation says. `HashTable`: a put, once begun, goes on. Nothing else
needs fairness, for nothing else is promised to happen.

Next to each definition that carries the correctness of the code stands a *slip*: the same
definition with a mistake somebody could make there (`FreeNames_FirstOnly`, `Overflows_Late`).
They are used nowhere. Every property has one it must catch, listed in `PROJECT.json`.

## Where the code and its documentation differ

With a run:

- `ls -update=OPS` is accepted by the flag parser but not noticed by `scheduler_dispatch`
  (`scheduler.c:649`), so the update runs under the shared lock. `StoreUnlocked` has two such
  updates lose one, against "new/set/ls-update/todo task writes hold an exclusive lock".
- `todo` creates without validating graphs its new id completes (`scheduler.c:678`), against
  what the tests document says of creation. `TasksTodo`. It takes a draft that names an id of
  the future.
- `-db=DIR` is accepted by the parser of `new` and the other scheduler commands and ignored by
  the scan (`scheduler.c:509`), so the discovered database is used, against "Explicit invalid
  paths never fall back". `DispatchEquals`.
- `todo -json` prints a task there is none of (`scheduler.c:630`) and crashes. `DispatchCrash`.
- `ls -update` of a file without a title loses all of its properties and its body
  (`md.c:86`), against "try its best to not disturb them too much". `FileLegacy`.

Seen while modelling, in the models where the modules are named, but without a run:

- If `fstat` fails on what was just created (`store.c:418`, `store.c:524`), the temporary file
  and the reserved directory stay, against "Handled pre-rename failures preserve the original
  and remove only owned temporary files" (`Store`, with `stat` in `Env`). They also stay, unnoticed,
  if their removal fails (`store.c:444`, `store.c:567`, `Store`, with `cleanup`).
- `ls -/update WORD -update OPS`: the parser ignores a flag marked `/` together with its word,
  the scan takes the word for a positional and looks no further, and the update runs under the
  shared lock (`scheduler.c:649`, `flag.h:624`, `Dispatch`). The proofs about Dispatch exclude
  exactly such spellings.
- `-help=WORD` is a flag to the parser and none to the scan (`Dispatch`).
- `-json` is not seen behind an option with a word: `find -p id -json` replies with a text error
  (`scheduler.c:523`, `Dispatch`).
- Without `-db`, a database that is found from the working directory is not opened if a
  directory above the working directory may not be searched: the walk is from the root, through
  the working directory (`tatr.c:78`, `store.c:97`, `Paths`).
- `id` prints the name of any directory right below `tasks` (`tatr.c:648`, `Paths`).
- `init` takes a file or a dangling link called `tasks` for a directory (`tatr.c:158`, `Setup`).
- `-run` of a program that fails exits with 0 (`nob.c:388`, `Phases`); the tests ignore what
  `set_current_dir` returns.
- `chop_huid` accepts an id that is cut short by the end of the text (`huid.c:33`, `Text`).
- The multiplication by a size's suffix wraps around unnoticed (`flag.h`, `Text`; no command
  declares such a flag). A query literal beyond 32 bits is compared modulo 2^32.
- `ls -update +` adds a tag without a name, which does not read back (`update.c:30`, `TaskFile`).
- `ls -update` writes a tag that is not UTF-8 (`update.c:28`); from then on `scheduler_header` refuses
  the task (`scheduler.c:139`), and with it every `set`, `check`, `ready`, and `new` with
  relationships, for any task of the database, until another bulk update takes the tag away
  (`Tasks`, `TaskFile`; `KeepsValid` and `StrictStable` except exactly this).
- The search for drafts before a `new` goes on without what it cannot open, list or read
  (`scheduler.c:236`, `Tasks`), so the graphs of drafts it missed are not validated;
  `CreationValidates` excepts creations for which it missed all of them.
- `path_normalize` takes the root back on `/..` (`path.c:29`; only its test calls it);
  `path_parse` drops one slash at the end.
- `tatr graph` without `neato` reports `graph.dot` twice on a pipe; `summary` counts a tag
  twice that a task lists twice, and its warning about tag descriptions counts lines from 0.
- A report fails if a `new` is undone while it runs (`Reports`).
- `todo` aborts at the end of its input (`tatr.c:598`, `Todo`).

## Proofs

Each theorem holds for every value of the constants that satisfies the module's named
assumption; what else it supposes stands in front of it, as an implication. Each is proved
from an invariant that TLC checked on an instance first.

### Store

`ConstantsAssumption`: the bounds are numbers, there is an attempt, and `Nil` and `Partial`
are no other value. `StoreProofs` proves, for any number of processes, tasks, contents,
identities and attempts, and any `Env`:

- `TypeCorrect`: `Spec => []TypeOK`.
- `NoTornTask`: `Spec => []NeverTorn`.
- `Exclusion`, `GuardInvariant`, `NoLostUpdate`: `[]WriterAlone`, `[]GInv` and
  `GuardedRename`, if the spelling `-update=OPS` is not among the commands. With it they are
  false, as `StoreUnlocked` shows.

Types alone are not inductive: what a step writes depends on locals earlier
steps set. `IInv` adds `Control`, which says for each program counter what lock the process
holds and what its call's fields are (between `write_temp` and `rename` the temporary is
there and complete, after `open_dir` there is a directory, ...), the lock table (an exclusive
holder is alone), and that no directory and nothing loaded has partial content. It is kept by
each kind of action (`OpenInv`, `StartInv`, `StepInv`, `LeaveInv`, `EditInv`). Exclusion
follows from `Control` and the lock table. For lost updates, `GInv` adds what the checks
before the rename found: from `check_file` on, the name leads to the open directory, and at
the rename the file holds the loaded bytes, unless `window` says that an editor came in
between. Other processes cannot undo that, because the process is alone (`CheckedInv`), and
its own steps do not.

It also proves what the commands rely on, if nobody edits without the lock and
`-update=OPS` is not used (`AllLock`); with an editor `Database` would need one too:

- `RepliesAreTrue`: `[]HonestReply`.
- `StoreIsDatabase`: `Implements`, the refinement of `Database`.
- `HandledFailuresTidy`: without deaths and without the failing `fstat` (`NoStat`), every
  temporary file and every directory without its `TASK.md` belongs to a call under way, or its own
  removal has failed (`stuck`), or it is a directory with such a file in it. With
  a death or that `fstat` the statement is false; for the `fstat` see the list above.
- `DeadStopNobody`: if calls do not fail, a command fails only when the dead have used every
  temporary name it may try.

The invariant `RInv` adds to `GInv` that names lead to different directories and, for each
process (`Local`), that the name leads to what is open, what was loaded is still there unless
it was replaced, what was published is there, and whether the call has made a directory or
published anything. This is more than the program checks: it re-checks under the lock what
the lock already grants. In the refinement a task that is loaded maps to `Database`'s `seen`,
a directory without a file under a `create` to its reservation, and each system call to a
step of `Database` or none: `mkdir` to the reservation, the read of the bytes to the read, the
rename to the publication, which needs all of `Local` for its guard to be true. `HonestReply`
follows. For tidiness each process knows what it has made (`Tidy`) and what is there is known
to somebody or stuck (`Owned`, `Claimed`); for `DeadStopNobody`, an error is recorded together with the
full directory that caused it (`NoRoom`). `StoreFaultsProofs` carries the last two over to the
properties of `MCStoreFaults`, whose dying processes are a second instance of `Store`.

### Tasks and graphs

`TasksProofs` begins with lemmas about graphs: `Reach` is the least closed set; a set is acyclic if each of
its parts has a record with no edge into that part, and so two functions that satisfy
the equation of `Satisfied` agree, since at such a record they could not differ first; and a
write of one record leaves the graph of another valid if the writer's checks passed. It
proves, for any ids, drafts, assignments and commands:

- `GraphsStayValid`: `KeepsValid`, for every command and every step of a bulk update; its one
  exception is a tag that is not UTF-8, written into a task of that graph.
- `CreationIsChecked`: `CreationValidates`, if `todo` is not used or there are no drafts.
  Otherwise it is false, as `TasksTodo` shows. It excepts creations for which every task that
  names the new one could not be read.
- `DoneNeedsWriting`: `DoneIsExplicit`. `TokenVouches`: `SnapshotVouches`.
- `MembersExplained`, `ReadyAuthorises`, `BlockingHasCause`: what a report says of each member
  of its scope, `[]EveryMemberExplained`, `[]ReadyIsRunnable`, `[]BlockedHasCause`; the last
  two together are `ReportIsTrue`, theorem `AnswersCanBeActedOn`.

The invariant `IInv` is short, since whole commands are steps: types, and that a bulk update
has only tasks before it. The work is in the graphs. Each step is one of a few kinds of change
to the records (`RecordsStep`).

`DecisionsProofs` proves `SearchDecides`: `[]DecidesValidity`, for any ids and any
records, cycles, missing ones and legacy ones included. The invariant is that of a depth-first
search: the stack is a path of exactly the records begun and not finished (`Path`); the search
has come from its root (`Entered`); each record begun passed its checks (`Checked`); of those
on the stack, what has been followed is finished or is next on the stack (`Followed`); what
is finished is closed and acyclic (`Finished`).

### todo

`FilesProofs` proves, for any source files, arguments and number of runs, with failing calls
and deaths (`TodoAssumption`: no id looks like a line of code or a comment):

- `SourcesAreKept`: `[]SourceKept`. `MarksLeadToTasks`: `[]OneTaskPerComment`.

`TodoInv` says of what is in memory what it says of what is on disk, since the one becomes
the other: both are the lines people wrote, or the first of them, with ids of tasks in the place of comments
(`SourcesMarked`); and as long as nothing has failed they are the same until a task is made.
From then until the write is done the mark is only in memory, so marks and tasks are counted
in `Current`, what is on disk or will be (`OneEach`). `Create` in the model needs an id that is left;
in the code a new one comes with each second.

### Task files

`FilesProofs` also proves, for any strings, any lines people write, any lists of properties,
tags and updates, and any number of commands:

- `AlwaysLines`: `[](file \in Seq(Line))`, the invariant of the others.
- `WrittenReadsBack`: `ReadsBack`. `NothingElseChanges`: `UnaskedKept`.
- `StrictRemains`: `StrictStable`.

`TaskFileAssumption` gives the inputs their types, and says that no key comes twice in a `new` or
a `set`: `scheduler_property_args` refuses one that does (`scheduler.c:376`); and `new` takes
only an integer for a priority (`scheduler_integer`). Updates are what the TUL parser lets
through. Nothing is supposed of what people write.

The invariant says little, since every command reads the whole file and writes the whole file.
The work is in what one step computes. The parser and every writer keep the properties in a list
without repeated keys by `Put`, again and again. A fold has no induction principle that could be
cited here, so it is first shown to be the last of a chain of values, each made from the one
before (`FoldsExist`), and then what each `Put` keeps is kept along the chain (`AlongChain`):
that keys do not repeat, that keys nobody names have the words they had, and that of those named
the last words count. The other half is that `Parse` undoes `Render`. Where the header ends is
found by the first line of another kind, so all depends on what such a search finds in lines that
were put behind each other (`LaidIs`, `RenderIs`); the body of a task that was parsed does not
begin with a property, and `new` puts a blank line before the one it is given, so the header ends
where it was made to end (`LoadRender`). `StrictRemains` and `NothingElseChanges` then compare
the lists before and after.

### Queries

`DecisionsProofs` also proves, for any words, tags, numbers, ids and tasks, and queries of any
length:

- `CompilerAccepts`: `[]AcceptsGrammar`. `MachineMeans`: `[]MachineAgrees`.

`QueryAssumption` is all they suppose. Here the invariant says only that a query is made of
words, and the two properties are about two recursive functions. That each satisfies its
equation on every query is an induction on how much is left to be read (`Remaining`, `Size`),
done on the set of the numbers for which it holds (`AllNumbers`). Then:

- What the compiler takes has a reading (`Readable`), by the same induction on its own calls.
- What has a reading is compiled, and to the code of that reading, if the loop of its level would
  not go on behind it (`Coded`, `SettledIs`). The grammar puts the last operator of a level at
  the top, the loop takes the first one first; so a reading is taken apart at its last
  operator, and the compiler's call is one step of the loop longer than that of the left part.
- The code of a reading, run on any stack, puts one item on top of it, the reading's meaning,
  or stops with a type error when there is none (`CodeOf`, `Follows`). This does not go through
  the stack alone: run on trees in the place of values, the same code puts the reading's tree
  on top (`Leads`). As a machine has one outcome (`LeadsAlone`), two readings with one code are
  the same, and so the grammar, whose readings all compile to what the compiler
  returns, is unambiguous.
- What type an item has depends on the operation and not on the task (`Sense`), so a type error
  for one task is one for all. This is why `ls -update` finds it before its first replacement.

### Ids and numbers

`DecisionsProofs` proves, for texts of any length over any characters, and for every width of
the code:

- `ReadersDo`: `[]ReadersAgree`.

`TextAssumption` is all it supposes: the widths are natural numbers in the order they have in
C, and an int holds more than ten. Each reader is brought to the same terms, which are read off
the text without recursion: how many spaces it begins with, which sign follows, how many digits
follow that, and what number these denote (`TrimIs`, `DenotedIs`, `CountIs`, `BeginningIs`). The
readers are folds, over indices, digits or suffixes. That a fold is the end of a chain of values, each from the one
before it, is proved once (`FoldsExist`, `FoldsChain`, in `TextProofs`), and what a fold keeps is then an induction
along that chain (`AlongChain`): that the value of the digits read so far is exact until a limit
is passed and never comes back below it (`CountFits`, `IntegerIs`), that arithmetic modulo the
width of a word stays equal to the number modulo that width (`StrtolIs`, `AsIntIs`), and that
trailing spaces, which only one of the readers takes off, hide no digit (`TrimmedDenotes`). For
ids, the digits, the dash and the rest are in the same places for `chop_huid`, `is_valid_huid` and the store
(`NamesDo`).

### Output that is read again

`TextProofs` proves, for texts of any length over any characters, and for every tag list,
update, path, reply and message made of them:

- `OutputsDo`: `[]OutputReads`.

`FormatsAssumption` adds to that of `Text` that a length fits in a block with its mark to spare, and that a text of
the kind `"reply"` says what a record has: so many tags, prerequisites and properties. The writers and readers here are functions of sequences that go from one
end to the other, so each part finds the few facts that stay true on the way:

- Sequences grow at their end, and what holds of the empty one and is kept by one more element holds of
  all (`SeqGrows`). Splitting a text is undone by joining it, and the other way round, as long as no part
  contains a separator.
- The standard's reading of UTF-8 and that of `scheduler_utf8` take the same first
  character, and leave the same rest; likewise for the characters of a JSON string and what it is escaped to.
- A path is normalised part by part, and what has been kept so far has no detour in it (`Tidy`) and
  leads as deep as what was read (`Depth`), so a part that no `..` takes back has its place.
- The reader of JSON is one function, `Go`, from a position to the position behind a value. What the
  writer of a reply puts out is a value wherever it stands, for strings, figures, lists and objects,
  and so for each reply made of them; a list has no comma too many because its members are written
  behind each other with one between any two (`RunsFlat`).
- A message's blocks, put behind each other, are the message, the mark, zeros and the length, whether
  or not the end needs a block of its own; from these the message can be told.

### The command line

`EntryProofs` proves, for command lines of any length:

- `LockedAsTyped`: `[]WritesLocked`. `NamedIsOpened`: `[]OneDatabase`.

Both suppose `SpelledOut`: no `-f=WORD` for the four flags the scan looks for, and no `-/f` for a flag
with a word. Those are the spellings only one of the two readers knows, and with them the
properties are false (`DispatchEquals`, and the list above). The documentation's reading of a
line is the recursive function `Kinds`: each argument is an option, an option with a word, its
word, or a positional, by the kind of the one before it. That it satisfies its equation for
lines of any length is proved first, by a least counterexample (`KindsAre`). `EntryInv` then
says how far the three readings have agreed: while the scan goes over the line (`ScanInv`,
`LineInv`), what it has understood of the line and of what it leaves to the parser; once it is done,
that it has missed nothing (`Understands`); what was opened, with which lock, and which
handlers run without (`DispatchInv`); while the parser goes over the rest, that it has set
exactly the flags that stand where they may (`ParseInv`, `FlagInv`); and what is left for the
handlers (`RunInv`). `tatr help`, which puts in a line of its own, is a case of its own
(`Helped`).

For any file systems of any depth, working directories and `-db` it proves of `PartsSpec`, in
which a command either goes through `Dispatch` or through `Paths`:

- `DatabaseOpened`: `[]OpensWhatItMay`. `NearestDatabase`: `[]NearestOpened`.

`PathsAssumption` is all they suppose. The definitions they rest on go part by part: `Places`, what the kernel
finds on a path, and `Saying`, what the parts of a path say. That these satisfy their
equations for paths of any length is proved by a least counterexample again (`PlacesAre`,
`SayingAre`). `PathsInv` has three parts. `WalkInv` says that the walk has come to what the parts so
far say, that all it came to are directories that can be reached, and that it holds the
last of them exactly if that one may be read; so it makes no difference by which of
the two calls a part is opened (`GotIs`), and the errors are those of the whole path.
`NearInv` says that the search has passed no `tasks`, and what is opened is the nearest. Its
connection with the walk is `RouteIs`: on the way through the working directory and along the
relative path, all that is passed is above one of the two ends, and the way leads to the
other end. The third part is `OpensWhatItMay` itself, of a walk that has ended.

### The project

`ProjectProofs` is about the parts that `MCProject` checks together, and proves the properties
of its specification `PartsSpec`, in which one part moves and the others stay.

Build, for any sources, clock and number of edits: `AlwaysANob` (`Spec => []NobKept`),
`BuildsItselfFirst` (`Spec => NobCurrent`), `BuildsWhatIsThere` (`Spec => []TatrCurrent`).
`BuildAssumption`: the embedded files are no sources, and the build program has a source; it may
share it with tatr.
The invariant `BuildInv` has a conjunct for each. `Somewhere` says at every step of the
replacement which of the two binaries is there. `Traced` says of each binary, and of what the
running compiler has read, that a source it differs from was written when that compiler had
begun or later; this must be said of the one put aside too, which is put back when the
compilation fails. `Undisturbed` follows what git, `build.h` and the compiler have seen
through a build in which nothing is edited. Time only matters in `Times`: nothing was written
in the future.

Setup, for any project, any lines in its `.gitignore`, any number of commands and edits:

- `InstallsAllOrNothing`: `[]SuccessInstalled`. `NothingOverwritten`: `UserFilesKept`.

`SetupAssumption` says of the projects at the beginning what holds of every file system: a
directory that is there has its parent, `SKILL.md` has its directory, and only a file has
lines; and that the user's lines are not the entries themselves. `SetupInv` has the types with
this nesting, which an edit that removes a directory must keep (`SetupTypes`); which command
is at which step (`Stages`); and, as long as the user changes nothing, that what the command
has seen is still so (`SeenIsSo`): the target is missing or the template, the entry is or is
not there, and nothing was touched while checking. An edit ends `SeenIsSo`; `NothingOverwritten`
does not use it, since every write of the code fails or appends when something is there
(`KeepsFiles`).

The test plan, for any set of failing calls:

- `ZeroIsEarned`: `[]SuccessIsEarned`. `StartsItsOwn`: `[]OwnCommand`.

The plan of `main` is a sequence of over a hundred items. `PlanIs` proves what the argument
needs of it, that it is made of whole tests: what enters `build/test/` has just made it new,
what is inside leaves it further on, and the query that is to fail comes behind one that is
not. Tests put one behind the other are such a sequence again (`TestsJoined`), so nothing is
said of an item by its number. `PhasesInv` says which words and descriptors a command has
(`Words`); that all items before the one at hand are done unless a test has failed, and then
the next is the one that leaves its directory (`Progress`); and that no test finds files that
would let it pass (`Unspoilt`).

Reports, for any number of tasks, tags and writes beside the report:

- `ReportsAreTrue`: `[]ReportsWhatWas`. `ArrowsLeadToTasks`: `[]GraphLeadsToTasks`.

`ReportsAssumption` has a finite set of tasks and of tags per file. `ReportsInv` remembers, for each task,
every file it has had since the report began, and says that no file vanishes
(`Remembered`), that what was there at the beginning is still to be looked at or has been
(`Looked`), and that an arrow leads to a file (`Drawn`). That the counts of a summary add up is
about cardinalities: the places at which a tag is listed are mapped onto the tasks that have
it, so there are no fewer, and as many if each lists it once (`PlacesCounted`, `SummaryAdds`).

The hash table, for any keys, hashes, load factor and smallest capacity:

- `TableIsDictionary`: every behaviour is one of `Dictionary` without its fairness.

The mapping is that of `Refines`. `TableInv` says where entries are (`Placed`): each in the slot
where a search for its key ends, in either array, and none still to be moved has the key of one
that was; and that what `ht_foreach` has still to come to are the keys of the slots ahead
(`ToVisit`). One lemma carries it (`SearchStays`): a search that ended where it still may, and
has no new place to end, ends there. So a slot may take an entry where its key is missed, and an
entry may become a tombstone, which ends no search; were it made empty, searches that went over
it would end too soon. It is not needed how probes are spread or how full an array is: that a
search ends at all, and so that every put does, is in the fairness of `Refines`, which TLC checks.

### Only model-checked

- Liveness under fairness (`Store`, `Todo`, `HashTable`) is out of the prover's reach.

The library's induction theorems cannot be used with the provers here. Recursive functions are
in reach nevertheless: that a function satisfies its equation, and what follows from it, is
shown by an induction on a set or by a least counterexample, as above.
The runs that expect a violation check what is false.

## Not modelled

- The editor plugin: Lua in Neovim, which runs tatr as anybody does and keeps no task.
- The compression function of SHA-256, which is arithmetic; an equal fingerprint is an equal
  message.
- The reading of the body file of `new` (`-body-file`), one call that may fail.
- The order of printed lists, the wording of reports, usage texts and diagnostics.
- Calendar dates in ids: a date is so many digits.
- Power loss: a sync that fails is modelled, what a disk loses is not.
- Edits of source files while `todo` asks: nothing in the code or its documentation says what
  should become of them.
- `init` looking for `README.md` and then truncating it, and a `fclose` that fails, are in
  `Setup`, but no property is about them, since nothing promises otherwise.
- Of `thirdparty/`: asynchronous processes, logging, directory copies, Windows, the other hash
  tables and flag types nobody declares. No code of this program calls them.

## Plan

Done: all modules above; the proofs of `Store`, its refinement of `Database` and its failures,
of the graphs, `Tasks`, `Visit`, `Query`, `Text`, `Formats`, `TaskFile`, `Todo`, `Dispatch`, `Paths`,
`Build`, `Setup`, `Phases` and `Reports`, and the refinement of `Dictionary`.

Next, if at all: `find` and `ls -json` as actions of `Tasks`, and sequences of actions in its
bulk updates.
