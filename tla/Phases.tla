------------------------------- MODULE Phases -------------------------------
(***************************************************************************)
(* What the build program does after it is up to date (main, src/nob.c):   *)
(* it writes build.h, compiles tatr and, if asked, runs the tests and the  *)
(* program.  Every command is a child process that nob_cmd_run_opt         *)
(* (src/thirdparty/nob.h) starts with redirected files and waits for; each *)
(* of its calls to the kernel is a step and may fail.  A test judges a     *)
(* program by files that the run before has left there, too.               *)
(***************************************************************************)
EXTENDS Naturals, Sequences, SequencesExt

VARIABLES asked,   \* the options of the command line, or "help" or "bad"
          at, pc,  \* the item of the plan, and what is done about it
          cmd,     \* the words put together for the next command, one for each program
          fds,     \* the files that are open for it
          cwd, sandbox,  \* the working directory, and what is in build/test/
          output,  \* what is in build/test_stdout.txt and build/test_stderr.txt
          ok,      \* what cmd_run has returned
          result,  \* of the test that is in build/test/
          status,  \* the exit status, or "none"
          done     \* items whose program has been run and has done what it should

vars == <<asked, at, pc, cmd, fds, cwd, sandbox, output, ok, result, status, done>>

-----------------------------------------------------------------------------
Judged == {"test_stdout.txt", "test_stderr.txt"}
Do(op) == [op |-> op, prog |-> "none", dir |-> "root", files |-> <<>>]
Cmd(prog) == [op |-> "cmd", prog |-> prog, dir |-> "root", files |-> <<>>]
Query(prog) == [op |-> "query", prog |-> prog, dir |-> "root", files |-> <<"test_stdout.txt", "test_stderr.txt">>]
Tatr(prog, files) == [op |-> "cmd", prog |-> prog, dir |-> "test", files |-> files]

\* The tests of new, todo and ls -update each have build/test/ to themselves.
Sandboxed(items) == <<Do("clear"), Do("mkdir"), Do("chdir"), Tatr("init", <<"stdout.txt">>)>> \o items \o <<Do("leave")>>
List == <<Tatr("ls", <<"stdout.txt">>), Do("count")>>
NewTest == Sandboxed(<<Tatr("new", <<"stdout.txt">>)>>)
TodoTest == Sandboxed(List \o <<Do("prepare"), Tatr("todo", <<"stdin.txt", "stdout.txt">>), Do("count")>> \o List)
TagTest == Sandboxed(<<Do("prepare"), Tatr("ls -update", <<"stdout.txt">>), Do("count")>>)

Compile == <<Do("build.h"), Cmd("cc tatr")>>
Test == <<Cmd("cc tatr-test"), Cmd("tatr-test"), Query("negation"), Query("paren"), Query("utf8"), Query("priority")>>
        \o NewTest \o TodoTest \o TagTest
        \o <<Cmd("sh setup.sh"), Cmd("cc hash-test"), Cmd("hash-test"), Cmd("cc store-test"), Cmd("store-test"),
             Cmd("cc tatr-sandbox"), Cmd("sandbox.py"), Cmd("cc tatr-failure"), Cmd("cc tatr-failure"),
             Cmd("cc tatr-failure"), Cmd("scheduler.py")>>
Plan == Compile \o (IF "test" \in asked THEN Test ELSE <<>>) \o (IF "run" \in asked THEN <<Cmd("app")>> ELSE <<>>)
Item == Plan[at]

\* What ls -debug must do with each of the queries: one of them is wrong.
Wants(q) == IF q = "utf8" THEN [ok |-> FALSE, out |-> "", err |-> q] ELSE [ok |-> TRUE, out |-> q, err |-> ""]
Texts == {"", "negation", "paren", "utf8", "priority", "absent"}

Init == /\ asked \in (SUBSET {"test", "run"}) \cup {{"help"}, {"bad"}}
        /\ at = 1 /\ pc = "flags" /\ cmd = <<>> /\ fds = {} /\ cwd = "root" /\ sandbox \in {"none", "used"}
        /\ output \in [Judged -> Texts] /\ ok = TRUE /\ result = TRUE /\ status = "none" /\ done = {}

-----------------------------------------------------------------------------
\* Unknown options and compilers, -help, and the directory build/.
Exit(n) == pc' = "end" /\ status' = n
Begin == /\ pc = "flags"
         /\ \/ "bad" \in asked /\ Exit("1")
            \/ "help" \in asked /\ Exit("0")
            \/ asked \cap {"bad", "help"} = {} /\ (Exit("1") \/ (pc' = "next" /\ UNCHANGED status))
         /\ UNCHANGED <<asked, at, cmd, fds, cwd, sandbox, output, ok, result, done>>

Goes == at' = at + 1 /\ pc' = "next" /\ UNCHANGED <<result, status>>
Leave == CHOOSE i \in at .. Len(Plan) : Plan[i].op = "leave" /\ \A j \in at .. i - 1 : Plan[j].op # "leave"
InTest == Item.dir = "test" \/ Item.op \in {"clear", "mkdir", "chdir", "prepare", "count"}

\* main returns 1, or false if it is the program run that has failed; a test in
\* build/test/ leaves the directory first.
Fails == IF InTest THEN at' = Leave /\ pc' = "next" /\ result' = FALSE /\ UNCHANGED status
         ELSE Exit(IF Item.prog = "app" THEN "0" ELSE "1") /\ UNCHANGED <<at, result>>

Ready(op) == pc = "next" /\ at <= Len(Plan) /\ Item.op = op
Finish == /\ pc = "next" /\ at > Len(Plan) /\ Exit("0")
          /\ UNCHANGED <<asked, at, cmd, fds, cwd, sandbox, output, ok, result, done>>

\* make_build_h, the files a test writes, and the counting of words in files.
Work == /\ \E op \in {"build.h", "prepare", "count"} : Ready(op)
        /\ (Goes \/ Fails)
        /\ UNCHANGED <<asked, cmd, fds, cwd, sandbox, output, ok, done>>

\* Slip: what is left of an earlier run is kept.
Cleared_Kept == sandbox

Cleared == "none"

\* build/test/ is looked for from the working directory, whichever that is.
Clear == /\ Ready("clear")
         /\ \/ (cwd # "root" \/ sandbox = "none") /\ Goes /\ UNCHANGED sandbox
            \/ cwd = "root" /\ sandbox # "none" /\ Goes /\ sandbox' = Cleared
            \/ cwd = "root" /\ sandbox # "none" /\ Fails /\ UNCHANGED sandbox
         /\ UNCHANGED <<asked, cmd, fds, cwd, output, ok, done>>
Mkdir == /\ Ready("mkdir")
         /\ \/ cwd = "root" /\ Goes /\ sandbox' = (IF sandbox = "none" THEN "empty" ELSE sandbox)
            \/ Fails /\ UNCHANGED sandbox
         /\ UNCHANGED <<asked, cmd, fds, cwd, output, ok, done>>
\* Nobody looks at what set_current_dir returns.
Chdir == /\ Ready("chdir") /\ Goes /\ cwd' \in {"test", cwd}
         /\ UNCHANGED <<asked, cmd, fds, sandbox, output, ok, done>>
Return == /\ Ready("leave") /\ cwd' \in {"root", cwd}
          /\ IF result THEN Goes ELSE Exit("1") /\ UNCHANGED <<at, result>>
          /\ UNCHANGED <<asked, cmd, fds, sandbox, output, ok, done>>

-----------------------------------------------------------------------------
\* cmd_append, and then cmd_run: the files are opened one after the other ...
Put == /\ Ready("cmd") \/ Ready("query")
       /\ cmd' = Append(cmd, Item.prog) /\ pc' = "open"
       /\ UNCHANGED <<asked, at, fds, cwd, sandbox, output, ok, result, status, done>>
Unopened == {n \in DOMAIN Item.files : Item.files[n] \notin fds}
Open == /\ pc = "open"
        /\ \/ \E n \in Unopened : /\ \A m \in Unopened : n <= m
                                  /\ fds' = fds \cup {Item.files[n]}
                                  /\ output' = [f \in Judged |-> IF f = Item.files[n] THEN "" ELSE output[f]]
                                  /\ UNCHANGED <<pc, ok>>
           \/ Unopened # {} /\ ok' = FALSE /\ pc' = "close" /\ UNCHANGED <<fds, output>>
           \/ Unopened = {} /\ pc' = "start" /\ UNCHANGED <<fds, output, ok>>
        /\ UNCHANGED <<asked, at, cmd, cwd, sandbox, result, status, done>>

\* ... a child is made ...
Start == /\ pc = "start"
         /\ \/ pc' = "wait" /\ UNCHANGED ok
            \/ pc' = "close" /\ ok' = FALSE
         /\ UNCHANGED <<asked, at, cmd, fds, cwd, sandbox, output, result, status, done>>

\* ... and waited for.  A child that cannot set up its files or execute the program exits
\* with 1, and what it logs is nothing while a query is tested.
Good(exited, out, err) == IF Item.op = "query" THEN [ok |-> exited, out |-> out, err |-> err] = Wants(Item.prog)
                          ELSE exited /\ (Item.prog = "init" => sandbox = "empty")
Ended(exited, out, err) ==
  /\ ok' = exited
  /\ output' = IF Item.op = "query" THEN [f \in Judged |-> IF f = "test_stdout.txt" THEN out ELSE err] ELSE output
  /\ done' = IF Good(exited, out, err) THEN done \cup {at} ELSE done
Wait == /\ pc = "wait" /\ pc' = "close"
        /\ \/ ok' = FALSE /\ UNCHANGED <<output, done, sandbox>>
           \/ /\ cwd = Item.dir
              /\ \E exited \in BOOLEAN, out \in {"", "wrong", Item.prog}, err \in {"", "wrong", Item.prog} :
                   Ended(exited, out, err)
              /\ sandbox' = IF cwd = "test" THEN "used" ELSE sandbox
        /\ UNCHANGED <<asked, at, cmd, fds, cwd, result, status>>

\* Slip: the words of a command that fails are kept.
Reset_Kept == IF ok THEN <<>> ELSE cmd

Reset == <<>>

Close == /\ pc = "close" /\ pc' = "judge" /\ fds' = {} /\ cmd' = Reset
         /\ UNCHANGED <<asked, at, cwd, sandbox, output, ok, result, status, done>>

\* Slip: what the program says of its error is not compared.
Passes_NoStderr == IF Item.op = "query" THEN /\ ok = Wants(Item.prog).ok
                                             /\ output["test_stdout.txt"] = Wants(Item.prog).out
                   ELSE ok

\* A query passes by its exit and what is then in the files.
Passes == IF Item.op = "query" THEN /\ ok = Wants(Item.prog).ok
                                    /\ output["test_stdout.txt"] = Wants(Item.prog).out
                                    /\ output["test_stderr.txt"] = Wants(Item.prog).err
          ELSE ok
Unread == Item.op = "query"  \* the files may not be readable
Judge == /\ pc = "judge" /\ \/ Passes /\ Goes
                            \/ (~Passes \/ Unread) /\ Fails
         /\ ok' = TRUE /\ UNCHANGED <<asked, cmd, fds, cwd, sandbox, output, done>>

Next == \/ Begin \/ Work \/ Clear \/ Mkdir \/ Chdir \/ Return \/ Finish
        \/ Put \/ Open \/ Start \/ Wait \/ Close \/ Judge
Spec == Init /\ [][Next]_vars

-----------------------------------------------------------------------------
\* A build that exits with 0 has done all that was asked: every command was run where it
\* should, by a program that really started, succeeded or failed as it should, and wrote
\* what it should; no test was passed by the files of another one or by a child that never
\* was the program, and none began in a directory that was used before.  (The one command
\* whose failure is an exit status of 0 is the program run by -run.)
SuccessIsEarned == status = "0" /\ asked # {"help"} =>
  \A i \in DOMAIN Plan : Plan[i].op \in {"cmd", "query"} /\ Plan[i].prog # "app" => i \in done

\* A program is started with the words of its own command, with exactly its own files open,
\* and when it is over none of them stays open, whatever has failed on the way.
OwnCommand == /\ pc \in {"start", "wait"} => cmd = <<Item.prog>> /\ fds = ToSet(Item.files)
              /\ pc \in {"next", "end"} => cmd = <<>> /\ fds = {}
=============================================================================
