------------------------------ MODULE Formats -------------------------------
(***************************************************************************)
(* What the program writes for itself and for others to read again: lists  *)
(* of tags (src/src/task.c) and of updates (src/src/update.c), paths       *)
(* (src/src/path.c), JSON replies (src/src/scheduler.c), and the message   *)
(* that is hashed to a fingerprint (src/thirdparty/sha256.c).  A state is  *)
(* again a text: characters for the lists and paths, the members of a task *)
(* for a reply, bytes for a fingerprint.                                   *)
(***************************************************************************)
EXTENDS Text

CONSTANTS BlockBytes, LengthBytes  \* 64 and 8, in the fingerprint

FormatsAssumption == /\ TextAssumption /\ BlockBytes \in Nat /\ LengthBytes \in 1 .. BlockBytes - 1
                     /\ {"tag", "depends", "property", "spec"} \subseteq Alphabet["reply"]

Joined(parts, sep) == FlattenSeq([n \in DOMAIN parts |-> IF n = 1 THEN parts[n] ELSE sep \o parts[n]])
Split(s, C) == FoldLeft(LAMBDA parts, c : IF c \in C THEN Append(parts, <<>>)
                                          ELSE [parts EXCEPT ![Len(parts)] = Append(@, c)], <<<<>>>>, s)

-----------------------------------------------------------------------------
(* Tags and updates.  "open" and "close" are one character each.             *)

\* unparsed_tags_next until there is none: a separator may be repeated.
Tokens(s) == LET parts == Split(s, {" ", ","}) IN
             FlattenSeq([n \in DOMAIN parts |-> IF parts[n] = <<>> THEN <<>> ELSE <<parts[n]>>])
Unparsed(tags) == Joined(tags, <<",">>)

\* compile_update: an action may be a sign and nothing else, which is the tag without a name.
Action(t) == CASE t \in {<<"open">>, <<"close">>} -> [op |-> t[1], tag |-> <<>>]
               [] t[1] = "+" -> [op |-> "tag", tag |-> Tail(t)]
               [] t[1] = "-" -> [op |-> "untag", tag |-> Tail(t)]
               [] OTHER -> [op |-> "unknown", tag |-> <<>>]
Compiled(s) == LET update == [n \in DOMAIN Tokens(s) |-> Action(Tokens(s)[n])] IN
               [ok |-> \A n \in DOMAIN update : update[n].op # "unknown", update |-> update]

\* render_update_to_sb.
RenderUpdate(update) ==
  Joined([n \in DOMAIN update |-> CASE update[n].op = "tag" -> <<"+">> \o update[n].tag
                                    [] update[n].op = "untag" -> <<"-">> \o update[n].tag
                                    [] OTHER -> <<update[n].op>>], <<",">>)

-----------------------------------------------------------------------------
(* Paths: an absolute one has an empty first part.                           *)

\* path_parse: there is no part behind the last slash.
PathParse(s) == LET parts == Split(s, {"/"}) IN IF Last(parts) = <<>> THEN Front(parts) ELSE parts

\* Slip: a slash between two parts, and no other.
RootSlash_Never(path) == FALSE

\* path_render puts a slash after every part but the last, and after the root.
RootSlash(path) == path = <<<<>>>>

PathRender(path) == Joined(path, <<"/">>) \o IF RootSlash(path) THEN <<"/">> ELSE <<>>

\* path_normalize, which takes the root back, too.
PathNormalize(path) ==
  FoldLeft(LAMBDA dst, n : CASE path[n] = <<>> /\ n > 1 -> dst
                             [] path[n] = <<".">> -> dst
                             [] path[n] = <<".", ".">> -> IF dst = <<>> THEN dst ELSE Front(dst)
                             [] OTHER -> Append(dst, path[n]),
           <<>>, [n \in DOMAIN path |-> n])

-----------------------------------------------------------------------------
(* JSON replies, as tokens: a string is one of them, as JsonString writes it. *)

\* Slip: every member is followed by a comma.
Listed_Trailing(items) == FlattenSeq([n \in DOMAIN items |-> items[n] \o <<",">>])

Listed(items) == Joined(items, <<",">>)

Str == <<"string">>
Views(n) == <<"[">> \o Listed([k \in 1 .. n |-> Str]) \o <<"]">>
Member(value) == Str \o <<":">> \o value
Object(values) == <<"{">> \o Joined([n \in DOMAIN values |-> Member(values[n])], <<",">>) \o <<"}">>
Null == <<"null">>
Figure == <<"number">>

\* scheduler_json_task, of a record with so many tags, dependencies and properties.
JsonTask(tags, depends, props, spec) ==
  Object(<<Str, Str, Str, Str, Str, Figure, Views(tags), IF spec THEN Str ELSE Null, Views(depends),
           IF spec THEN Null ELSE Str, <<"{">> \o Listed([k \in 1 .. props |-> Member(Str)]) \o <<"}">>, Str>>)

\* scheduler_envelope opens the object, scheduler_finish or the diagnostics close it.
Envelope == <<"{">> \o Joined(<<Member(Figure), Member(Str), Member(Str), Member(<<"true">>), Str \o <<":">>>>, <<",">>)
Finish == <<",">> \o Member(<<"[", "]">>) \o <<"}">>

\* scheduler_report_error: an id, a cycle and the state of the write, each if there is one.
JsonError(id, cycle, state) ==
  Envelope \o Null \o <<",">> \o Str \o <<":", "[", "{">> \o Member(Str) \o <<",">> \o Member(Str)
  \o (IF id THEN <<",">> \o Member(Str) ELSE <<>>)
  \o (IF cycle > 0 THEN <<",">> \o Member(Views(cycle)) ELSE <<>>)
  \o (IF state THEN <<",">> \o Member(Str) ELSE <<>>) \o <<"}", "]", "}">>

Reply(data) == Envelope \o data \o Finish

\* The data of ls, and of new, set and find.
JsonTasks(tasks) == Object(<<<<"[">> \o Listed(tasks) \o <<"]">>>>)
JsonOne(task) == Object(<<task>>)

\* scheduler_ready_output: a task that is blocked opens with its first reason; the comma before
\* a reason is the one between two objects, too.
Told == Object(<<Str, Str, <<"true">>>>)
Blocked(told, reasons) ==
  Listed([k \in DOMAIN reasons |-> <<"{">> \o Member(Str) \o <<",">> \o Member(Str) \o <<",">> \o Str \o <<":", "[">>
                                    \o Listed([n \in 1 .. reasons[k] |-> told]) \o <<"]", "}">>])
JsonCheck(tasks) == Object(<<Str, Str, <<"[">> \o Listed(tasks) \o <<"]">>>>)
JsonReady(tasks, told, reasons, unresolved) ==
  Object(<<Str, Str, <<"[">> \o Listed(tasks) \o <<"]">>, Str, <<"[">> \o Listed(tasks) \o <<"]">>,
           <<"[">> \o Blocked(told, reasons) \o <<"]">>,
           <<"[">> \o Listed([k \in 1 .. unresolved |-> Object(<<Str, Str>>)]) \o <<"]">>>>)

-----------------------------------------------------------------------------
(* The message behind a fingerprint, block by block.                         *)

\* Slip: a byte too many is thought to fit.
Overflows_Late(n) == n > BlockBytes - LengthBytes

Overflows(n) == n >= BlockBytes - LengthBytes

Zeros(n) == [k \in 1 .. n |-> 0]
Filled(s) == s \o <<128>> \o Zeros(BlockBytes - Len(s) - 1)
Size(n) == [k \in 1 .. LengthBytes |-> ((8 * n) \div 256 ^ (LengthBytes - k)) % 256]
Sized(block, n) == SubSeq(block, 1, BlockBytes - LengthBytes) \o Size(n)

\* scheduler_sha256: the blocks of the data, the rest with a mark, and its length, for which a
\* block of its own may be needed.
Blocks(s) ==
  LET whole == Len(s) \div BlockBytes
      last == Filled(Drop(s, whole * BlockBytes)) IN
  [k \in 1 .. whole |-> SubSeq(s, (k - 1) * BlockBytes + 1, k * BlockBytes)]
  \o IF Overflows(Len(s) % BlockBytes) THEN <<last, Sized(Zeros(BlockBytes), Len(s))>> ELSE <<Sized(last, Len(s))>>

-----------------------------------------------------------------------------
\* A reader of JSON: the objects and arrays that are open, and what may come next.
Closes(r) == [r EXCEPT !.open = Front(@), !.want = IF Len(r.open) = 1 THEN "end" ELSE "next"]
ReadToken(r, t) ==
  CASE r.want = "colon" /\ t = ":" -> [r EXCEPT !.want = "value"]
    [] r.want \in {"key", "key or end"} /\ t = "string" -> [r EXCEPT !.want = "colon"]
    [] r.want \in {"key or end", "next"} /\ t = "}" /\ Last(r.open) = "{" -> Closes(r)
    [] r.want \in {"value or end", "next"} /\ t = "]" /\ Last(r.open) = "[" -> Closes(r)
    [] r.want = "next" /\ t = "," -> [r EXCEPT !.want = IF Last(r.open) = "{" THEN "key" ELSE "value"]
    [] r.want \in {"value", "value or end"} /\ t = "{" -> [open |-> Append(r.open, "{"), want |-> "key or end"]
    [] r.want \in {"value", "value or end"} /\ t = "[" -> [open |-> Append(r.open, "["), want |-> "value or end"]
    [] r.want \in {"value", "value or end"} /\ t \in {"string", "number", "null", "true"} ->
         [r EXCEPT !.want = IF r.open = <<>> THEN "end" ELSE "next"]
    [] OTHER -> [open |-> <<>>, want |-> "nothing"]
IsJson(tokens) ==
  LET after[n \in 0 .. Len(tokens)] ==
        IF n = 0 THEN [open |-> <<>>, want |-> "value"] ELSE ReadToken(after[n - 1], tokens[n]) IN
  after[Len(tokens)].want = "end"

\* Every reply is one JSON text, whichever lists of it are empty.  Its data is one by itself, and
\* so is a task and a reason, so where they are written into another any value stands for one.
RepliesRead ==
  kind = "reply" =>
    LET many == [x \in Alphabet["reply"] |-> Cardinality({n \in DOMAIN text : text[n] = x})]
        task == JsonTask(many["tag"], many["depends"], many["property"], many["spec"] > 0)
        tasks == [k \in 1 .. many["tag"] |-> Str] IN
    /\ IsJson(Reply(Str)) /\ IsJson(task) /\ IsJson(Told) /\ IsJson(JsonOne(Str)) /\ IsJson(JsonTasks(tasks))
    /\ IsJson(JsonError(many["spec"] > 0, many["depends"], many["property"] > 0))
    /\ IsJson(JsonCheck(tasks)) /\ IsJson(JsonReady(tasks, Str, [k \in 1 .. many["spec"] |-> k], many["depends"]))

\* How much deeper a part of a path leads, and how deep its first n parts do.
Step(x) == IF x \in {<<>>, <<".">>} THEN 0 ELSE IF x = <<".", ".">> THEN -1 ELSE 1
Depth(path, n) == FoldLeft(LAMBDA d, x : d + Step(x), 0, SubSeq(path, 1, n))

\* A path that does not climb above the directory it begins at is normalized to one without
\* ".", ".." and repeated slashes that leads as deep.
NormalIs(path, normal) ==
  LET root == IF path # <<>> /\ path[1] = <<>> THEN 1 ELSE 0 IN
  /\ Len(normal) = Depth(path, Len(path)) + root
  /\ root = 1 => normal[1] = <<>>
  /\ PathNormalize(normal) = normal
  \* A part that no ".." takes back stays, in its place.
  /\ \A n \in DOMAIN path :
       Step(path[n]) = 1 /\ (\A k \in n .. Len(path) : Depth(path, k) >= Depth(path, n))
         => normal[Depth(path, n) + root] = path[n]

\* A list of tags or updates that has been read is written so that it reads the same; a path
\* is written as it was read, but for a last slash; one that is normalized names the same file.
ListsRead ==
  /\ kind = "update" => /\ Tokens(Unparsed(Tokens(text))) = Tokens(text)
                        /\ Compiled(text).ok => Compiled(RenderUpdate(Compiled(text).update)) = Compiled(text)
  /\ kind = "path" =>
       LET path == PathParse(text) IN
       /\ path # <<>> => \/ PathRender(path) = text
                        \/ text = PathRender(path) \o <<"/">>
       /\ path # <<>> /\ (Last(path) # <<>> \/ path = <<<<>>>>) => PathParse(PathRender(path)) = path
       /\ (\A n \in DOMAIN path : Depth(path, n) >= 0) => NormalIs(path, PathNormalize(path))

\* What is hashed is the text, a mark, as few zeros as fill a block, and the length: no two
\* texts are hashed as the same message.
FingerprintsTell ==
  kind = "bytes" =>
    LET message == FlattenSeq(Blocks(text))
        zeros == Len(message) - Len(text) - 1 - LengthBytes IN
    /\ Len(message) % BlockBytes = 0 /\ zeros \in 0 .. BlockBytes - 1
    /\ message = text \o <<128>> \o Zeros(zeros) \o Size(Len(text))

FormatsRead == OutputReads /\ RepliesRead /\ ListsRead /\ FingerprintsTell
=============================================================================
