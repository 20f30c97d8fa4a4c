-------------------------------- MODULE Text --------------------------------
(***************************************************************************)
(* The small readers and writers of text the other parts rely on: task ids *)
(* (src/src/huid.c, scheduler.c, store.c), integers (scheduler.c, query.c, *)
(* task.c, src/thirdparty/flag.h), UTF-8 and JSON strings (scheduler.c).   *)
(* Several of them read the same text by rules of their own; what one      *)
(* accepts the next must read in the same way.                             *)
(*                                                                         *)
(* A state is a text typed so far, and every property is checked on every  *)
(* one of them.  The widths of the code are parameters here.               *)
(***************************************************************************)
EXTENDS Integers, Sequences, FiniteSets, SequencesExt

CONSTANTS
  Alphabet,   \* kind of text -> the characters it is made of; bytes are numbers
  Longest,    \* kind of text -> the bound on its length
  DateDigits, TimeDigits, MaxName,  \* 8, 6 and 255
  IntMax, LongMax, WordMax,         \* 2^31 - 1, 2^63 - 1 and 2^64 - 1
  Unit        \* suffixes of sizes and what they multiply by

VARIABLES kind, text
vars == <<kind, text>>

Figures == <<"0", "1", "2", "3", "4", "5", "6", "7", "8", "9">>
Digit == [c \in ToSet(Figures) |-> (CHOOSE n \in 1 .. 10 : Figures[n] = c) - 1]
Space == " "
IsDigit(c) == c \in DOMAIN Digit
Plain == DOMAIN Digit \cup {"a", "Z", "-"}   \* is_alnum_or_dash

TextAssumption == /\ {"name", "number", "bytes", "json"} \subseteq DOMAIN Alphabet
                  /\ DOMAIN Longest = DOMAIN Alphabet
                  /\ {DateDigits, TimeDigits, MaxName, IntMax, LongMax, WordMax} \subseteq Nat
                  /\ MaxName > DateDigits + TimeDigits + 2 /\ WordMax > LongMax /\ LongMax > IntMax
                  /\ IntMax > 10
                  /\ \A c \in DOMAIN Unit : Unit[c] \in Nat
                  /\ Alphabet["bytes"] \subseteq 0 .. 255

Init == kind \in DOMAIN Alphabet /\ text = <<>>
Next == /\ Len(text) < Longest[kind]
        /\ \E c \in Alphabet[kind] : text' = Append(text, c)
        /\ UNCHANGED kind
Spec == Init /\ [][Next]_vars

Drop(s, n) == SubSeq(s, n + 1, Len(s))
Slice(s, m, n) == SubSeq(s, m, IF n < Len(s) THEN n ELSE Len(s))
\* The length of the longest beginning of s of characters in C.
Run(s, C) == CHOOSE n \in 0 .. Len(s) : /\ \A k \in 1 .. n : s[k] \in C
                                        /\ n < Len(s) => s[n + 1] \notin C

-----------------------------------------------------------------------------
(* Task ids: a date, a dash, a time, and possibly a dash and a suffix.       *)

Stamp == DateDigits + 1 + TimeDigits

\* Slip: a suffix may be anything.
Extended_Any(s) == Len(s) > Stamp => s[Stamp + 1] = "-"

Stamped(s) == /\ Len(s) >= Stamp
              /\ \A n \in 1 .. Stamp : IF n = DateDigits + 1 THEN s[n] = "-" ELSE IsDigit(s[n])
Extended(s) == /\ Len(s) > Stamp => s[Stamp + 1] = "-"
               /\ \A n \in Stamp + 2 .. Len(s) : s[n] \in Plain

\* is_valid_huid; scheduler_id_valid and the store's valid_id.
Huid(s) == Stamped(s) /\ Extended(s)
StoreId(s) == Len(s) <= MaxName /\ Stamped(s) /\ Extended(s)

\* scheduler_suffix_valid, and the id temp_new_huid makes of a time and a suffix.
SuffixOK(s) == /\ Len(s) \in 1 .. MaxName - Stamp - 1 /\ \A n \in DOMAIN s : s[n] \in Plain
NewHuid(s) == [n \in 1 .. Stamp |-> IF n = DateDigits + 1 THEN "-" ELSE "0"] \o <<"-">> \o s

\* chop_huid: how many characters at the front of s are an id, 0 for none.  A text that
\* ends within the date has no dash; one that ends within the time is taken as it is.
Chopped(s) ==
  LET date == Slice(s, 1, DateDigits)
      time == Slice(s, DateDigits + 2, Stamp)
      rest == Drop(s, Stamp) IN
  IF \/ Len(s) <= DateDigits \/ \E n \in DOMAIN date : ~IsDigit(date[n])
     \/ s[DateDigits + 1] # "-" \/ \E n \in DOMAIN time : ~IsDigit(time[n])
  THEN 0
  ELSE DateDigits + 1 + Len(time)
       + IF rest # <<>> /\ rest[1] = "-" THEN Run(rest, Plain) ELSE 0

-----------------------------------------------------------------------------
(* Integers.  Overflow is NoNumber, or wraps around as the code says.        *)

NoNumber == [ok |-> FALSE, n |-> 0]
Number(n) == [ok |-> TRUE, n |-> n]

Trim(s) == LET t == Drop(s, Run(s, {Space})) IN
           SubSeq(t, 1, CHOOSE n \in 0 .. Len(t) : /\ n > 0 => t[n] # Space
                                                   /\ \A k \in n + 1 .. Len(t) : t[k] = Space)

\* Slip: the digit is not taken into account.
Fits_Multiplied(n, d, limit) == n <= limit \div 10

Fits(n, d, limit) == n <= (limit - d) \div 10

\* scheduler_integer: digit by digit, and no step leaves the range.
Integer(s) ==
  LET t == Trim(s)
      negative == t # <<>> /\ t[1] = "-"
      limit == IF negative THEN IntMax + 1 ELSE IntMax
      digits == IF negative THEN Tail(t) ELSE t
      m == FoldLeft(LAMBDA x, c : IF x.ok /\ IsDigit(c) /\ Fits(x.n, Digit[c], limit)
                                  THEN Number(x.n * 10 + Digit[c]) ELSE NoNumber,
                    Number(0), digits) IN
  IF digits = <<>> \/ ~m.ok THEN NoNumber ELSE Number(IF negative THEN -m.n ELSE m.n)

\* strtol and strtoull: what the digits at the front denote, after spaces and a sign, and
\* where they end; 0 if there is none.
Denoted(s) ==
  LET from == Run(s, {Space})
      sign == from < Len(s) /\ s[from + 1] \in {"-", "+"}
      start == IF sign THEN from + 1 ELSE from
      many == Run(Drop(s, start), DOMAIN Digit)
      n == FoldLeft(LAMBDA x, c : x * 10 + Digit[c], 0, SubSeq(s, start + 1, start + many)) IN
  [n |-> n, negative |-> sign /\ s[start] = "-", to |-> IF many = 0 THEN 0 ELSE start + many]
Strtol(s) == LET d == Denoted(s) IN
             [to |-> d.to, n |-> IF d.negative THEN IF d.n > LongMax THEN -LongMax - 1 ELSE -d.n
                                 ELSE IF d.n > LongMax THEN LongMax ELSE d.n]

\* A long as an int, wherever the code assigns one to the other.
AsInt(n) == LET w == 2 * (IntMax + 1) m == n % w IN IF m > IntMax THEN m - w ELSE m

\* atoi, and the integer literals of a query, pushed on a stack of ints by stack_int.
Atoi(s) == AsInt(Strtol(s).n)
Literal(s) == LET l == Strtol(s) IN
              IF l.to > 0 /\ l.to = Len(s) THEN Number(AsInt(l.n)) ELSE NoNumber

\* FLAG_UINT64 and FLAG_SIZE: the overflow of strtoull is found if it is still there after
\* the multiplication; that of the multiplication is not.
Word(s) == LET d == Denoted(s) w == WordMax + 1 IN
           [to |-> d.to, erange |-> d.n > WordMax,
            n |-> IF d.n > WordMax THEN WordMax ELSE IF d.negative THEN (w - d.n) % w ELSE d.n]
Checked(x, n) == IF n = WordMax /\ x.erange THEN NoNumber ELSE Number(n)
FlagUint64(s) == LET x == Word(s) IN IF x.to # Len(s) THEN NoNumber ELSE Checked(x, x.n)
Multiplied(n, suffix) == IF suffix = <<>> THEN Number(n)
                         ELSE IF Len(suffix) > 1 \/ suffix[1] \notin DOMAIN Unit THEN NoNumber
                         ELSE Number((n * Unit[suffix[1]]) % (WordMax + 1))
FlagSize(s) == LET x == Word(s) m == Multiplied(x.n, Drop(s, x.to)) IN IF m.ok THEN Checked(x, m.n) ELSE NoNumber

-----------------------------------------------------------------------------
(* UTF-8 and JSON strings.                                                   *)

\* The first byte says how many follow, the bits it has itself and the least value.
Lead(c) == CASE c < 128 -> [count |-> 0, bits |-> c, min |-> 0]
             [] c \in 194 .. 223 -> [count |-> 1, bits |-> c % 32, min |-> 128]
             [] c \in 224 .. 239 -> [count |-> 2, bits |-> c % 16, min |-> 2048]
             [] c \in 240 .. 244 -> [count |-> 3, bits |-> c % 8, min |-> 65536]
             [] OTHER -> [count |-> -1, bits |-> 0, min |-> 0]

\* Slip: surrogates are taken for characters.
Scalar_Any(v) == v <= 1114111

Scalar(v) == v <= 1114111 /\ v \notin 55296 .. 57343

\* scheduler_utf8, from byte n on.
Utf8From[n \in Nat] ==
  IF n > Len(text) THEN TRUE
  ELSE LET lead == Lead(text[n])
           more == Slice(text, n + 1, n + lead.count)
           value == FoldLeft(LAMBDA v, c : v * 64 + (c % 64), lead.bits, more) IN
       /\ text[n] # 0 /\ lead.count >= 0 /\ Len(more) = lead.count
       /\ \A k \in DOMAIN more : more[k] \in 128 .. 191
       /\ value >= lead.min /\ Scalar(value)
       /\ Utf8From[n + 1 + lead.count]
Utf8 == Utf8From[1]

\* Slip: the backslash itself is not escaped.
Escaped_NotItself(c) == CASE c = "quote" -> <<"backslash", c>>
                          [] c \in {"tab", "newline"} -> <<"backslash", "u", c>>
                          [] OTHER -> <<c>>

\* scheduler_json_string; "u" and what follows it stand for the six characters of \u00xx.
Escaped(c) == CASE c \in {"quote", "backslash"} -> <<"backslash", c>>
                [] c \in {"tab", "newline"} -> <<"backslash", "u", c>>
                [] OTHER -> <<c>>
JsonString(s) == <<"quote">> \o FlattenSeq([n \in DOMAIN s |-> Escaped(s[n])]) \o <<"quote">>

-----------------------------------------------------------------------------
\* The id scanner of graph, the check of find and ref and the one of the store agree.  What
\* is chopped off a text is the longest id it begins with, unless the text ends in the time;
\* an id the store takes is one for the others, and so is what new makes with a suffix that
\* the scheduler takes, with nothing to spare.
NamesAgree ==
  kind = "name" =>
    /\ LET ids == {n \in 1 .. Len(text) : Huid(SubSeq(text, 1, n))} IN
       IF ids # {} THEN Chopped(text) \in ids /\ \A n \in ids : n <= Chopped(text)
       ELSE Chopped(text) \in {0} \cup ((DateDigits + 1 .. Stamp - 1) \cap {Len(text)})
    /\ StoreId(text) => Huid(text) /\ Chopped(text) = Len(text)
    /\ SuffixOK(text) => StoreId(NewHuid(text))
    /\ Len(text) > 0 /\ StoreId(NewHuid(text)) => SuffixOK(text)

\* A priority is accepted if and only if it is a decimal that fits, and then it is read as
\* the same number when the task is loaded and as a literal of a query.  A literal that does
\* not fit is accepted all the same and means what it is modulo the width, and nothing else.
Fitting(d) == IF d.negative THEN d.n <= IntMax + 1 ELSE d.n <= IntMax
Exactly(d) == IF d.negative THEN -d.n ELSE d.n
NumbersAgree ==
  kind = "number" =>
    LET t == Trim(text)
        d == Denoted(t)
        e == Denoted(text)
        integer == Integer(text)
        literal == Literal(text)
        uint64 == FlagUint64(text)
        size == FlagSize(text)
        whole == d.to > 0 /\ d.to = Len(t) /\ t[1] # "+" IN
    /\ integer = IF whole /\ Fitting(d) THEN Number(Exactly(d)) ELSE NoNumber
    /\ integer.ok => Atoi(text) = integer.n /\ Literal(t) = integer
    /\ literal.ok /\ d.n <= LongMax => (literal.n - Exactly(d)) % (IntMax + 1) = 0
    \* An option of flag.h that does not overflow is exact, too.
    /\ uint64.ok /\ ~e.negative => uint64.n = e.n
    /\ size.ok /\ ~e.negative =>
         LET m == e.n * IF e.to < Len(text) THEN Unit[Last(text)] ELSE 1 IN
         m <= WordMax => size.n = m

\* The bytes accepted as UTF-8 are those of Unicode's table of well-formed sequences, NUL
\* apart: nothing overlong, no surrogate, nothing beyond the last plane, nothing cut short.
Table == {<<1 .. 127>>, <<194 .. 223, 128 .. 191>>,
          <<{224}, 160 .. 191, 128 .. 191>>, <<225 .. 236, 128 .. 191, 128 .. 191>>,
          <<{237}, 128 .. 159, 128 .. 191>>, <<238 .. 239, 128 .. 191, 128 .. 191>>,
          <<{240}, 144 .. 191, 128 .. 191, 128 .. 191>>,
          <<241 .. 243, 128 .. 191, 128 .. 191, 128 .. 191>>,
          <<{244}, 128 .. 143, 128 .. 191, 128 .. 191>>}
WellFormed[n \in 0 .. Len(text)] ==
  n = 0 \/ \E row \in Table :
    /\ Len(row) <= n /\ \A k \in DOMAIN row : text[n - Len(row) + k] \in row[k]
    /\ WellFormed[n - Len(row)]
\* And a JSON string reads back as the text it was written from: it ends at its last
\* character and nowhere before, and holds no character JSON forbids.
ReadJson(s) ==
  FoldLeft(LAMBDA r, c : CASE r.at = "escape" -> IF c = "u" THEN [r EXCEPT !.at = "code"]
                                                 ELSE [at |-> "in", read |-> Append(r.read, c)]
                           [] r.at = "code" -> [at |-> "in", read |-> Append(r.read, c)]
                           [] r.at = "in" /\ c = "backslash" -> [r EXCEPT !.at = "escape"]
                           [] r.at = "in" /\ c = "quote" -> [r EXCEPT !.at = "end"]
                           [] r.at = "in" /\ c \notin {"backslash", "quote", "tab", "newline"} -> [r EXCEPT !.read = Append(@, c)]
                           [] OTHER -> [r EXCEPT !.at = "bad"],
           [at |-> "in", read |-> <<>>], Tail(s))
OutputReads ==
  /\ kind = "bytes" => Utf8 = WellFormed[Len(text)]
  /\ kind = "json" => ReadJson(JsonString(text)) = [at |-> "end", read |-> text]
=============================================================================
