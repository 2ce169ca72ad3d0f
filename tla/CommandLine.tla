---------------------------- MODULE CommandLine ----------------------------
(***************************************************************************)
(* How process_command of user-shell.c takes a line apart: a command and up  *)
(* to two arguments, cut out of the line in place by terminating zeros; and   *)
(* how builtin_commands.c writes the number of a process and reads it back.   *)
(***************************************************************************)
EXTENDS Integers, SequencesExt

CONSTANTS
  Space,   \* the character between words
  INT_MAX  \* the largest int

ASSUME CommandLineAssumption == INT_MAX \in Nat \ {0}

\* An argument that is not there is empty.
Nothing == <<>>

\* Where a word that begins at position k of the line ends, just behind it.
WordEnd(s, k) ==
  LET spaces == {j \in k .. Len(s) : s[j] = Space}
  IN  IF spaces = {} THEN Len(s) + 1 ELSE Min(spaces)

\* Mutated skipping for the checks: one space at most.
SkipOneSpace(s, k) == IF k <= Len(s) /\ s[k] = Space THEN k + 1 ELSE k

\* The first position from k on that is no space; behind the end if all are.
SkipSpaces(s, k) ==
  LET others == {j \in k .. Len(s) : s[j] # Space}
  IN  IF others = {} THEN Len(s) + 1 ELSE Min(others)

NameEnd(s)   == WordEnd(s, 1)
Arg1Begin(s) == SkipSpaces(s, NameEnd(s) + 1)
Arg1End(s)   == WordEnd(s, Arg1Begin(s))
Arg2Begin(s) == SkipSpaces(s, Arg1End(s) + 1)

\* The second argument reaches to the end of the line.
process_command(s) ==
  [name |-> SubSeq(s, 1, NameEnd(s) - 1),
   arg1 |-> SubSeq(s, Arg1Begin(s), Arg1End(s) - 1),
   arg2 |-> SubSeq(s, Arg2Begin(s), Len(s))]

-----------------------------------------------------------------------------
\* A numeral: its digits, the most significant first, behind a sign or none.
Numeral(minus, digits) == [minus |-> minus, digits |-> digits]

\* Arithmetic on int wraps.
AsInt(n) == ((n + INT_MAX + 1) % (2 * (INT_MAX + 1))) - (INT_MAX + 1)

\* The result after every digit was read.
ValueOf(digits) ==
  LET After[k \in 0 .. Len(digits)] ==
        IF k = 0 THEN 0 ELSE AsInt(After[k - 1] * 10 + digits[k])
  IN  After[Len(digits)]

string_to_int(s) ==
  IF s.digits = <<>> /\ ~ s.minus THEN -1
  ELSE IF s.minus THEN AsInt(- ValueOf(s.digits)) ELSE ValueOf(s.digits)

\* The digits in the order in which they are computed.
LowFirst(v) ==
  LET Low[n \in 0 .. INT_MAX] == IF n = 0 THEN <<>> ELSE <<n % 10>> \o Low[n \div 10]
  IN  IF v > 0 THEN Low[v] ELSE <<>>

\* Mutated printing for the checks: the digits come out as they are computed.
NumeralLowFirst(n) ==
  IF n = 0 THEN Numeral(FALSE, <<0>>)
  ELSE Numeral(n < 0, LowFirst(IF n < 0 THEN AsInt(- n) ELSE n))

int_to_string(n) ==
  IF n = 0 THEN Numeral(FALSE, <<0>>)
  ELSE Numeral(n < 0, Reverse(LowFirst(IF n < 0 THEN AsInt(- n) ELSE n)))

-----------------------------------------------------------------------------
\* The words of a line, as a user reads them: the longest runs without a space.
IsWord(s, a, b) ==
  /\ \A j \in a .. b : s[j] # Space
  /\ a > 1 => s[a - 1] = Space
  /\ b < Len(s) => s[b + 1] = Space

Spans(s) ==
  {w \in (1 .. Len(s)) \X (1 .. Len(s)) : w[1] <= w[2] /\ IsWord(s, w[1], w[2])}

\* How many words begin before word w.
WordsBefore(s, w) == Cardinality({v \in Spans(s) : v[1] < w[1]})

Words(s) ==
  [k \in 1 .. Cardinality(Spans(s)) |->
     LET w == CHOOSE w \in Spans(s) : WordsBefore(s, w) = k - 1
     IN  SubSeq(s, w[1], w[2])]

\* The command and its first argument are the first two words of a line that does
\* not begin with a space, the second argument begins with the third word and is
\* that word when nothing follows it; a line that begins with a space runs nothing
\* (user-shell.c:106-151).
ReadsAsWords(s) ==
  LET p == process_command(s)
      w == Words(s)
  IN  IF s = <<>> \/ s[1] = Space THEN p.name = Nothing
      ELSE /\ p.name = w[1]
           /\ p.arg1 = IF Len(w) >= 2 THEN w[2] ELSE Nothing
           /\ IF Len(w) < 3 THEN p.arg2 = Nothing
              ELSE /\ IsPrefix(w[3], p.arg2)
                   /\ Len(w) = 3 /\ Last(s) # Space => p.arg2 = w[3]
=============================================================================
