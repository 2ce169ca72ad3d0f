-------------------------- MODULE Terminal_proofs --------------------------
(***************************************************************************)
(* Proofs about Terminal, for buffers, lines and screens of every size: the  *)
(* driver neither loses nor doubles a character, and the screen shows the     *)
(* line that is run; and about CommandLine, for lines and numbers of every    *)
(* size: a line is read as its words, a number as the one that was printed.  *)
(***************************************************************************)
EXTENDS TerminalMC, NatSets_proofs, SequenceTheorems

\* The part of the type invariant that the keyboard driver changes, and the rest.
DriverTyped ==
  /\ keyboard_input_on \in BOOLEAN
  /\ keyboard_buffer \in Seq(Chars) /\ Len(keyboard_buffer) < KEYBOARD_BUFFER_SIZE
  /\ key_state \in [shift : BOOLEAN, caps : BOOLEAN]
  /\ typed \in Seq(Chars) /\ taken \in Seq(Chars) /\ raced \in BOOLEAN

LineTyped ==
  /\ buffer \in Seq(Printed) /\ Len(buffer) < COMMAND_BUFFER_SIZE
  /\ cursor_col \in 0 .. COLUMNS - 1
  /\ current_output_row \in Nat /\ prompt_row \in 0 .. ROWS - 2
  /\ \A cell \in DOMAIN screen : screen[cell] \in Printed \cup {Code}

ShellTyped ==
  /\ shell \in {"start", "poll", "use", "command", "halted"}
  /\ c \in Chars \cup {Nul}

LEMMA TypeParts == TypeOK <=> DriverTyped /\ LineTyped /\ ShellTyped
BY DEF TypeOK, DriverTyped, LineTyped, ShellTyped

\* Nothing comes before the keyboard is switched on.
Silent == shell = "start" => keyboard_input_on = FALSE /\ keyboard_buffer = <<>>

\* Without a race there is never more than one character to take.
OneWaits == ~ raced => Len(keyboard_buffer) <= 1

DriverInv == DriverTyped /\ Silent /\ OneWaits /\ OrderWhenPolled /\ NothingLost

\* The cell of character k of the line.
CellAt(k) == Cell(CellOf(k) \div COLUMNS, CellOf(k) % COLUMNS)

\* Nothing is written behind the prompt but cells of the longest line.
OnlyLineCells == \A cell \in DOMAIN screen : \E k \in 1 .. LineLimit : cell = CellAt(k)

LineInv == LineTyped /\ CursorFollowsLine /\ ScreenShowsLine /\ OnlyLineCells

IInv == DriverInv /\ LineInv /\ ShellTyped

-----------------------------------------------------------------------------
\* Characters.
LEMMA AsciiChar ==
  ASSUME NEW k \in Keys, NEW up \in BOOLEAN
  PROVE  Ascii(k, up) \in Chars
<1>1. CASE k \in {"enter", "erase", "tab"}
  BY <1>1 DEF Ascii, Chars, Enter, Erase, Tab
<1>2. CASE k \notin {"enter", "erase", "tab"}
  <2>1. k \in Letters \cup Signs
    BY <1>2 DEF Keys
  <2>2. Char(k, up) \in Printed
    BY <2>1 DEF Printed
  <2>. QED
    BY <1>2, <2>2 DEF Ascii, Chars
<1>. QED
  BY <1>1, <1>2

LEMMA TranslatedChar ==
  ASSUME NEW k \in Keys, DriverTyped
  PROVE  Translated(k) \in Chars
<1>1. key_state.shift \in BOOLEAN /\ key_state.caps \in BOOLEAN
  BY DEF DriverTyped
<1>2. (k \in Letters /\ key_state.caps) \in BOOLEAN
  OBVIOUS
<1>3. Ascii(k, TRUE) \in Chars /\ Ascii(k, k \in Letters /\ key_state.caps) \in Chars
  BY <1>2, AsciiChar
<1>. QED
  BY <1>3 DEF Translated

-----------------------------------------------------------------------------
\* The last element of a sequence, and what it is taken from.
LEMMA LastTaken ==
  ASSUME NEW S, NEW s \in Seq(S), s # <<>>
  PROVE  /\ LastOf(s) \in S
         /\ LastRemoved(s) \in Seq(S)
         /\ Len(s) \in Nat \ {0}
         /\ Len(LastRemoved(s)) = Len(s) - 1
         /\ s = Append(LastRemoved(s), LastOf(s))
<1>1. Len(s) \in Nat \ {0}
  BY EmptySeq
<1>2. LastOf(s) = s[Len(s)] /\ LastRemoved(s) = SubSeq(s, 1, Len(s) - 1)
  BY DEF LastOf, LastRemoved
<1>3. LastOf(s) \in S
  BY <1>1, <1>2, ElementOfSeq
<1>4. /\ LastRemoved(s) \in Seq(S) /\ Len(LastRemoved(s)) = Len(s) - 1
      /\ \A i \in 1 .. Len(s) - 1 : LastRemoved(s)[i] = s[i]
  <2>1. \A i \in 1 .. Len(s) - 1 : s[i] \in S
    BY <1>1, ElementOfSeq
  <2>. DEFINE n == Len(s) - 1
  <2>2. n \in Nat /\ LastRemoved(s) = SubSeq(s, 1, n) /\ \A i \in 1 .. n : s[i] \in S
    BY <1>1, <1>2, <2>1
  <2>. HIDE DEF n
  <2>3. /\ SubSeq(s, 1, n) \in Seq(S)
        /\ Len(SubSeq(s, 1, n)) = IF 1 <= n THEN n - 1 + 1 ELSE 0
        /\ \A i \in 1 .. n - 1 + 1 : SubSeq(s, 1, n)[i] = s[1 + i - 1]
    BY <2>2, SubSeqProperties
  <2>4. \A i \in 1 .. n : i \in 1 .. n - 1 + 1 /\ 1 + i - 1 = i
    BY <2>2
  <2>5. /\ Len(LastRemoved(s)) = n
        /\ \A i \in 1 .. n : LastRemoved(s)[i] = s[i]
    BY <2>2, <2>3, <2>4
  <2>. QED
    BY <2>2, <2>3, <2>5 DEF n
<1>5. s = Append(LastRemoved(s), LastOf(s))
  <2>. DEFINE t == Append(LastRemoved(s), LastOf(s))
  <2>1. t \in Seq(S) /\ Len(t) = Len(s)
    BY <1>1, <1>3, <1>4
  <2>2. \A i \in 1 .. Len(s) : s[i] = t[i]
    BY <1>1, <1>2, <1>3, <1>4
  <2>. QED
    BY <2>1, <2>2, SeqEqual
<1>. QED
  BY <1>1, <1>3, <1>4, <1>5

LEMMA OnlyOneTaken ==
  ASSUME NEW S, NEW s \in Seq(S), Len(s) = 1
  PROVE  s = <<LastOf(s)>> /\ LastRemoved(s) = <<>>
<1>1. s # <<>>
  BY EmptySeq
<1>2. LastRemoved(s) \in Seq(S) /\ Len(LastRemoved(s)) = 0
  BY <1>1, LastTaken
<1>3. LastRemoved(s) = <<>>
  BY <1>2
<1>4. LastOf(s) = s[1] /\ s[1] \in S
  BY <1>1, ElementOfSeq DEF LastOf
<1>5. s = <<s[1]>>
  <2>1. <<s[1]>> \in Seq(S) /\ Len(<<s[1]>>) = 1 /\ <<s[1]>>[1] = s[1]
    BY <1>4
  <2>2. \A i \in 1 .. Len(s) : s[i] = <<s[1]>>[i]
    BY <2>1
  <2>. QED
    BY <2>1, <2>2, SeqEqual
<1>. QED
  BY <1>3, <1>4, <1>5

-----------------------------------------------------------------------------
\* The number of times a character occurs, when one is added or taken away.
LEMMA CountFinite ==
  ASSUME NEW s \in Seq(Chars), NEW ch
  PROVE  IsFiniteSet({i \in DOMAIN s : s[i] = ch}) /\ Count(s, ch) \in Nat
<1>1. IsFiniteSet(1 .. Len(s))
  BY FS_Interval
<1>2. {i \in DOMAIN s : s[i] = ch} \subseteq 1 .. Len(s)
  OBVIOUS
<1>3. IsFiniteSet({i \in DOMAIN s : s[i] = ch})
  BY <1>1, <1>2, FS_Subset
<1>. QED
  BY <1>3, FS_CardinalityType DEF Count

LEMMA CountAppend ==
  ASSUME NEW s \in Seq(Chars), NEW x \in Chars, NEW ch
  PROVE  Count(Append(s, x), ch) = Count(s, ch) + (IF x = ch THEN 1 ELSE 0)
<1>. DEFINE at(t) == {i \in DOMAIN t : t[i] = ch}
<1>1. IsFiniteSet(at(s)) /\ Count(s, ch) \in Nat
  BY CountFinite
<1>2. CASE x = ch
  <2>1. at(Append(s, x)) = at(s) \cup {Len(s) + 1}
    BY <1>2
  <2>2. Len(s) + 1 \notin at(s)
    OBVIOUS
  <2>3. Cardinality(at(s) \cup {Len(s) + 1}) = Cardinality(at(s)) + 1
    BY <1>1, <2>2, FS_AddElement
  <2>. QED
    BY <1>1, <1>2, <2>1, <2>3 DEF Count
<1>3. CASE x # ch
  <2>1. at(Append(s, x)) = at(s)
    BY <1>3
  <2>2. Count(Append(s, x), ch) = Count(s, ch)
    BY <2>1 DEF Count
  <2>. QED
    BY <1>1, <1>3, <2>2
<1>. QED
  BY <1>2, <1>3

LEMMA CountRemoved ==
  ASSUME NEW s \in Seq(Chars), s # <<>>, NEW ch
  PROVE  Count(s, ch) = Count(LastRemoved(s), ch) + (IF LastOf(s) = ch THEN 1 ELSE 0)
<1>1. LastRemoved(s) \in Seq(Chars) /\ LastOf(s) \in Chars
  BY LastTaken
<1>2. s = Append(LastRemoved(s), LastOf(s))
  BY LastTaken
<1>. DEFINE rest == LastRemoved(s)
            last == LastOf(s)
<1>3. Count(Append(rest, last), ch) = Count(rest, ch) + (IF last = ch THEN 1 ELSE 0)
  BY <1>1, CountAppend
<1>4. s = Append(rest, last)
  BY <1>2
<1>. HIDE DEF rest, last
<1>5. Count(s, ch) = Count(rest, ch) + (IF last = ch THEN 1 ELSE 0)
  BY <1>3, <1>4
<1>. QED
  BY <1>5 DEF rest, last

-----------------------------------------------------------------------------
\* The driver's part.
LEMMA DriverStart == Init => DriverInv
<1>. SUFFICES ASSUME Init PROVE DriverInv
  OBVIOUS
<1>0. <<>> \in Seq(Chars) /\ Len(<<>>) < KEYBOARD_BUFFER_SIZE
  BY TerminalAssumption
<1>1. DriverTyped
  BY <1>0 DEF Init, DriverTyped
<1>2. Silent /\ OneWaits /\ OrderWhenPolled
  BY DEF Init, Silent, OneWaits, OrderWhenPolled
<1>3. NothingLost
  <2>. SUFFICES ASSUME NEW ch \in Chars
                PROVE  Count(<<>>, ch) = Count(<<>>, ch) + Count(<<>>, ch)
    BY DEF Init, NothingLost
  <2>1. {i \in DOMAIN <<>> : <<>>[i] = ch} = {}
    OBVIOUS
  <2>. QED
    BY <2>1, FS_EmptySet DEF Count
<1>. QED
  BY <1>1, <1>2, <1>3 DEF DriverInv

LEMMA PressKeeps ==
  ASSUME DriverInv, NEW k \in Keys, Press(k)
  PROVE  DriverInv'
<1>. DEFINE ch == Translated(k)
            stored == Stored(keyboard_buffer, ch)
<1>1. ch \in Chars
  BY TranslatedChar DEF DriverInv
<1>2. CASE ~ keyboard_input_on
  BY <1>2 DEF DriverInv, DriverTyped, Silent, OneWaits, OrderWhenPolled, NothingLost, Press
<1>3. CASE keyboard_input_on /\ ~ Len(keyboard_buffer) < KEYBOARD_BUFFER_SIZE - 1
  <2>1. keyboard_buffer' = keyboard_buffer /\ typed' = typed /\ taken' = taken
        /\ raced' = (raced \/ keyboard_buffer # <<>>)
        /\ UNCHANGED <<keyboard_input_on, key_state, shell>>
    BY <1>3 DEF Press, Stored, DriverInv, DriverTyped
  <2>. QED
    BY <2>1 DEF DriverInv, DriverTyped, Silent, OneWaits, OrderWhenPolled, NothingLost
<1>4. CASE keyboard_input_on /\ Len(keyboard_buffer) < KEYBOARD_BUFFER_SIZE - 1
  <2>1. /\ keyboard_buffer' = Append(keyboard_buffer, ch)
        /\ typed' = Append(typed, ch)
        /\ taken' = taken
        /\ raced' = (raced \/ keyboard_buffer # <<>>)
        /\ UNCHANGED <<keyboard_input_on, key_state, shell>>
    BY <1>1, <1>4 DEF Press, Stored, DriverInv, DriverTyped
  <2>2. DriverTyped'
    BY <1>1, <1>4, <2>1, TerminalAssumption DEF DriverInv, DriverTyped
  <2>3. Silent'
    BY <1>4, <2>1 DEF DriverInv, Silent
  <2>4. OneWaits'
    <3>. SUFFICES ASSUME ~ raced' PROVE Len(keyboard_buffer') <= 1
      BY DEF OneWaits
    <3>1. keyboard_buffer = <<>>
      BY <2>1
    <3>2. Len(Append(<<>>, ch)) = 1
      OBVIOUS
    <3>. QED
      BY <2>1, <3>1, <3>2
  <2>5. OrderWhenPolled'
    <3>. SUFFICES ASSUME ~ raced' PROVE taken' \o keyboard_buffer' = typed'
      BY DEF OrderWhenPolled
    <3>1. keyboard_buffer = <<>> /\ taken \o <<>> = typed
      BY <2>1 DEF DriverInv, OrderWhenPolled
    <3>2. taken = typed
      BY <3>1 DEF DriverInv, DriverTyped
    <3>3. taken' \o keyboard_buffer' = typed \o <<ch>>
      BY <2>1, <3>1, <3>2
    <3>. QED
      BY <1>1, <2>1, <3>3 DEF DriverInv, DriverTyped
  <2>6. NothingLost'
    <3>. SUFFICES ASSUME NEW x \in Chars
                  PROVE  Count(typed', x) = Count(taken', x) + Count(keyboard_buffer', x)
      BY DEF NothingLost
    <3>1. Count(typed, x) = Count(taken, x) + Count(keyboard_buffer, x)
      BY DEF DriverInv, NothingLost
    <3>2. /\ Count(typed', x) = Count(typed, x) + (IF ch = x THEN 1 ELSE 0)
          /\ Count(keyboard_buffer', x) = Count(keyboard_buffer, x) + (IF ch = x THEN 1 ELSE 0)
      BY <1>1, <2>1, CountAppend DEF DriverInv, DriverTyped
    <3>3. /\ Count(typed, x) \in Nat /\ Count(taken, x) \in Nat
          /\ Count(keyboard_buffer, x) \in Nat
      BY CountFinite DEF DriverInv, DriverTyped
    <3>. QED
      BY <2>1, <3>1, <3>2, <3>3
  <2>. QED
    BY <2>2, <2>3, <2>4, <2>5, <2>6 DEF DriverInv
<1>. QED
  BY <1>2, <1>3, <1>4 DEF DriverInv, DriverTyped

LEMMA ActivateKeeps ==
  ASSUME DriverInv, Activate
  PROVE  DriverInv'
<1>1. keyboard_buffer = <<>> /\ keyboard_buffer' = <<>>
  BY DEF DriverInv, Silent, Activate
<1>2. UNCHANGED history /\ shell' = "poll"
  BY DEF Activate, PromptAt
<1>3. DriverTyped'
  BY <1>1, <1>2, TerminalAssumption DEF DriverInv, DriverTyped, Activate, history
<1>. QED
  BY <1>1, <1>2, <1>3 DEF DriverInv, Silent, OneWaits, OrderWhenPolled, NothingLost, history

LEMMA PollKeeps ==
  ASSUME DriverInv, Poll
  PROVE  DriverInv' /\ c' \in Chars \cup {Nul}
<1>1. UNCHANGED <<keyboard_input_on, key_state, typed, raced>> /\ shell' = "use"
  BY DEF Poll
<1>2. CASE keyboard_buffer = <<>>
  <2>1. keyboard_buffer' = keyboard_buffer /\ taken' = taken /\ c' = Nul
    BY <1>2 DEF Poll, LastRemoved, LastOf
  <2>. QED
    BY <1>1, <2>1 DEF DriverInv, DriverTyped, Silent, OneWaits, OrderWhenPolled, NothingLost
<1>3. CASE keyboard_buffer # <<>>
  <2>1. /\ keyboard_buffer' = LastRemoved(keyboard_buffer)
        /\ c' = LastOf(keyboard_buffer)
        /\ taken' = Append(taken, LastOf(keyboard_buffer))
    BY <1>3 DEF Poll
  <2>2. /\ LastOf(keyboard_buffer) \in Chars
        /\ LastRemoved(keyboard_buffer) \in Seq(Chars)
        /\ Len(LastRemoved(keyboard_buffer)) = Len(keyboard_buffer) - 1
        /\ Len(keyboard_buffer) \in Nat \ {0}
    BY <1>3, LastTaken DEF DriverInv, DriverTyped
  <2>3. DriverTyped'
    <3>1. /\ keyboard_buffer' \in Seq(Chars)
          /\ Len(keyboard_buffer') < KEYBOARD_BUFFER_SIZE
      BY <2>1, <2>2, TerminalAssumption DEF DriverInv, DriverTyped
    <3>2. taken' \in Seq(Chars)
      BY <2>1, <2>2 DEF DriverInv, DriverTyped
    <3>. QED
      BY <1>1, <3>1, <3>2 DEF DriverInv, DriverTyped
  <2>4. Silent' /\ OneWaits'
    <3>1. Silent'
      BY <1>1 DEF Silent
    <3>2. Len(keyboard_buffer) <= 1 => Len(keyboard_buffer') <= 1
      BY <2>1, <2>2
    <3>3. OneWaits'
      BY <1>1, <3>2 DEF DriverInv, OneWaits
    <3>. QED
      BY <3>1, <3>3
  <2>5. OrderWhenPolled'
    <3>. SUFFICES ASSUME ~ raced PROVE taken' \o keyboard_buffer' = typed
      BY <1>1 DEF OrderWhenPolled
    <3>1. Len(keyboard_buffer) = 1 /\ taken \o keyboard_buffer = typed
      BY <2>2 DEF DriverInv, OneWaits, OrderWhenPolled
    <3>2. keyboard_buffer = <<LastOf(keyboard_buffer)>> /\ keyboard_buffer' = <<>>
      BY <2>1, <3>1, OnlyOneTaken DEF DriverInv, DriverTyped
    <3>3. taken' = taken \o <<LastOf(keyboard_buffer)>>
      BY <2>1, <2>2 DEF DriverInv, DriverTyped
    <3>4. taken' = typed /\ taken' \in Seq(Chars)
      BY <2>3, <3>1, <3>2, <3>3 DEF DriverTyped
    <3>. QED
      BY <3>2, <3>4
  <2>6. NothingLost'
    <3>. SUFFICES ASSUME NEW x \in Chars
                  PROVE  Count(typed, x) = Count(taken', x) + Count(keyboard_buffer', x)
      BY <1>1 DEF NothingLost
    <3>. DEFINE one == IF LastOf(keyboard_buffer) = x THEN 1 ELSE 0
    <3>1. Count(typed, x) = Count(taken, x) + Count(keyboard_buffer, x)
      BY DEF DriverInv, NothingLost
    <3>2. Count(taken', x) = Count(taken, x) + one
      BY <2>1, <2>2, CountAppend DEF DriverInv, DriverTyped
    <3>3. Count(keyboard_buffer, x) = Count(keyboard_buffer', x) + one
      BY <1>3, <2>1, CountRemoved DEF DriverInv, DriverTyped
    <3>4. Count(taken, x) \in Nat /\ Count(keyboard_buffer', x) \in Nat
      BY <2>1, <2>2, CountFinite DEF DriverInv, DriverTyped
    <3>. QED
      BY <3>1, <3>2, <3>3, <3>4
  <2>. QED
    BY <2>1, <2>2, <2>3, <2>4, <2>5, <2>6 DEF DriverInv
<1>. QED
  BY <1>2, <1>3

\* The rest of the system leaves the driver alone, but for the modifier keys.
LEMMA OthersKeepDriver ==
  ASSUME DriverInv, Modifier \/ Use \/ Prompt \/ UNCHANGED vars
  PROVE  DriverInv'
<1>1. /\ UNCHANGED <<keyboard_input_on, keyboard_buffer, history>>
      /\ shell' = "start" => shell = "start"
  <2>1. CASE Modifier
    BY <2>1 DEF Modifier
  <2>2. CASE Use
    BY <2>2 DEF Use, UseChar, UseErase, UseEnter, UseNothing, driver
  <2>3. CASE Prompt
    BY <2>3 DEF Prompt, PromptAt, driver
  <2>4. CASE UNCHANGED vars
    BY <2>4 DEF vars, driver
  <2>. QED
    BY <2>1, <2>2, <2>3, <2>4
<1>2. key_state' \in [shift : BOOLEAN, caps : BOOLEAN]
  <2>0. key_state \in [shift : BOOLEAN, caps : BOOLEAN]
    BY DEF DriverInv, DriverTyped
  <2>1. CASE Modifier
    BY <2>0, <2>1, Zenon DEF Modifier
  <2>2. CASE Use \/ Prompt \/ UNCHANGED vars
    BY <2>0, <2>2 DEF Use, Prompt, vars, driver
  <2>. QED
    BY <2>1, <2>2
<1>. QED
  BY <1>1, <1>2
     DEF DriverInv, DriverTyped, Silent, OneWaits, OrderWhenPolled, NothingLost, history

-----------------------------------------------------------------------------
\* Rows and columns of the screen.
LEMMA Products ==
  ASSUME NEW a \in Int, NEW b \in Int, NEW w \in Nat, a <= b
  PROVE  a * w \in Int /\ b * w \in Int /\ a * w <= b * w
BY Z3

LEMMA Division ==
  ASSUME NEW n \in Nat
  PROVE  /\ n \div COLUMNS \in Nat /\ (n % COLUMNS) \in 0 .. COLUMNS - 1
         /\ n = (n \div COLUMNS) * COLUMNS + (n % COLUMNS)
BY TerminalAssumption, Z3

LEMMA OneDivision ==
  ASSUME NEW row \in Nat, NEW col \in 0 .. COLUMNS - 1
  PROVE  LET n == row * COLUMNS + col
         IN  Cell(n \div COLUMNS, n % COLUMNS) = Cell(row, col)
<1>. DEFINE n == row * COLUMNS + col
            d == n \div COLUMNS
            m == n % COLUMNS
<1>0. COLUMNS \in Nat \ {0} /\ row * COLUMNS \in Nat
  BY TerminalAssumption, Z3
<1>1. n \in Nat
  BY <1>0
<1>2. d \in Nat /\ m \in 0 .. COLUMNS - 1 /\ n = d * COLUMNS + m
  BY <1>1, Division
<1>3. row * COLUMNS + col = d * COLUMNS + m
  BY <1>2
<1>. HIDE DEF n, d, m
<1>4. ~ row < d
  <2>. SUFFICES ASSUME row + 1 <= d PROVE FALSE
    BY <1>2
  <2>1. (row + 1) * COLUMNS <= d * COLUMNS /\ d * COLUMNS \in Int
    BY <1>0, <1>2, Products
  <2>2. (row + 1) * COLUMNS = row * COLUMNS + COLUMNS
    BY <1>0, Z3
  <2>. QED
    BY <1>0, <1>2, <1>3, <2>1, <2>2
<1>5. ~ d < row
  <2>. SUFFICES ASSUME d + 1 <= row PROVE FALSE
    BY <1>2
  <2>1. (d + 1) * COLUMNS <= row * COLUMNS
    BY <1>0, <1>2, Products
  <2>2. (d + 1) * COLUMNS = d * COLUMNS + COLUMNS /\ d * COLUMNS \in Int
    BY <1>0, <1>2, Z3
  <2>. QED
    BY <1>0, <1>2, <1>3, <2>1, <2>2
<1>6. row = d
  BY <1>2, <1>4, <1>5
<1>7. col = m
  BY <1>0, <1>2, <1>3, <1>6
<1>. QED
  BY <1>6, <1>7 DEF n, d, m

\* Characters of the line have positions on the screen, each its own cell.
LEMMA Positions ==
  ASSUME prompt_row \in Nat, NEW k \in Nat \ {0}
  PROVE  /\ CellOf(k) \in Nat
         /\ CellOf(k + 1) = CellOf(k) + 1
<1>1. prompt_row * COLUMNS \in Nat /\ PromptLen \in Nat
  BY TerminalAssumption, Z3
<1>. DEFINE p == prompt_row * COLUMNS
<1>2. CellOf(k) = p + PromptLen + k - 1 /\ CellOf(k + 1) = p + PromptLen + (k + 1) - 1
  BY DEF CellOf
<1>. HIDE DEF p
<1>3. p \in Nat
  BY <1>1 DEF p
<1>. QED
  BY <1>1, <1>2, <1>3

LEMMA CellsDiffer ==
  ASSUME prompt_row \in Nat, NEW j \in Nat \ {0}, NEW k \in Nat \ {0}, j # k
  PROVE  CellAt(j) # CellAt(k)
<1>1. CellOf(j) \in Nat /\ CellOf(k) \in Nat
  BY Positions
<1>2. CellOf(j) # CellOf(k)
  <2>. DEFINE p == prompt_row * COLUMNS
  <2>1. p \in Nat /\ PromptLen \in Nat
    BY TerminalAssumption, Z3
  <2>2. CellOf(j) = p + PromptLen + j - 1 /\ CellOf(k) = p + PromptLen + k - 1
    BY DEF CellOf
  <2>. HIDE DEF p
  <2>. QED
    BY <2>1, <2>2
<1>. SUFFICES ASSUME CellAt(j) = CellAt(k) PROVE FALSE
  OBVIOUS
<1>3. CellOf(j) \div COLUMNS = CellOf(k) \div COLUMNS /\ CellOf(j) % COLUMNS = CellOf(k) % COLUMNS
  BY DEF CellAt, Cell
<1>. QED
  BY <1>1, <1>2, <1>3, Division

LEMMA CellAtPosition ==
  ASSUME NEW row \in Nat, NEW col \in 0 .. COLUMNS - 1, NEW k,
         row * COLUMNS + col = CellOf(k)
  PROVE  Cell(row, col) = CellAt(k)
BY OneDivision DEF CellAt

LEMMA PutCell ==
  ASSUME NEW cell, NEW ch, Put(cell, ch)
  PROVE  /\ DOMAIN screen' = DOMAIN screen \cup {cell}
         /\ screen'[cell] = ch
         /\ \A other \in DOMAIN screen : other # cell => screen'[other] = screen[other]
BY DEF Put

-----------------------------------------------------------------------------
\* The line and the screen.
LEMMA LimitType == LineLimit \in Nat
BY TerminalAssumption DEF LineLimit

\* What the screen shows does not change with the shell's step.
LEMMA LineKept ==
  ASSUME LineInv, UNCHANGED line,
         shell' \in {"poll", "use"} => shell \in {"poll", "use"}
  PROVE  LineInv'
<1>1. LineTyped' /\ CursorFollowsLine'
  BY DEF LineInv, LineTyped, CursorFollowsLine, CellOf, line
<1>2. ScreenShowsLine' /\ OnlyLineCells'
  BY DEF LineInv, ScreenShowsLine, OnlyLineCells, CellAt, CellOf, line
<1>. QED
  BY <1>1, <1>2 DEF LineInv

\* An empty line behind a prompt that begins above the last row.
LEMMA PromptStep ==
  ASSUME NEW row \in 0 .. ROWS - 2, PromptAt(row)
  PROVE  LineInv'
<1>1. /\ row \in Nat /\ PromptLen \in Nat /\ COLUMNS \in Nat /\ COMMAND_BUFFER_SIZE \in Nat \ {0}
      /\ row * COLUMNS \in Nat
  <2>1. row \in Nat /\ PromptLen \in Nat /\ COLUMNS \in Nat /\ COMMAND_BUFFER_SIZE \in Nat \ {0}
    BY TerminalAssumption
  <2>. QED
    BY <2>1, Z3
<1>. DEFINE d == PromptLen \div COLUMNS
            m == PromptLen % COLUMNS
<1>2. d \in Nat /\ m \in 0 .. COLUMNS - 1 /\ PromptLen = d * COLUMNS + m
  BY <1>1, Division
<1>3. /\ prompt_row' = row /\ current_output_row' = row + d /\ cursor_col' = m
      /\ buffer' = <<>> /\ screen' = <<>> /\ shell' = "poll"
  BY DEF PromptAt, CellBehind, Cell
<1>. HIDE DEF d, m
<1>4. LineTyped'
  BY <1>1, <1>2, <1>3 DEF LineTyped
<1>5. CursorFollowsLine'
  <2>1. (row + d) * COLUMNS = row * COLUMNS + d * COLUMNS /\ d * COLUMNS \in Nat
    BY <1>1, <1>2, Z3
  <2>2. CellOf(Len(buffer) + 1)' = row * COLUMNS + PromptLen
    BY <1>1, <1>3 DEF CellOf
  <2>3. (row + d) * COLUMNS + m = row * COLUMNS + PromptLen
    BY <1>1, <1>2, <2>1
  <2>. QED
    BY <1>3, <2>2, <2>3 DEF CursorFollowsLine
<1>6. ScreenShowsLine' /\ OnlyLineCells'
  BY <1>3 DEF ScreenShowsLine, OnlyLineCells
<1>. QED
  BY <1>4, <1>5, <1>6 DEF LineInv

\* A character is put into the cell behind the line, and no other changes.
LEMMA EchoStep ==
  ASSUME LineInv, shell = "use", shell' = "poll", c \in Printed,
         Len(buffer) < LineLimit, Echo, buffer' = Append(buffer, c), UNCHANGED prompt_row
  PROVE  LineInv'
<1>. DEFINE n == Len(buffer) + 1
<1>1. /\ buffer \in Seq(Printed) /\ Len(buffer) \in Nat /\ cursor_col \in 0 .. COLUMNS - 1
      /\ current_output_row \in Nat /\ prompt_row \in Nat /\ COLUMNS \in Nat \ {0}
      /\ COMMAND_BUFFER_SIZE \in Nat
  BY TerminalAssumption DEF LineInv, LineTyped
<1>2. n \in 1 .. LineLimit /\ n \in Nat \ {0} /\ n < COMMAND_BUFFER_SIZE
  BY <1>1 DEF LineLimit
<1>3. current_output_row * COLUMNS + cursor_col = CellOf(n)
  BY DEF LineInv, CursorFollowsLine
<1>4. Cell(current_output_row, cursor_col) = CellAt(n)
  BY <1>1, <1>3, CellAtPosition
<1>5. /\ DOMAIN screen' = DOMAIN screen \cup {CellAt(n)}
      /\ screen'[CellAt(n)] = c
      /\ \A other \in DOMAIN screen : other # CellAt(n) => screen'[other] = screen[other]
  BY <1>4, PutCell DEF Echo
<1>6. \A k : CellAt(k)' = CellAt(k) /\ CellOf(k)' = CellOf(k)
  BY DEF CellAt, CellOf
<1>7. /\ buffer' \in Seq(Printed) /\ Len(buffer') = n
      /\ DOMAIN buffer' = 1 .. n /\ DOMAIN buffer = 1 .. Len(buffer)
      /\ buffer'[n] = c /\ \A k \in 1 .. Len(buffer) : buffer'[k] = buffer[k]
  BY <1>1
<1>8. /\ current_output_row' \in Nat /\ cursor_col' \in 0 .. COLUMNS - 1
      /\ current_output_row' * COLUMNS + cursor_col' = CellOf(n + 1)
  <2>1. CellOf(n + 1) = CellOf(n) + 1 /\ CellOf(n) \in Nat
    BY <1>1, <1>2, Positions
  <2>2. /\ current_output_row * COLUMNS \in Nat
        /\ (current_output_row + 1) * COLUMNS = current_output_row * COLUMNS + COLUMNS
    BY <1>1, Z3
  <2>3. CASE cursor_col + 1 >= COLUMNS
    <3>1. current_output_row' = current_output_row + 1 /\ cursor_col' = 0
      BY <2>3 DEF Echo, NextCell, Cell
    <3>. QED
      BY <1>1, <1>3, <2>1, <2>2, <2>3, <3>1
  <2>4. CASE ~ cursor_col + 1 >= COLUMNS
    <3>1. current_output_row' = current_output_row /\ cursor_col' = cursor_col + 1
      BY <2>4 DEF Echo, NextCell, Cell
    <3>. QED
      BY <1>1, <1>3, <2>1, <2>2, <2>4, <3>1
  <2>. QED
    BY <2>3, <2>4
<1>. HIDE DEF n
<1>9. LineTyped'
  <2>1. \A cell \in DOMAIN screen' : screen'[cell] \in Printed \cup {Code}
    BY <1>5 DEF LineInv, LineTyped
  <2>. QED
    BY <1>2, <1>7, <1>8, <2>1 DEF LineInv, LineTyped
<1>10. CursorFollowsLine'
  BY <1>6, <1>7, <1>8 DEF CursorFollowsLine
<1>11. ScreenShowsLine'
  <2>. SUFFICES ASSUME NEW k \in 1 .. n
                PROVE  CellAt(k) \in DOMAIN screen' /\ screen'[CellAt(k)] = buffer'[k]
    BY <1>6, <1>7 DEF ScreenShowsLine, CellAt
  <2>1. CASE k = n
    BY <1>5, <1>7, <2>1
  <2>2. CASE k # n
    <3>1. k \in 1 .. Len(buffer) /\ k \in Nat \ {0}
      BY <1>1, <2>2 DEF n
    <3>2. CellAt(k) # CellAt(n)
      BY <1>1, <1>2, <2>2, <3>1, CellsDiffer
    <3>3. CellAt(k) \in DOMAIN screen /\ screen[CellAt(k)] = buffer[k]
      BY <1>7, <3>1 DEF LineInv, ScreenShowsLine, CellAt
    <3>. QED
      BY <1>5, <1>7, <3>1, <3>2, <3>3
  <2>. QED
    BY <2>1, <2>2
<1>12. OnlyLineCells'
  BY <1>2, <1>5, <1>6 DEF LineInv, OnlyLineCells
<1>. QED
  BY <1>9, <1>10, <1>11, <1>12 DEF LineInv

\* An erased character's cell is behind the line that is left.
LEMMA EraseStep ==
  ASSUME LineInv, shell = "use", shell' = "poll", MayErase,
         buffer' = SubSeq(buffer, 1, Len(buffer) - 1), cursor_col' = cursor_col - 1,
         PutErased, UNCHANGED <<current_output_row, prompt_row>>
  PROVE  LineInv'
<1>. DEFINE n == Len(buffer)
<1>1. /\ buffer \in Seq(Printed) /\ cursor_col \in 0 .. COLUMNS - 1
      /\ current_output_row \in Nat /\ prompt_row \in Nat /\ COLUMNS \in Nat \ {0}
      /\ COMMAND_BUFFER_SIZE \in Nat /\ PromptLen \in Nat /\ buffer # <<>>
      /\ cursor_col > PromptLen /\ n < COMMAND_BUFFER_SIZE
  BY TerminalAssumption DEF LineInv, LineTyped, MayErase
<1>2. n \in Nat \ {0}
  BY <1>1, EmptySeq
<1>3. n \in 1 .. LineLimit
  BY <1>1, <1>2 DEF LineLimit
<1>4. cursor_col' \in 0 .. COLUMNS - 1
  BY <1>1
<1>5. current_output_row * COLUMNS + (cursor_col - 1) = CellOf(n)
  <2>. DEFINE before == current_output_row * COLUMNS
              last == CellOf(n)
  <2>1. before \in Nat
    BY <1>1, Z3
  <2>2. CellOf(n + 1) = last + 1 /\ last \in Nat
    BY <1>1, <1>2, Positions
  <2>3. before + cursor_col = CellOf(n + 1)
    BY DEF LineInv, CursorFollowsLine
  <2>4. cursor_col \in Int
    BY <1>1
  <2>. HIDE DEF before, last
  <2>5. before + (cursor_col - 1) = last
    BY <2>1, <2>2, <2>3, <2>4
  <2>. QED
    BY <2>5 DEF before, last
<1>6. Cell(current_output_row, cursor_col - 1) = CellAt(n)
  BY <1>1, <1>4, <1>5, CellAtPosition
<1>7. /\ DOMAIN screen' = DOMAIN screen \cup {CellAt(n)}
      /\ screen'[CellAt(n)] = Code
      /\ \A other \in DOMAIN screen : other # CellAt(n) => screen'[other] = screen[other]
  BY <1>6, PutCell DEF PutErased
<1>8. \A k : CellAt(k)' = CellAt(k) /\ CellOf(k)' = CellOf(k)
  BY DEF CellAt, CellOf
<1>9. /\ buffer' \in Seq(Printed) /\ Len(buffer') = n - 1
      /\ \A k \in 1 .. n - 1 : buffer'[k] = buffer[k]
      /\ DOMAIN buffer' = 1 .. n - 1 /\ DOMAIN buffer = 1 .. n
  <2>1. buffer' = LastRemoved(buffer)
    BY <1>1 DEF LastRemoved
  <2>2. /\ buffer' \in Seq(Printed) /\ Len(buffer') = n - 1
        /\ buffer = Append(buffer', LastOf(buffer))
    <3>1. buffer \in Seq(Printed) /\ buffer # <<>>
      BY <1>1
    <3>2. /\ LastRemoved(buffer) \in Seq(Printed) /\ Len(LastRemoved(buffer)) = n - 1
          /\ buffer = Append(LastRemoved(buffer), LastOf(buffer))
      BY <3>1, LastTaken
    <3>. QED
      BY <2>1, <3>2, Zenon
  <2>. QED
    BY <1>1, <1>2, <2>2
<1>. HIDE DEF n
<1>10. LineTyped'
  <2>1. \A cell \in DOMAIN screen' : screen'[cell] \in Printed \cup {Code}
    BY <1>7 DEF LineInv, LineTyped
  <2>2. Len(buffer') < COMMAND_BUFFER_SIZE
    BY <1>1, <1>2, <1>9
  <2>. QED
    BY <1>4, <1>9, <2>1, <2>2 DEF LineInv, LineTyped
<1>11. CursorFollowsLine'
  <2>1. (n - 1) + 1 = n
    BY <1>2
  <2>. QED
    BY <1>5, <1>8, <1>9, <2>1 DEF CursorFollowsLine
<1>12. ScreenShowsLine'
  <2>. SUFFICES ASSUME NEW k \in 1 .. n - 1
                PROVE  CellAt(k) \in DOMAIN screen' /\ screen'[CellAt(k)] = buffer'[k]
    BY <1>8, <1>9 DEF ScreenShowsLine, CellAt
  <2>1. k \in 1 .. n /\ k \in Nat \ {0} /\ k # n
    BY <1>2
  <2>2. CellAt(k) # CellAt(n)
    BY <1>1, <1>2, <2>1, CellsDiffer
  <2>3. CellAt(k) \in DOMAIN screen /\ screen[CellAt(k)] = buffer[k]
    BY <1>9, <2>1 DEF LineInv, ScreenShowsLine, CellAt
  <2>. QED
    BY <1>7, <1>9, <2>2, <2>3
<1>13. OnlyLineCells'
  BY <1>3, <1>7, <1>8 DEF LineInv, OnlyLineCells
<1>. QED
  BY <1>10, <1>11, <1>12, <1>13 DEF LineInv

LEMMA UseStep ==
  ASSUME LineInv, Use
  PROVE  LineInv' /\ shell' \in {"poll", "command", "halted"}
<1>1. shell = "use"
  BY DEF Use
<1>2. CASE UseChar
  <2>1. CASE Len(buffer) < LineLimit
    BY <1>1, <1>2, <2>1, EchoStep DEF UseChar
  <2>2. CASE ~ Len(buffer) < LineLimit
    BY <1>1, <1>2, <2>2, LineKept DEF UseChar, line
  <2>. QED
    BY <1>2, <2>1, <2>2 DEF UseChar
<1>3. CASE UseErase
  <2>1. CASE MayErase
    BY <1>1, <1>3, <2>1, EraseStep DEF UseErase
  <2>2. CASE ~ MayErase
    BY <1>1, <1>3, <2>2, LineKept DEF UseErase, line
  <2>. QED
    BY <1>3, <2>1, <2>2 DEF UseErase
<1>4. CASE UseEnter
  <2>1. /\ shell' \in {"command", "halted"} /\ current_output_row' = current_output_row + 1
        /\ UNCHANGED <<buffer, cursor_col, screen, prompt_row>>
    BY <1>4 DEF UseEnter
  <2>2. LineTyped'
    BY <2>1 DEF LineInv, LineTyped
  <2>3. CursorFollowsLine' /\ ScreenShowsLine' /\ OnlyLineCells'
    BY <2>1 DEF LineInv, CursorFollowsLine, ScreenShowsLine, OnlyLineCells, CellAt, CellOf
  <2>. QED
    BY <2>1, <2>2, <2>3 DEF LineInv
<1>5. CASE UseNothing
  BY <1>1, <1>5, LineKept DEF UseNothing
<1>. QED
  BY <1>2, <1>3, <1>4, <1>5 DEF Use

-----------------------------------------------------------------------------
\* All steps.
LEMMA InitIInv == Init => IInv
<1>. SUFFICES ASSUME Init PROVE IInv
  OBVIOUS
<1>1. LineTyped
  BY TerminalAssumption DEF Init, LineTyped
<1>2. CursorFollowsLine /\ ScreenShowsLine /\ OnlyLineCells /\ ShellTyped
  BY DEF Init, CursorFollowsLine, ScreenShowsLine, OnlyLineCells, ShellTyped
<1>. QED
  BY <1>1, <1>2, DriverStart DEF IInv, LineInv

LEMMA PressStep ==
  ASSUME IInv, NEW k \in Keys, Press(k)
  PROVE  IInv'
<1>1. DriverInv'
  BY PressKeeps DEF IInv
<1>2. UNCHANGED <<shell, c, line>>
  BY DEF Press
<1>3. LineInv'
  BY <1>2, LineKept DEF IInv
<1>. QED
  BY <1>1, <1>2, <1>3 DEF IInv, ShellTyped

LEMMA ActivateStep ==
  ASSUME IInv, Activate
  PROVE  IInv'
<1>1. LineInv'
  BY TerminalAssumption, PromptStep DEF Activate
<1>2. shell' = "poll" /\ c' = c
  BY DEF Activate, PromptAt
<1>. QED
  BY <1>1, <1>2, ActivateKeeps DEF IInv, ShellTyped

LEMMA PollStep ==
  ASSUME IInv, Poll
  PROVE  IInv'
<1>1. UNCHANGED line /\ shell = "poll" /\ shell' = "use"
  BY DEF Poll
<1>2. LineInv'
  BY <1>1, LineKept DEF IInv
<1>. QED
  BY <1>1, <1>2, PollKeeps DEF IInv, ShellTyped

LEMMA PromptedStep ==
  ASSUME IInv, Prompt
  PROVE  IInv'
<1>1. PICK row \in current_output_row .. current_output_row + MaxOutput :
        PromptAt(RowOrTop(row)) \/ PromptAt(1)
  BY DEF Prompt
<1>2. RowOrTop(row) \in 0 .. ROWS - 2 /\ 1 \in 0 .. ROWS - 2
  BY TerminalAssumption DEF IInv, LineInv, LineTyped, RowOrTop
<1>3. LineInv'
  BY <1>1, <1>2, PromptStep
<1>4. shell' = "poll" /\ c' = c
  BY <1>1 DEF Prompt, PromptAt
<1>5. DriverInv'
  BY OthersKeepDriver DEF IInv
<1>. QED
  BY <1>3, <1>4, <1>5 DEF IInv, ShellTyped

LEMMA NextIInv == IInv /\ [Next]_vars => IInv'
<1>. SUFFICES ASSUME IInv, [Next]_vars PROVE IInv'
  OBVIOUS
<1>1. ASSUME NEW k \in Keys, Press(k) PROVE IInv'
  BY <1>1, PressStep
<1>2. CASE Modifier \/ UNCHANGED vars
  <2>1. UNCHANGED <<shell, c, line>>
    BY <1>2 DEF Modifier, vars
  <2>2. LineInv'
    BY <2>1, LineKept DEF IInv
  <2>3. DriverInv'
    BY <1>2, OthersKeepDriver DEF IInv
  <2>. QED
    BY <2>1, <2>2, <2>3 DEF IInv, ShellTyped
<1>3. CASE Activate
  BY <1>3, ActivateStep
<1>4. CASE Poll
  BY <1>4, PollStep
<1>5. CASE Use
  <2>1. DriverInv'
    BY <1>5, OthersKeepDriver DEF IInv
  <2>2. LineInv' /\ shell' \in {"poll", "command", "halted"}
    BY <1>5, UseStep DEF IInv
  <2>3. c' = c
    BY <1>5 DEF Use
  <2>. QED
    BY <2>1, <2>2, <2>3 DEF IInv, ShellTyped
<1>6. CASE Prompt
  BY <1>6, PromptedStep
<1>. QED
  BY <1>1, <1>2, <1>3, <1>4, <1>5, <1>6 DEF Next, Shell, Halted, Keys

-----------------------------------------------------------------------------
\* The inductive invariant holds throughout.
THEOREM Inductive == Spec => []IInv
BY InitIInv, NextIInv, PTL DEF Spec

\* The buffers keep their types and never fill to their last byte
\* (keyboard.c:580-591, user-shell.c:356).
THEOREM TypeCorrect == Spec => []TypeOK
<1>1. IInv => TypeOK
  BY TypeParts DEF IInv, DriverInv, LineInv
<1>. QED
  BY <1>1, Inductive, PTL

\* Every accepted character is taken once or still waits, for every size of the
\* buffer and every order of interrupts and polls (keyboard.c:580-591, 633-635).
THEOREM NothingLostSafe == Spec => []NothingLost
<1>1. IInv => NothingLost
  BY DEF IInv, DriverInv
<1>. QED
  BY <1>1, Inductive, PTL

\* While the shell keeps up with the keys, it takes them in their order
\* (keyboard.c:580-591).
THEOREM OrderSafe == Spec => []OrderWhenPolled
<1>1. IInv => OrderWhenPolled
  BY DEF IInv, DriverInv
<1>. QED
  BY <1>1, Inductive, PTL

\* The cursor stands behind the line, for every width of the screen and every
\* length of prompt and line (user-shell.c:345-361, builtin_commands.c:34-41).
THEOREM CursorSafe == Spec => []CursorFollowsLine
<1>1. IInv => CursorFollowsLine
  BY DEF IInv, LineInv
<1>. QED
  BY <1>1, Inductive, PTL

\* What the user reads behind the prompt is the line that is run
\* (user-shell.c:345-361).
THEOREM ScreenSafe == Spec => []ScreenShowsLine
<1>1. IInv => ScreenShowsLine
  BY DEF IInv, LineInv
<1>. QED
  BY <1>1, Inductive, PTL

\* A line that fits into two rows never leaves the screen (user-shell.c:367-369).
THEOREM RowsSafe == Spec => []LineOnScreen
<1>1. IInv => LineOnScreen
  <2>. SUFFICES ASSUME IInv, PromptLen + LineLimit <= 2 * COLUMNS, NEW cell \in DOMAIN screen
                PROVE  cell.row < ROWS
    BY DEF LineOnScreen
  <2>1. PICK k \in 1 .. LineLimit : cell = CellAt(k)
    BY DEF IInv, LineInv, OnlyLineCells
  <2>. DEFINE n == CellOf(k)
              d == n \div COLUMNS
              p == prompt_row * COLUMNS
  <2>2. /\ prompt_row \in Nat /\ prompt_row <= ROWS - 2 /\ k \in Nat \ {0} /\ LineLimit \in Nat
        /\ k <= LineLimit /\ COLUMNS \in Nat \ {0} /\ PromptLen \in Nat /\ ROWS \in Nat
    BY <2>1, TerminalAssumption, LimitType DEF IInv, LineInv, LineTyped
  <2>3. cell.row = d
    BY <2>1 DEF CellAt, Cell
  <2>4. d \in Nat /\ n \in Nat /\ d * COLUMNS <= n
    <3>1. n \in Nat
      BY <2>2, Positions
    <3>2. d \in Nat /\ (n % COLUMNS) \in 0 .. COLUMNS - 1 /\ n = d * COLUMNS + (n % COLUMNS)
      BY <3>1, Division
    <3>3. d * COLUMNS \in Nat
      BY <2>2, <3>2, Z3
    <3>. QED
      BY <2>2, <3>1, <3>2, <3>3
  <2>5. p \in Nat /\ (prompt_row + 2) * COLUMNS = p + 2 * COLUMNS
    BY <2>2, Z3
  <2>6. n = p + PromptLen + k - 1
    BY DEF CellOf
  <2>. HIDE DEF n, d, p
  <2>7. n < (prompt_row + 2) * COLUMNS
    BY <2>2, <2>5, <2>6
  <2>8. d < prompt_row + 2
    <3>. SUFFICES ASSUME prompt_row + 2 <= d PROVE FALSE
      BY <2>2, <2>4
    <3>1. (prompt_row + 2) * COLUMNS <= d * COLUMNS /\ d * COLUMNS \in Int
      BY <2>2, <2>4, Products
    <3>. QED
      BY <2>2, <2>4, <2>5, <2>7, <3>1
  <2>. QED
    BY <2>2, <2>3, <2>4, <2>8
<1>. QED
  BY <1>1, Inductive, PTL

-----------------------------------------------------------------------------
(* The numbers that ps prints and kill reads.                              *)

USE CommandLineAssumption

\* A number that an int can hold is kept.
LEMMA Remainder ==
  ASSUME NEW x \in Nat, NEW d \in Nat, x < d
  PROVE  x % d = x
OBVIOUS

LEMMA AsIntKeeps ==
  ASSUME NEW n \in Int, - INT_MAX <= n, n <= INT_MAX
  PROVE  AsInt(n) = n
<1>. DEFINE x == n + INT_MAX + 1
            d == 2 * (INT_MAX + 1)
<1>1. x \in Nat /\ d \in Nat /\ x < d
  OBVIOUS
<1>2. x % d = x
  <2>. HIDE DEF x, d
  <2>. QED
    BY <1>1, Remainder
<1>3. AsInt(n) = (x % d) - (INT_MAX + 1)
  BY DEF AsInt
<1>. QED
  BY <1>2, <1>3

LEMMA AsIntType ==
  ASSUME NEW n \in Int
  PROVE  AsInt(n) \in Int
<1>. DEFINE x == n + INT_MAX + 1
            d == 2 * (INT_MAX + 1)
<1>1. x \in Int /\ d \in Nat \ {0}
  OBVIOUS
<1>2. x % d \in Int
  <2>. HIDE DEF x, d
  <2>. QED
    BY <1>1
<1>. QED
  BY <1>2 DEF AsInt

-----------------------------------------------------------------------------
\* Reading digits.
Digit == 0 .. 9

IsValue(A, digits) ==
  A = [k \in 0 .. Len(digits) |-> IF k = 0 THEN 0 ELSE AsInt(A[k - 1] * 10 + digits[k])]

ValueRun(digits) == CHOOSE A : IsValue(A, digits)

LEMMA ValueOfIs == \A digits : ValueOf(digits) = ValueRun(digits)[Len(digits)]
BY Zenon DEF ValueOf, ValueRun, IsValue

\* What string_to_int has read after k digits is an int, and the next digit is added
\* to ten times as much.
LEMMA ValueSteps ==
  ASSUME NEW digits \in Seq(Digit)
  PROVE  /\ ValueRun(digits) \in [0 .. Len(digits) -> Int]
         /\ ValueRun(digits)[0] = 0
         /\ \A k \in 1 .. Len(digits) :
              ValueRun(digits)[k] = AsInt(ValueRun(digits)[k - 1] * 10 + digits[k])
<1>. DEFINE n == Len(digits)
            G == [k \in 1 .. n |-> [x \in Int |-> AsInt(x * 10 + digits[k])]]
            A == ValueRun(digits)
<1>1. n \in Nat /\ \A k \in 1 .. n : digits[k] \in Int
  BY DEF Digit
<1>2. G \in [1 .. n -> [Int -> Int]]
  <2>1. ASSUME NEW k \in 1 .. n, NEW x \in Int
        PROVE  AsInt(x * 10 + digits[k]) \in Int
    <3>1. x * 10 + digits[k] \in Int
      BY <1>1
    <3>. QED
      BY <3>1, AsIntType
  <2>. QED
    BY <2>1
<1>3. PICK f \in [0 .. n -> Int] : f[0] = 0 /\ \A k \in 1 .. n : f[k] = G[k][f[k - 1]]
  <2>. HIDE DEF G, n
  <2>1. 0 \in Int
    OBVIOUS
  <2>2. \E f \in [0 .. n -> Int] : Follows(f, n, 0, G)
    BY <1>1, <1>2, <2>1, RecursionExists
  <2>. QED
    BY <2>2 DEF Follows
<1>4. \A k \in 1 .. n : f[k] = AsInt(f[k - 1] * 10 + digits[k])
  <2>1. ASSUME NEW k \in 1 .. n
        PROVE  f[k] = AsInt(f[k - 1] * 10 + digits[k])
    <3>1. k - 1 \in 0 .. n /\ f[k - 1] \in Int
      <4>1. k - 1 \in 0 .. n
        BY <1>1
      <4>. QED
        BY <4>1
    <3>2. G[k][f[k - 1]] = AsInt(f[k - 1] * 10 + digits[k])
      BY <3>1
    <3>. QED
      BY <1>3, <3>2
  <2>. QED
    BY <2>1
<1>5. IsValue(f, digits)
  <2>1. \A k \in 0 .. n : k # 0 => k \in 1 .. n
    BY <1>1
  <2>2. \A k \in 0 .. n : f[k] = IF k = 0 THEN 0 ELSE AsInt(f[k - 1] * 10 + digits[k])
    BY <1>3, <1>4, <2>1
  <2>. QED
    BY <2>2 DEF IsValue
<1>6. IsValue(A, digits)
  BY <1>5 DEF ValueRun
<1>. HIDE DEF A, G
<1>7. \A k \in 0 .. n : A[k] = IF k = 0 THEN 0 ELSE AsInt(A[k - 1] * 10 + digits[k])
  BY <1>6 DEF IsValue
<1>8. A = [k \in 0 .. n |-> A[k]]
  BY <1>6 DEF IsValue
<1>. DEFINE S == {k \in 0 .. n : A[k] \in Int}
<1>9. \A k \in 0 .. n : k \in S
  <2>1. 0 \in S
    BY <1>1, <1>7
  <2>2. \A k \in 0 .. n - 1 : k \in S => k + 1 \in S
    <3>1. ASSUME NEW k \in 0 .. n - 1, k \in S
          PROVE  k + 1 \in S
      <4>1. k + 1 \in 0 .. n /\ k + 1 # 0 /\ (k + 1) - 1 = k /\ digits[k + 1] \in Int
        BY <1>1
      <4>2. A[k + 1] = AsInt(A[k] * 10 + digits[k + 1])
        BY <1>7, <4>1
      <4>3. AsInt(A[k] * 10 + digits[k + 1]) \in Int
        <5>1. A[k] * 10 + digits[k + 1] \in Int
          BY <3>1, <4>1
        <5>. QED
          BY <5>1, AsIntType
      <4>. QED
        BY <4>1, <4>2, <4>3
    <3>. QED
      BY <3>1
  <2>. HIDE DEF S
  <2>. QED
    BY <1>1, <2>1, <2>2, InductionUpTo
<1>10. \A k \in 1 .. n : k \in 0 .. n /\ k # 0
  BY <1>1
<1>11. A \in [0 .. n -> Int]
  <2>1. \A k \in 0 .. n : A[k] \in Int
    BY <1>9
  <2>. QED
    BY <1>8, <2>1
<1>12. A[0] = 0
  BY <1>1, <1>7
<1>13. \A k \in 1 .. n : A[k] = AsInt(A[k - 1] * 10 + digits[k])
  BY <1>7, <1>10
<1>. QED
  BY <1>11, <1>12, <1>13 DEF A

\* One digit more.
LEMMA ValueAppend ==
  ASSUME NEW s \in Seq(Digit), NEW d \in Digit
  PROVE  ValueOf(Append(s, d)) = AsInt(ValueOf(s) * 10 + d)
<1>. DEFINE t == Append(s, d)
            n == Len(s)
            A == ValueRun(s)
            B == ValueRun(t)
            S == {k \in 0 .. n : B[k] = A[k]}
<1>1. /\ t \in Seq(Digit) /\ n \in Nat /\ Len(t) = n + 1 /\ t[n + 1] = d
      /\ \A k \in 1 .. n : t[k] = s[k]
  BY AppendProperties
<1>2. A[0] = 0 /\ \A k \in 1 .. n : A[k] = AsInt(A[k - 1] * 10 + s[k])
  BY ValueSteps
<1>3. B[0] = 0 /\ \A k \in 1 .. n + 1 : B[k] = AsInt(B[k - 1] * 10 + t[k])
  <2>. HIDE DEF t
  <2>. QED
    BY <1>1, ValueSteps
<1>. HIDE DEF t, A, B
<1>4. 0 \in S
  BY <1>1, <1>2, <1>3
<1>5. ASSUME NEW k \in 0 .. n - 1, k \in S
      PROVE  k + 1 \in S
  <2>1. k + 1 \in 1 .. n /\ k + 1 \in 1 .. n + 1 /\ (k + 1) - 1 = k /\ k + 1 \in 0 .. n
    BY <1>1
  <2>2. A[k + 1] = AsInt(A[k] * 10 + s[k + 1]) /\ B[k + 1] = AsInt(B[k] * 10 + t[k + 1])
    BY <1>2, <1>3, <2>1
  <2>. QED
    BY <1>1, <1>5, <2>1, <2>2
<1>6. n \in S
  <2>. HIDE DEF S
  <2>1. \A k \in 0 .. n : k \in S
    BY <1>1, <1>4, <1>5, InductionUpTo
  <2>. QED
    BY <1>1, <2>1
<1>7. B[n + 1] = AsInt(B[n] * 10 + d)
  <2>1. n + 1 \in 1 .. n + 1 /\ (n + 1) - 1 = n
    BY <1>1
  <2>. QED
    BY <1>1, <1>3, <2>1
<1>8. ValueOf(t) = B[n + 1] /\ ValueOf(s) = A[n]
  BY <1>1, ValueOfIs DEF A, B
<1>. QED
  BY <1>6, <1>7, <1>8 DEF t

-----------------------------------------------------------------------------
\* Printing digits.
IsLow(L) ==
  L = [n \in 0 .. INT_MAX |-> IF n = 0 THEN <<>> ELSE <<n % 10>> \o L[n \div 10]]

Low == CHOOSE L : IsLow(L)

LEMMA LowFirstIs == \A v : LowFirst(v) = IF v > 0 THEN Low[v] ELSE <<>>
BY Zenon DEF LowFirst, Low, IsLow

LEMMA TenthIsLess ==
  ASSUME NEW n \in Nat, n # 0
  PROVE  /\ n \div 10 \in Nat /\ n \div 10 <= n - 1
         /\ n % 10 \in Digit /\ (n \div 10) * 10 + (n % 10) = n
BY DEF Digit

\* The digits of n are the last one of n and those of a tenth of n.
LEMMA LowSteps ==
  /\ Low[0] = <<>>
  /\ \A n \in 1 .. INT_MAX : Low[n] = <<n % 10>> \o Low[n \div 10]
<1>. DEFINE Val(g, n) == IF n = 0 THEN <<>> ELSE <<n % 10>> \o g[n \div 10]
            Fits(g, m) == g = [n \in 0 .. m |-> Val(g, n)]
            S == {m \in 0 .. INT_MAX : \E g : Fits(g, m)}
<1>1. 0 \in S
  <2>. DEFINE g == [n \in 0 .. 0 |-> <<>>]
  <2>1. Fits(g, 0)
    OBVIOUS
  <2>. HIDE DEF g, Fits
  <2>. QED
    BY <2>1
<1>2. ASSUME NEW m \in 0 .. INT_MAX - 1, m \in S
      PROVE  m + 1 \in S
  <2>1. PICK g : Fits(g, m)
    BY <1>2
  <2>. DEFINE f == [n \in 0 .. m + 1 |-> IF n = m + 1 THEN Val(g, m + 1) ELSE g[n]]
  <2>2. ASSUME NEW n \in 0 .. m + 1
        PROVE  f[n] = Val(f, n)
    <3>0. ASSUME n # 0
          PROVE  f[n \div 10] = g[n \div 10]
      <4>1. n \div 10 \in 0 .. m + 1 /\ n \div 10 # m + 1
        BY <3>0, TenthIsLess
      <4>. QED
        BY <4>1
    <3>1. f[n] = Val(g, n)
      <4>1. CASE n = m + 1
        BY <4>1
      <4>2. CASE n # m + 1
        <5>1. n \in 0 .. m
          BY <4>2
        <5>2. g[n] = Val(g, n)
          <6>. HIDE DEF Val
          <6>. QED
            BY <2>1, <5>1
        <5>. QED
          BY <4>2, <5>2
      <4>. QED
        BY <4>1, <4>2
    <3>. QED
      BY <3>0, <3>1
  <2>3. Fits(f, m + 1)
    <3>1. f = [n \in 0 .. m + 1 |-> f[n]]
      OBVIOUS
    <3>. HIDE DEF f, Val
    <3>. QED
      BY <2>2, <3>1
  <2>4. m + 1 \in 0 .. INT_MAX
    OBVIOUS
  <2>. HIDE DEF f, Fits
  <2>. QED
    BY <2>3, <2>4
<1>3. INT_MAX \in S
  <2>. HIDE DEF S
  <2>1. INT_MAX \in Nat
    OBVIOUS
  <2>2. \A k \in 0 .. INT_MAX : k \in S
    BY <1>1, <1>2, <2>1, InductionUpTo
  <2>. QED
    BY <2>1, <2>2
<1>4. IsLow(Low)
  BY <1>3 DEF Low, IsLow
<1>5. \A n \in 0 .. INT_MAX : Low[n] = Val(Low, n)
  <2>1. Low = [n \in 0 .. INT_MAX |-> Val(Low, n)]
    BY <1>4 DEF IsLow
  <2>. HIDE DEF Val
  <2>. QED
    BY <2>1
<1>6. 0 \in 0 .. INT_MAX /\ \A n \in 1 .. INT_MAX : n \in 0 .. INT_MAX /\ n # 0
  OBVIOUS
<1>. QED
  BY <1>5, <1>6

LEMMA ReverseType ==
  ASSUME NEW s \in Seq(Digit)
  PROVE  /\ Reverse(s) \in Seq(Digit) /\ Len(Reverse(s)) = Len(s)
         /\ \A i \in 1 .. Len(s) : Reverse(s)[i] = s[(Len(s) - i) + 1]
<1>. DEFINE n == Len(s)
            r == [i \in 1 .. n |-> s[(n - i) + 1]]
<1>1. n \in Nat /\ \A i \in 1 .. n : s[i] \in Digit
  OBVIOUS
<1>2. r \in [1 .. n -> Digit]
  <2>1. \A i \in 1 .. n : (n - i) + 1 \in 1 .. n
    BY <1>1
  <2>. QED
    BY <1>1, <2>1
<1>3. Reverse(s) = r
  BY DEF Reverse
<1>. HIDE DEF n
<1>4. r \in Seq(Digit) /\ Len(r) = n
  <2>. HIDE DEF r
  <2>. QED
    BY <1>1, <1>2
<1>. QED
  BY <1>3, <1>4 DEF n

\* The digit computed first comes out last.
LEMMA ReverseFirst ==
  ASSUME NEW s \in Seq(Digit), NEW d \in Digit
  PROVE  /\ <<d>> \o s \in Seq(Digit) /\ <<d>> \o s # <<>>
         /\ Reverse(<<d>> \o s) = Append(Reverse(s), d)
<1>. DEFINE p == <<d>>
            t == p \o s
            n == Len(s)
<1>0. p \in Seq(Digit) /\ Len(p) = 1 /\ p[1] = d /\ n \in Nat
  OBVIOUS
<1>. HIDE DEF p
<1>1. /\ t \in Seq(Digit) /\ Len(t) = n + 1
      /\ \A i \in 1 .. n + 1 : t[i] = IF i <= 1 THEN p[i] ELSE s[i - 1]
  <2>1. /\ t \in Seq(Digit) /\ Len(t) = Len(p) + Len(s)
        /\ \A i \in 1 .. Len(p) + Len(s) : t[i] = IF i <= Len(p) THEN p[i] ELSE s[i - Len(p)]
    BY <1>0, ConcatProperties
  <2>2. Len(p) + Len(s) = n + 1
    BY <1>0
  <2>. QED
    BY <1>0, <2>1, <2>2
<1>. HIDE DEF t
<1>. DEFINE a == Reverse(t)
            q == Reverse(s)
            b == Append(q, d)
<1>2. /\ a \in Seq(Digit) /\ Len(a) = n + 1
      /\ \A i \in 1 .. n + 1 : a[i] = t[((n + 1) - i) + 1]
  BY <1>1, ReverseType
<1>3. /\ q \in Seq(Digit) /\ Len(q) = n
      /\ \A i \in 1 .. n : q[i] = s[(n - i) + 1]
  BY ReverseType
<1>. HIDE DEF a, q
<1>4. /\ b \in Seq(Digit) /\ Len(b) = n + 1
      /\ \A i \in 1 .. n : b[i] = q[i]
      /\ b[n + 1] = d
  BY <1>3, AppendProperties
<1>. HIDE DEF b
<1>5. \A i \in 1 .. n + 1 : a[i] = b[i]
  <2>1. ASSUME NEW i \in 1 .. n
        PROVE  a[i] = b[i]
    <3>. DEFINE j == ((n + 1) - i) + 1
    <3>1. j \in 1 .. n + 1 /\ ~ (j <= 1) /\ j - 1 = (n - i) + 1 /\ i \in 1 .. n + 1
      BY <1>0
    <3>2. a[i] = t[j]
      BY <1>2, <3>1
    <3>. HIDE DEF j
    <3>3. t[j] = s[(n - i) + 1]
      BY <1>1, <3>1
    <3>. QED
      BY <1>3, <1>4, <3>2, <3>3
  <2>2. a[n + 1] = b[n + 1]
    <3>1. n + 1 \in 1 .. n + 1 /\ ((n + 1) - (n + 1)) + 1 = 1 /\ 1 \in 1 .. n + 1
      BY <1>0
    <3>2. a[n + 1] = t[1]
      BY <1>2, <3>1
    <3>. QED
      BY <1>0, <1>1, <1>4, <3>1, <3>2
  <2>3. \A i \in 1 .. n + 1 : i \in 1 .. n \/ i = n + 1
    BY <1>0
  <2>. QED
    BY <2>1, <2>2, <2>3
<1>6. a = b
  BY <1>2, <1>4, <1>5, SeqEqual
<1>7. t # <<>>
  BY <1>0, <1>1
<1>. QED
  BY <1>1, <1>6, <1>7 DEF a, b, q, t, p

\* Reading the digits that were printed gives the number back.
Printable(v) ==
  Low[v] \in Seq(Digit) /\ (v # 0 => Low[v] # <<>>) /\ ValueOf(Reverse(Low[v])) = v

LEMMA DigitsReadBack == \A v \in 0 .. INT_MAX : Printable(v)
<1>. DEFINE S == {m \in 0 .. INT_MAX : \A v \in 0 .. m : Printable(v)}
<1>1. 0 \in S
  <2>. DEFINE e == <<>>
  <2>1. e \in Seq(Digit) /\ Len(e) = 0
    OBVIOUS
  <2>2. Low[0] = e
    BY LowSteps
  <2>. HIDE DEF e
  <2>3. Reverse(e) \in Seq(Digit) /\ Len(Reverse(e)) = 0
    BY <2>1, ReverseType
  <2>4. ValueOf(Reverse(e)) = 0
    BY <2>3, ValueSteps, ValueOfIs
  <2>5. Printable(0)
    BY <2>1, <2>2, <2>4 DEF Printable
  <2>. QED
    BY <2>5
<1>2. ASSUME NEW m \in 0 .. INT_MAX - 1, m \in S
      PROVE  m + 1 \in S
  <2>. DEFINE v == m + 1
              d == v % 10
              w == v \div 10
              s == Low[w]
  <2>1. v \in Nat /\ v # 0 /\ v \in 1 .. INT_MAX /\ v \in 0 .. INT_MAX
    OBVIOUS
  <2>2. w \in Nat /\ w <= v - 1 /\ d \in Digit /\ w * 10 + d = v
    <3>. HIDE DEF v
    <3>. QED
      BY <2>1, TenthIsLess
  <2>3. Low[v] = <<d>> \o s
    <3>. HIDE DEF v
    <3>. QED
      BY <2>1, LowSteps
  <2>4. w \in 0 .. m
    <3>. HIDE DEF w
    <3>. QED
      BY <2>2
  <2>5. Printable(w)
    BY <1>2, <2>4
  <2>. HIDE DEF w, d
  <2>6. s \in Seq(Digit) /\ ValueOf(Reverse(s)) = w
    BY <2>5 DEF Printable
  <2>. HIDE DEF s, v
  <2>7. <<d>> \o s \in Seq(Digit) /\ <<d>> \o s # <<>> /\ Reverse(<<d>> \o s) = Append(Reverse(s), d)
    BY <2>2, <2>6, ReverseFirst
  <2>8. ValueOf(Append(Reverse(s), d)) = AsInt(w * 10 + d)
    <3>1. Reverse(s) \in Seq(Digit)
      BY <2>6, ReverseType
    <3>2. ValueOf(Append(Reverse(s), d)) = AsInt(ValueOf(Reverse(s)) * 10 + d)
      BY <2>2, <3>1, ValueAppend
    <3>. QED
      BY <2>6, <3>2
  <2>9. AsInt(v) = v
    BY <2>1, AsIntKeeps
  <2>10. ValueOf(Reverse(Low[v])) = v
    BY <2>2, <2>3, <2>7, <2>8, <2>9
  <2>11. Printable(v)
    BY <2>3, <2>7, <2>10 DEF Printable
  <2>12. \A u \in 0 .. v : u = v \/ u \in 0 .. m
    BY DEF v
  <2>13. v \in S
    BY <1>2, <2>1, <2>11, <2>12
  <2>. QED
    BY <2>13 DEF v
<1>3. INT_MAX \in S
  <2>. HIDE DEF S
  <2>1. INT_MAX \in Nat
    OBVIOUS
  <2>2. \A k \in 0 .. INT_MAX : k \in S
    BY <1>1, <1>2, <2>1, InductionUpTo
  <2>. QED
    BY <2>1, <2>2
<1>. QED
  BY <1>3

\* Every number that an int holds with its opposite is read back as it was printed,
\* a sign included (builtin_commands.c:1086-1137).
THEOREM NumeralsCorrect ==
  \A n \in - INT_MAX .. INT_MAX : string_to_int(int_to_string(n)) = n
<1>. SUFFICES ASSUME NEW n \in - INT_MAX .. INT_MAX
              PROVE  string_to_int(int_to_string(n)) = n
  OBVIOUS
<1>1. CASE n = 0
  <2>. DEFINE e == <<>>
              z == Append(e, 0)
  <2>1. e \in Seq(Digit) /\ Len(e) = 0 /\ 0 \in Digit /\ z = <<0>>
    BY DEF Digit
  <2>2. ValueOf(e) = 0
    BY <2>1, ValueSteps, ValueOfIs
  <2>3. ValueOf(z) = AsInt(ValueOf(e) * 10 + 0)
    <3>. HIDE DEF e
    <3>. QED
      BY <2>1, ValueAppend
  <2>4. AsInt(0) = 0
    BY AsIntKeeps
  <2>5. ValueOf(<<0>>) = 0
    <3>1. 0 * 10 + 0 = 0
      OBVIOUS
    <3>. HIDE DEF z, e
    <3>. QED
      BY <2>1, <2>2, <2>3, <2>4, <3>1
  <2>6. int_to_string(n) = [minus |-> FALSE, digits |-> <<0>>]
    BY <1>1 DEF int_to_string, Numeral
  <2>7. <<0>> # <<>>
    OBVIOUS
  <2>. DEFINE o == <<0>>
  <2>. HIDE DEF o
  <2>8. string_to_int([minus |-> FALSE, digits |-> o]) = IF o = <<>> THEN -1 ELSE ValueOf(o)
    BY DEF string_to_int
  <2>. QED
    BY <1>1, <2>5, <2>6, <2>7, <2>8 DEF o
<1>2. CASE n # 0
  <2>. DEFINE v == IF n < 0 THEN - n ELSE n
              r == Reverse(Low[v])
  <2>1. v \in 0 .. INT_MAX /\ v > 0 /\ v # 0
    BY <1>2
  <2>2. (IF n < 0 THEN AsInt(- n) ELSE n) = v
    <3>1. ASSUME n < 0
          PROVE  AsInt(- n) = - n
      <4>1. - n \in Int /\ - INT_MAX <= - n /\ - n <= INT_MAX
        BY <3>1
      <4>. QED
        BY <4>1, AsIntKeeps
    <3>. QED
      BY <3>1
  <2>. HIDE DEF v
  <2>3. LowFirst(v) = Low[v]
    BY <2>1, LowFirstIs
  <2>4. int_to_string(n) = [minus |-> n < 0, digits |-> r]
    BY <1>2, <2>2, <2>3 DEF int_to_string, Numeral
  <2>5. Printable(v)
    BY <2>1, DigitsReadBack
  <2>6. r # <<>> /\ ValueOf(r) = v
    <3>1. Low[v] \in Seq(Digit) /\ Low[v] # <<>> /\ ValueOf(r) = v
      BY <2>1, <2>5 DEF Printable
    <3>2. Len(Low[v]) # 0
      BY <3>1
    <3>3. Len(r) = Len(Low[v])
      BY <3>1, ReverseType
    <3>. QED
      BY <3>1, <3>2, <3>3
  <2>. HIDE DEF r
  <2>7. string_to_int([minus |-> n < 0, digits |-> r])
          = IF n < 0 THEN AsInt(- ValueOf(r)) ELSE ValueOf(r)
    BY <2>6 DEF string_to_int
  <2>8. CASE n < 0
    <3>1. v = - n /\ - v = n
      BY <2>8 DEF v
    <3>2. AsInt(n) = n
      BY AsIntKeeps
    <3>. QED
      BY <2>4, <2>6, <2>7, <2>8, <3>1, <3>2
  <2>9. CASE ~ (n < 0)
    <3>1. v = n
      BY <2>9 DEF v
    <3>. QED
      BY <2>4, <2>6, <2>7, <2>9, <3>1
  <2>. QED
    BY <2>8, <2>9
<1>. QED
  BY <1>1, <1>2

\* In particular, whenever the shell starts (builtin_commands.c:1086-1137,
\* 1345-1351, 1419-1430).
THEOREM NumbersSafe == Spec => []NumbersReadBack
<1>1. NumbersReadBack
  BY NumeralsCorrect DEF NumbersReadBack
<1>. QED
  BY <1>1, PTL

-----------------------------------------------------------------------------
(* The words of a line.                                                    *)

\* What the scans of process_command find.
LEMMA MinIs ==
  ASSUME NEW S \in SUBSET Nat, S # {}
  PROVE  Min(S) \in S /\ \A y \in S : Min(S) <= y
BY LeastExists DEF Min

IsWordEnd(s, k, e) ==
  /\ e \in k .. Len(s) + 1
  /\ \A j \in k .. e - 1 : s[j] # Space
  /\ e <= Len(s) => s[e] = Space

LEMMA WordEndIs ==
  ASSUME NEW T, NEW s \in Seq(T), NEW k \in 1 .. Len(s) + 1
  PROVE  IsWordEnd(s, k, WordEnd(s, k))
<1>. DEFINE n == Len(s)
            spaces == {j \in k .. n : s[j] = Space}
            e == WordEnd(s, k)
<1>1. n \in Nat /\ spaces \in SUBSET Nat
  OBVIOUS
<1>2. e = IF spaces = {} THEN n + 1 ELSE Min(spaces)
  BY DEF WordEnd
<1>. HIDE DEF e
<1>3. CASE spaces = {}
  <2>1. e = n + 1 /\ \A j \in k .. n : s[j] # Space
    BY <1>2, <1>3
  <2>. QED
    BY <1>1, <2>1 DEF IsWordEnd, e
<1>4. CASE spaces # {}
  <2>1. e \in spaces /\ \A y \in spaces : e <= y
    BY <1>1, <1>2, <1>4, MinIs
  <2>2. ASSUME NEW j \in k .. e - 1
        PROVE  s[j] # Space
    <3>1. j \in k .. n /\ j < e
      BY <1>1, <2>1
    <3>. QED
      BY <1>1, <2>1, <3>1
  <2>. QED
    BY <1>1, <2>1, <2>2 DEF IsWordEnd, e
<1>. QED
  BY <1>3, <1>4

IsWordBegin(s, k, b) ==
  /\ b \in 1 .. Len(s) + 1
  /\ b <= Len(s) => b >= k /\ s[b] # Space
  /\ \A j \in k .. Len(s) : j < b => s[j] = Space

LEMMA SkipSpacesIs ==
  ASSUME NEW T, NEW s \in Seq(T), NEW k \in 1 .. Len(s) + 2
  PROVE  IsWordBegin(s, k, SkipSpaces(s, k))
<1>. DEFINE n == Len(s)
            others == {j \in k .. n : s[j] # Space}
            b == SkipSpaces(s, k)
<1>1. n \in Nat /\ others \in SUBSET Nat
  OBVIOUS
<1>2. b = IF others = {} THEN n + 1 ELSE Min(others)
  BY DEF SkipSpaces
<1>. HIDE DEF b
<1>3. CASE others = {}
  <2>1. b = n + 1 /\ \A j \in k .. n : s[j] = Space
    BY <1>2, <1>3
  <2>. QED
    BY <1>1, <2>1 DEF IsWordBegin, b
<1>4. CASE others # {}
  <2>1. b \in others /\ \A y \in others : b <= y
    BY <1>1, <1>2, <1>4, MinIs
  <2>2. ASSUME NEW j \in k .. n, j < b
        PROVE  s[j] = Space
    BY <1>1, <2>1, <2>2
  <2>. QED
    BY <1>1, <2>1, <2>2 DEF IsWordBegin, b
<1>. QED
  BY <1>3, <1>4

\* A word may begin at position k, at the earliest.
AtBreak(s, k) == k \in 1 .. Len(s) + 2 /\ (k = 1 \/ k = Len(s) + 2 \/ s[k - 1] = Space)

\* The word that the scans find from k on is the next one, and they go on behind it.
NextIs(s, k, b, e) ==
  IF b <= Len(s)
  THEN /\ b >= k /\ e > b
       /\ <<b, e - 1>> \in Spans(s)
       /\ \A v \in Spans(s) : v[1] >= k => v = <<b, e - 1>> \/ v[1] > e
  ELSE b = Len(s) + 1 /\ e = b /\ \A v \in Spans(s) : v[1] < k

LEMMA NextWord ==
  ASSUME NEW T, NEW s \in Seq(T), NEW k, AtBreak(s, k),
         NEW b, b = SkipSpaces(s, k), NEW e, e = WordEnd(s, b)
  PROVE  NextIs(s, k, b, e) /\ AtBreak(s, e + 1)
         /\ IsWordBegin(s, k, b) /\ IsWordEnd(s, b, e)
<1>. DEFINE n == Len(s)
<1>0. n \in Nat /\ k \in 1 .. n + 2 /\ k \in Nat
  BY DEF AtBreak
<1>1. b \in 1 .. n + 1 /\ (b <= n => b >= k /\ s[b] # Space)
      /\ \A j \in k .. n : j < b => s[j] = Space
  BY SkipSpacesIs DEF AtBreak, IsWordBegin
<1>2. e \in b .. n + 1 /\ (\A j \in b .. e - 1 : s[j] # Space) /\ (e <= n => s[e] = Space)
  BY <1>1, WordEndIs DEF IsWordEnd
<1>3. IsWordBegin(s, k, b) /\ IsWordEnd(s, b, e)
  BY <1>1, SkipSpacesIs, WordEndIs DEF AtBreak
<1>4. AtBreak(s, e + 1)
  <2>1. e + 1 \in 1 .. n + 2 /\ (e + 1) - 1 = e /\ (e <= n \/ e + 1 = n + 2)
    <3>1. n \in Nat /\ b \in 1 .. n + 1 /\ e \in b .. n + 1
      BY <1>0, <1>1, <1>2
    <3>. HIDE DEF n
    <3>. QED
      BY <3>1
  <2>. QED
    BY <1>2, <2>1 DEF AtBreak
<1>5. \A v \in Spans(s) : /\ v[1] \in 1 .. n /\ v[2] \in 1 .. n /\ v[1] <= v[2] /\ v = <<v[1], v[2]>>
                          /\ \A j \in v[1] .. v[2] : s[j] # Space
                          /\ v[1] > 1 => s[v[1] - 1] = Space
                          /\ v[2] < n => s[v[2] + 1] = Space
  BY DEF Spans, IsWord
<1>6. CASE b <= n
  <2>1. e > b /\ e - 1 \in 1 .. n
    BY <1>0, <1>1, <1>2, <1>6
  <2>2. <<b, e - 1>> \in Spans(s)
    <3>1. b > 1 => s[b - 1] = Space
      <4>1. CASE b > k
        <5>1. b - 1 \in k .. n /\ b - 1 < b
          BY <1>0, <1>1, <4>1
        <5>. QED
          BY <1>1, <5>1
      <4>2. CASE b = k
        <5>1. b # n + 2
          BY <1>0, <1>1
        <5>. QED
          BY <4>2, <5>1 DEF AtBreak
      <4>. QED
        BY <1>0, <1>1, <1>6, <4>1, <4>2
    <3>2. e - 1 < n => s[(e - 1) + 1] = Space
      <4>1. (e - 1) + 1 = e
        BY <1>2
      <4>. QED
        BY <1>0, <1>1, <1>2, <4>1
    <3>3. IsWord(s, b, e - 1)
      BY <1>2, <3>1, <3>2 DEF IsWord
    <3>4. b <= e - 1 /\ b \in 1 .. n
      BY <1>0, <1>1, <1>6, <2>1, <1>2
    <3>. QED
      BY <2>1, <3>3, <3>4 DEF Spans
  <2>3. ASSUME NEW v \in Spans(s), v[1] >= k
        PROVE  v = <<b, e - 1>> \/ v[1] > e
    <3>. DEFINE x == v[1]
                y == v[2]
    <3>1. /\ x \in 1 .. n /\ y \in 1 .. n /\ x <= y /\ v = <<x, y>>
          /\ \A j \in x .. y : s[j] # Space
          /\ x > 1 => s[x - 1] = Space
          /\ y < n => s[y + 1] = Space
      BY <1>5
    <3>2. x >= k
      BY <2>3
    <3>. HIDE DEF x, y
    <3>3. x >= b
      <4>1. s[x] # Space
        BY <3>1
      <4>2. x \in k .. n
        BY <1>0, <3>1, <3>2
      <4>. QED
        BY <1>0, <1>1, <3>1, <4>1, <4>2
    <3>4. CASE x = b
      <4>1. ~ (y >= e)
        <5>1. ASSUME y >= e
              PROVE  FALSE
          <6>1. e \in x .. y /\ e <= n
            BY <1>0, <1>2, <2>1, <3>1, <3>4, <5>1
          <6>. QED
            BY <1>2, <3>1, <6>1
        <5>. QED
          BY <5>1
      <4>2. ~ (y < e - 1)
        <5>1. ASSUME y < e - 1
              PROVE  FALSE
          <6>1. y + 1 \in b .. e - 1 /\ y < n
            BY <1>0, <1>1, <1>2, <3>1, <3>4, <5>1
          <6>. QED
            BY <1>2, <3>1, <6>1
        <5>. QED
          BY <5>1
      <4>3. y = e - 1
        BY <1>0, <1>1, <1>2, <3>1, <4>1, <4>2
      <4>. QED
        BY <3>1, <3>4, <4>3
    <3>5. CASE x > b
      <4>1. ~ (x <= e - 1)
        <5>1. ASSUME x <= e - 1
              PROVE  FALSE
          <6>1. x - 1 \in b .. e - 1 /\ x > 1
            BY <1>0, <1>1, <1>2, <3>1, <3>5, <5>1
          <6>. QED
            BY <1>2, <3>1, <6>1
        <5>. QED
          BY <5>1
      <4>2. x # e
        <5>1. s[x] # Space
          BY <3>1
        <5>. QED
          BY <1>0, <1>2, <3>1, <5>1
      <4>. QED
        BY <1>0, <1>1, <1>2, <3>1, <4>1, <4>2 DEF x
    <3>. QED
      BY <1>0, <1>1, <3>1, <3>3, <3>4, <3>5
  <2>. QED
    BY <1>1, <1>3, <1>4, <1>6, <2>1, <2>2, <2>3 DEF NextIs
<1>7. CASE b > n
  <2>1. b = n + 1 /\ e = n + 1
    BY <1>0, <1>1, <1>2, <1>7
  <2>2. ASSUME NEW v \in Spans(s)
        PROVE  v[1] < k
    <3>1. v[1] \in 1 .. n /\ s[v[1]] # Space
      BY <1>0, <1>5
    <3>2. v[1] \notin k .. n
      BY <1>0, <1>1, <2>1, <3>1
    <3>. QED
      BY <1>0, <3>1, <3>2
  <2>. QED
    BY <1>0, <1>3, <1>4, <2>1, <2>2 DEF NextIs
<1>. QED
  BY <1>0, <1>1, <1>6, <1>7

LEMMA SpansFinite ==
  ASSUME NEW T, NEW s \in Seq(T)
  PROVE  IsFiniteSet(Spans(s)) /\ Cardinality(Spans(s)) \in Nat
         /\ \A v \in Spans(s) : v[1] \in Nat
<1>. DEFINE I == 1 .. Len(s)
<1>1. IsFiniteSet(I)
  <2>1. 1 \in Int /\ Len(s) \in Int
    OBVIOUS
  <2>. QED
    BY <2>1, FS_Interval
<1>2. IsFiniteSet(I \X I)
  BY <1>1, FS_Product
<1>3. Spans(s) \subseteq I \X I
  BY DEF Spans
<1>. QED
  BY <1>2, <1>3, FS_Subset, FS_CardinalityType

\* The word with the words W before it, and no other, is number Cardinality(W) + 1.
LEMMA NthWord ==
  ASSUME NEW T, NEW s \in Seq(T), NEW W \in SUBSET Spans(s), NEW w \in Spans(s) \ W,
         \A v \in W : v[1] < w[1],
         \A v \in Spans(s) : v \in W \/ v = w \/ v[1] > w[1]
  PROVE  /\ Cardinality(W) + 1 \in 1 .. Cardinality(Spans(s))
         /\ Words(s)[Cardinality(W) + 1] = SubSeq(s, w[1], w[2])
<1>. DEFINE A == Spans(s)
            Before(x) == {v \in A : v[1] < x[1]}
            m == Cardinality(W)
<1>0. IsFiniteSet(A) /\ Cardinality(A) \in Nat /\ \A v \in A : v[1] \in Nat
  BY SpansFinite
<1>. HIDE DEF A
<1>1. W \in SUBSET A /\ w \in A /\ w \notin W /\ \A v \in A : v \in W \/ v = w \/ v[1] > w[1]
  BY DEF A
<1>2. IsFiniteSet(W) /\ m \in Nat
  BY <1>0, <1>1, FS_Subset, FS_CardinalityType
<1>3. \A x \in A : IsFiniteSet(Before(x)) /\ Cardinality(Before(x)) \in Nat
  BY <1>0, FS_Subset, FS_CardinalityType
<1>4. IsFiniteSet(W \cup {w}) /\ Cardinality(W \cup {w}) = m + 1
  BY <1>1, <1>2, FS_AddElement
<1>5. m + 1 \in 1 .. Cardinality(A)
  <2>1. Cardinality(W \cup {w}) <= Cardinality(A)
    BY <1>0, <1>1, FS_Subset
  <2>. QED
    BY <1>0, <1>2, <1>4, <2>1
<1>6. Before(w) = W
  BY <1>0, <1>1
<1>7. ASSUME NEW v \in A, Cardinality(Before(v)) = m
      PROVE  v = w
  <2>1. CASE v \in W
    <3>1. Before(v) \subseteq W /\ v \notin Before(v)
      BY <1>0, <1>1, <2>1
    <3>2. Before(v) # W
      BY <2>1, <3>1
    <3>3. Cardinality(Before(v)) # m
      BY <1>2, <3>1, <3>2, FS_Subset
    <3>. QED
      BY <1>7, <3>3
  <2>2. CASE v[1] > w[1]
    <3>1. W \cup {w} \subseteq Before(v)
      BY <1>0, <1>1, <2>2
    <3>2. m + 1 <= Cardinality(Before(v))
      BY <1>3, <1>4, <3>1, FS_Subset
    <3>. QED
      BY <1>2, <1>7, <3>2
  <2>. QED
    BY <1>1, <2>1, <2>2
<1>8. (m + 1) - 1 = m
  BY <1>2
<1>9. (CHOOSE v \in A : Cardinality(Before(v)) = (m + 1) - 1) = w
  BY <1>1, <1>6, <1>7, <1>8
<1>10. Words(s) = [k \in 1 .. Cardinality(A) |->
                     LET v == CHOOSE v \in A : Cardinality(Before(v)) = k - 1
                     IN  SubSeq(s, v[1], v[2])]
  BY DEF Words, WordsBefore, A
<1>. HIDE DEF Before
<1>. QED
  BY <1>5, <1>9, <1>10 DEF A

\* The text from one position to another, and what it begins with.
LEMMA WordIsPrefix ==
  ASSUME NEW T, NEW s \in Seq(T), NEW b \in 1 .. Len(s), NEW e \in b + 1 .. Len(s) + 1
  PROVE  IsPrefix(SubSeq(s, b, e - 1), SubSeq(s, b, Len(s)))
<1>. DEFINE n == Len(s)
            x == SubSeq(s, b, e - 1)
            y == SubSeq(s, b, n)
            m == e - b
<1>0. n \in Nat /\ b \in 1 .. n /\ e \in b + 1 .. n + 1 /\ b \in Int /\ n \in Int /\ e - 1 \in Int
  OBVIOUS
<1>1. \A i \in b .. n : s[i] \in T
  BY <1>0
<1>2. \A i \in b .. e - 1 : s[i] \in T
  BY <1>0
<1>3. x \in Seq(T) /\ Len(x) = IF b <= e - 1 THEN (e - 1) - b + 1 ELSE 0
  BY <1>0, <1>2, SubSeqProperties
<1>4. y \in Seq(T) /\ Len(y) = IF b <= n THEN n - b + 1 ELSE 0
  BY <1>0, <1>1, SubSeqProperties
<1>5. Len(x) = m /\ m \in 1 .. n - b + 1 /\ m <= Len(y)
  BY <1>0, <1>3, <1>4
<1>6. SubSeq(x, 1, Len(x)) = x
  BY <1>3, SubSeqFull
<1>7. SubSeq(y, 1, m) = SubSeq(s, b + 1 - 1, b + m - 1)
  <2>1. 1 \in 1 .. n - b + 1 /\ n \in 1 .. Len(s)
    BY <1>0
  <2>. HIDE DEF m
  <2>. QED
    BY <1>0, <1>5, <2>1, SubSeqOfSubSeq
<1>8. b + 1 - 1 = b /\ b + m - 1 = e - 1
  BY <1>0
<1>. QED
  BY <1>5, <1>6, <1>7, <1>8 DEF IsPrefix

\* process_command reads the words of every line, whatever characters it is made of:
\* the name is the first word, the first argument the second, and the rest begins
\* with the third (user-shell.c:106-151).
THEOREM LineParsed ==
  ASSUME NEW T, NEW s \in Seq(T)
  PROVE  ReadsAsWords(s)
<1>. DEFINE n == Len(s)
            p == process_command(s)
            ws == Words(s)
            A == Spans(s)
<1>0. n \in Nat
  OBVIOUS
<1>1. CASE s = <<>> \/ s[1] = Space
  <2>1. IsWordEnd(s, 1, WordEnd(s, 1))
    <3>1. 1 \in 1 .. n + 1
      BY <1>0
    <3>. QED
      BY <3>1, WordEndIs
  <2>2. WordEnd(s, 1) = 1
    <3>. DEFINE e == WordEnd(s, 1)
    <3>1. e \in 1 .. n + 1 /\ \A j \in 1 .. e - 1 : s[j] # Space
      BY <2>1 DEF IsWordEnd
    <3>. HIDE DEF e
    <3>2. CASE n = 0
      BY <3>1, <3>2 DEF e
    <3>3. CASE n # 0
      <4>1. s[1] = Space
        BY <1>1, <3>3
      <4>2. ~ (e > 1)
        <5>1. ASSUME e > 1
              PROVE  FALSE
          <6>1. 1 \in 1 .. e - 1
            BY <1>0, <3>1, <5>1
          <6>. QED
            BY <3>1, <4>1, <6>1
        <5>. QED
          BY <5>1
      <4>. QED
        BY <1>0, <3>1, <4>2 DEF e
    <3>. QED
      BY <3>2, <3>3
  <2>3. p.name = SubSeq(s, 1, WordEnd(s, 1) - 1)
    BY DEF process_command, NameEnd
  <2>4. SubSeq(s, 1, WordEnd(s, 1) - 1) = Nothing
    <3>1. 1 - 1 < 1 /\ 1 \in Int /\ 1 - 1 \in Int
      OBVIOUS
    <3>2. SubSeq(s, 1, 1 - 1) = <<>>
      BY <3>1, SubSeqEmpty
    <3>. QED
      BY <2>2, <3>2 DEF Nothing
  <2>. QED
    BY <1>1, <2>3, <2>4 DEF ReadsAsWords
<1>2. CASE ~ (s = <<>> \/ s[1] = Space)
  <2>. DEFINE b1 == SkipSpaces(s, 1)   e1 == NameEnd(s)
              b2 == Arg1Begin(s)       e2 == Arg1End(s)
              b3 == Arg2Begin(s)       e3 == WordEnd(s, b3)
              b4 == SkipSpaces(s, e3 + 1)   e4 == WordEnd(s, b4)
  <2>0. n >= 1 /\ s[1] # Space
    BY <1>0, <1>2
  <2>1. b1 = 1
    <3>. DEFINE b == b1
    <3>1. 1 \in 1 .. n + 2 /\ 1 \in 1 .. n
      BY <1>0, <2>0
    <3>2. IsWordBegin(s, 1, b)
      BY <3>1, SkipSpacesIs
    <3>. HIDE DEF b
    <3>3. b \in 1 .. n + 1 /\ ~ (1 < b)
      BY <2>0, <3>1, <3>2 DEF IsWordBegin
    <3>. QED
      BY <1>0, <3>3 DEF b
  <2>2. /\ e1 = WordEnd(s, b1) /\ b2 = SkipSpaces(s, e1 + 1) /\ e2 = WordEnd(s, b2)
        /\ b3 = SkipSpaces(s, e2 + 1)
    BY <2>1 DEF NameEnd, Arg1Begin, Arg1End, Arg2Begin
  <2>3. p = [name |-> SubSeq(s, 1, e1 - 1), arg1 |-> SubSeq(s, b2, e2 - 1), arg2 |-> SubSeq(s, b3, n)]
    BY DEF process_command
  <2>4. p.name = SubSeq(s, 1, e1 - 1) /\ p.arg1 = SubSeq(s, b2, e2 - 1) /\ p.arg2 = SubSeq(s, b3, n)
    <3>. HIDE DEF p, e1, b2, e2, b3, n
    <3>. QED
      BY <2>3
  <2>. HIDE DEF b1, e1, b2, e2, b3, e3, b4, e4, p
  <2>5. AtBreak(s, 1)
    BY <1>0 DEF AtBreak
  <2>6. NextIs(s, 1, b1, e1) /\ AtBreak(s, e1 + 1) /\ IsWordBegin(s, 1, b1) /\ IsWordEnd(s, b1, e1)
    BY <2>2, <2>5, NextWord DEF b1
  <2>7. NextIs(s, e1 + 1, b2, e2) /\ AtBreak(s, e2 + 1) /\ IsWordBegin(s, e1 + 1, b2) /\ IsWordEnd(s, b2, e2)
    BY <2>2, <2>6, NextWord
  <2>8. NextIs(s, e2 + 1, b3, e3) /\ AtBreak(s, e3 + 1) /\ IsWordBegin(s, e2 + 1, b3) /\ IsWordEnd(s, b3, e3)
    BY <2>2, <2>7, NextWord DEF e3
  <2>9. NextIs(s, e3 + 1, b4, e4) /\ IsWordBegin(s, e3 + 1, b4)
    BY <2>8, NextWord DEF b4, e4
  <2>10. /\ b1 \in 1 .. n + 1 /\ b2 \in 1 .. n + 1 /\ b3 \in 1 .. n + 1 /\ b4 \in 1 .. n + 1
         /\ e1 \in b1 .. n + 1 /\ e2 \in b2 .. n + 1 /\ e3 \in b3 .. n + 1
    BY <2>6, <2>7, <2>8, <2>9 DEF IsWordBegin, IsWordEnd
  <2>11. IsFiniteSet(A) /\ Cardinality(A) \in Nat /\ \A v \in A : v[1] \in Nat
    BY SpansFinite
  <2>12. Len(ws) = Cardinality(A)
    BY <2>11 DEF Words
  <2>13. \A x, y : <<x, y>>[1] = x /\ <<x, y>>[2] = y
    OBVIOUS
  <2>. DEFINE w1 == <<b1, e1 - 1>>
              w2 == <<b2, e2 - 1>>
              w3 == <<b3, e3 - 1>>
              w4 == <<b4, e4 - 1>>
  <2>14. w1[1] = b1 /\ w2[1] = b2 /\ w3[1] = b3 /\ w4[1] = b4
    OBVIOUS
  <2>15. w1[2] = e1 - 1 /\ w2[2] = e2 - 1 /\ w3[2] = e3 - 1
    OBVIOUS
  <2>. HIDE DEF A, w1, w2, w3, w4, ws, n
  <2>16. w1 \in A /\ \A v \in A : v = w1 \/ v[1] > e1
    <3>1. b1 <= Len(s)
      BY <2>0, <2>1 DEF n
    <3>2. w1 \in A /\ \A v \in A : v[1] >= 1 => v = w1 \/ v[1] > e1
      BY <2>6, <3>1 DEF NextIs, A, w1
    <3>3. \A v \in A : v[1] >= 1
      BY DEF A, Spans
    <3>. QED
      BY <3>2, <3>3
  <2>17. Cardinality({}) = 0 /\ IsFiniteSet({})
    BY FS_EmptySet
  <2>18. ws[1] = SubSeq(s, 1, e1 - 1) /\ 1 <= Cardinality(A)
    <3>1. w1 \in A \ {} /\ {} \in SUBSET A
      BY <2>16
    <3>2. \A v \in A : v \in {} \/ v = w1 \/ v[1] > w1[1]
      BY <1>0, <2>10, <2>11, <2>14, <2>16
    <3>3. \A v \in {} : v[1] < w1[1]
      OBVIOUS
    <3>. DEFINE E == {}
    <3>4. Cardinality(E) = 0
      BY <2>17
    <3>5. w1 \in A \ E /\ E \in SUBSET A
      BY <3>1
    <3>6. \A v \in A : v \in E \/ v = w1 \/ v[1] > w1[1]
      BY <3>2
    <3>7. \A v \in E : v[1] < w1[1]
      BY <3>3
    <3>. HIDE DEF E
    <3>8. /\ Cardinality(E) + 1 \in 1 .. Cardinality(A)
          /\ ws[Cardinality(E) + 1] = SubSeq(s, w1[1], w1[2])
      BY <3>5, <3>6, <3>7, NthWord DEF A, ws
    <3>9. 0 + 1 = 1
      OBVIOUS
    <3>. QED
      BY <2>1, <2>11, <2>14, <2>15, <3>4, <3>8, <3>9
  <2>19. CASE b2 > n
    <3>1. b2 = n + 1 /\ e2 = n + 1 /\ \A v \in A : v[1] < e1 + 1
      BY <1>0, <2>7, <2>10, <2>19 DEF NextIs, A, n
    <3>2. A = {w1}
      <4>1. \A v \in A : v = w1
        BY <1>0, <2>10, <2>11, <2>16, <3>1
      <4>. QED
        BY <2>16, <4>1
    <3>3. Cardinality(A) = 1
      BY <3>2, FS_Singleton
    <3>4. b3 = n + 1
      <4>1. ASSUME b3 <= n
            PROVE  FALSE
        <5>1. b3 >= e2 + 1
          BY <2>8, <4>1 DEF IsWordBegin, n
        <5>. QED
          BY <1>0, <2>10, <3>1, <4>1, <5>1
      <4>. QED
        BY <1>0, <2>10, <4>1
    <3>5. p.arg1 = Nothing /\ p.arg2 = Nothing
      <4>1. n + 1 \in Int /\ (n + 1) - 1 \in Int /\ n \in Int /\ (n + 1) - 1 < n + 1 /\ n < n + 1
        BY <1>0
      <4>2. SubSeq(s, n + 1, (n + 1) - 1) = <<>> /\ SubSeq(s, n + 1, n) = <<>>
        BY <4>1, SubSeqEmpty
      <4>. QED
        BY <2>4, <3>1, <3>4, <4>2 DEF Nothing
    <3>6. Len(ws) = 1 /\ ~ (Len(ws) >= 2) /\ Len(ws) < 3
      BY <2>12, <3>3
    <3>. QED
      BY <1>2, <2>4, <2>18, <3>5, <3>6 DEF ReadsAsWords, p, ws
  <2>20. CASE b2 <= n
    <3>1. /\ b2 >= e1 + 1 /\ e2 > b2 /\ w2 \in A
          /\ \A v \in A : v[1] >= e1 + 1 => v = w2 \/ v[1] > e2
      BY <2>7, <2>20 DEF NextIs, A, n, w2
    <3>2. w2 \notin {w1}
      <4>1. b1 < b2
        BY <1>0, <2>10, <3>1
      <4>. QED
        BY <1>0, <2>10, <2>14, <4>1
    <3>3. \A v \in A : v = w1 \/ v = w2 \/ v[1] > e2
      BY <1>0, <2>10, <2>11, <2>16, <3>1
    <3>4. Cardinality({w1}) = 1 /\ IsFiniteSet({w1})
      BY FS_Singleton
    <3>5. ws[2] = SubSeq(s, b2, e2 - 1) /\ 2 <= Cardinality(A)
      <4>. DEFINE E == {w1}
      <4>1. Cardinality(E) = 1 /\ w2 \in A \ E /\ E \in SUBSET A
        BY <2>16, <3>1, <3>2, <3>4
      <4>2. \A v \in A : v \in E \/ v = w2 \/ v[1] > w2[1]
        BY <1>0, <2>10, <2>11, <2>14, <3>1, <3>3
      <4>3. \A v \in E : v[1] < w2[1]
        BY <1>0, <2>10, <2>14, <3>1
      <4>. HIDE DEF E
      <4>4. /\ Cardinality(E) + 1 \in 1 .. Cardinality(A)
            /\ ws[Cardinality(E) + 1] = SubSeq(s, w2[1], w2[2])
        BY <4>1, <4>2, <4>3, NthWord DEF A, ws
      <4>5. 1 + 1 = 2
        OBVIOUS
      <4>. QED
        BY <2>11, <2>14, <2>15, <4>1, <4>4, <4>5
    <3>6. CASE b3 > n
      <4>1. b3 = n + 1 /\ \A v \in A : v[1] < e2 + 1
        BY <1>0, <2>8, <2>10, <3>6 DEF NextIs, A, n
      <4>2. A = {w1} \cup {w2}
        <5>1. \A v \in A : v = w1 \/ v = w2
          BY <1>0, <2>10, <2>11, <3>3, <4>1
        <5>. QED
          BY <2>16, <3>1, <5>1
      <4>3. Cardinality(A) = 2
        <5>1. Cardinality({w1} \cup {w2}) = Cardinality({w1}) + 1
          BY <3>2, <3>4, FS_AddElement
        <5>2. Cardinality(A) = Cardinality({w1} \cup {w2})
          BY <4>2
        <5>3. Cardinality(A) = 1 + 1
          BY <3>4, <5>1, <5>2, Zenon
        <5>4. 1 + 1 = 2
          OBVIOUS
        <5>. QED
          BY <5>3, <5>4, Zenon
      <4>4. p.arg2 = Nothing
        <5>1. n + 1 \in Int /\ n \in Int /\ n < n + 1
          BY <1>0
        <5>2. SubSeq(s, n + 1, n) = <<>>
          BY <5>1, SubSeqEmpty
        <5>. QED
          BY <2>4, <4>1, <5>2 DEF Nothing
      <4>5. Len(ws) >= 2 /\ Len(ws) < 3
        BY <2>12, <4>3
      <4>. QED
        BY <1>2, <2>4, <2>18, <3>5, <4>4, <4>5 DEF ReadsAsWords, p, ws
    <3>7. CASE b3 <= n
      <4>1. /\ b3 >= e2 + 1 /\ e3 > b3 /\ w3 \in A
            /\ \A v \in A : v[1] >= e2 + 1 => v = w3 \/ v[1] > e3
        BY <2>8, <3>7 DEF NextIs, A, n, w3
      <4>. DEFINE E == {w1} \cup {w2}
      <4>2. Cardinality(E) = 2 /\ IsFiniteSet(E)
        <5>1. Cardinality(E) = Cardinality({w1}) + 1 /\ IsFiniteSet(E)
          BY <3>2, <3>4, FS_AddElement
        <5>. QED
          BY <3>4, <5>1
      <4>3. w3 \in A \ E /\ E \in SUBSET A
        <5>1. b1 < b3 /\ b2 < b3
          BY <1>0, <2>10, <3>1, <4>1
        <5>. QED
          BY <1>0, <2>10, <2>14, <2>16, <3>1, <4>1, <5>1
      <4>4. \A v \in A : v \in E \/ v = w3 \/ v[1] > e3
        BY <1>0, <2>10, <2>11, <3>3, <4>1
      <4>5. ws[3] = SubSeq(s, b3, e3 - 1) /\ 3 <= Cardinality(A)
        <5>1. \A v \in A : v \in E \/ v = w3 \/ v[1] > w3[1]
          BY <1>0, <2>10, <2>11, <2>14, <4>1, <4>4
        <5>2. \A v \in E : v[1] < w3[1]
          BY <1>0, <2>10, <2>14, <3>1, <4>1
        <5>. HIDE DEF E
        <5>3. /\ Cardinality(E) + 1 \in 1 .. Cardinality(A)
              /\ ws[Cardinality(E) + 1] = SubSeq(s, w3[1], w3[2])
          BY <4>3, <5>1, <5>2, NthWord DEF A, ws
        <5>4. 2 + 1 = 3
          OBVIOUS
        <5>. QED
          BY <2>11, <2>14, <2>15, <4>2, <5>3, <5>4
      <4>6. IsPrefix(ws[3], p.arg2)
        <5>1. b3 \in 1 .. n /\ e3 \in b3 + 1 .. n + 1
          BY <1>0, <2>10, <3>7, <4>1
        <5>2. IsPrefix(SubSeq(s, b3, e3 - 1), SubSeq(s, b3, n))
          BY <5>1, WordIsPrefix DEF n
        <5>. QED
          BY <2>4, <4>5, <5>2
      <4>7. ASSUME Len(ws) = 3, Last(s) # Space
            PROVE  p.arg2 = ws[3]
        <5>1. ASSUME e3 <= n
              PROVE  FALSE
          <6>1. s[n] # Space /\ s[e3] = Space
            BY <2>8, <4>7, <5>1 DEF Last, n, IsWordEnd
          <6>2. n \in e3 + 1 .. n
            <7>1. n # e3
              BY <6>1
            <7>. QED
              BY <1>0, <2>10, <5>1, <7>1
          <6>3. b4 <= n
            <7>1. ~ (n < b4)
              BY <2>9, <6>1, <6>2 DEF IsWordBegin, n
            <7>. QED
              BY <1>0, <2>10, <7>1
          <6>4. b4 >= e3 + 1 /\ w4 \in A
            BY <2>9, <6>3 DEF NextIs, A, n, w4
          <6>5. w4 # w3 /\ w4 \notin E
            <7>1. b1 < b4 /\ b2 < b4 /\ b3 < b4
              BY <1>0, <2>10, <3>1, <4>1, <6>4
            <7>. QED
              BY <1>0, <2>10, <2>14, <7>1
          <6>. DEFINE F == E \cup {w3}
          <6>6. IsFiniteSet(F) /\ Cardinality(F) = 3
            <7>. HIDE DEF E
            <7>1. IsFiniteSet(F) /\ Cardinality(F) = Cardinality(E) + 1
              BY <4>2, <4>3, FS_AddElement
            <7>. QED
              BY <4>2, <7>1
          <6>. DEFINE H == F \cup {w4}
          <6>7. w4 \notin F
            BY <6>5
          <6>8. IsFiniteSet(H) /\ Cardinality(H) = 4
            <7>. HIDE DEF F
            <7>1. IsFiniteSet(H) /\ Cardinality(H) = Cardinality(F) + 1
              BY <6>6, <6>7, FS_AddElement
            <7>. QED
              BY <6>6, <7>1
          <6>9. H \in SUBSET A
            BY <4>3, <6>4
          <6>. HIDE DEF H
          <6>10. Cardinality(H) <= Cardinality(A)
            BY <2>11, <6>9, FS_Subset
          <6>. QED
            BY <2>11, <2>12, <4>7, <6>8, <6>10
        <5>2. e3 - 1 = n
          BY <1>0, <2>10, <5>1
        <5>. QED
          BY <2>4, <4>5, <5>2
      <4>8. Len(ws) >= 2 /\ ~ (Len(ws) < 3)
        BY <2>11, <2>12, <4>5
      <4>. QED
        BY <1>2, <2>4, <2>18, <3>5, <4>6, <4>7, <4>8 DEF ReadsAsWords, p, ws
    <3>. QED
      BY <1>0, <2>10, <3>6, <3>7
  <2>. QED
    BY <1>0, <2>10, <2>19, <2>20
<1>. QED
  BY <1>1, <1>2

\* In particular, the lines that the run enumerates when the shell starts.
THEOREM LinesSafe == Spec => []LinesReadAsWords
<1>. DEFINE T == {Char("a", FALSE), Space}
<1>1. ASSUME NEW s \in BoundedSeq(T, 7)
      PROVE  ReadsAsWords(s)
  <2>. HIDE DEF T
  <2>1. PICK m \in 0 .. 7 : s \in [1 .. m -> T]
    BY DEF BoundedSeq, SeqOf
  <2>2. m \in Nat /\ s \in Seq(T)
    BY <2>1
  <2>. QED
    BY <2>2, LineParsed
<1>2. LinesReadAsWords
  BY <1>1 DEF LinesReadAsWords
<1>. QED
  BY <1>2, PTL
=============================================================================
