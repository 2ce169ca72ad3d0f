------------------------------ MODULE Terminal ------------------------------
(***************************************************************************)
(* The keyboard driver (keyboard.c) and the shell's reading loop             *)
(* (user-shell.c).  The keyboard interrupt may come between any two steps of *)
(* the shell, which takes one character per system call and edits its line   *)
(* with it.  System calls themselves are not interrupted.                   *)
(*                                                                         *)
(* typed, taken, raced and prompt_row are history: what the driver accepted, *)
(* what the shell took, whether a key ever came while another one was        *)
(* waiting, and the row where the prompt begins.                            *)
(***************************************************************************)
EXTENDS Integers, Sequences, FiniteSets

CONSTANTS
  KEYBOARD_BUFFER_SIZE,
  COMMAND_BUFFER_SIZE,
  ROWS, COLUMNS, \* the screen (25 rows of 80)
  PromptLen,     \* length of the prompt, the current directory's name included
  Letters,       \* keys whose case depends on shift and caps lock
  Signs,         \* printable keys that only shift changes
  ExitLine,      \* the line that ends the shell
  MaxOutput,     \* bound on the rows that a command prints
  MaxPresses     \* bound on the keys pressed

ASSUME TerminalAssumption ==
  /\ KEYBOARD_BUFFER_SIZE \in Nat \ {0} /\ COMMAND_BUFFER_SIZE \in Nat \ {0}
  /\ ROWS \in Nat /\ ROWS > 2 /\ COLUMNS \in Nat \ {0}
  /\ PromptLen \in 0 .. COLUMNS
  /\ MaxOutput \in Nat /\ MaxPresses \in Nat

VARIABLES
  keyboard_input_on, keyboard_buffer, key_state,   \* the driver
  shell,      \* "start", "poll", "use", "command" or "halted"
  c,          \* the character the last poll returned
  buffer,     \* the line, up to buffer_pos
  cursor_col, \* cursor_col_for_input
  current_output_row,
  screen,     \* the cells written since the prompt, by row and column
  typed, taken, raced, prompt_row

driver  == <<keyboard_input_on, keyboard_buffer, key_state>>
line    == <<buffer, cursor_col, current_output_row, screen, prompt_row>>
history == <<typed, taken, raced>>
vars    == <<driver, shell, c, line, history>>

Char(k, up) == [key |-> k, up |-> up]
Nul     == Char("nul", FALSE)
Enter   == Char("enter", FALSE)
Erase   == Char("erase", FALSE)
Tab     == Char("tab", FALSE)   \* Tab or Esc: a character that the shell has no use for
Code    == Char("code", FALSE)  \* the byte at address 32 of the shell's program
Printed == {Char(k, up) : k \in Letters \cup Signs, up \in BOOLEAN}
Chars   == Printed \cup {Enter, Erase, Tab}
Keys    == Letters \cup Signs \cup {"enter", "erase", "tab"}

\* The two scancode tables: the keys that print nothing are the same in both.
Ascii(k, shifted) ==
  IF k \in {"enter", "erase", "tab"} THEN Char(k, FALSE) ELSE Char(k, shifted)

\* What a press becomes: shift wins, caps lock is for letters without shift.
Translated(k) ==
  IF key_state.shift THEN Ascii(k, TRUE)
  ELSE Ascii(k, k \in Letters /\ key_state.caps)

\* Mutated insertion for the checks: a full buffer is overwritten at its end.
BufferOverwritten(s, ch) ==
  IF Len(s) < KEYBOARD_BUFFER_SIZE - 1 THEN Append(s, ch)
  ELSE [s EXCEPT ![Len(s)] = ch]

\* keyboard_isr stores a character when there is room for it.
Stored(s, ch) == IF Len(s) < KEYBOARD_BUFFER_SIZE - 1 THEN Append(s, ch) ELSE s

\* Mutated read for the checks: the index is not moved.
BufferKept(s) == s

\* get_keyboard_buffer: the last character, and the buffer without it.
LastOf(s)       == IF s = <<>> THEN Nul ELSE s[Len(s)]
LastRemoved(s)  == IF s = <<>> THEN s ELSE SubSeq(s, 1, Len(s) - 1)

-----------------------------------------------------------------------------
Init ==
  /\ keyboard_input_on = FALSE
  /\ keyboard_buffer = <<>>
  /\ key_state = [shift |-> FALSE, caps |-> FALSE]
  /\ shell = "start"
  /\ c = Nul
  /\ buffer = <<>> /\ screen = <<>>
  /\ cursor_col = 0 /\ current_output_row = 0 /\ prompt_row = 0
  /\ typed = <<>> /\ taken = <<>> /\ raced = FALSE

\* keyboard_isr for a key that has a character; interrupts are off once halted.
Press(k) ==
  /\ shell # "halted"
  /\ Len(typed) < MaxPresses
  /\ IF keyboard_input_on
     THEN LET stored == Stored(keyboard_buffer, Translated(k))
          IN  /\ keyboard_buffer' = stored
              /\ typed' = IF Len(stored) > Len(keyboard_buffer)
                          THEN Append(typed, Translated(k)) ELSE typed
              /\ raced' = (raced \/ keyboard_buffer # <<>>)
     ELSE UNCHANGED <<keyboard_buffer, typed, raced>>
  /\ UNCHANGED <<keyboard_input_on, key_state, shell, c, line, taken>>

\* keyboard_isr for the shift keys and caps lock.
Modifier ==
  /\ shell # "halted"
  /\ keyboard_input_on
  /\ \/ key_state' = [key_state EXCEPT !.shift = TRUE]
     \/ key_state' = [key_state EXCEPT !.shift = FALSE]
     \/ key_state' = [key_state EXCEPT !.caps = ~ @]
  /\ UNCHANGED <<keyboard_input_on, keyboard_buffer, shell, c, line, history>>

Cell(row, col) == [row |-> row, col |-> col]

\* print_string: the cell behind a text of that length that begins a row.
CellBehind(row, length) == Cell(row + length \div COLUMNS, length % COLUMNS)

\* An empty line behind a prompt that is printed from the given row on.
PromptAt(row) ==
  /\ prompt_row' = row
  /\ current_output_row' = CellBehind(row, PromptLen).row
  /\ cursor_col' = CellBehind(row, PromptLen).col
  /\ buffer' = <<>>
  /\ screen' = <<>>
  /\ shell' = "poll"

\* The shell starts: system call 7, keyboard_state_activate, and a clear screen.
Activate ==
  /\ shell = "start"
  /\ PromptAt(0)
  /\ keyboard_input_on' = TRUE
  /\ keyboard_buffer' = <<>>
  /\ key_state' = [shift |-> FALSE, caps |-> FALSE]
  /\ UNCHANGED <<c, history>>

\* System call 4.
Poll ==
  /\ shell = "poll"
  /\ shell' = "use"
  /\ c' = LastOf(keyboard_buffer)
  /\ keyboard_buffer' = LastRemoved(keyboard_buffer)
  /\ taken' = IF keyboard_buffer = <<>> THEN taken ELSE Append(taken, c')
  /\ UNCHANGED <<keyboard_input_on, key_state, line, typed, raced>>

\* Mutated limit for the checks: no byte is left for the terminating zero.
FullBuffer == COMMAND_BUFFER_SIZE

LineLimit == COMMAND_BUFFER_SIZE - 1

\* Mutated wrap for the checks: one column too late.
NextCellLate(row, col) ==
  IF col + 1 > COLUMNS THEN Cell(row + 1, 0) ELSE Cell(row, col + 1)

\* print_char moves on, over the end of a row.
NextCell(row, col) ==
  IF col + 1 >= COLUMNS THEN Cell(row + 1, 0) ELSE Cell(row, col + 1)

\* A character into a cell of the screen (system call 5).
Put(cell, ch) ==
  screen' = [p \in DOMAIN screen \cup {cell} |-> IF p = cell THEN ch ELSE screen[p]]

Echo ==
  LET next == NextCell(current_output_row, cursor_col)
  IN  /\ Put(Cell(current_output_row, cursor_col), c)
      /\ current_output_row' = next.row
      /\ cursor_col' = next.col

\* Mutated editor for the checks: with a full line, the shell waits for an enter
\* without polling for it.
UseCharWhenRoom ==
  /\ c \in Printed
  /\ Len(buffer) < LineLimit
  /\ buffer' = Append(buffer, c)
  /\ Echo
  /\ shell' = "poll"
  /\ UNCHANGED prompt_row

\* A printable character; ignored when the line is full.
UseChar ==
  /\ c \in Printed
  /\ IF Len(buffer) < LineLimit
     THEN Echo /\ buffer' = Append(buffer, c)
     ELSE UNCHANGED <<buffer, cursor_col, current_output_row, screen>>
  /\ shell' = "poll"
  /\ UNCHANGED prompt_row

\* Mutated guard for the checks: the column is not looked at.
MayEraseAnywhere == buffer # <<>>

\* Backspace does not go back over the prompt, nor over a wrapped line's start.
MayErase == buffer # <<>> /\ cursor_col > PromptLen

\* The blank is passed where a pointer is due: the byte at address 32 is shown.
PutErased == Put(Cell(current_output_row, cursor_col - 1), Code)

UseErase ==
  /\ c = Erase
  /\ IF MayErase
     THEN /\ buffer' = SubSeq(buffer, 1, Len(buffer) - 1)
          /\ cursor_col' = cursor_col - 1
          /\ PutErased
     ELSE UNCHANGED <<buffer, cursor_col, screen>>
  /\ shell' = "poll"
  /\ UNCHANGED <<current_output_row, prompt_row>>

\* The line is run; exit returns from main, and the start-up code's system
\* call 11 halts the machine with interrupts off.
UseEnter ==
  /\ c = Enter
  /\ shell' = IF buffer = ExitLine THEN "halted" ELSE "command"
  /\ current_output_row' = current_output_row + 1
  /\ UNCHANGED <<buffer, cursor_col, screen, prompt_row>>

UseNothing == c \in {Nul, Tab} /\ shell' = "poll" /\ UNCHANGED line

Use ==
  /\ shell = "use"
  /\ UseChar \/ UseErase \/ UseEnter \/ UseNothing
  /\ UNCHANGED <<driver, c, history>>

\* Mutated limit for the checks: the last row is still used.
RowOrLast(row) == IF row >= ROWS THEN 0 ELSE row

\* At the last row the screen is cleared.
RowOrTop(row) == IF row >= ROWS - 1 THEN 0 ELSE row

\* The command is done and has printed some rows; clear leaves row 1.
Prompt ==
  /\ shell = "command"
  /\ \E row \in current_output_row .. current_output_row + MaxOutput :
       PromptAt(RowOrTop(row)) \/ PromptAt(1)
  /\ UNCHANGED <<driver, c, history>>

Halted == shell = "halted" /\ UNCHANGED vars

Shell == Activate \/ Poll \/ Use \/ Prompt

Next ==
  \/ \E k \in Keys : Press(k)
  \/ Modifier
  \/ Shell
  \/ Halted

\* The shell is the one process that runs, and nothing takes the processor
\* from it for good: a key's interrupt returns to it.
Spec == Init /\ [][Next]_vars /\ WF_vars(Shell)

-----------------------------------------------------------------------------
\* The type invariant of driver and line (keyboard.c:21-30, user-shell.c:254-257).
TypeOK ==
  /\ keyboard_input_on \in BOOLEAN
  /\ keyboard_buffer \in Seq(Chars) /\ Len(keyboard_buffer) < KEYBOARD_BUFFER_SIZE
  /\ key_state \in [shift : BOOLEAN, caps : BOOLEAN]
  /\ shell \in {"start", "poll", "use", "command", "halted"}
  /\ c \in Chars \cup {Nul}
  /\ buffer \in Seq(Printed) /\ Len(buffer) < COMMAND_BUFFER_SIZE
  /\ cursor_col \in 0 .. COLUMNS - 1
  /\ current_output_row \in Nat /\ prompt_row \in 0 .. ROWS - 2
  /\ \A cell \in DOMAIN screen : screen[cell] \in Printed \cup {Code}
  /\ typed \in Seq(Chars) /\ taken \in Seq(Chars) /\ raced \in BOOLEAN

Count(s, ch) == Cardinality({i \in DOMAIN s : s[i] = ch})

\* Every character the driver accepted is taken once or still waits, however
\* interrupts and polls interleave (keyboard.c:580-591 against 633-635).
NothingLost ==
  \A ch \in Chars : Count(typed, ch) = Count(taken, ch) + Count(keyboard_buffer, ch)

\* As long as no key came while another one was waiting, the shell takes the
\* characters in the order in which they were typed (keyboard.c:580-591).
OrderWhenPolled == ~ raced => taken \o keyboard_buffer = typed

\* The position on the screen of character k of the line, counted in cells.
CellOf(k) == prompt_row * COLUMNS + PromptLen + k - 1

\* While a line is edited, the cursor stands behind its last character, over wraps,
\* erasures and characters dropped at the end of the buffer
\* (user-shell.c:279-284, 345-361, builtin_commands.c:34-41).
CursorFollowsLine ==
  shell \in {"poll", "use"} =>
    current_output_row * COLUMNS + cursor_col = CellOf(Len(buffer) + 1)

\* What the user reads behind the prompt is the line that will be run: no
\* erasure and no wrap leaves another character in one of its cells
\* (user-shell.c:345-361).
ScreenShowsLine ==
  \A k \in DOMAIN buffer :
    LET cell == Cell(CellOf(k) \div COLUMNS, CellOf(k) % COLUMNS)
    IN  cell \in DOMAIN screen /\ screen[cell] = buffer[k]

\* A prompt never begins in the last row, so that a line which needs a second row
\* has it on the screen (user-shell.c:367-369).
LineOnScreen ==
  PromptLen + LineLimit <= 2 * COLUMNS =>
    \A cell \in DOMAIN screen : cell.row < ROWS

\* When the typing stops, the shell takes everything that waits, and it never
\* stops polling, unless it was told to exit (user-shell.c:296-366).
Drained ==
  /\ <>[](shell = "halted" \/ keyboard_buffer = <<>>)
  /\ []<>(shell \in {"poll", "halted"})
=============================================================================
