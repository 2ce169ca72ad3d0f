----------------------------- MODULE TerminalMC -----------------------------
(***************************************************************************)
(* One letter, room for two waiting characters and four in the line, on a    *)
(* screen of three rows where the line wraps behind its second character and *)
(* can be erased behind the wrap.                                           *)
(***************************************************************************)
EXTENDS Terminal, CommandLine

MCSpace    == Char(" ", FALSE)
MCExitLine == <<Char("a", FALSE), Char("a", FALSE)>>

\* Every line of up to seven characters is read as words; looked at once, before
\* the shell takes its first line.
LinesReadAsWords ==
  shell = "start" /\ typed = <<>> =>
    \A s \in BoundedSeq({Char("a", FALSE), Space}, 7) : ReadsAsWords(s)

\* A number that ps prints, typed behind kill, is that number again, and
\* no other process's (builtin_commands.c:1086-1137, 1345-1351, 1419-1430).
NumbersReadBack ==
  shell = "start" /\ typed = <<>> =>
    \A n \in - INT_MAX .. INT_MAX : string_to_int(int_to_string(n)) = n
=============================================================================
