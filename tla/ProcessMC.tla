------------------------------ MODULE ProcessMC -----------------------------
(***************************************************************************)
(* The process table on a machine small enough that slots, frames and pids  *)
(* all run out: 4 slots, 8 user-visible frames, 9 user pages.              *)
(***************************************************************************)
EXTENDS Process

MiB == 1048576

\* kernel.c:33-39, and the requests of the shell's exec command: a program
\* (0x400000, four frames and the stack), clock or beep (one frame and the
\* stack).  The last three try the guards: an image that reaches into the
\* kernel half, one that starts there, and one above the limit of 8 pages.
MCShellRequest == [page |-> 0, size |-> MiB]
MCRequests == {[page |-> 1, size |-> 16 * MiB],
               [page |-> 1, size |-> 4 * MiB],
               [page |-> 7, size |-> 9 * MiB],
               [page |-> 9, size |-> MiB],
               [page |-> 0, size |-> 32 * MiB]}
=============================================================================
