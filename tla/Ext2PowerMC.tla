----------------------------- MODULE Ext2PowerMC -----------------------------
(***************************************************************************)
(* A small image without indirect tables, on which the power goes off twice. *)
(***************************************************************************)
EXTENDS Ext2Power

MCNameLen == [n \in Names \cup {ShellName} |-> IF n = ShellName THEN 5 ELSE 1]
=============================================================================
