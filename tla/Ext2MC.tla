------------------------------- MODULE Ext2MC -------------------------------
(***************************************************************************)
(* A small image: four inodes, a directory block with room for two or three *)
(* files, two direct pointers, and a shell program that needs the indirect  *)
(* table.                                                                  *)
(***************************************************************************)
EXTENDS Ext2Tree

MCNameLen == [n \in Names \cup {ShellName} |-> IF n = ShellName THEN 5 ELSE 1]
=============================================================================
