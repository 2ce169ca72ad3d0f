------------------------------ MODULE PagingMC ------------------------------
(***************************************************************************)
(* Paging on a small machine: TLC visits every history of single calls, so  *)
(* that the bitmap becomes fragmented, the frames run out and directories   *)
(* are reused.                                                             *)
(***************************************************************************)
EXTENDS Paging
=============================================================================
