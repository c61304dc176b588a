-------------------------- MODULE MCOffloadFreeList --------------------------
(***************************************************************************)
(* Model-checking instance of OffloadFreeList.  MaxLba = 6 makes the list  *)
(* pass through all of its phases (counting, the last LBA, reuse) with     *)
(* pushes before, at and after each hand-over.                             *)
(***************************************************************************)
EXTENDS OffloadFreeList
=============================================================================
