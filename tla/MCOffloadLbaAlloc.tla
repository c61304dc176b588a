-------------------------- MODULE MCOffloadLbaAlloc --------------------------
(***************************************************************************)
(* Model-checking instances of OffloadLbaAlloc.  Blocks of LbasSize = 2    *)
(* LBAs are taken from the list, used up and put back after a few writes.  *)
(***************************************************************************)
EXTENDS OffloadLbaAlloc
=============================================================================
