--------------------------- MODULE MCGeneralPool ---------------------------
(* Small instances of GeneralPool and MemMgr; the threads are interchangeable. *)
EXTENDS MemMgr, TLC

Symmetry == Permutations(Users)
=============================================================================
