------------------------- MODULE MCOffloadPipeline -------------------------
(***************************************************************************)
(* Model-checking instances of OffloadPipeline.  The members of each of    *)
(* these sets are only compared with each other, so any two of them can be *)
(* exchanged.                                                              *)
(***************************************************************************)
EXTENDS OffloadPipeline, TLC

Symmetry ==
  Permutations(Rqsts) \cup Permutations(Cells) \cup Permutations(Clients)
    \cup Permutations(Keys) \cup Permutations(Values)
=============================================================================
