------------------------------ MODULE MCARTree ------------------------------
(***************************************************************************)
(* Model-checking instances of ARTree.  Two keys share the block of leaves *)
(* of their prefix, so that two threads meet at its mutex; a third key has *)
(* another prefix, and finds no memory for its block or takes it from the  *)
(* other two.  The memory for two values is used up at once.               *)
(***************************************************************************)
EXTENDS ARTree

CONSTANTS p1, p2, s1, s2

MCPrefixes == {p1, p2}
MCSlots == {s1, s2}
MCKeys == {<<p1, s1>>, <<p1, s2>>, <<p2, s1>>}
=============================================================================
