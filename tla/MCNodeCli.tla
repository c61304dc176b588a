----------------------------- MODULE MCNodeCli -----------------------------
(***************************************************************************)
(* Model-checking instance of NodeCli: one key, and lines with no          *)
(* attribute, with long_term, and with a value that is no boolean.         *)
(***************************************************************************)
EXTENDS NodeCli

MCLines == {<<>>, <<"-o", "long_term", "1">>, <<"-o", "lock", "yes">>}
=============================================================================
