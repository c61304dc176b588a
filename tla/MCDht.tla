------------------------------- MODULE MCDht -------------------------------
(***************************************************************************)
(* Two nodes with stores, 0 and 1, and the thin client 2.  The first byte  *)
(* of a key is what the DHT hashes, the second is the primary field.  Both *)
(* keys are stored on node 0 and announced there, so that its ready ring,  *)
(* which has room for one, can be full.                                    *)
(***************************************************************************)
EXTENDS Dht, TLC

CONSTANTS t1, t2, t3, v1

MCKeys == {<<0, 0>>, <<0, 2>>}
MCListed == (0 :> <<1, 0>>) @@ (1 :> <<0, 1>>) @@ (2 :> <<1, 0>>)
MCStart == [h \in 0 .. 2 |-> h]
MCHome == (t1 :> 0) @@ (t2 :> 2) @@ (t3 :> 2)
MCSeed == [h \in 0 .. 2 |-> 0]
MCDoes == (t1 :> {"put", "getany", "allockey"}) @@ (t2 :> {"put", "remove"})
          @@ (t3 :> {"get", "getany"})
MCMaxCalls == (t1 :> 2) @@ (t2 :> 1) @@ (t3 :> 2)
=============================================================================
