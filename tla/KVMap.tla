-------------------------------- MODULE KVMap --------------------------------
(***************************************************************************)
(* What the store promises its clients, whatever tier a value is in: a map *)
(* from keys to values.  A key that has no value can be given one          *)
(* (KVStore::Alloc refuses a key that has one), and a value can be         *)
(* removed.  Reading a value, and moving it to long term storage, change   *)
(* nothing.                                                                *)
(***************************************************************************)
CONSTANTS Keys, Values, None

VARIABLE store

Init == store = [k \in Keys |-> None]

Insert(k, v) ==
  /\ store[k] = None
  /\ store' = [store EXCEPT ![k] = v]

Delete(k) ==
  /\ store[k] # None
  /\ store' = [store EXCEPT ![k] = None]

Next == \E k \in Keys : Delete(k) \/ \E v \in Values : Insert(k, v)

Spec == Init /\ [][Next]_store
=============================================================================
