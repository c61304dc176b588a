------------------------------ MODULE DhtCore ------------------------------
(***************************************************************************)
(* Where a key lives: the routing of lib/dht/DhtCore.cpp and the primary   *)
(* key arithmetic of lib/primary.  A key is a sequence of bytes; the DHT   *)
(* hashes the bytes of its mask, the ready queue those of the primary      *)
(* field, and the two need not agree.                                      *)
(***************************************************************************)
EXTENDS Integers, Sequences, FiniteSets

CONSTANTS Hosts,       \* numbers of the nodes, options.dht.id
          Thin,        \* those that run KVStoreThin: no store, no server
          Listed,      \* the neighbors of each node's configuration, in its order
          Keys,        \* sequences of bytes
          Start, End,  \* the key range of each node of the configuration
          MaskOffset, MaskLength,   \* the bytes of the key that the DHT hashes
          PKeyOffset, PKeySize      \* the bytes of the primary field

Servers == Hosts \ Thin

ASSUME DhtCoreAssumption ==
    /\ Hosts \subseteq Nat /\ Thin \subseteq Hosts
    /\ Thin # {} => Servers # {}
    /\ Start \in [Hosts -> Nat] /\ End \in [Hosts -> Nat]
    /\ MaskOffset \in Nat /\ MaskLength \in Nat
    /\ PKeyOffset \in Nat /\ PKeySize \in Nat

(* _genHash: the masked bytes, least significant first.                     *)
_genHash(key) ==
    LET byte[i \in 0 .. MaskLength] ==
          IF i = 0 THEN 0 ELSE byte[i - 1] + key[MaskOffset + i] * 256^(i - 1)
    IN  byte[MaskLength]

(* isLocalKey: with no mask every key is local.                             *)
isLocalKey(h, key) ==
    IF MaskLength > 0 THEN _genHash(key) >= Start[h] /\ _genHash(key) <= End[h]
    ELSE TRUE

(* _initNeighbors: the other nodes of the configuration, in its order; the  *)
(* entry that is marked local is the node itself.                           *)
_neighbors == [h \in Hosts |-> SelectSeq(Listed[h], LAMBDA n : n # h)]

(* Every node's configuration lists every other node that has a store, once. *)
ASSUME NeighborsAssumption ==
    \A h \in Hosts : /\ _neighbors[h] \in Seq(Servers \ {h})
                     /\ \A n \in Servers \ {h} :
                          \E i \in 1 .. Len(_neighbors[h]) : _neighbors[h][i] = n
                     /\ \A i, j \in 1 .. Len(_neighbors[h]) :
                          _neighbors[h][i] = _neighbors[h][j] => i = j

(* _initRangeToHost: one entry for each range; of two neighbours with the   *)
(* same range the later replaces the earlier.                               *)
Replaced(h, i) ==
    \E j \in i + 1 .. Len(_neighbors[h]) :
        /\ Start[_neighbors[h][j]] = Start[_neighbors[h][i]]
        /\ End[_neighbors[h][j]] = End[_neighbors[h][i]]

_rangeToHost == [h \in Hosts |->
    {_neighbors[h][i] : i \in {j \in 1 .. Len(_neighbors[h]) : ~Replaced(h, j)}}]

(* getHostForKey: the first match in the order of the ranges, or none.      *)
Matches(h, key) ==
    IF MaskLength = 0 THEN {}
    ELSE {n \in _rangeToHost[h] : _genHash(key) >= Start[n] /\ _genHash(key) <= End[n]}

getHostForKey(h, key) ==
    CHOOSE n \in Matches(h, key) : \A m \in Matches(h, key) :
        Start[n] < Start[m] \/ (Start[n] = Start[m] /\ End[n] <= End[m])

(* getHostAny: round robin from the index of the calling thread.            *)
getHostAny(h, idx) == _neighbors[h][idx + 1]

nextIdx(h, idx) == (idx + 1) % Len(_neighbors[h])

(* PrimaryKeyBase::modulo: byte number i is shifted by i bits, not by       *)
(* i bytes, and or-ed to the others.                                        *)
BitOf(x, b) == (x \div 2^b) % 2 = 1

modulo == [key \in Keys |->
    LET byte(i) == key[PKeyOffset + i + 1]
        set == {b \in 0 .. 7 + PKeySize :
                  \E i \in 0 .. PKeySize - 1 : b >= i /\ BitOf(byte(i), b - i)}
        val[b \in 0 .. 8 + PKeySize] ==
          IF b = 0 THEN 0 ELSE val[b - 1] + (IF b - 1 \in set THEN 2^(b - 1) ELSE 0)
    IN  val[8 + PKeySize] % Cardinality(Servers)]

(* PrimaryKeyBase::isLocal                                                  *)
isLocalPKey(h, key) == modulo[key] = h

(* PrimaryKeyNextQueue: what is queued, and the key that dequeueNext makes  *)
(* of it: zeroes around the primary field.                                  *)
_createPKeyBuff(key) == SubSeq(key, PKeyOffset + 1, PKeyOffset + PKeySize)

KeySize == Len(CHOOSE k \in Keys : TRUE)

dequeuedKey(pkey) ==
    [i \in 1 .. KeySize |->
       IF i > PKeyOffset /\ i <= PKeyOffset + PKeySize THEN pkey[i - PKeyOffset] ELSE 0]
=============================================================================
