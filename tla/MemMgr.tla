------------------------------- MODULE MemMgr -------------------------------
(***************************************************************************)
(* MemMgr (lib/common/MemMgr.cpp, MemMgr.h): the replacement of operator   *)
(* new and delete, nineteen pools of fixed sizes and malloc for the rest.  *)
(* delete is told no size: the word in front of the block says where the   *)
(* block goes, the stamp of its pool or, for a block of malloc, the upper  *)
(* half of the chunk size that malloc keeps there.                         *)
(***************************************************************************)
EXTENDS GeneralPool

CONSTANT MaxPoolBuckets   \* MAX_POOL_BUCKETS, for the stamps of the pools below

(* BUCKET_NUMBER_SHIFT leaves eight bits of the stamp to the bucket.        *)
ASSUME MemMgrAssumption == MaxPoolBuckets \in 0 .. 256

(* The pools, by the size of their objects.                                 *)
PoolSizes == {4, 8, 16, 32, 64, 128, 256, 512, 1024, 2048, 4096, 8192, 16384, 32768,
              65536, 131072, 262144, 524288, 1048576}

Malloc == [pool |-> 0, bucket |-> 0]

(* getMem: the first pool of the chain of ifs whose objects are large       *)
(* enough, any bucket of it, or malloc.                                     *)
getMem(sz) ==
    LET fits == {p \in PoolSizes : sz <= p}
    IN  IF fits = {} THEN {Malloc}
        ELSE {[pool |-> CHOOSE p \in fits : \A q \in fits : p <= q, bucket |-> b] :
                b \in 0 .. MaxPoolBuckets - 1}

(* operator new, before and after engage().                                 *)
new(started, sz) == IF started THEN getMem(sz) ELSE {Malloc}

(* The word in front of a block (of less than 4 GB).                        *)
WordOf(home) == IF home = Malloc THEN 0 ELSE makeStamp(home.bucket, home.pool)

(* Mutant: the last case of the switch is forgotten.                        *)
MutPutMemNo1M(w) ==
    IF StampSize(w) \in PoolSizes \ {1048576}
    THEN [pool |-> StampSize(w), bucket |-> StampBucket(w)] ELSE Malloc

(* putMem: the pool that has the size, the bucket that has the number, and  *)
(* free() for every other word.                                             *)
putMem(w) ==
    IF StampSize(w) \in PoolSizes
    THEN [pool |-> StampSize(w), bucket |-> StampBucket(w)] ELSE Malloc

(* operator delete                                                          *)
delete(started, w) == IF started THEN putMem(w) ELSE Malloc

-----------------------------------------------------------------------------
(* The sizes around which getMem changes its mind.                          *)
EdgeSizes == UNION {{p - 1, p, p + 1} : p \in PoolSizes}

(* A block is at least as large as was asked for, and delete gives it back  *)
(* to the pool and the bucket it came from, or to free() if malloc made it, *)
(* also when engage() was called between the two (MemMgr.cpp:49-249).  The  *)
(* relation is the same in every state; it is looked at in the first.       *)
BlocksGoHome ==
    made = 0 /\ counter = 0 =>
      \A sz \in EdgeSizes, before, after \in BOOLEAN : \A home \in new(before, sz) :
        (before => after) =>
            /\ delete(after, WordOf(home)) = home
            /\ home # Malloc => home.pool >= sz
=============================================================================
