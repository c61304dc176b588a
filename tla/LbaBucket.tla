------------------------------ MODULE LbaBucket ------------------------------
(***************************************************************************)
(* The LBA allocator of one offload device, as operators on the state of   *)
(* one size class: OffloadLbaAlloc::LbaBucket (an array of LBAs used as a  *)
(* stack) refilled from the per-size list of OffloadFreeList (getBlock).   *)
(*                                                                         *)
(* A class is a record                                                     *)
(*   list   the lba fields of the nodes from _heads[slot] to _tails[slot]  *)
(*   lbas   the array lbas[0 .. lbasSize-1]                                *)
(*   level  the fill level of the array                                    *)
(*                                                                         *)
(* `level` follows the array in struct LbaBucket, so the element one past  *)
(* the end, lbas[lbasSize], is the memory of `level`.                      *)
(***************************************************************************)
EXTENDS Integers, Sequences

CONSTANTS
  LbasSize,    \* LbaBucket::lbasSize, 1024 in the code
  MaxLba       \* OffloadFreeList::maxLba

ASSUME LbaBucketAssumption ==
  /\ LbasSize \in Nat \ {0}
  /\ MaxLba \in Nat \ {0}

\* An element of lbas that was never written.
Unset == -2

NewBucket ==
  [list |-> <<-1>>, lbas |-> [i \in 0 .. LbasSize - 1 |-> Unset], level |-> 0]

-----------------------------------------------------------------------------
(***************************************************************************)
(* OffloadFreeList::getBlock.  A head node that holds an LBA is copied     *)
(* into the array once for every node popped; a negative head node is a    *)
(* counter that advances by slot + 1 for every element of the array.       *)
(***************************************************************************)
GetBlockAborts(b, slot) ==
  \/ b.list = <<>>
  \/ Head(b.list) < 0 /\ -Head(b.list) > MaxLba - (slot + 1)

GetBlock(b, slot) ==
  LET head   == Head(b.list)
      popped == IF Len(b.list) < LbasSize THEN Len(b.list) ELSE LbasSize
  IN  IF head >= 0
      THEN [list  |-> SubSeq(b.list, popped + 1, Len(b.list)),
            lbas  |-> [i \in DOMAIN b.lbas |->
                         IF i < popped THEN head ELSE b.lbas[i]],
            level |-> popped]
      ELSE [list  |-> [b.list EXCEPT ![1] = head - (slot + 1) * LbasSize],
            lbas  |-> [i \in DOMAIN b.lbas |-> -head + (slot + 1) * (i + 1)],
            level |-> LbasSize]

\* Mutated form of PutBlock: the block is put in front of the list.
MutPutBlockAtHead(b) ==
  [b EXCEPT !.list  = [i \in 1 .. LbasSize |-> b.lbas[i - 1]] \o @,
            !.level = 0]

\* OffloadFreeList::putBlock and OffloadLbaAlloc::putBlock: the whole array is
\* appended to the list.
PutBlock(b) ==
  [b EXCEPT !.list  = @ \o [i \in 1 .. LbasSize |-> b.lbas[i - 1]],
            !.level = 0]

-----------------------------------------------------------------------------
(***************************************************************************)
(* LbaBucket::get and LbaBucket::put.  What get reads from an element that *)
(* was never written, or beyond the memory of this bucket, is not known:   *)
(* any LBA of the device.                                                  *)
(***************************************************************************)
LbasAt(b, i) ==
  IF i < LbasSize /\ b.lbas[i] # Unset THEN {b.lbas[i]}
  ELSE IF i = LbasSize THEN {b.level}
  ELSE 0 .. MaxLba

\* Mutated form of BucketGet: the level is not lowered.
MutBucketGetKeepsLevel(b) ==
  {[lba |-> l, bucket |-> b] : l \in LbasAt(b, b.level - 1)}

BucketGet(b) ==
  {[lba |-> l, bucket |-> [b EXCEPT !.level = @ - 1]] :
     l \in LbasAt(b, b.level - 1)}

BucketPut(b, lba) ==
  IF b.level >= LbasSize THEN b
  ELSE IF b.level + 1 < LbasSize
  THEN [b EXCEPT !.level = @ + 1, !.lbas[b.level + 1] = lba]
  ELSE [b EXCEPT !.level = lba]

(***************************************************************************)
(* OffloadLbaAlloc::getLba and putLba on the bucket of a size class.       *)
(* GetLba is the set of its possible results.                              *)
(***************************************************************************)
GetLbaAborts(b, slot) == b.level = 0 /\ GetBlockAborts(b, slot)

GetLba(b, slot) ==
  BucketGet(IF b.level = 0 THEN GetBlock(b, slot) ELSE b)

PutLba(b, lba) ==
  BucketPut(IF b.level >= LbasSize THEN PutBlock(b) ELSE b, lba)
=============================================================================
