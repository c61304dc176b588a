--------------------------- MODULE OffloadLbaAlloc ---------------------------
(***************************************************************************)
(* lib/offload/OffloadLbaAlloc.cpp with the way SpdkBdev uses it: doWrite  *)
(* takes an LBA for a value of a given size and writes it to the device,   *)
(* doRemove gives the LBA of a removed value back.                         *)
(*                                                                         *)
(* Sizes are in bytes.  The bucket of a value is valueSize / 4096; the     *)
(* value occupies units of 4096 bytes (io_min_size), and is written at     *)
(* blockSize * lba where blockSize is the size of the value itself.        *)
(***************************************************************************)
EXTENDS LbaBucket, FiniteSets

CONSTANTS
  Owners,       \* the values that may be on the device
  Sizes,        \* the sizes of values in bytes
  MaxBuckets,   \* OffloadLbaAlloc::_maxBuckets, 8 in the code
  Removes,      \* TRUE when offloaded values are also removed
  MaxListLen    \* bound of the model: removes stop when a list is this long

VARIABLES
  buckets,   \* buckets[i]: the size class i
  extent     \* extent[o]: [lba, units] of a value on the device, or Free

vars == <<buckets, extent>>

Free == [lba |-> -1, units |-> 0]

bucketNum(size) == size \div 4096

\* SpdkBdev::getOptimalSize in units of io_min_size.
unitsOf(size) == IF size = 0 THEN 0 ELSE (size - 1) \div 4096 + 1

Init ==
  /\ buckets = [i \in 0 .. MaxBuckets - 1 |-> NewBucket]
  /\ extent = [o \in Owners |-> Free]

\* SpdkBdev::doWrite takes the LBA from the bucket of the value's size.  For a
\* value beyond the largest bucket getLba returns -1, no block of the device is
\* written and nothing changes here.
Write(o, size) ==
  LET n == bucketNum(size) IN
  /\ extent[o] = Free
  /\ n < MaxBuckets
  /\ ~GetLbaAborts(buckets[n], n)
  /\ \E g \in GetLba(buckets[n], n) :
       /\ buckets' = [buckets EXCEPT ![n] = g.bucket]
       /\ extent' = [extent EXCEPT ![o] = [lba |-> g.lba,
                                           units |-> unitsOf(size)]]

\* SpdkBdev::doRemove: a remove request carries no value, its size is 0, and the
\* LBA goes to bucket 0.
Remove(o) ==
  /\ Removes
  /\ extent[o] # Free
  /\ Len(buckets[bucketNum(0)].list) <= MaxListLen
  /\ buckets' = [buckets EXCEPT ![bucketNum(0)] = PutLba(@, extent[o].lba)]
  /\ extent' = [extent EXCEPT ![o] = Free]

Next == \E o \in Owners : Remove(o) \/ \E size \in Sizes : Write(o, size)

Spec == Init /\ [][Next]_vars

-----------------------------------------------------------------------------
\* The units of the device that a value occupies.
Occupied(o) ==
  LET e == extent[o] IN e.lba * e.units .. (e.lba + 1) * e.units - 1

\* Two values on the device never share a unit: no write of one value destroys
\* another one (the data SpdkBdev::doWrite stores is what doRead reads back).
NoOverlap ==
  \A o, p \in Owners : o # p => Occupied(o) \cap Occupied(p) = {}
=============================================================================
