--------------------------- MODULE OffloadFreeList ---------------------------
(***************************************************************************)
(* The persistent list of free logical block addresses (LBAs) of the       *)
(* offload device: lib/offload/OffloadFreeList.cpp, the queue `_head` /    *)
(* `_tail` with its operations push and get.                               *)
(*                                                                         *)
(* The list starts with one node that holds -1.  A negative head node -n   *)
(* is a counter: LBAs n, n+1, ..., maxLba-1 and finally 0 have never been  *)
(* handed out.  When the counter runs out the node itself becomes the LBA  *)
(* 0.  LBAs given back are appended at the tail and reused in order.       *)
(*                                                                         *)
(* Every operation runs in one pmemobj transaction, so each is one action; *)
(* an aborted transaction leaves the list as it was.                       *)
(***************************************************************************)
EXTENDS Integers, Sequences

CONSTANT MaxLba    \* maxLba: number of allocation units of the device

\* A device has at least two allocation units (blk_num / blkNumForLba).
ASSUME MaxLbaAssumption == MaxLba \in Nat /\ MaxLba >= 2

VARIABLES
  list,    \* the lba fields of the nodes from _head to _tail
  users    \* users[l]: how many holders LBA l has been given to

freeListVars == <<list, users>>

Lbas == 0 .. (MaxLba - 1)

FreeListInit ==
  /\ list = <<-1>>
  /\ users = [l \in Lbas |-> 0]

(***************************************************************************)
(* get: the head node is popped when it holds an LBA, and counted on when  *)
(* it is the counter.                                                      *)
(***************************************************************************)
GetPop ==
  /\ list # <<>>
  /\ Head(list) >= 0
  /\ list' = Tail(list)
  /\ users' = [users EXCEPT ![Head(list)] = @ + 1]

GetCount ==
  /\ list # <<>>
  /\ Head(list) < 0
  /\ -Head(list) < MaxLba - 1
  /\ list' = [list EXCEPT ![1] = @ - 1]
  /\ users' = [users EXCEPT ![-Head(list)] = @ + 1]

\* Mutated form of GetCountLast: the last LBA leaves the counter where it is.
MutCountLastKeepsCounter ==
  /\ list # <<>>
  /\ Head(list) < 0
  /\ -Head(list) = MaxLba - 1
  /\ UNCHANGED list
  /\ users' = [users EXCEPT ![-Head(list)] = @ + 1]

GetCountLast ==
  /\ list # <<>>
  /\ Head(list) < 0
  /\ -Head(list) = MaxLba - 1
  /\ list' = [list EXCEPT ![1] = 0]
  /\ users' = [users EXCEPT ![-Head(list)] = @ + 1]

\* The states in which get aborts its transaction (EINVAL).
GetAborts ==
  \/ list = <<>>
  \/ Head(list) < 0 /\ -Head(list) > MaxLba - 1

\* Mutated form of Push: the tail is not moved, a node pushed on a list that is
\* not empty is lost.
MutPushLosesNode(l) ==
  /\ users[l] > 0
  /\ list' = IF list = <<>> THEN <<l>> ELSE list
  /\ users' = [users EXCEPT ![l] = @ - 1]

\* push: a holder gives its LBA back.
Push(l) ==
  /\ users[l] > 0
  /\ list' = Append(list, l)
  /\ users' = [users EXCEPT ![l] = @ - 1]

FreeListNext ==
  \/ GetPop
  \/ GetCount
  \/ GetCountLast
  \/ \E l \in Lbas : Push(l)

FreeListSpec == FreeListInit /\ [][FreeListNext]_freeListVars

-----------------------------------------------------------------------------
\* The list holds integers, and every LBA of the device has a holder count.
TypeOK ==
  /\ list \in Seq(Int)
  /\ users \in [Lbas -> Nat]

\* OffloadFreeList::get never gives an LBA that some value still occupies to a
\* second holder, whatever the order of gets and pushes.
SingleHolder == \A l \in Lbas : users[l] <= 1

\* OffloadFreeList::get aborts only when the device is full: every LBA has a
\* holder.  No LBA is lost, neither at the hand-over from the counter phase to
\* the reuse phase nor by a push during the counter phase.
AbortsOnlyWhenFull == GetAborts => \A l \in Lbas : users[l] = 1

-----------------------------------------------------------------------------
\* LBA l is in a node of the list.
Listed(l) == \E i \in 1 .. Len(list) : list[i] = l

\* LBA l is still covered by the counter.
Uncounted(l) == list # <<>> /\ list[1] < 0 /\ (l = 0 \/ l >= -list[1])

\* The nodes hold distinct LBAs; only the first may be the counter.
ListShape ==
  /\ \A i \in 1 .. Len(list) :
        \/ list[i] \in Lbas
        \/ i = 1 /\ list[1] < 0 /\ -list[1] <= MaxLba - 1
  /\ \A i, j \in 1 .. Len(list) : list[i] = list[j] => i = j

\* Every LBA has one holder, or is listed, or is covered by the counter: one of
\* the three and only one.
Partition ==
  \A l \in Lbas :
    \/ users[l] = 1 /\ ~Listed(l) /\ ~Uncounted(l)
    \/ users[l] = 0 /\ Listed(l) /\ ~Uncounted(l)
    \/ users[l] = 0 /\ ~Listed(l) /\ Uncounted(l)

Inv == TypeOK /\ ListShape /\ Partition
=============================================================================
