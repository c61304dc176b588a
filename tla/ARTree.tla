------------------------------- MODULE ARTree -------------------------------
(***************************************************************************)
(* The radix tree in persistent memory, lib/pmem/ARTree.cpp.               *)
(*                                                                         *)
(* A key is a path of bytes; here <<prefix, slot>>.  The node of a prefix  *)
(* exists from the start; the block of leaves below it is allocated as a   *)
(* whole, under the node's mutex, when a first key needs it.  That stands  *)
(* for each of the eight levels.  A leaf points to a ValueWrapper, which   *)
(* is created with the key's first value and says where the value is:      *)
(*   loc  location (persistent),  vol  locationVolatile (lost on restart)  *)
(*   ptr  locationPtr: the memory of the value, or of its IOV block        *)
(*   act  actionValue: the reservation of the value that can be cancelled  *)
(*                                                                         *)
(* Values are reserved in persistent memory and never published: a restart *)
(* frees them.  Node blocks, wrappers and IOV blocks are published.        *)
(*                                                                         *)
(* Threads work on different keys ("This is still not thread-safe" says    *)
(* findValueInNode of two on one key).  The memory of a key's value holds  *)
(* the key itself, the memory of its IOV block <<"iov", key>>: enough to   *)
(* see whose data is read.  The process may stop between any two steps;    *)
(* its stores stay (power failures are not modelled).  If it stops between *)
(* the linking of a block and its publication, the tree points to memory   *)
(* that the allocator takes for free (torn): behaviours end there.         *)
(***************************************************************************)
EXTENDS Naturals, FiniteSets

CONSTANTS
  Prefixes, Slots,
  Keys,          \* the keys that clients use
  Threads,
  Nodes,         \* memory for blocks of leaves
  Wraps,         \* memory for value wrappers
  Cells,         \* memory for values and IOV blocks
  Nil,           \* the null pointer
  Garbage,       \* a dangling pointer
  Ops,           \* "REMOVE_PMEM": values in persistent memory are removed too
  MaxRestarts    \* bound: the process stops at most this often

ASSUME ARTreeAssumption ==
  /\ Keys \subseteq Prefixes \X Slots
  /\ MaxRestarts \in Nat
  /\ Nil \notin Nodes \cup Wraps \cup Cells \cup Threads \cup Keys
  /\ Garbage \notin Cells
  /\ Nodes \cap Wraps = {} /\ Nodes \cap Cells = {} /\ Wraps \cap Cells = {}

VARIABLES
  block,       \* the leaves below each prefix
  mutex,       \* nodeMutex of each prefix: the thread that holds it
  leaf,        \* NodeLeafCompressed::child, in every block of leaves
  wrap,        \* contents of the memory of wrappers
  mem,         \* contents of the memory of values and IOV blocks
  published,   \* memory allocated for good
  reserved,    \* memory reserved by this process
  at,          \* where each thread is
  torn,        \* the process stopped while a block was linked, not published
  unlinked,    \* memory of a wrapper was freed while its leaf points to it
  restarts

vars == <<block, mutex, leaf, wrap, mem, published, reserved, at, torn,
          unlinked, restarts>>

Idle == [pc |-> "idle", key |-> Nil]

Init ==
  /\ block = [p \in Prefixes |-> Nil]
  /\ mutex = [p \in Prefixes |-> Nil]
  /\ leaf = [n \in Nodes |-> [s \in Slots |-> Nil]]
  /\ wrap = [x \in Wraps |-> [loc |-> "EMPTY", vol |-> "EMPTY",
                              ptr |-> Nil, act |-> Nil]]
  /\ mem = [m \in Cells |-> Nil]
  /\ published = {} /\ reserved = {}
  /\ at = [t \in Threads |-> Idle]
  /\ torn = FALSE /\ unlinked = FALSE
  /\ restarts = 0

-----------------------------------------------------------------------------
Free(S) == S \ (published \cup reserved)

Go(t, pc, k) == at' = [at EXCEPT ![t] = [pc |-> pc, key |-> k]]

At(t, pc) == at[t].pc = pc

\* findValueInNode without allocation: the wrapper of a key, or Nil.
findValueInNode(k) == IF block[k[1]] = Nil THEN Nil ELSE leaf[block[k[1]]][k[2]]

\* Mutated form of InPmem: locationVolatile is not looked at.
MutInPmemPersistent(k) ==
  findValueInNode(k) # Nil /\ wrap[findValueInNode(k)].loc = "PMEM"

\* ARTree::Get finds the value in persistent memory, or on the device.
InPmem(k) ==
  LET x == findValueInNode(k) IN
  x # Nil /\ wrap[x].loc = "PMEM" /\ wrap[x].vol # "EMPTY"

OnDisk(k) == findValueInNode(k) # Nil /\ wrap[findValueInNode(k)].loc = "DISK"

\* Thread t starts an operation on k, which no other thread works on.
Start(t, k) == At(t, "idle") /\ \A u \in Threads : at[u].key # k

-----------------------------------------------------------------------------
(***************************************************************************)
(* ARTree::AllocValueForKey: findValueInNode with allocation, then the     *)
(* reservation of the value.                                               *)
(***************************************************************************)
AllocValueForKey(t, k) ==
  /\ Start(t, k)
  /\ Go(t, "descend", k)
  /\ UNCHANGED <<block, mutex, leaf, wrap, mem, published, reserved, torn,
                 unlinked, restarts>>

\* The mutex is free and another thread has made the block already.
Descend(t) ==
  /\ At(t, "descend")
  /\ mutex[at[t].key[1]] = Nil
  /\ block[at[t].key[1]] # Nil
  /\ Go(t, "leaf", at[t].key)
  /\ UNCHANGED <<block, mutex, leaf, wrap, mem, published, reserved, torn,
                 unlinked, restarts>>

\* allocateFullLevels: a block is reserved, its leaves are cleared and it is
\* linked, under the mutex.  Readers do not take the mutex.
allocateFullLevels(t, n) ==
  LET p == at[t].key[1] IN
  /\ block' = [block EXCEPT ![p] = n]
  /\ mutex' = [mutex EXCEPT ![p] = t]
  /\ leaf' = [leaf EXCEPT ![n] = [s \in Slots |-> Nil]]
  /\ reserved' = reserved \cup {n}

AllocateBlock(t) ==
  /\ At(t, "descend")
  /\ mutex[at[t].key[1]] = Nil
  /\ block[at[t].key[1]] = Nil
  /\ \E n \in Free(Nodes) : allocateFullLevels(t, n)
  /\ Go(t, "publish", at[t].key)
  /\ UNCHANGED <<wrap, mem, published, torn, unlinked, restarts>>

\* Mutated form of PublishBlock: the mutex is not released.
MutPublishBlockKeepsMutex(t) ==
  LET n == block[at[t].key[1]] IN
  /\ At(t, "publish")
  /\ published' = published \cup {n}
  /\ reserved' = reserved \ {n}
  /\ Go(t, "leaf", at[t].key)
  /\ UNCHANGED <<block, mutex, leaf, wrap, mem, torn, unlinked, restarts>>

PublishBlock(t) ==
  LET p == at[t].key[1] IN
  /\ At(t, "publish")
  /\ published' = published \cup {block[p]}
  /\ reserved' = reserved \ {block[p]}
  /\ mutex' = [mutex EXCEPT ![p] = Nil]
  /\ Go(t, "leaf", at[t].key)
  /\ UNCHANGED <<block, leaf, wrap, mem, torn, unlinked, restarts>>

\* Mutated form of NewWrapper: a leaf that has a wrapper gets a new one.
MutNewWrapperAlways(t) ==
  LET k == at[t].key IN
  /\ At(t, "leaf")
  /\ \E x \in Free(Wraps) :
       /\ published' = published \cup {x}
       /\ wrap' = [wrap EXCEPT ![x].loc = "EMPTY"]
       /\ leaf' = [leaf EXCEPT ![block[k[1]]][k[2]] = x]
  /\ Go(t, "reserve", k)
  /\ UNCHANGED <<block, mutex, mem, reserved, torn, unlinked, restarts>>

\* The leaf has no wrapper: one is reserved, published, set to EMPTY (its other
\* fields stay as the memory was) and linked.  No other thread is at this leaf,
\* so this is one step; stopping within it would leak the wrapper.
NewWrapper(t) ==
  LET k == at[t].key IN
  /\ At(t, "leaf")
  /\ findValueInNode(k) = Nil
  /\ \E x \in Free(Wraps) :
       /\ published' = published \cup {x}
       /\ wrap' = [wrap EXCEPT ![x].loc = "EMPTY"]
       /\ leaf' = [leaf EXCEPT ![block[k[1]]][k[2]] = x]
  /\ Go(t, "reserve", k)
  /\ UNCHANGED <<block, mutex, mem, reserved, torn, unlinked, restarts>>

\* The leaf has a wrapper.
OldWrapper(t) ==
  /\ At(t, "leaf")
  /\ findValueInNode(at[t].key) # Nil
  /\ Go(t, "reserve", at[t].key)
  /\ UNCHANGED <<block, mutex, leaf, wrap, mem, published, reserved, torn,
                 unlinked, restarts>>

\* Memory for the value is reserved.
ReserveValue(t) ==
  LET x == findValueInNode(at[t].key) IN
  /\ At(t, "reserve")
  /\ wrap[x].loc = "EMPTY"
  /\ \E m \in Free(Cells) :
       /\ reserved' = reserved \cup {m}
       /\ wrap' = [wrap EXCEPT ![x].ptr = m, ![x].act = m]
  /\ Go(t, "put", at[t].key)
  /\ UNCHANGED <<block, mutex, leaf, mem, published, torn, unlinked, restarts>>

\* PMEM_ALLOCATION_ERROR, from whichever reservation finds no memory, or because
\* the key has a value.
AllocFails(t) ==
  LET k == at[t].key
      x == findValueInNode(k)
  IN
  /\ \/ /\ At(t, "descend") /\ block[k[1]] = Nil /\ mutex[k[1]] = Nil
        /\ Free(Nodes) = {}
        /\ UNCHANGED wrap
     \/ /\ At(t, "leaf") /\ x = Nil /\ Free(Wraps) = {}
        /\ UNCHANGED wrap
     \/ /\ At(t, "reserve") /\ wrap[x].loc # "EMPTY"
        /\ UNCHANGED wrap
     \/ /\ At(t, "reserve") /\ wrap[x].loc = "EMPTY" /\ Free(Cells) = {}
        /\ wrap' = [wrap EXCEPT ![x].ptr = Nil, ![x].act = Garbage]
  /\ Go(t, "idle", Nil)
  /\ UNCHANGED <<block, mutex, leaf, mem, published, reserved, torn, unlinked,
                 restarts>>

\* The client fills the memory it got, and ARTree::Put makes the value visible.
Put(t) ==
  LET x == findValueInNode(at[t].key) IN
  /\ At(t, "put")
  /\ mem' = [mem EXCEPT ![wrap[x].ptr] = at[t].key]
  /\ wrap' = [wrap EXCEPT ![x].vol = "PMEM", ![x].loc = "PMEM"]
  /\ Go(t, "idle", Nil)
  /\ UNCHANGED <<block, mutex, leaf, published, reserved, torn, unlinked,
                 restarts>>

-----------------------------------------------------------------------------
(***************************************************************************)
(* ARTree::AllocateAndUpdateValueWrapper, when the value has been written  *)
(* to the device.                                                          *)
(***************************************************************************)
\* The reservation of the value is cancelled, and an IOV block reserved in its
\* place.  When there is no memory for it the code dereferences null: it stops.
UpdateWrapper(t, k) ==
  LET x == findValueInNode(k) IN
  /\ Start(t, k)
  /\ InPmem(k)
  /\ \E m \in Free(Cells) \cup {wrap[x].act} :
       /\ reserved' = (reserved \ {wrap[x].act}) \cup {m}
       /\ wrap' = [wrap EXCEPT ![x].ptr = m, ![x].act = Nil]
  /\ Go(t, "update", k)
  /\ UNCHANGED <<block, mutex, leaf, mem, published, torn, unlinked, restarts>>

\* pmemobj_publish of four actions at once: the IOV block, its two fields, and
\* the location.
PublishUpdate(t) ==
  LET x == findValueInNode(at[t].key) IN
  /\ At(t, "update")
  /\ mem' = [mem EXCEPT ![wrap[x].ptr] = <<"iov", at[t].key>>]
  /\ published' = published \cup {wrap[x].ptr}
  /\ reserved' = reserved \ {wrap[x].ptr}
  /\ wrap' = [wrap EXCEPT ![x].loc = "DISK"]
  /\ Go(t, "idle", Nil)
  /\ UNCHANGED <<block, mutex, leaf, torn, unlinked, restarts>>

\* ARTree::Remove of a value on the device: nothing is freed.  (A key whose value
\* in persistent memory was lost by a restart is not removed: KVStore::Remove
\* finds no value for it.)
RemoveDisk(t, k) ==
  /\ Start(t, k)
  /\ OnDisk(k)
  /\ wrap' = [wrap EXCEPT ![findValueInNode(k)].loc = "EMPTY"]
  /\ UNCHANGED <<block, mutex, leaf, mem, published, reserved, at, torn,
                 unlinked, restarts>>

\* ARTree::Remove of a value in persistent memory: the reservation is cancelled
\* and the wrapper freed; the leaf still points to it.  (Bound: once.)
RemovePmem(t, k) ==
  LET x == findValueInNode(k) IN
  /\ "REMOVE_PMEM" \in Ops
  /\ ~unlinked
  /\ Start(t, k)
  /\ InPmem(k)
  /\ wrap' = [wrap EXCEPT ![x].loc = "EMPTY", ![x].act = Garbage]
  /\ reserved' = reserved \ {wrap[x].act}
  /\ published' = published \ {x}
  /\ unlinked' = TRUE
  /\ UNCHANGED <<block, mutex, leaf, mem, at, torn, restarts>>

\* The process stops and is started again: TreeImpl opens the pool.  What was
\* reserved is free, what is volatile is new, and pointers to DRAM dangle.
Restart ==
  /\ restarts < MaxRestarts
  /\ restarts' = restarts + 1
  /\ torn' = (torn \/ \E t \in Threads : At(t, "publish"))
  /\ at' = [t \in Threads |-> Idle]
  /\ mutex' = [p \in Prefixes |-> Nil]
  /\ reserved' = {}
  /\ wrap' = [x \in Wraps |-> [wrap[x] EXCEPT !.vol = "EMPTY", !.act = Garbage]]
  /\ UNCHANGED <<block, leaf, mem, published, unlinked>>

-----------------------------------------------------------------------------
AllocStep(t) ==
  \/ Descend(t) \/ AllocateBlock(t) \/ PublishBlock(t)
  \/ NewWrapper(t) \/ OldWrapper(t) \/ ReserveValue(t) \/ AllocFails(t)

Call(t, k) ==
  \/ AllocValueForKey(t, k) \/ UpdateWrapper(t, k)
  \/ RemoveDisk(t, k) \/ RemovePmem(t, k)

Next ==
  /\ ~torn
  /\ \/ \E t \in Threads : \/ AllocStep(t) \/ Put(t) \/ PublishUpdate(t)
                           \/ \E k \in Keys : Call(t, k)
     \/ Restart

Spec == Init /\ [][Next]_vars

\* A thread that is inside an operation of the tree goes on with it.
FairSpec == Spec /\ \A t \in Threads : WF_vars(~torn /\ AllocStep(t))

-----------------------------------------------------------------------------
\* The memory that is read for a key.
Read(k) ==
  LET m == wrap[findValueInNode(k)].ptr IN
  IF m \in published \cup reserved THEN mem[m] ELSE Garbage

\* A key that ARTree::Get finds shows its own value, or its own IOV block, in
\* memory that is allocated, whatever is stored under other keys meanwhile: a
\* restart never leaves a key with a value whose reservation is gone.  (Not while
\* AllocateAndUpdateValueWrapper is at work on the key itself, and not once
\* ARTree::Remove has freed a wrapper.)
OwnValue ==
  unlinked \/ \A k \in Keys :
    (\A t \in Threads : at[t].key # k) =>
      /\ InPmem(k) => Read(k) = k
      /\ OnDisk(k) => Read(k) = <<"iov", k>>

\* An offloaded value is lost neither by a restart, at whichever step the process
\* stops, nor by operations on other keys: only ARTree::Remove of its key ends it
\* (until ARTree::Remove has freed a wrapper).
OffloadedSurvives ==
  [][\A k \in Keys : OnDisk(k) /\ ~OnDisk(k)'
       => unlinked \/ \E t \in Threads : RemoveDisk(t, k)]_vars

\* ARTree::Get finds a value only after ARTree::Put of that key: a key that was
\* removed stays away.
AppearsByPut ==
  [][\A k \in Keys : (InPmem(k) \/ OnDisk(k))' /\ ~(InPmem(k) \/ OnDisk(k))
       => \E t \in Threads : at[t].key = k /\ Put(t)]_vars

\* AllocValueForKey returns, with memory or an error: no thread waits for the
\* mutex of a node for ever.
AllocReturns ==
  \A t \in Threads : At(t, "descend") ~> At(t, "idle") \/ At(t, "put")
=============================================================================
