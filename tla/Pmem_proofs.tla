----------------------------- MODULE Pmem_proofs -----------------------------
(***************************************************************************)
(* Proofs about the two structures that the library keeps in persistent    *)
(* memory.                                                                 *)
(*                                                                         *)
(* The list of free LBAs (OffloadFreeList), for every device size: it      *)
(* gives each LBA to at most one holder and loses none.                    *)
(*                                                                         *)
(* The radix tree (ARTree), for any number of prefixes, slots, keys,       *)
(* threads and restarts, and any amount of memory: a key shows its own     *)
(* value, an offloaded value is lost by its removal alone, and a value     *)
(* appears by a Put alone as long as no wrapper is freed.                  *)
(***************************************************************************)
EXTENDS ARTree, OffloadFreeList, TLAPS

-----------------------------------------------------------------------------
(***************************************************************************)
(* The list of free LBAs.                                                  *)
(***************************************************************************)
\* The inductive invariant holds when the list has just been created with the
\* single node -1.
LEMMA InitInv == FreeListInit => Inv
<1> SUFFICES ASSUME FreeListInit PROVE Inv
  OBVIOUS
<1> USE MaxLbaAssumption DEF FreeListInit, Lbas
<1>1. list \in Seq(Int) /\ Len(list) = 1 /\ list[1] = -1 /\ list # <<>>
  OBVIOUS
<1>2. TypeOK
  BY <1>1 DEF TypeOK
<1>3. ListShape
  BY <1>1 DEF ListShape
<1>4. Partition
  BY <1>1 DEF Partition, Listed, Uncounted
<1>5. QED
  BY <1>2, <1>3, <1>4 DEF Inv

\* Popping the head node keeps the invariant: the LBA moves from the list to
\* its new holder.
LEMMA GetPopInv == Inv /\ GetPop => Inv'
<1> SUFFICES ASSUME Inv, GetPop PROVE Inv'
  OBVIOUS
<1> USE MaxLbaAssumption DEF Lbas
<1> DEFINE h == list[1]
<1>1. /\ list \in Seq(Int) /\ Len(list) >= 1 /\ Head(list) = h
      /\ h \in Lbas
  BY DEF Inv, TypeOK, GetPop, ListShape
<1>2. /\ list' \in Seq(Int)
      /\ Len(list') = Len(list) - 1
      /\ \A i \in 1 .. Len(list') : list'[i] = list[i + 1]
  BY <1>1 DEF GetPop
<1>3. users' = [users EXCEPT ![h] = @ + 1] /\ users \in [Lbas -> Nat]
  BY <1>1 DEF GetPop, Inv, TypeOK
<1>4. TypeOK'
  BY <1>1, <1>2, <1>3 DEF TypeOK
<1>5. \A i \in 1 .. Len(list') : list'[i] \in Lbas /\ list'[i] # h
  <2> SUFFICES ASSUME NEW i \in 1 .. Len(list')
               PROVE  list'[i] \in Lbas /\ list'[i] # h
    OBVIOUS
  <2>1. i + 1 \in 1 .. Len(list) /\ i + 1 # 1 /\ list'[i] = list[i + 1]
    BY <1>1, <1>2
  <2>2. QED
    BY <1>1, <2>1 DEF Inv, ListShape
<1>6. ListShape'
  <2>1. ASSUME NEW i \in 1 .. Len(list'), NEW j \in 1 .. Len(list'),
               list'[i] = list'[j]
        PROVE  i = j
    <3>1. /\ i + 1 \in 1 .. Len(list) /\ list'[i] = list[i + 1]
          /\ j + 1 \in 1 .. Len(list) /\ list'[j] = list[j + 1]
      BY <1>1, <1>2
    <3>2. i + 1 = j + 1
      BY ZenonT(30), <3>1, <2>1 DEF Inv, ListShape
    <3>3. QED
      BY <3>2
  <2>2. QED
    BY <1>5, <2>1 DEF ListShape
<1>7. \A l \in Lbas : ~Uncounted(l) /\ ~Uncounted(l)'
  BY SMTT(30), <1>1, <1>2, <1>5 DEF Uncounted
<1>8. \A l \in Lbas : Listed(l)' <=> Listed(l) /\ l # h
  <2> SUFFICES ASSUME NEW l \in Lbas
               PROVE  Listed(l)' <=> Listed(l) /\ l # h
    OBVIOUS
  <2>1. ASSUME Listed(l)' PROVE Listed(l) /\ l # h
    <3>1. PICK i \in 1 .. Len(list') : list'[i] = l
      BY <2>1 DEF Listed
    <3>2. i + 1 \in 1 .. Len(list) /\ list[i + 1] = l /\ l # h
      BY <3>1, <1>1, <1>2, <1>5
    <3>3. QED
      BY <3>2 DEF Listed
  <2>2. ASSUME Listed(l), l # h PROVE Listed(l)'
    <3>1. PICK i \in 1 .. Len(list) : list[i] = l
      BY <2>2 DEF Listed
    <3>2. i - 1 \in 1 .. Len(list') /\ list'[i - 1] = l
      BY SMTT(30), <3>1, <2>2, <1>1, <1>2
    <3>3. QED
      BY <3>2 DEF Listed
  <2>3. QED
    BY <2>1, <2>2
<1>9. Listed(h)
  BY <1>1 DEF Listed
<1>10. Partition'
  BY <1>1, <1>3, <1>7, <1>8, <1>9 DEF Inv, Partition
<1>11. QED
  BY <1>4, <1>6, <1>10 DEF Inv

\* Counting on keeps the invariant: the counter covers one LBA less.
LEMMA GetCountInv == Inv /\ GetCount => Inv'
<1> SUFFICES ASSUME Inv, GetCount PROVE Inv'
  OBVIOUS
<1> USE MaxLbaAssumption DEF Lbas
<1> DEFINE n == -list[1]
<1>1. /\ list \in Seq(Int) /\ Len(list) >= 1 /\ Head(list) = -n
      /\ n \in Lbas /\ n >= 1 /\ n < MaxLba - 1 /\ list[1] = -n
  BY DEF Inv, TypeOK, GetCount, ListShape
<1>2. /\ list' \in Seq(Int)
      /\ Len(list') = Len(list)
      /\ list'[1] = -n - 1
      /\ \A i \in 1 .. Len(list) : i # 1 => list'[i] = list[i]
  BY <1>1 DEF GetCount
<1>3. users' = [users EXCEPT ![n] = @ + 1] /\ users \in [Lbas -> Nat]
  BY <1>1 DEF GetCount, Inv, TypeOK
<1>4. TypeOK'
  BY SMTT(30), <1>1, <1>2, <1>3 DEF TypeOK
<1>5. ListShape'
  BY SMTT(30), <1>1, <1>2 DEF Inv, ListShape
<1>6. \A l \in Lbas : Listed(l)' <=> Listed(l)
  BY SMTT(30), <1>1, <1>2 DEF Listed
<1>7. \A l \in Lbas : Uncounted(l)' <=> Uncounted(l) /\ l # n
  BY SMTT(30), <1>1, <1>2 DEF Uncounted
<1>8. Uncounted(n)
  BY <1>1 DEF Uncounted
<1>9. Partition'
  BY <1>1, <1>3, <1>6, <1>7, <1>8 DEF Inv, Partition
<1>10. QED
  BY <1>4, <1>5, <1>9 DEF Inv

\* The last counted LBA turns the counter node into the free LBA 0.
LEMMA GetCountLastInv == Inv /\ GetCountLast => Inv'
<1> SUFFICES ASSUME Inv, GetCountLast PROVE Inv'
  OBVIOUS
<1> USE MaxLbaAssumption DEF Lbas
<1> DEFINE n == MaxLba - 1
<1>1. /\ list \in Seq(Int) /\ Len(list) >= 1 /\ -Head(list) = n
      /\ n \in Lbas /\ n >= 1 /\ list[1] = -n
  BY DEF Inv, TypeOK, GetCountLast, ListShape
<1>2. /\ list' \in Seq(Int)
      /\ Len(list') = Len(list)
      /\ list'[1] = 0
      /\ \A i \in 1 .. Len(list) : i # 1 => list'[i] = list[i]
  BY <1>1 DEF GetCountLast
<1>3. users' = [users EXCEPT ![n] = @ + 1] /\ users \in [Lbas -> Nat]
  BY ZenonT(30), <1>1 DEF GetCountLast, Inv, TypeOK
<1>4. TypeOK'
  BY <1>1, <1>2, <1>3 DEF TypeOK
<1>5. Uncounted(0) /\ Uncounted(n)
  BY <1>1 DEF Uncounted
<1>6. \A i \in 1 .. Len(list) : i # 1 => list[i] \in Lbas /\ list[i] # 0
  BY <1>1, <1>5 DEF Inv, ListShape, Partition, Listed
<1>7. ListShape'
  BY <1>1, <1>2, <1>6 DEF Inv, ListShape
<1>8. \A l \in Lbas : Listed(l)' <=> Listed(l) \/ l = 0
  BY SMTT(30), <1>1, <1>2 DEF Listed
<1>9. \A l \in Lbas : ~Uncounted(l)' /\ (Uncounted(l) <=> l = 0 \/ l = n)
  BY <1>1, <1>2 DEF Uncounted
<1>10. Partition'
  BY <1>1, <1>3, <1>5, <1>8, <1>9 DEF Inv, Partition
<1>11. QED
  BY <1>4, <1>7, <1>10 DEF Inv

\* A push moves the LBA from its holder to the end of the list.
LEMMA PushInv == ASSUME NEW k \in Lbas PROVE Inv /\ Push(k) => Inv'
<1> SUFFICES ASSUME Inv, Push(k) PROVE Inv'
  OBVIOUS
<1> USE MaxLbaAssumption DEF Lbas
<1>1. /\ list \in Seq(Int) /\ list' = Append(list, k)
      /\ users \in [Lbas -> Nat] /\ users[k] > 0
      /\ users' = [users EXCEPT ![k] = @ - 1]
  BY DEF Inv, TypeOK, Push
<1>2. /\ list' \in Seq(Int)
      /\ Len(list') = Len(list) + 1
      /\ list'[Len(list) + 1] = k
      /\ \A i \in 1 .. Len(list) : list'[i] = list[i]
      /\ Len(list) \in Nat
  BY <1>1
<1>3. users[k] = 1 /\ ~Listed(k) /\ ~Uncounted(k)
  BY <1>1 DEF Inv, Partition
<1>4. TypeOK'
  BY <1>1, <1>2 DEF TypeOK
<1>5. \A i \in 1 .. Len(list) : list[i] # k
  BY <1>3 DEF Listed
<1>6. ListShape'
  BY SMTT(30), <1>2, <1>5 DEF Inv, ListShape
<1>7. \A l \in Lbas : Listed(l)' <=> Listed(l) \/ l = k
  BY <1>2 DEF Listed
<1>8. \A l \in Lbas : Uncounted(l)' <=> Uncounted(l)
  <2>1. CASE list = <<>>
    BY <2>1, <1>2 DEF Uncounted
  <2>2. CASE list # <<>>
    BY <2>2, <1>1, <1>2 DEF Uncounted
  <2>3. QED
    BY <2>1, <2>2
<1>9. Partition'
  BY <1>1, <1>3, <1>7, <1>8 DEF Inv, Partition
<1>10. QED
  BY <1>4, <1>6, <1>9 DEF Inv

\* The inductive invariant of the free list: at every moment each LBA is in
\* exactly one of three places (a holder, the list, the counter).
THEOREM FreeListInvariant == FreeListSpec => []Inv
<1>1. ASSUME Inv, [FreeListNext]_freeListVars PROVE Inv'
  <2>1. CASE GetPop
    BY <1>1, <2>1, GetPopInv
  <2>2. CASE GetCount
    BY <1>1, <2>2, GetCountInv
  <2>3. CASE GetCountLast
    BY <1>1, <2>3, GetCountLastInv
  <2>4. CASE \E l \in Lbas : Push(l)
    BY <1>1, <2>4, PushInv
  <2>5. CASE UNCHANGED freeListVars
    BY <1>1, <2>5 DEF Inv, TypeOK, ListShape, Partition, Listed, Uncounted, freeListVars
  <2>6. QED
    BY <1>1, <2>1, <2>2, <2>3, <2>4, <2>5 DEF FreeListNext
<1>2. QED
  BY <1>1, InitInv, PTL DEF FreeListSpec

\* OffloadFreeList::get never hands out an LBA that has a holder, on a device
\* of any size.
THEOREM FreeListSingleHolder == FreeListSpec => []SingleHolder
<1>1. Inv => SingleHolder
  BY DEF Inv, TypeOK, Partition, SingleHolder
<1>2. QED
  BY <1>1, FreeListInvariant, PTL

\* OffloadFreeList::get aborts only on a full device, of any size.
THEOREM FreeListAbortsOnlyWhenFull == FreeListSpec => []AbortsOnlyWhenFull
<1>1. Inv => AbortsOnlyWhenFull
  <2> SUFFICES ASSUME Inv, GetAborts, NEW l \in Lbas PROVE users[l] = 1
    BY DEF AbortsOnlyWhenFull
  <2>1. list = <<>>
    BY MaxLbaAssumption DEF Inv, TypeOK, ListShape, GetAborts, Lbas
  <2>2. ~Listed(l) /\ ~Uncounted(l)
    BY <2>1 DEF Listed, Uncounted
  <2>3. QED
    BY <2>2 DEF Inv, Partition
<1>2. QED
  BY <1>1, FreeListInvariant, PTL

-----------------------------------------------------------------------------
(***************************************************************************)
(* The radix tree.                                                         *)
(***************************************************************************)
Pcs == {"idle", "descend", "publish", "leaf", "reserve", "put", "update"}

Wrapper == [loc : {"EMPTY", "PMEM", "DISK"}, vol : {"EMPTY", "PMEM"},
            ptr : Cells \cup {Nil}, act : Cells \cup {Nil, Garbage}]

Types ==
  /\ block \in [Prefixes -> Nodes \cup {Nil}]
  /\ mutex \in [Prefixes -> Threads \cup {Nil}]
  /\ leaf \in [Nodes -> [Slots -> Wraps \cup {Nil}]]
  /\ wrap \in [Wraps -> Wrapper]
  /\ DOMAIN mem = Cells /\ mem = [m \in Cells |-> mem[m]]
  /\ at \in [Threads -> [pc : Pcs, key : Keys \cup {Nil}]]
  /\ published \cap reserved = {}

\* A thread that is not idle works on a key of its own.
ThreadInv ==
  /\ \A t \in Threads : at[t].key = Nil <=> at[t].pc = "idle"
  /\ \A t, u \in Threads : at[t].key = at[u].key /\ at[t].key # Nil => t = u

\* A block is linked below one prefix.  It is published, or its prefix is locked by
\* the thread that is about to publish it.
BlockInv ==
  /\ \A p \in Prefixes :
       /\ mutex[p] = Nil /\ block[p] # Nil => block[p] \in published
       /\ mutex[p] # Nil => /\ block[p] \in reserved \cap Nodes
                            /\ at[mutex[p]].pc = "publish"
                            /\ at[mutex[p]].key[1] = p
  /\ \A p, q \in Prefixes : block[p] = block[q] /\ block[p] # Nil => p = q
  /\ \A t \in Threads :
       /\ at[t].pc = "publish" => mutex[at[t].key[1]] = t
       /\ at[t].pc \in {"publish", "leaf"} => block[at[t].key[1]] # Nil

\* A thread works on k, at step pc of its operation.
Doing(k, pc) == \E t \in Threads : at[t].pc = pc /\ at[t].key = k

\* A wrapper is published, and linked by one leaf.
LeafInv ==
  /\ \A k \in Keys :
       /\ findValueInNode(k) # Nil => findValueInNode(k) \in published
       /\ Doing(k, "reserve") \/ Doing(k, "put") \/ Doing(k, "update")
            => findValueInNode(k) # Nil
  /\ \A j, k \in Keys :
       findValueInNode(j) = findValueInNode(k) /\ findValueInNode(j) # Nil => j = k

\* The memory of a value in persistent memory is reserved and can be given back;
\* that of an offloaded value is published.
ValueOf(k) ==
  LET x == findValueInNode(k) IN
  /\ Doing(k, "put") => /\ wrap[x].loc = "EMPTY"
                        /\ wrap[x].ptr = wrap[x].act
                        /\ wrap[x].ptr \in reserved \cap Cells
  /\ Doing(k, "update") => /\ wrap[x].loc = "PMEM" /\ wrap[x].vol # "EMPTY"
                           /\ wrap[x].ptr \in reserved \cap Cells
  /\ InPmem(k) /\ ~Doing(k, "update") => /\ wrap[x].ptr = wrap[x].act
                                         /\ wrap[x].ptr \in reserved \cap Cells
                                         /\ mem[wrap[x].ptr] = k
  /\ OnDisk(k) => /\ wrap[x].ptr \in published \cap Cells
                  /\ mem[wrap[x].ptr] = <<"iov", k>>

ValueInv == \A k \in Keys : ValueOf(k)

\* The wrapper of k has memory: a value, an IOV block, or a reservation that a
\* thread is about to fill.
HasMemory(k) == InPmem(k) \/ OnDisk(k) \/ Doing(k, "put")

\* No memory belongs to two keys.
MemoryInv ==
  \A j, k \in Keys :
    /\ HasMemory(j) /\ HasMemory(k)
    /\ wrap[findValueInNode(j)].ptr = wrap[findValueInNode(k)].ptr
    => j = k

Good == Types /\ ThreadInv /\ (torn \/ BlockInv) /\ LeafInv /\ ValueInv /\ MemoryInv

\* The inductive invariant: all of it holds until ARTree::Remove frees a wrapper.
TreeInv == unlinked \/ Good

\* What a step does to the values of keys other than those of a set S.
NoneLost(S) == \A j \in Keys \ S : OnDisk(j) => OnDisk(j)'
NoneNew(S) == \A j \in Keys \ S : InPmem(j)' \/ OnDisk(j)' => InPmem(j) \/ OnDisk(j)

-----------------------------------------------------------------------------
\* Init satisfies the invariant.
LEMMA InitGood == Init => Good
BY ARTreeAssumption
DEF Init, Good, Types, ThreadInv, BlockInv, LeafInv, ValueInv, ValueOf, MemoryInv,
    HasMemory, Doing, Wrapper, Pcs, Idle, InPmem, OnDisk, findValueInNode

\* What findValueInNode returns is a wrapper, or Nil; both parts of a key are known.
LEMMA Lookup ==
  ASSUME Types, NEW k \in Keys
  PROVE  /\ k[1] \in Prefixes /\ k[2] \in Slots
         /\ k = <<k[1], k[2]>>
         /\ findValueInNode(k) \in Wraps \cup {Nil}
         /\ k # Nil
BY ARTreeAssumption DEF Types, findValueInNode

\* Steps that link nothing leave every key its wrapper.
LEMMA SameWrappers ==
  ASSUME UNCHANGED <<block, leaf>>
  PROVE  \A k \in Keys : findValueInNode(k)' = findValueInNode(k)
BY Zenon DEF findValueInNode

\* The operation of thread t on k starts, goes on or ends: nothing is said of what
\* other threads do with other keys.
LEMMA GoesOn ==
  ASSUME Types, ThreadInv, NEW t \in Threads, NEW k \in Keys,
         at[t].key = k \/ (at[t].key = Nil /\ \A u \in Threads : at[u].key # k),
         NEW pc \in Pcs, NEW new \in {k, Nil}, new = Nil <=> pc = "idle",
         Go(t, pc, new)
  PROVE  /\ ThreadInv'
         /\ at' \in [Threads -> [pc : Pcs, key : Keys \cup {Nil}]]
         /\ at'[t] = [pc |-> pc, key |-> new]
         /\ \A u \in Threads : u # t => at'[u] = at[u] /\ at[u].key # k
<1>1. k # Nil
  BY Zenon, Lookup
<1>2. /\ at' \in [Threads -> [pc : Pcs, key : Keys \cup {Nil}]]
      /\ at'[t] = [pc |-> pc, key |-> new]
      /\ \A u \in Threads : u # t => at'[u] = at[u]
  BY Zenon DEF Go, Types
<1>3. \A u \in Threads : u # t => at[u].key # k
  BY Zenon, <1>1 DEF ThreadInv
<1>4. ThreadInv'
  BY <1>1, <1>2, <1>3 DEF ThreadInv
<1> QED
  BY Zenon, <1>2, <1>3, <1>4

\* A thread that holds no mutex goes on, and takes none.
LEMMA MutexKept ==
  ASSUME Types, BlockInv, NEW t \in Threads, NEW k \in Keys,
         at' \in [Threads -> [pc : Pcs, key : Keys \cup {Nil}]],
         \A u \in Threads : u # t => at'[u] = at[u],
         at[t].pc # "publish", at'[t].pc # "publish",
         at'[t].pc = "leaf" => block[at'[t].key[1]] # Nil,
         UNCHANGED <<block, mutex>>,
         \A n \in Nodes : /\ n \in published => n \in published'
                          /\ n \in reserved => n \in reserved'
  PROVE  BlockInv'
<1>1. \A p \in Prefixes : mutex[p] # Nil => mutex[p] \in Threads /\ mutex[p] # t
  BY DEF BlockInv, Types
<1>2. \A p \in Prefixes : mutex[p] # Nil => at'[mutex[p]] = at[mutex[p]]
  BY Zenon, <1>1
<1>3. \A p \in Prefixes : block[p] # Nil => block[p] \in Nodes
  BY Zenon DEF Types
<1>4. \A p \in Prefixes :
         /\ mutex'[p] = Nil /\ block'[p] # Nil => block'[p] \in published'
         /\ mutex'[p] # Nil => /\ block'[p] \in reserved' \cap Nodes
                               /\ at'[mutex'[p]].pc = "publish"
                               /\ at'[mutex'[p]].key[1] = p
  <2> SUFFICES ASSUME NEW p \in Prefixes
               PROVE  /\ mutex[p] = Nil /\ block[p] # Nil => block[p] \in published'
                      /\ mutex[p] # Nil => /\ block[p] \in reserved' \cap Nodes
                                           /\ at'[mutex[p]].pc = "publish"
                                           /\ at'[mutex[p]].key[1] = p
    BY Zenon
  <2>1. mutex[p] = Nil /\ block[p] # Nil => block[p] \in published'
    BY Zenon, <1>3 DEF BlockInv
  <2>2. mutex[p] # Nil => block[p] \in reserved' \cap Nodes
    BY Zenon DEF BlockInv
  <2> QED
    BY Zenon, <1>2, <2>1, <2>2 DEF BlockInv
<1>5. \A u \in Threads :
         /\ at'[u].pc = "publish" => mutex'[at'[u].key[1]] = u
         /\ at'[u].pc \in {"publish", "leaf"} => block'[at'[u].key[1]] # Nil
  BY Zenon DEF BlockInv
<1> QED
  BY <1>4, <1>5 DEF BlockInv

\* What is done to the wrapper of k is not seen under other keys.
LEMMA OtherKeys ==
  ASSUME Types, LeafInv, NEW k \in Keys,
         UNCHANGED <<block, leaf>>,
         DOMAIN wrap' = Wraps,
         \A x \in Wraps : x # findValueInNode(k) => wrap'[x] = wrap[x]
  PROVE  \A j \in Keys : j # k =>
           /\ findValueInNode(j)' = findValueInNode(j)
           /\ findValueInNode(j) # Nil =>
                wrap'[findValueInNode(j)] = wrap[findValueInNode(j)]
           /\ InPmem(j)' <=> InPmem(j)
           /\ OnDisk(j)' <=> OnDisk(j)
<1> SUFFICES ASSUME NEW j \in Keys, j # k
             PROVE  /\ findValueInNode(j)' = findValueInNode(j)
                    /\ findValueInNode(j) # Nil =>
                         wrap'[findValueInNode(j)] = wrap[findValueInNode(j)]
                    /\ InPmem(j)' <=> InPmem(j)
                    /\ OnDisk(j)' <=> OnDisk(j)
  BY Zenon
<1>1. findValueInNode(j)' = findValueInNode(j)
  BY Zenon, SameWrappers
<1>2. findValueInNode(j) # Nil =>
        wrap'[findValueInNode(j)] = wrap[findValueInNode(j)]
  BY Zenon, Lookup DEF LeafInv
<1> QED
  BY Zenon, <1>1, <1>2 DEF InPmem, OnDisk

\* AllocValueForKey, Descend and OldWrapper only move their thread, and so does
\* AllocFails when it changes no wrapper.
LEMMA MoveGood ==
  ASSUME Good, ~torn, NEW t \in Threads, NEW k \in Keys,
         at[t].pc \in {"idle", "descend", "leaf", "reserve"},
         at[t].key = k \/ (at[t].key = Nil /\ \A u \in Threads : at[u].key # k),
         NEW pc \in {"idle", "descend", "leaf", "reserve"},
         NEW new \in {k, Nil}, new = Nil <=> pc = "idle",
         pc = "leaf" => block[k[1]] # Nil,
         pc = "reserve" => findValueInNode(k) # Nil,
         Go(t, pc, new),
         UNCHANGED <<block, mutex, leaf, wrap, mem, published, reserved, torn>>
  PROVE  Good' /\ NoneLost({}) /\ NoneNew({})
<1>0. Types /\ ThreadInv /\ BlockInv /\ LeafInv /\ ValueInv /\ MemoryInv
  BY Zenon DEF Good
<1>1. \A j \in Keys : /\ findValueInNode(j)' = findValueInNode(j)
                      /\ InPmem(j)' <=> InPmem(j)
                      /\ OnDisk(j)' <=> OnDisk(j)
  BY Zenon, SameWrappers DEF InPmem, OnDisk
<1>2. pc \in Pcs
  BY Zenon DEF Pcs
<1>3. /\ ThreadInv'
      /\ at' \in [Threads -> [pc : Pcs, key : Keys \cup {Nil}]]
      /\ at'[t] = [pc |-> pc, key |-> new]
      /\ \A u \in Threads : u # t => at'[u] = at[u] /\ at[u].key # k
  BY ZenonT(30), <1>0, <1>2, GoesOn DEF Go
<1>4. /\ \A j \in Keys : \A q : j # k => (Doing(j, q)' <=> Doing(j, q))
      /\ \A q : Doing(k, q) => q = at[t].pc
      /\ \A q : Doing(k, q)' => q = pc
  BY <1>0, <1>3, Lookup DEF Doing
<1>5. Types'
  BY Zenon, <1>0, <1>3 DEF Types
<1>6. BlockInv'
  BY <1>0, <1>3, MutexKept
<1>7. LeafInv'
  BY <1>0, <1>1, <1>4 DEF LeafInv
<1>8. ValueInv'
  BY <1>0, <1>1, <1>4 DEF ValueInv, ValueOf
<1>9. MemoryInv'
  BY Zenon, <1>0, <1>1, <1>4 DEF MemoryInv, HasMemory
<1> QED
  BY Zenon, <1>1, <1>3, <1>5, <1>6, <1>7, <1>8, <1>9 DEF Good, NoneLost, NoneNew

\* A thread that is not idle works on a key.
LEMMA ThreadKey ==
  ASSUME Types, ThreadInv, NEW t \in Threads, at[t].pc # "idle"
  PROVE  at[t].key \in Keys
BY Zenon DEF Types, ThreadInv

\* allocateFullLevels: the new block has no wrappers, and it is nobody else's.
LEMMA AllocateBlockGood ==
  ASSUME Good, ~torn, NEW t \in Threads, AllocateBlock(t)
  PROVE  Good' /\ NoneLost({}) /\ NoneNew({})
<1>0. Types /\ ThreadInv /\ BlockInv /\ LeafInv /\ ValueInv /\ MemoryInv
  BY Zenon DEF Good
<1>1. at[t].pc = "descend" /\ at[t].key \in Keys
  BY Zenon, <1>0, ThreadKey DEF AllocateBlock, At
<1>k. PICK k \in Keys : k = at[t].key
  BY Zenon, <1>1
<1>2. PICK p \in Prefixes : p = k[1]
  BY Zenon, <1>0, Lookup
<1>3. PICK n \in Free(Nodes) : allocateFullLevels(t, n)
  BY Zenon DEF AllocateBlock
<1>4. /\ block[p] = Nil /\ mutex[p] = Nil
      /\ block' = [block EXCEPT ![p] = n]
      /\ mutex' = [mutex EXCEPT ![p] = t]
      /\ leaf' = [leaf EXCEPT ![n] = [s \in Slots |-> Nil]]
      /\ reserved' = reserved \cup {n}
      /\ UNCHANGED <<wrap, mem, published, torn>>
  BY Zenon, <1>k, <1>2, <1>3 DEF AllocateBlock, allocateFullLevels
<1>5. n \in Nodes /\ n \notin published /\ n \notin reserved /\ n # Nil
  BY Zenon, <1>3, ARTreeAssumption DEF Free
<1>6. Go(t, "publish", k)
  BY Zenon, <1>k DEF AllocateBlock
<1>7. /\ ThreadInv'
      /\ at' \in [Threads -> [pc : Pcs, key : Keys \cup {Nil}]]
      /\ at'[t] = [pc |-> "publish", key |-> k]
      /\ \A u \in Threads : u # t => at'[u] = at[u] /\ at[u].key # k
  <2>1. "publish" \in Pcs
    BY Zenon DEF Pcs
  <2> QED
    BY Zenon, <1>0, <1>k, <1>6, <2>1, GoesOn, Lookup DEF Go
<1>8. /\ \A j \in Keys : \A q : j # k => (Doing(j, q)' <=> Doing(j, q))
      /\ \A q : Doing(k, q) => q = "descend"
      /\ \A q : Doing(k, q)' => q = "publish"
  BY <1>0, <1>1, <1>k, <1>7, Lookup DEF Doing
<1>9. \A q \in Prefixes : q # p => block'[q] = block[q] /\ block[q] # n
                                   /\ mutex'[q] = mutex[q]
  BY <1>0, <1>2, <1>4, <1>5 DEF Types, BlockInv
<1>10. block'[p] = n /\ mutex'[p] = t
  BY Zenon, <1>0, <1>2, <1>4 DEF Types
<1>11. \A j \in Keys : findValueInNode(j)' = findValueInNode(j)
  <2> SUFFICES ASSUME NEW j \in Keys
               PROVE  findValueInNode(j)' = findValueInNode(j)
    BY Zenon
  <2>1. j[1] \in Prefixes /\ j[2] \in Slots
    BY Zenon, <1>0, Lookup
  <2>2. CASE j[1] = p
    BY Zenon, <1>0, <1>4, <1>5, <1>10, <2>1, <2>2 DEF findValueInNode, Types
  <2>3. CASE j[1] # p
    <3>1. block'[j[1]] = block[j[1]] /\ block[j[1]] # n
      BY Zenon, <1>9, <2>1, <2>3
    <3>2. block[j[1]] # Nil => leaf'[block[j[1]]] = leaf[block[j[1]]]
      BY Zenon, <1>0, <1>4, <2>1, <3>1 DEF Types
    <3> QED
      BY Zenon, <3>1, <3>2 DEF findValueInNode
  <2> QED
    BY Zenon, <2>2, <2>3
<1>12. \A j \in Keys : (InPmem(j)' <=> InPmem(j)) /\ (OnDisk(j)' <=> OnDisk(j))
  BY Zenon, <1>4, <1>11 DEF InPmem, OnDisk
<1>13. Types'
  BY Zenon, <1>0, <1>4, <1>5, <1>7 DEF Types
<1>14. BlockInv'
  <2>1. \A q \in Prefixes : mutex[q] # Nil => mutex[q] \in Threads /\ mutex[q] # t
    BY <1>0, <1>1 DEF BlockInv, Types
  <2>2. \A q \in Prefixes : q # p /\ mutex[q] # Nil => at'[mutex[q]] = at[mutex[q]]
    BY Zenon, <1>7, <2>1
  <2>3. \A q \in Prefixes :
           /\ mutex'[q] = Nil /\ block'[q] # Nil => block'[q] \in published'
           /\ mutex'[q] # Nil => /\ block'[q] \in reserved' \cap Nodes
                                 /\ at'[mutex'[q]].pc = "publish"
                                 /\ at'[mutex'[q]].key[1] = q
    BY <1>0, <1>4, <1>5, <1>7, <1>9, <1>10, <2>2, <1>2, ARTreeAssumption DEF BlockInv
  <2>4. \A q, r \in Prefixes : block'[q] = block'[r] /\ block'[q] # Nil => q = r
    BY <1>0, <1>9, <1>10 DEF BlockInv
  <2>5. \A u \in Threads : at[u].pc \in {"publish", "leaf"} => at[u].key[1] \in Prefixes
    BY Zenon, <1>0, ThreadKey, Lookup
  <2>6. ASSUME NEW u \in Threads
        PROVE  /\ at'[u].pc = "publish" => mutex'[at'[u].key[1]] = u
               /\ at'[u].pc \in {"publish", "leaf"} => block'[at'[u].key[1]] # Nil
    <3>1. CASE u = t
      BY <1>2, <1>5, <1>7, <1>10, <3>1
    <3>2. CASE u # t /\ at[u].pc \in {"publish", "leaf"}
      <4>1. at[u].key[1] # p
        BY Zenon, <1>0, <1>4, <3>2 DEF BlockInv
      <4> QED
        BY <1>0, <1>7, <1>9, <2>5, <3>2, <4>1 DEF BlockInv
    <3> QED
      BY Zenon, <1>7, <3>1, <3>2
  <2> QED
    BY Zenon, <2>3, <2>4, <2>6 DEF BlockInv
<1>15. LeafInv'
  BY Zenon, <1>0, <1>4, <1>8, <1>11 DEF LeafInv
<1>16. ValueInv'
  BY <1>0, <1>4, <1>8, <1>11, <1>12 DEF ValueInv, ValueOf
<1>17. MemoryInv'
  BY Zenon, <1>0, <1>4, <1>8, <1>11, <1>12 DEF MemoryInv, HasMemory
<1> QED
  BY Zenon, <1>7, <1>13, <1>14, <1>15, <1>16, <1>17, <1>12 DEF Good, NoneLost, NoneNew

\* The thread that holds the mutex publishes its block and releases it.
LEMMA PublishBlockGood ==
  ASSUME Good, ~torn, NEW t \in Threads, PublishBlock(t)
  PROVE  Good' /\ NoneLost({}) /\ NoneNew({})
<1>0. Types /\ ThreadInv /\ BlockInv /\ LeafInv /\ ValueInv /\ MemoryInv
  BY Zenon DEF Good
<1>1. at[t].pc = "publish" /\ at[t].key \in Keys
  BY Zenon, <1>0, ThreadKey DEF PublishBlock, At
<1>k. PICK k \in Keys : k = at[t].key
  BY Zenon, <1>1
<1>2. PICK p \in Prefixes : p = k[1]
  BY Zenon, <1>0, Lookup
<1>3. PICK n : n = block[p]
  BY Zenon
<1>4. /\ published' = published \cup {n}
      /\ reserved' = reserved \ {n}
      /\ mutex' = [mutex EXCEPT ![p] = Nil]
      /\ UNCHANGED <<block, leaf, wrap, mem, torn>>
  BY Zenon, <1>k, <1>2, <1>3 DEF PublishBlock
<1>5. mutex[p] = t /\ n \in Nodes /\ n \in reserved /\ t # Nil
  BY <1>0, <1>1, <1>k, <1>2, <1>3, ARTreeAssumption DEF BlockInv
<1>6. Go(t, "leaf", k)
  BY Zenon, <1>k DEF PublishBlock
<1>7. /\ ThreadInv'
      /\ at' \in [Threads -> [pc : Pcs, key : Keys \cup {Nil}]]
      /\ at'[t] = [pc |-> "leaf", key |-> k]
      /\ \A u \in Threads : u # t => at'[u] = at[u] /\ at[u].key # k
  <2>1. "leaf" \in Pcs
    BY Zenon DEF Pcs
  <2> QED
    BY ZenonT(30), <1>0, <1>k, <1>6, <2>1, GoesOn, Lookup DEF Go
<1>8. /\ \A j \in Keys : \A q : j # k => (Doing(j, q)' <=> Doing(j, q))
      /\ \A q : Doing(k, q) => q = "publish"
      /\ \A q : Doing(k, q)' => q = "leaf"
  BY <1>0, <1>1, <1>k, <1>7, Lookup DEF Doing
<1>9. \A q \in Prefixes : q # p => /\ mutex'[q] = mutex[q]
                                   /\ block[q] # Nil => block[q] # n
                                   /\ mutex[q] # t
  <2>1. \A q \in Prefixes : mutex[q] = t => q = p
    BY Zenon, <1>0, <1>k, <1>2, <1>5 DEF BlockInv
  <2> QED
    BY Zenon, <1>0, <1>2, <1>3, <1>4, <2>1 DEF Types, BlockInv
<1>10. mutex'[p] = Nil
  BY Zenon, <1>0, <1>2, <1>4 DEF Types
<1>11. \A j \in Keys : findValueInNode(j)' = findValueInNode(j)
  BY Zenon, <1>4, SameWrappers
<1>12. \A j \in Keys : (InPmem(j)' <=> InPmem(j)) /\ (OnDisk(j)' <=> OnDisk(j))
  BY Zenon, <1>4, <1>11 DEF InPmem, OnDisk
<1>13. Types'
  BY <1>0, <1>4, <1>7, <1>9, <1>10, ARTreeAssumption DEF Types
<1>14. BlockInv'
  <2>1. \A q \in Prefixes : q # p /\ mutex[q] # Nil => at'[mutex[q]] = at[mutex[q]]
    BY Zenon, <1>0, <1>7, <1>9 DEF Types
  <2>2. ASSUME NEW q \in Prefixes
        PROVE  /\ mutex'[q] = Nil /\ block'[q] # Nil => block'[q] \in published'
               /\ mutex'[q] # Nil => /\ block'[q] \in reserved' \cap Nodes
                                     /\ at'[mutex'[q]].pc = "publish"
                                     /\ at'[mutex'[q]].key[1] = q
    <3>1. CASE q = p
      BY Zenon, <1>3, <1>4, <1>10, <3>1
    <3>2. CASE q # p /\ mutex[q] = Nil
      BY Zenon, <1>0, <1>4, <1>9, <3>2 DEF BlockInv
    <3>3. CASE q # p /\ mutex[q] # Nil
      <4>1. block[q] \in reserved \cap Nodes /\ block[q] # Nil
        BY <1>0, <3>3, ARTreeAssumption DEF BlockInv
      <4> QED
        BY <1>0, <1>4, <1>9, <2>1, <3>3, <4>1 DEF BlockInv
    <3> QED
      BY Zenon, <3>1, <3>2, <3>3
  <2>3. ASSUME NEW u \in Threads
        PROVE  /\ at'[u].pc = "publish" => mutex'[at'[u].key[1]] = u
               /\ at'[u].pc \in {"publish", "leaf"} => block'[at'[u].key[1]] # Nil
    <3>1. CASE u = t
      BY <1>2, <1>3, <1>4, <1>5, <1>7, <3>1, ARTreeAssumption
    <3>2. CASE u # t /\ at[u].pc = "publish"
      <4>1. at[u].key[1] # p /\ at[u].key[1] \in Prefixes
        BY Zenon, <1>0, <1>5, <3>2, ThreadKey, Lookup DEF BlockInv
      <4> QED
        BY <1>0, <1>4, <1>7, <1>9, <3>2, <4>1 DEF BlockInv
    <3>3. CASE u # t /\ at[u].pc = "leaf"
      BY Zenon, <1>0, <1>4, <1>7, <3>3 DEF BlockInv
    <3> QED
      BY Zenon, <1>7, <3>1, <3>2, <3>3
  <2> QED
    BY <1>0, <1>4, <2>2, <2>3 DEF BlockInv
<1>15. LeafInv'
  BY Zenon, <1>0, <1>4, <1>8, <1>11 DEF LeafInv
<1>16. ValueInv'
  BY <1>0, <1>4, <1>5, <1>8, <1>11, <1>12, ARTreeAssumption DEF ValueInv, ValueOf
<1>17. MemoryInv'
  BY Zenon, <1>0, <1>4, <1>8, <1>11, <1>12 DEF MemoryInv, HasMemory
<1> QED
  BY Zenon, <1>7, <1>13, <1>14, <1>15, <1>16, <1>17, <1>12 DEF Good, NoneLost, NoneNew

\* A new wrapper is EMPTY and linked by the leaf of one key.
LEMMA NewWrapperGood ==
  ASSUME Good, ~torn, NEW t \in Threads, NewWrapper(t)
  PROVE  Good' /\ NoneLost({}) /\ NoneNew({})
<1>0. Types /\ ThreadInv /\ BlockInv /\ LeafInv /\ ValueInv /\ MemoryInv
  BY Zenon DEF Good
<1>1. at[t].pc = "leaf" /\ at[t].key \in Keys
  BY Zenon, <1>0, ThreadKey DEF NewWrapper, At
<1>k. PICK k \in Keys : k = at[t].key
  BY Zenon, <1>1
<1>2. k[1] \in Prefixes /\ k[2] \in Slots /\ k # Nil
  BY Zenon, <1>0, Lookup
<1>n. PICK n : n = block[k[1]]
  BY Zenon
<1>3. PICK x \in Free(Wraps) :
         /\ published' = published \cup {x}
         /\ wrap' = [wrap EXCEPT ![x].loc = "EMPTY"]
         /\ leaf' = [leaf EXCEPT ![n][k[2]] = x]
  BY Zenon, <1>k, <1>n DEF NewWrapper
<1>4. /\ findValueInNode(k) = Nil
      /\ Go(t, "reserve", k)
      /\ UNCHANGED <<block, mutex, mem, reserved, torn>>
  BY Zenon, <1>k DEF NewWrapper
<1>5. x \in Wraps /\ x \notin published /\ x \notin reserved /\ x # Nil /\ n \in Nodes
      /\ n # Nil
  BY <1>0, <1>1, <1>k, <1>2, <1>n, <1>3, ARTreeAssumption DEF Free, BlockInv, Types
<1>7. /\ ThreadInv'
      /\ at' \in [Threads -> [pc : Pcs, key : Keys \cup {Nil}]]
      /\ at'[t] = [pc |-> "reserve", key |-> k]
      /\ \A u \in Threads : u # t => at'[u] = at[u] /\ at[u].key # k
  <2>1. "reserve" \in Pcs
    BY Zenon DEF Pcs
  <2> QED
    BY ZenonT(30), <1>0, <1>k, <1>4, <2>1, GoesOn, Lookup DEF Go
<1>8. /\ \A j \in Keys : \A q : j # k => (Doing(j, q)' <=> Doing(j, q))
      /\ \A q : Doing(k, q)' => q = "reserve"
  BY <1>0, <1>1, <1>k, <1>7, Lookup DEF Doing
<1>9. /\ findValueInNode(k)' = x
      /\ \A j \in Keys : j # k => findValueInNode(j)' = findValueInNode(j)
  <2>1. findValueInNode(k)' = x
    BY Zenon, <1>0, <1>2, <1>n, <1>3, <1>4, <1>5 DEF findValueInNode, Types
  <2>2. ASSUME NEW j \in Keys, j # k
        PROVE  findValueInNode(j)' = findValueInNode(j)
    <3>1. j[1] \in Prefixes /\ j[2] \in Slots /\ j = <<j[1], j[2]>> /\ k = <<k[1], k[2]>>
      BY Zenon, <1>0, Lookup
    <3>2. CASE j[1] = k[1]
      BY Zenon, <1>0, <1>2, <1>n, <1>3, <1>4, <1>5, <2>2, <3>1, <3>2 DEF findValueInNode, Types
    <3>3. CASE j[1] # k[1]
      <4>1. block[j[1]] # n
        BY Zenon, <1>0, <1>2, <1>n, <1>5, <3>1, <3>3 DEF BlockInv
      <4>2. block[j[1]] # Nil => leaf'[block[j[1]]] = leaf[block[j[1]]]
        BY Zenon, <1>0, <1>3, <3>1, <4>1 DEF Types
      <4> QED
        BY Zenon, <1>4, <4>2 DEF findValueInNode
    <3> QED
      BY Zenon, <3>2, <3>3
  <2> QED
    BY Zenon, <2>1, <2>2
<1>10. /\ \A y \in Wraps : y # x => wrap'[y] = wrap[y]
       /\ wrap' \in [Wraps -> Wrapper] /\ wrap'[x].loc = "EMPTY"
  <2>1. wrap \in [Wraps -> Wrapper]
    BY Zenon, <1>0 DEF Types
  <2>2. [wrap[x] EXCEPT !.loc = "EMPTY"] \in Wrapper
    BY Zenon, <1>5, <2>1 DEF Wrapper
  <2>3. wrap' = [wrap EXCEPT ![x] = [wrap[x] EXCEPT !.loc = "EMPTY"]]
    BY Zenon, <1>3
  <2>4. wrap' \in [Wraps -> Wrapper]
    BY Zenon, <2>1, <2>2, <2>3
  <2>5. wrap'[x] = [wrap[x] EXCEPT !.loc = "EMPTY"]
    BY Zenon, <1>5, <2>1, <2>3
  <2>6. wrap'[x].loc = "EMPTY"
    BY Zenon, <1>5, <2>1, <2>5 DEF Wrapper
  <2> QED
    BY Zenon, <2>1, <2>3, <2>4, <2>6
<1>11. /\ \A j \in Keys : j # k =>
            /\ findValueInNode(j) # Nil =>
                 wrap'[findValueInNode(j)] = wrap[findValueInNode(j)]
            /\ InPmem(j)' <=> InPmem(j)
            /\ OnDisk(j)' <=> OnDisk(j)
       /\ ~InPmem(k)' /\ ~OnDisk(k)'
  <2>1. \A j \in Keys : findValueInNode(j) # Nil =>
                 wrap'[findValueInNode(j)] = wrap[findValueInNode(j)]
    BY Zenon, <1>0, <1>5, <1>10, Lookup DEF LeafInv
  <2> QED
    BY Zenon, <1>9, <1>10, <2>1 DEF InPmem, OnDisk
<1>13. Types'
  <2>1. leaf' \in [Nodes -> [Slots -> Wraps \cup {Nil}]]
    BY Zenon, <1>0, <1>2, <1>3, <1>5 DEF Types
  <2> QED
    BY <1>0, <1>3, <1>4, <1>5, <1>7, <1>10, <2>1 DEF Types
<1>14. BlockInv'
  BY <1>0, <1>1, <1>3, <1>4, <1>7, MutexKept
<1>15. LeafInv'
  BY <1>0, <1>3, <1>5, <1>8, <1>9 DEF LeafInv
<1>16. ValueInv'
  <2>1. ~InPmem(k)' /\ ~OnDisk(k)' /\ ~Doing(k, "put")' /\ ~Doing(k, "update")'
    BY Zenon, <1>8, <1>11
  <2>2. ValueOf(k)'
    BY Zenon, <2>1 DEF ValueOf
  <2>3. ASSUME NEW j \in Keys, j # k
        PROVE  ValueOf(j)'
    <3>1. findValueInNode(j) = Nil => ~InPmem(j) /\ ~OnDisk(j)
      BY Zenon DEF InPmem, OnDisk
    <3>2. findValueInNode(j) = Nil => ~Doing(j, "put") /\ ~Doing(j, "update")
      BY Zenon, <1>0 DEF LeafInv
    <3>3. ValueOf(j)
      BY Zenon, <1>0 DEF ValueInv
    <3>4. /\ Doing(j, "put")' => Doing(j, "put")
          /\ Doing(j, "update")' <=> Doing(j, "update")
          /\ findValueInNode(j)' = findValueInNode(j)
      BY Zenon, <1>8, <1>9, <2>3
    <3>5. CASE findValueInNode(j) = Nil
      BY Zenon, <1>11, <2>3, <3>1, <3>2, <3>4, <3>5 DEF ValueOf
    <3>6. CASE findValueInNode(j) # Nil
      <4>1. wrap'[findValueInNode(j)] = wrap[findValueInNode(j)]
        BY Zenon, <1>11, <2>3, <3>6
      <4>2. (InPmem(j)' <=> InPmem(j)) /\ (OnDisk(j)' <=> OnDisk(j))
        BY Zenon, <1>11, <2>3
      <4>3. published \subseteq published' /\ reserved' = reserved /\ mem' = mem
        BY Zenon, <1>3, <1>4
      <4> QED
        BY Zenon, <3>3, <3>4, <4>1, <4>2, <4>3 DEF ValueOf
    <3> QED
      BY Zenon, <3>5, <3>6
  <2> QED
    BY Zenon, <2>2, <2>3 DEF ValueInv
<1>17. MemoryInv'
  <2>1. ~HasMemory(k)'
    BY Zenon, <1>8, <1>11 DEF HasMemory
  <2>2. \A j \in Keys : j # k => (HasMemory(j)' <=> HasMemory(j))
    BY Zenon, <1>8, <1>11 DEF HasMemory
  <2>3. \A j \in Keys : HasMemory(j) => findValueInNode(j) # Nil
    BY Zenon, <1>0 DEF HasMemory, LeafInv, InPmem, OnDisk
  <2> QED
    BY Zenon, <1>0, <1>9, <1>11, <2>1, <2>2, <2>3 DEF MemoryInv
<1>18. NoneLost({}) /\ NoneNew({})
  BY Zenon, <1>4, <1>11 DEF NoneLost, NoneNew, OnDisk
<1> QED
  BY Zenon, <1>7, <1>13, <1>14, <1>15, <1>16, <1>17, <1>18 DEF Good

\* The memory that belongs to k.
Own(k) == IF HasMemory(k) THEN {wrap[findValueInNode(k)].ptr} ELSE {}

\* A step that links nothing and changes the wrapper of one key k.  It may free
\* and write the memory of k; what the wrapper then points to, if it is in use, was
\* free or k's own.  Then nothing is lost under other keys.
LEMMA WrapperStep ==
  ASSUME Good, ~torn, NEW t \in Threads, NEW k \in Keys,
         findValueInNode(k) # Nil,
         wrap' \in [Wraps -> Wrapper],
         \A y \in Wraps : y # findValueInNode(k) => wrap'[y] = wrap[y],
         ThreadInv',
         at' \in [Threads -> [pc : Pcs, key : Keys \cup {Nil}]],
         \A u \in Threads : u # t => at'[u] = at[u] /\ at[u].key # k,
         at[t].key \in {k, Nil}, at[t].pc # "publish",
         at'[t].key \in {k, Nil}, at'[t].pc \notin {"publish", "leaf"},
         UNCHANGED <<block, mutex, leaf, torn>>,
         published' \cap reserved' = {},
         published \subseteq published', reserved \ Own(k) \subseteq reserved',
         mem' = [m \in Cells |-> mem'[m]],
         \A m \in Cells : m \notin Own(k) => mem'[m] = mem[m],
         \/ wrap'[findValueInNode(k)].ptr \in Own(k)
         \/ wrap'[findValueInNode(k)].ptr \notin published \cup reserved
         \/ wrap'[findValueInNode(k)].loc = "EMPTY" /\ at'[t].pc # "put"
  PROVE  /\ Types' /\ ThreadInv' /\ BlockInv' /\ LeafInv' /\ MemoryInv'
         /\ \A j \in Keys : j # k => ValueOf(j)'
         /\ \A j \in Keys : j # k => /\ InPmem(j)' <=> InPmem(j)
                                     /\ OnDisk(j)' <=> OnDisk(j)
<1>0. Types /\ ThreadInv /\ BlockInv /\ LeafInv /\ ValueInv /\ MemoryInv
  BY Zenon DEF Good
<1>x. PICK x \in Wraps : x = findValueInNode(k)
  BY Zenon, <1>0, Lookup
<1>w. PICK w : w = wrap'[findValueInNode(k)]
  BY Zenon
<1>o. PICK own : own = Own(k)
  BY Zenon
<1>1. /\ wrap' \in [Wraps -> Wrapper] /\ wrap'[x] = w
      /\ \A y \in Wraps : y # x => wrap'[y] = wrap[y]
  BY Zenon, <1>x, <1>w
<1>2. Types'
  BY Zenon, <1>0, <1>1 DEF Types
<1>3. BlockInv'
  <2>1. \A m \in Own(k) : m \notin Nodes
    BY <1>0, ARTreeAssumption DEF Own, HasMemory, ValueInv, ValueOf
  <2>2. \A n \in Nodes : /\ n \in published => n \in published'
                         /\ n \in reserved => n \in reserved'
    BY Zenon, <2>1
  <2> QED
    BY Zenon, <1>0, <2>2, MutexKept
<1>4. \A j \in Keys : findValueInNode(j)' = findValueInNode(j)
  BY Zenon, SameWrappers
<1>5. \A j \in Keys : j # k =>
           /\ findValueInNode(j) # Nil =>
                wrap'[findValueInNode(j)] = wrap[findValueInNode(j)]
           /\ InPmem(j)' <=> InPmem(j)
           /\ OnDisk(j)' <=> OnDisk(j)
  BY Zenon, <1>0, <1>x, <1>1, OtherKeys
<1>6. \A j \in Keys : \A q : j # k => (Doing(j, q)' <=> Doing(j, q))
  BY Zenon, <1>0, Lookup DEF Doing
<1>7. \A q : Doing(k, q)' => at'[t].pc = q
  BY Zenon, <1>0, Lookup DEF Doing
<1>8. LeafInv'
  BY <1>0, <1>4, <1>6 DEF LeafInv
<1>9. \A j \in Keys : HasMemory(j) => /\ findValueInNode(j) # Nil
                                      /\ wrap[findValueInNode(j)].ptr \in
                                           Cells \cap (published \cup reserved)
  <2> SUFFICES ASSUME NEW j \in Keys, HasMemory(j)
               PROVE  /\ findValueInNode(j) # Nil
                      /\ wrap[findValueInNode(j)].ptr \in
                           Cells \cap (published \cup reserved)
    BY Zenon
  <2>1. findValueInNode(j) # Nil
    BY Zenon, <1>0 DEF HasMemory, LeafInv, InPmem, OnDisk
  <2>2. ValueOf(j)
    BY Zenon, <1>0 DEF ValueInv
  <2> QED
    BY Zenon, <2>1, <2>2 DEF HasMemory, ValueOf
<1>10. \A j \in Keys : j # k /\ HasMemory(j) => wrap[findValueInNode(j)].ptr \notin own
  BY Zenon, <1>0, <1>o DEF MemoryInv, Own
<1>11. ASSUME NEW j \in Keys, j # k
       PROVE  ValueOf(j)'
  <2>1. /\ Doing(j, "put")' <=> Doing(j, "put")
        /\ Doing(j, "update")' <=> Doing(j, "update")
        /\ findValueInNode(j)' = findValueInNode(j)
        /\ InPmem(j)' <=> InPmem(j)
        /\ OnDisk(j)' <=> OnDisk(j)
    BY Zenon, <1>4, <1>5, <1>6, <1>11
  <2>2. CASE HasMemory(j)
    <3>1. PICK m \in Cells : m = wrap[findValueInNode(j)].ptr
      BY Zenon, <1>9, <2>2
    <3>2. m \in published \cup reserved /\ m \notin own
      BY Zenon, <1>9, <1>10, <1>11, <2>2, <3>1
    <3>3. mem'[m] = mem[m] /\ (m \in published => m \in published')
                           /\ (m \in reserved => m \in reserved')
      BY Zenon, <1>o, <3>2
    <3>4. wrap'[findValueInNode(j)] = wrap[findValueInNode(j)]
      BY Zenon, <1>5, <1>9, <1>11, <2>2
    <3>5. ValueOf(j)
      BY Zenon, <1>0 DEF ValueInv
    <3> QED
      BY Zenon, <2>1, <3>1, <3>3, <3>4, <3>5 DEF ValueOf
  <2>3. CASE ~HasMemory(j)
    <3>1. ~InPmem(j) /\ ~OnDisk(j) /\ ~Doing(j, "put")
      BY Zenon, <2>3 DEF HasMemory
    <3>2. ~Doing(j, "update")
      BY Zenon, <1>0, <3>1 DEF ValueInv, ValueOf, LeafInv, InPmem
    <3> QED
      BY Zenon, <2>1, <3>1, <3>2 DEF ValueOf
  <2> QED
    BY Zenon, <2>2, <2>3
<1>12. MemoryInv'
  <2>1. \A j \in Keys : j # k => (HasMemory(j)' <=> HasMemory(j))
    BY Zenon, <1>5, <1>6 DEF HasMemory
  <2>2. ASSUME NEW j \in Keys, j # k, HasMemory(k)', HasMemory(j)
        PROVE  wrap[findValueInNode(j)].ptr # w.ptr
    <3>1. ~(w.loc = "EMPTY" /\ at'[t].pc # "put")
      BY Zenon, <1>x, <1>1, <1>4, <1>7, <2>2 DEF HasMemory, InPmem, OnDisk
    <3> QED
      BY Zenon, <1>w, <1>o, <1>9, <1>10, <2>2, <3>1
  <2>3. \A j \in Keys : j # k /\ HasMemory(j) =>
          wrap'[findValueInNode(j)'].ptr = wrap[findValueInNode(j)].ptr
    BY Zenon, <1>4, <1>5, <1>9
  <2>4. wrap'[findValueInNode(k)'].ptr = w.ptr
    BY Zenon, <1>x, <1>1, <1>4
  <2>5. ASSUME NEW i \in Keys, NEW j \in Keys, HasMemory(i)', HasMemory(j)',
               wrap'[findValueInNode(i)'].ptr = wrap'[findValueInNode(j)'].ptr
        PROVE  i = j
    <3>1. CASE i # k /\ j # k
      BY Zenon, <1>0, <2>1, <2>3, <2>5, <3>1 DEF MemoryInv
    <3>2. CASE i = k /\ j # k
      BY Zenon, <2>1, <2>2, <2>3, <2>4, <2>5, <3>2
    <3>3. CASE i # k /\ j = k
      BY Zenon, <2>1, <2>2, <2>3, <2>4, <2>5, <3>3
    <3> QED
      BY Zenon, <3>1, <3>2, <3>3
  <2> QED
    BY Zenon, <2>5 DEF MemoryInv
<1> QED
  BY Zenon, <1>x, <1>1, <1>2, <1>3, <1>5, <1>8, <1>11, <1>12

\* Memory is reserved for the value of k.
LEMMA ReserveValueGood ==
  ASSUME Good, ~torn, NEW t \in Threads, ReserveValue(t)
  PROVE  Good' /\ NoneLost({}) /\ NoneNew({})
<1>0. Types /\ ThreadInv /\ BlockInv /\ LeafInv /\ ValueInv /\ MemoryInv
  BY Zenon DEF Good
<1>1. at[t].pc = "reserve" /\ at[t].key \in Keys
  BY Zenon, <1>0, ThreadKey DEF ReserveValue, At
<1>k. PICK k \in Keys : k = at[t].key
  BY Zenon, <1>1
<1>2. Doing(k, "reserve")
  BY Zenon, <1>1, <1>k DEF Doing
<1>x. PICK x \in Wraps : x = findValueInNode(k)
  BY Zenon, <1>0, <1>2, Lookup DEF LeafInv
<1>3. PICK m \in Free(Cells) :
         /\ reserved' = reserved \cup {m}
         /\ wrap' = [wrap EXCEPT ![x].ptr = m, ![x].act = m]
  BY Zenon, <1>k, <1>x DEF ReserveValue
<1>4. m \in Cells /\ m \notin published /\ m \notin reserved
  BY Zenon, <1>3 DEF Free
<1>5. /\ wrap[x].loc = "EMPTY" /\ Go(t, "put", k)
      /\ UNCHANGED <<block, mutex, leaf, mem, published, torn>>
  BY Zenon, <1>k, <1>x DEF ReserveValue
<1>6. /\ wrap' \in [Wraps -> Wrapper]
      /\ \A y \in Wraps : y # x => wrap'[y] = wrap[y]
      /\ wrap'[x].ptr = m /\ wrap'[x].act = m /\ wrap'[x].loc = "EMPTY"
  <2>1. wrap \in [Wraps -> Wrapper]
    BY Zenon, <1>0 DEF Types
  <2>w. PICK w : w = [wrap[x] EXCEPT !.ptr = m, !.act = m]
    BY Zenon
  <2>2. w \in Wrapper /\ w.ptr = m /\ w.act = m /\ w.loc = "EMPTY"
    BY Zenon, <1>4, <1>5, <2>1, <2>w DEF Wrapper
  <2>3. wrap' = [wrap EXCEPT ![x] = w]
    BY Zenon, <1>3, <2>w
  <2> QED
    BY Zenon, <2>1, <2>2, <2>3
<1>7. /\ ThreadInv'
      /\ at' \in [Threads -> [pc : Pcs, key : Keys \cup {Nil}]]
      /\ at'[t] = [pc |-> "put", key |-> k]
      /\ \A u \in Threads : u # t => at'[u] = at[u] /\ at[u].key # k
  <2>1. "put" \in Pcs
    BY Zenon DEF Pcs
  <2> QED
    BY ZenonT(30), <1>0, <1>k, <1>5, <2>1, GoesOn, Lookup DEF Go
<1>8. mem' = [c \in Cells |-> mem'[c]] /\ published' \cap reserved' = {}
  BY Zenon, <1>0, <1>3, <1>4, <1>5 DEF Types
<1>9. /\ Types' /\ ThreadInv' /\ BlockInv' /\ LeafInv' /\ MemoryInv'
      /\ \A j \in Keys : j # k => ValueOf(j)'
      /\ \A j \in Keys : j # k => /\ InPmem(j)' <=> InPmem(j)
                                  /\ OnDisk(j)' <=> OnDisk(j)
  <2>1. Own(k) = {}
    BY Zenon, <1>0, <1>1, <1>k, <1>x, <1>5, <1>7 DEF Own, HasMemory, InPmem, OnDisk, Doing
  <2>2. x # Nil
    BY Zenon, ARTreeAssumption
  <2>3. reserved' = reserved \cup {m}
    BY Zenon, <1>3
  <2> QED
    BY <1>1, <1>k, <1>x, <1>4, <1>5, <1>6, <1>7, <1>8, <2>1, <2>2, <2>3, WrapperStep
<1>10. ValueOf(k)'
  <2>1. findValueInNode(k)' = x
    BY Zenon, <1>x, <1>5, SameWrappers
  <2>2. ~InPmem(k)' /\ ~OnDisk(k)'
    BY Zenon, <1>6, <2>1 DEF InPmem, OnDisk
  <2>3. ~Doing(k, "update")'
    BY <1>0, <1>7, Lookup DEF Doing
  <2> QED
    BY <1>3, <1>4, <1>6, <2>1, <2>2, <2>3 DEF ValueOf
<1>11. NoneLost({}) /\ NoneNew({})
  <2>1. findValueInNode(k)' = x
    BY Zenon, <1>x, <1>5, SameWrappers
  <2>2. ~InPmem(k)' /\ ~OnDisk(k)'
    BY Zenon, <1>6, <2>1 DEF InPmem, OnDisk
  <2>3. OnDisk(k) => wrap[x].loc = "DISK"
    BY Zenon, <1>x DEF OnDisk
  <2> QED
    BY Zenon, <1>5, <1>9, <2>2, <2>3 DEF NoneLost, NoneNew
<1> QED
  BY Zenon, <1>9, <1>10, <1>11 DEF Good, ValueInv

\* No memory is left for the value of k.
LEMMA ReserveFailsGood ==
  ASSUME Good, ~torn, NEW t \in Threads, AllocFails(t), wrap' # wrap
  PROVE  Good' /\ NoneLost({}) /\ NoneNew({})
<1>0. Types /\ ThreadInv /\ BlockInv /\ LeafInv /\ ValueInv /\ MemoryInv
  BY Zenon DEF Good
<1>1. at[t].pc = "reserve" /\ at[t].key \in Keys
  BY Zenon, <1>0, ThreadKey DEF AllocFails, At
<1>k. PICK k \in Keys : k = at[t].key
  BY Zenon, <1>1
<1>2. Doing(k, "reserve")
  BY Zenon, <1>1, <1>k DEF Doing
<1>x. PICK x \in Wraps : x = findValueInNode(k)
  BY Zenon, <1>0, <1>2, Lookup DEF LeafInv
<1>3. wrap' = [wrap EXCEPT ![x].ptr = Nil, ![x].act = Garbage]
  BY Zenon, <1>k, <1>x DEF AllocFails
<1>5. /\ wrap[x].loc = "EMPTY" /\ Go(t, "idle", Nil)
      /\ UNCHANGED <<block, mutex, leaf, mem, published, reserved, torn>>
  BY Zenon, <1>k, <1>x DEF AllocFails
<1>6. /\ wrap' \in [Wraps -> Wrapper]
      /\ \A y \in Wraps : y # x => wrap'[y] = wrap[y]
      /\ wrap'[x].loc = "EMPTY"
  <2>1. wrap \in [Wraps -> Wrapper]
    BY Zenon, <1>0 DEF Types
  <2>w. PICK w : w = [wrap[x] EXCEPT !.ptr = Nil, !.act = Garbage]
    BY Zenon
  <2>2. w \in Wrapper /\ w.loc = "EMPTY"
    BY Zenon, <1>5, <2>1, <2>w DEF Wrapper
  <2>3. wrap' = [wrap EXCEPT ![x] = w]
    BY Zenon, <1>3, <2>w
  <2> QED
    BY Zenon, <2>1, <2>2, <2>3
<1>7. /\ ThreadInv'
      /\ at' \in [Threads -> [pc : Pcs, key : Keys \cup {Nil}]]
      /\ at'[t] = [pc |-> "idle", key |-> Nil]
      /\ \A u \in Threads : u # t => at'[u] = at[u] /\ at[u].key # k
  <2>1. "idle" \in Pcs
    BY Zenon DEF Pcs
  <2> QED
    BY Zenon, <1>0, <1>k, <1>5, <2>1, GoesOn, Lookup DEF Go
<1>8. mem' = [c \in Cells |-> mem'[c]] /\ published' \cap reserved' = {}
  BY Zenon, <1>0, <1>5 DEF Types
<1>9. /\ Types' /\ ThreadInv' /\ BlockInv' /\ LeafInv' /\ MemoryInv'
      /\ \A j \in Keys : j # k => ValueOf(j)'
      /\ \A j \in Keys : j # k => /\ InPmem(j)' <=> InPmem(j)
                                  /\ OnDisk(j)' <=> OnDisk(j)
  <2>1. Own(k) = {}
    BY Zenon, <1>0, <1>1, <1>k, <1>x, <1>5, <1>7 DEF Own, HasMemory, InPmem, OnDisk, Doing
  <2>2. x # Nil
    BY Zenon, ARTreeAssumption
  <2> QED
    BY <1>1, <1>k, <1>x, <1>5, <1>6, <1>7, <1>8, <2>1, <2>2, WrapperStep
<1>10. ValueOf(k)'
  <2>1. findValueInNode(k)' = x
    BY Zenon, <1>x, <1>5, SameWrappers
  <2>2. ~InPmem(k)' /\ ~OnDisk(k)'
    BY Zenon, <1>6, <2>1 DEF InPmem, OnDisk
  <2>3. ~Doing(k, "update")' /\ ~Doing(k, "put")'
    BY <1>0, <1>7, Lookup DEF Doing
  <2> QED
    BY Zenon, <2>2, <2>3 DEF ValueOf
<1>11. NoneLost({}) /\ NoneNew({})
  <2>1. findValueInNode(k)' = x
    BY Zenon, <1>x, <1>5, SameWrappers
  <2>2. ~InPmem(k)' /\ ~OnDisk(k)'
    BY Zenon, <1>6, <2>1 DEF InPmem, OnDisk
  <2>3. OnDisk(k) => wrap[x].loc = "DISK"
    BY Zenon, <1>x DEF OnDisk
  <2> QED
    BY Zenon, <1>5, <1>9, <2>2, <2>3 DEF NoneLost, NoneNew
<1> QED
  BY Zenon, <1>9, <1>10, <1>11 DEF Good, ValueInv

\* ARTree::Put makes the value of k visible.
LEMMA PutGood ==
  ASSUME Good, ~torn, NEW t \in Threads, Put(t)
  PROVE  Good' /\ NoneLost({}) /\ NoneNew({at[t].key})
<1>0. Types /\ ThreadInv /\ BlockInv /\ LeafInv /\ ValueInv /\ MemoryInv
  BY Zenon DEF Good
<1>1. at[t].pc = "put" /\ at[t].key \in Keys
  BY Zenon, <1>0, ThreadKey DEF Put, At
<1>k. PICK k \in Keys : k = at[t].key
  BY Zenon, <1>1
<1>2. Doing(k, "put")
  BY Zenon, <1>1, <1>k DEF Doing
<1>x. PICK x \in Wraps : x = findValueInNode(k)
  BY Zenon, <1>0, <1>2, Lookup DEF LeafInv
<1>m. PICK m \in Cells : m = wrap[x].ptr
  BY Zenon, <1>0, <1>2, <1>x DEF ValueInv, ValueOf
<1>3. wrap' = [wrap EXCEPT ![x].vol = "PMEM", ![x].loc = "PMEM"]
  BY Zenon, <1>k, <1>x DEF Put
<1>4. wrap[x].act = m /\ m \in reserved
  BY Zenon, <1>0, <1>2, <1>x, <1>m DEF ValueInv, ValueOf
<1>5. /\ mem' = [mem EXCEPT ![m] = k] /\ Go(t, "idle", Nil)
      /\ UNCHANGED <<block, mutex, leaf, published, reserved, torn>>
  BY Zenon, <1>k, <1>x, <1>m DEF Put
<1>6. /\ wrap' \in [Wraps -> Wrapper]
      /\ \A y \in Wraps : y # x => wrap'[y] = wrap[y]
      /\ wrap'[x].ptr = m /\ wrap'[x].act = m /\ wrap'[x].loc = "PMEM"
  <2>1. wrap \in [Wraps -> Wrapper]
    BY Zenon, <1>0 DEF Types
  <2>w. PICK w : w = [wrap[x] EXCEPT !.vol = "PMEM", !.loc = "PMEM"]
    BY Zenon
  <2>2. w \in Wrapper /\ w.ptr = m /\ w.act = m /\ w.loc = "PMEM"
    BY Zenon, <1>m, <1>4, <2>1, <2>w DEF Wrapper
  <2>3. wrap' = [wrap EXCEPT ![x] = w]
    BY Zenon, <1>3, <2>w
  <2> QED
    BY Zenon, <2>1, <2>2, <2>3
<1>7. /\ ThreadInv'
      /\ at' \in [Threads -> [pc : Pcs, key : Keys \cup {Nil}]]
      /\ at'[t] = [pc |-> "idle", key |-> Nil]
      /\ \A u \in Threads : u # t => at'[u] = at[u] /\ at[u].key # k
  <2>1. "idle" \in Pcs
    BY Zenon DEF Pcs
  <2> QED
    BY Zenon, <1>0, <1>k, <1>5, <2>1, GoesOn, Lookup DEF Go
<1>8. /\ mem' = [c \in Cells |-> mem'[c]] /\ mem'[m] = k
      /\ \A c \in Cells : c # m => mem'[c] = mem[c]
      /\ published' \cap reserved' = {}
  BY Zenon, <1>0, <1>5 DEF Types
<1>9. /\ Types' /\ ThreadInv' /\ BlockInv' /\ LeafInv' /\ MemoryInv'
      /\ \A j \in Keys : j # k => ValueOf(j)'
      /\ \A j \in Keys : j # k => /\ InPmem(j)' <=> InPmem(j)
                                  /\ OnDisk(j)' <=> OnDisk(j)
  <2>1. Own(k) = {m}
    BY Zenon, <1>2, <1>x, <1>m DEF Own, HasMemory
  <2>2. x # Nil
    BY Zenon, ARTreeAssumption
  <2>3. UNCHANGED <<block, mutex, leaf, published, reserved, torn>>
    BY Zenon, <1>5
  <2> QED
    BY <1>1, <1>k, <1>x, <1>6, <1>7, <1>8, <2>1, <2>2, <2>3, WrapperStep
<1>10. ValueOf(k)'
  <2>1. findValueInNode(k)' = x
    BY Zenon, <1>x, <1>5, SameWrappers
  <2>2. ~OnDisk(k)'
    BY Zenon, <1>6, <2>1 DEF OnDisk
  <2>3. ~Doing(k, "update")' /\ ~Doing(k, "put")'
    BY <1>0, <1>7, Lookup DEF Doing
  <2>4. wrap'[x].ptr = m /\ wrap'[x].act = m /\ m \in reserved' \cap Cells /\ mem'[m] = k
    BY Zenon, <1>4, <1>5, <1>6, <1>8
  <2> QED
    BY Zenon, <2>1, <2>2, <2>3, <2>4 DEF ValueOf
<1>11. NoneLost({}) /\ NoneNew({at[t].key})
  <2>1. ~OnDisk(k)
    BY Zenon, <1>0, <1>2, <1>x DEF ValueInv, ValueOf, OnDisk
  <2> QED
    BY Zenon, <1>k, <1>9, <2>1 DEF NoneLost, NoneNew
<1> QED
  BY Zenon, <1>9, <1>10, <1>11 DEF Good, ValueInv

\* The reservation of the value of k is exchanged for an IOV block.
LEMMA UpdateWrapperGood ==
  ASSUME Good, ~torn, NEW t \in Threads, NEW k \in Keys, UpdateWrapper(t, k)
  PROVE  Good' /\ NoneLost({}) /\ NoneNew({})
<1>0. Types /\ ThreadInv /\ BlockInv /\ LeafInv /\ ValueInv /\ MemoryInv
  BY Zenon DEF Good
<1>1. /\ at[t].pc = "idle" /\ at[t].key = Nil /\ InPmem(k)
      /\ \A u \in Threads : at[u].key # k
  BY Zenon, <1>0 DEF UpdateWrapper, Start, At, ThreadInv
<1>x. PICK x \in Wraps : x = findValueInNode(k)
  BY Zenon, <1>0, <1>1, Lookup DEF InPmem
<1>2. ~Doing(k, "update") /\ ValueOf(k)
  BY Zenon, <1>0, <1>1 DEF Doing, ValueInv
<1>a. PICK a \in Cells : a = wrap[x].act
  BY Zenon, <1>1, <1>x, <1>2 DEF ValueOf
<1>3. PICK m \in Free(Cells) \cup {a} :
         /\ reserved' = (reserved \ {a}) \cup {m}
         /\ wrap' = [wrap EXCEPT ![x].ptr = m, ![x].act = Nil]
  BY Zenon, <1>x, <1>a DEF UpdateWrapper
<1>r. reserved' = (reserved \ {a}) \cup {m}
  BY Zenon, <1>3
<1>4. /\ wrap[x].ptr = a /\ a \in reserved /\ wrap[x].loc = "PMEM" /\ wrap[x].vol # "EMPTY"
      /\ m \in Cells /\ (m = a \/ m \notin published \cup reserved)
  BY Zenon, <1>1, <1>x, <1>2, <1>a, <1>3 DEF ValueOf, InPmem, Free
<1>5. /\ Go(t, "update", k)
      /\ UNCHANGED <<block, mutex, leaf, mem, published, torn>>
  BY Zenon DEF UpdateWrapper
<1>6. /\ wrap' \in [Wraps -> Wrapper]
      /\ \A y \in Wraps : y # x => wrap'[y] = wrap[y]
      /\ wrap'[x].ptr = m /\ wrap'[x].loc = "PMEM" /\ wrap'[x].vol # "EMPTY"
  <2>1. wrap \in [Wraps -> Wrapper]
    BY Zenon, <1>0 DEF Types
  <2>w. PICK w : w = [wrap[x] EXCEPT !.ptr = m, !.act = Nil]
    BY Zenon
  <2>2. w \in Wrapper /\ w.ptr = m /\ w.loc = "PMEM" /\ w.vol # "EMPTY"
    BY Zenon, <1>4, <2>1, <2>w DEF Wrapper
  <2>3. wrap' = [wrap EXCEPT ![x] = w]
    BY Zenon, <1>3, <2>w
  <2> QED
    BY Zenon, <2>1, <2>2, <2>3
<1>7. /\ ThreadInv'
      /\ at' \in [Threads -> [pc : Pcs, key : Keys \cup {Nil}]]
      /\ at'[t] = [pc |-> "update", key |-> k]
      /\ \A u \in Threads : u # t => at'[u] = at[u] /\ at[u].key # k
  <2>1. "update" \in Pcs
    BY Zenon DEF Pcs
  <2> QED
    BY ZenonT(30), <1>0, <1>1, <1>5, <2>1, GoesOn, Lookup DEF Go
<1>8. mem' = [c \in Cells |-> mem'[c]] /\ published' \cap reserved' = {}
  BY Zenon, <1>0, <1>r, <1>4, <1>5 DEF Types
<1>9. /\ Types' /\ ThreadInv' /\ BlockInv' /\ LeafInv' /\ MemoryInv'
      /\ \A j \in Keys : j # k => ValueOf(j)'
      /\ \A j \in Keys : j # k => /\ InPmem(j)' <=> InPmem(j)
                                  /\ OnDisk(j)' <=> OnDisk(j)
  <2>1. Own(k) = {a}
    BY Zenon, <1>1, <1>x, <1>4 DEF Own, HasMemory
  <2>2. x # Nil
    BY Zenon, ARTreeAssumption
  <2> QED
    BY <1>1, <1>x, <1>r, <1>4, <1>5, <1>6, <1>7, <1>8, <2>1, <2>2, WrapperStep
<1>10. ValueOf(k)'
  <2>1. findValueInNode(k)' = x
    BY Zenon, <1>x, <1>5, SameWrappers
  <2>2. ~OnDisk(k)'
    BY Zenon, <1>6, <2>1 DEF OnDisk
  <2>3. Doing(k, "update")' /\ ~Doing(k, "put")'
    BY <1>0, <1>7, Lookup DEF Doing
  <2> QED
    BY Zenon, <1>r, <1>4, <1>6, <2>1, <2>2, <2>3 DEF ValueOf
<1>11. NoneLost({}) /\ NoneNew({})
  <2>1. ~OnDisk(k)
    BY Zenon, <1>x, <1>4 DEF OnDisk
  <2> QED
    BY Zenon, <1>1, <1>9, <2>1 DEF NoneLost, NoneNew
<1> QED
  BY Zenon, <1>9, <1>10, <1>11 DEF Good, ValueInv

\* The IOV block is published with the new location.
LEMMA PublishUpdateGood ==
  ASSUME Good, ~torn, NEW t \in Threads, PublishUpdate(t)
  PROVE  Good' /\ NoneLost({}) /\ NoneNew({})
<1>0. Types /\ ThreadInv /\ BlockInv /\ LeafInv /\ ValueInv /\ MemoryInv
  BY Zenon DEF Good
<1>1. at[t].pc = "update" /\ at[t].key \in Keys
  BY Zenon, <1>0, ThreadKey DEF PublishUpdate, At
<1>k. PICK k \in Keys : k = at[t].key
  BY Zenon, <1>1
<1>2. Doing(k, "update")
  BY Zenon, <1>1, <1>k DEF Doing
<1>x. PICK x \in Wraps : x = findValueInNode(k)
  BY Zenon, <1>0, <1>2, Lookup DEF LeafInv
<1>m. PICK m \in Cells : m = wrap[x].ptr
  BY Zenon, <1>0, <1>2, <1>x DEF ValueInv, ValueOf
<1>3. wrap' = [wrap EXCEPT ![x].loc = "DISK"]
  BY Zenon, <1>k, <1>x DEF PublishUpdate
<1>4. wrap[x].loc = "PMEM" /\ wrap[x].vol # "EMPTY" /\ m \in reserved
  BY Zenon, <1>0, <1>2, <1>x, <1>m DEF ValueInv, ValueOf
<1>5. /\ mem' = [mem EXCEPT ![m] = <<"iov", k>>] /\ Go(t, "idle", Nil)
      /\ published' = published \cup {m} /\ reserved' = reserved \ {m}
      /\ UNCHANGED <<block, mutex, leaf, torn>>
  BY Zenon, <1>k, <1>x, <1>m DEF PublishUpdate
<1>6. /\ wrap' \in [Wraps -> Wrapper]
      /\ \A y \in Wraps : y # x => wrap'[y] = wrap[y]
      /\ wrap'[x].ptr = m /\ wrap'[x].loc = "DISK"
  <2>1. wrap \in [Wraps -> Wrapper]
    BY Zenon, <1>0 DEF Types
  <2>w. PICK w : w = [wrap[x] EXCEPT !.loc = "DISK"]
    BY Zenon
  <2>2. w \in Wrapper /\ w.ptr = m /\ w.loc = "DISK"
    BY Zenon, <1>m, <1>4, <2>1, <2>w DEF Wrapper
  <2>3. wrap' = [wrap EXCEPT ![x] = w]
    BY Zenon, <1>3, <2>w
  <2> QED
    BY Zenon, <2>1, <2>2, <2>3
<1>7. /\ ThreadInv'
      /\ at' \in [Threads -> [pc : Pcs, key : Keys \cup {Nil}]]
      /\ at'[t] = [pc |-> "idle", key |-> Nil]
      /\ \A u \in Threads : u # t => at'[u] = at[u] /\ at[u].key # k
  <2>1. "idle" \in Pcs
    BY Zenon DEF Pcs
  <2> QED
    BY Zenon, <1>0, <1>k, <1>5, <2>1, GoesOn, Lookup DEF Go
<1>8. /\ mem' = [c \in Cells |-> mem'[c]] /\ mem'[m] = <<"iov", k>>
      /\ \A c \in Cells : c # m => mem'[c] = mem[c]
      /\ published' \cap reserved' = {}
  BY Zenon, <1>0, <1>5 DEF Types
<1>9. /\ Types' /\ ThreadInv' /\ BlockInv' /\ LeafInv' /\ MemoryInv'
      /\ \A j \in Keys : j # k => ValueOf(j)'
      /\ \A j \in Keys : j # k => /\ InPmem(j)' <=> InPmem(j)
                                  /\ OnDisk(j)' <=> OnDisk(j)
  <2>1. Own(k) = {m}
    <3>1. InPmem(k)
      BY Zenon, <1>x, <1>4, ARTreeAssumption DEF InPmem
    <3> QED
      BY Zenon, <1>x, <1>m, <3>1 DEF Own, HasMemory
  <2>2. x # Nil
    BY Zenon, ARTreeAssumption
  <2>3. /\ published' = published \cup {m} /\ reserved' = reserved \ {m}
        /\ UNCHANGED <<block, mutex, leaf, torn>>
    BY Zenon, <1>5
  <2> QED
    BY <1>1, <1>k, <1>x, <1>6, <1>7, <1>8, <2>1, <2>2, <2>3, WrapperStep
<1>10. ValueOf(k)'
  <2>1. findValueInNode(k)' = x
    BY Zenon, <1>x, <1>5, SameWrappers
  <2>2. ~InPmem(k)'
    BY Zenon, <1>6, <2>1 DEF InPmem
  <2>3. ~Doing(k, "update")' /\ ~Doing(k, "put")'
    BY <1>0, <1>7, Lookup DEF Doing
  <2>4. wrap'[x].ptr = m /\ m \in published' \cap Cells /\ mem'[m] = <<"iov", k>>
    BY Zenon, <1>5, <1>6, <1>8
  <2> QED
    BY Zenon, <2>1, <2>2, <2>3, <2>4 DEF ValueOf
<1>11. NoneLost({}) /\ NoneNew({})
  <2>1. InPmem(k) /\ ~OnDisk(k)
    BY Zenon, <1>x, <1>4, ARTreeAssumption DEF OnDisk, InPmem
  <2> QED
    BY Zenon, <1>9, <2>1 DEF NoneLost, NoneNew
<1> QED
  BY Zenon, <1>9, <1>10, <1>11 DEF Good, ValueInv

\* ARTree::Remove forgets an offloaded value.
LEMMA RemoveDiskGood ==
  ASSUME Good, ~torn, NEW t \in Threads, NEW k \in Keys, RemoveDisk(t, k)
  PROVE  Good' /\ NoneLost({k}) /\ NoneNew({})
<1>0. Types /\ ThreadInv /\ BlockInv /\ LeafInv /\ ValueInv /\ MemoryInv
  BY Zenon DEF Good
<1>1. /\ at[t].pc = "idle" /\ at[t].key = Nil /\ OnDisk(k)
      /\ \A u \in Threads : at[u].key # k
  BY Zenon, <1>0 DEF RemoveDisk, Start, At, ThreadInv
<1>x. PICK x \in Wraps : x = findValueInNode(k)
  BY Zenon, <1>0, <1>1, Lookup DEF OnDisk
<1>3. wrap' = [wrap EXCEPT ![x].loc = "EMPTY"]
  BY Zenon, <1>x DEF RemoveDisk
<1>5. UNCHANGED <<block, mutex, leaf, mem, published, reserved, at, torn>>
  BY Zenon DEF RemoveDisk
<1>6. /\ wrap' \in [Wraps -> Wrapper]
      /\ \A y \in Wraps : y # x => wrap'[y] = wrap[y]
      /\ wrap'[x].loc = "EMPTY"
  <2>1. wrap \in [Wraps -> Wrapper]
    BY Zenon, <1>0 DEF Types
  <2>w. PICK w : w = [wrap[x] EXCEPT !.loc = "EMPTY"]
    BY Zenon
  <2>2. w \in Wrapper /\ w.loc = "EMPTY"
    BY Zenon, <1>1, <2>1, <2>w DEF Wrapper
  <2>3. wrap' = [wrap EXCEPT ![x] = w]
    BY Zenon, <1>3, <2>w
  <2> QED
    BY Zenon, <2>1, <2>2, <2>3
<1>7. /\ ThreadInv'
      /\ at' \in [Threads -> [pc : Pcs, key : Keys \cup {Nil}]]
      /\ at'[t].pc = "idle" /\ at'[t].key = Nil
      /\ \A u \in Threads : u # t => at'[u] = at[u] /\ at[u].key # k
  BY Zenon, <1>0, <1>1, <1>5 DEF Types, ThreadInv
<1>8. mem' = [c \in Cells |-> mem'[c]] /\ published' \cap reserved' = {}
  BY Zenon, <1>0, <1>5 DEF Types
<1>9. /\ Types' /\ ThreadInv' /\ BlockInv' /\ LeafInv' /\ MemoryInv'
      /\ \A j \in Keys : j # k => ValueOf(j)'
      /\ \A j \in Keys : j # k => /\ InPmem(j)' <=> InPmem(j)
                                  /\ OnDisk(j)' <=> OnDisk(j)
  <2>2. x # Nil
    BY Zenon, ARTreeAssumption
  <2>3. /\ published \subseteq published' /\ reserved \ Own(k) \subseteq reserved'
        /\ \A m \in Cells : m \notin Own(k) => mem'[m] = mem[m]
        /\ UNCHANGED <<block, mutex, leaf, torn>>
    BY Zenon, <1>5
  <2> QED
    BY Zenon, <1>1, <1>x, <1>6, <1>7, <1>8, <2>2, <2>3, WrapperStep
<1>10. ValueOf(k)'
  <2>1. findValueInNode(k)' = x
    BY Zenon, <1>x, <1>5, SameWrappers
  <2>2. ~InPmem(k)' /\ ~OnDisk(k)'
    BY Zenon, <1>6, <2>1 DEF InPmem, OnDisk
  <2>3. ~Doing(k, "update")' /\ ~Doing(k, "put")'
    BY Zenon, <1>1, <1>5 DEF Doing
  <2> QED
    BY Zenon, <2>2, <2>3 DEF ValueOf
<1>11. NoneLost({k}) /\ NoneNew({})
  <2>1. findValueInNode(k)' = x
    BY Zenon, <1>x, <1>5, SameWrappers
  <2>2. ~InPmem(k)' /\ ~OnDisk(k)'
    BY Zenon, <1>6, <2>1 DEF InPmem, OnDisk
  <2>3. OnDisk(k) => wrap[x].loc = "DISK"
    BY Zenon, <1>x DEF OnDisk
  <2> QED
    BY Zenon, <1>5, <1>9, <2>2, <2>3 DEF NoneLost, NoneNew
<1> QED
  BY Zenon, <1>9, <1>10, <1>11 DEF Good, ValueInv

\* The process stops: what only volatile memory held is gone, and with it every
\* value in persistent memory that was not offloaded.
LEMMA RestartGood ==
  ASSUME Good, ~torn, Restart
  PROVE  Good' /\ NoneLost({}) /\ NoneNew({})
<1>0. Types /\ ThreadInv /\ BlockInv /\ LeafInv /\ ValueInv /\ MemoryInv
  BY Zenon DEF Good
<1>1. /\ at' = [t \in Threads |-> Idle] /\ mutex' = [p \in Prefixes |-> Nil]
      /\ reserved' = {} /\ UNCHANGED <<block, leaf, mem, published>>
      /\ torn' = (torn \/ \E t \in Threads : At(t, "publish"))
  BY Zenon DEF Restart
<1>2. /\ wrap' \in [Wraps -> Wrapper]
      /\ \A x \in Wraps : /\ wrap'[x].loc = wrap[x].loc
                          /\ wrap'[x].ptr = wrap[x].ptr
                          /\ wrap'[x].vol = "EMPTY"
  <2>1. wrap \in [Wraps -> Wrapper]
    BY Zenon, <1>0 DEF Types
  <2>2. ASSUME NEW x \in Wraps
        PROVE  /\ wrap'[x] \in Wrapper /\ wrap'[x].loc = wrap[x].loc
               /\ wrap'[x].ptr = wrap[x].ptr /\ wrap'[x].vol = "EMPTY"
    <3>1. wrap'[x] = [wrap[x] EXCEPT !.vol = "EMPTY", !.act = Garbage]
      BY Zenon DEF Restart
    <3> QED
      BY ZenonT(30), <2>1, <3>1 DEF Wrapper
  <2>3. wrap' = [x \in Wraps |-> wrap'[x]]
    BY Zenon DEF Restart
  <2> QED
    BY Zenon, <2>2, <2>3
<1>3. \A j \in Keys : findValueInNode(j)' = findValueInNode(j)
  BY Zenon, <1>1, SameWrappers
<1>4. \A j \in Keys : ~InPmem(j)' /\ (OnDisk(j)' <=> OnDisk(j))
  BY Zenon, <1>0, <1>2, <1>3, Lookup DEF InPmem, OnDisk
<1>5. \A t \in Threads : at'[t].pc = "idle" /\ at'[t].key = Nil
  BY Zenon, <1>1 DEF Idle
<1>6. \A j \in Keys : \A q : ~Doing(j, q)'
  BY Zenon, <1>0, <1>5, Lookup DEF Doing
<1>7. Types'
  <2>1. at' \in [Threads -> [pc : Pcs, key : Keys \cup {Nil}]]
    BY Zenon, <1>1 DEF Idle, Pcs
  <2> QED
    BY Zenon, <1>0, <1>1, <1>2, <2>1 DEF Types
<1>8. ThreadInv'
  BY Zenon, <1>5 DEF ThreadInv
<1>9. (torn \/ BlockInv)'
  <2>1. ASSUME ~torn'
        PROVE  \A p \in Prefixes : mutex[p] = Nil
    BY ZenonT(30), <1>0, <1>1, <2>1 DEF BlockInv, Types, At
  <2> QED
    BY Zenon, <1>0, <1>1, <1>5, <2>1 DEF BlockInv
<1>10. LeafInv'
  BY Zenon, <1>0, <1>1, <1>3, <1>6 DEF LeafInv
<1>11. ASSUME NEW j \in Keys
       PROVE  ValueOf(j)'
  <2>1. OnDisk(j) => findValueInNode(j) \in Wraps
    BY Zenon, <1>0, Lookup DEF OnDisk
  <2>2. OnDisk(j) => wrap'[findValueInNode(j)].ptr = wrap[findValueInNode(j)].ptr
    BY Zenon, <1>2, <2>1
  <2>3. ValueOf(j)
    BY Zenon, <1>0 DEF ValueInv
  <2> QED
    BY Zenon, <1>1, <1>3, <1>4, <1>6, <2>2, <2>3 DEF ValueOf
<1>12. MemoryInv'
  <2>1. \A j \in Keys : HasMemory(j)' => HasMemory(j) /\ findValueInNode(j) \in Wraps
    BY Zenon, <1>0, <1>4, <1>6, Lookup DEF HasMemory, OnDisk
  <2> QED
    BY <1>0, <1>2, <1>3, <2>1 DEF MemoryInv
<1> QED
  BY Zenon, <1>4, <1>7, <1>8, <1>9, <1>10, <1>11, <1>12 DEF Good, ValueInv, NoneLost, NoneNew

\* The steps that only move their thread.
LEMMA MoveStepGood ==
  ASSUME Good, ~torn, NEW t \in Threads,
         \/ \E k \in Keys : AllocValueForKey(t, k)
         \/ Descend(t) \/ OldWrapper(t) \/ (AllocFails(t) /\ wrap' = wrap)
  PROVE  Good' /\ NoneLost({}) /\ NoneNew({})
<1>0. Types /\ ThreadInv
  BY Zenon DEF Good
<1>1. CASE \E k \in Keys : AllocValueForKey(t, k)
  <2>1. PICK k \in Keys : AllocValueForKey(t, k)
    BY Zenon, <1>1
  <2>2. /\ at[t].pc = "idle" /\ at[t].key = Nil /\ \A u \in Threads : at[u].key # k
        /\ Go(t, "descend", k)
        /\ UNCHANGED <<block, mutex, leaf, wrap, mem, published, reserved, torn>>
    BY Zenon, <1>0, <2>1 DEF AllocValueForKey, Start, At, ThreadInv
  <2> QED
    BY Zenon, <1>0, <2>2, MoveGood, Lookup DEF Go
<1>2. CASE Descend(t)
  <2>1. PICK k \in Keys : k = at[t].key
    BY Zenon, <1>0, <1>2, ThreadKey DEF Descend, At
  <2>2. /\ at[t].pc = "descend" /\ block[k[1]] # Nil /\ Go(t, "leaf", k)
        /\ UNCHANGED <<block, mutex, leaf, wrap, mem, published, reserved, torn>>
    BY Zenon, <1>2, <2>1 DEF Descend, At
  <2> QED
    BY ZenonT(30), <1>0, <2>1, <2>2, MoveGood, Lookup DEF Go
<1>3. CASE OldWrapper(t)
  <2>1. PICK k \in Keys : k = at[t].key
    BY Zenon, <1>0, <1>3, ThreadKey DEF OldWrapper, At
  <2>2. /\ at[t].pc = "leaf" /\ findValueInNode(k) # Nil /\ Go(t, "reserve", k)
        /\ UNCHANGED <<block, mutex, leaf, wrap, mem, published, reserved, torn>>
    BY Zenon, <1>3, <2>1 DEF OldWrapper, At
  <2> QED
    BY Zenon, <1>0, <2>1, <2>2, MoveGood, Lookup DEF Go
<1>4. CASE AllocFails(t) /\ wrap' = wrap
  <2>1. at[t].pc \in {"descend", "leaf", "reserve"}
    BY Zenon, <1>4 DEF AllocFails, At
  <2>2. PICK k \in Keys : k = at[t].key
    BY Zenon, <1>0, <2>1, ThreadKey
  <2>3. /\ Go(t, "idle", Nil)
        /\ UNCHANGED <<block, mutex, leaf, wrap, mem, published, reserved, torn>>
    BY Zenon, <1>4 DEF AllocFails
  <2> QED
    BY Zenon, <1>0, <2>1, <2>2, <2>3, MoveGood, Lookup DEF Go
<1> QED
  BY Zenon, <1>1, <1>2, <1>3, <1>4

\* A step of the tree, unless it frees a wrapper, keeps the invariant; only
\* RemoveDisk of a key loses an offloaded value, and only Put shows a new one.
LEMMA NextGood ==
  ASSUME Good, Next, ~unlinked'
  PROVE  /\ Good'
         /\ \A j \in Keys : OnDisk(j) /\ ~OnDisk(j)'
                              => \E t \in Threads : RemoveDisk(t, j)
         /\ \A j \in Keys : (InPmem(j) \/ OnDisk(j))' /\ ~(InPmem(j) \/ OnDisk(j))
                              => \E t \in Threads : at[t].key = j /\ Put(t)
<1>0. ~torn
  BY Zenon DEF Next
<1>1. \/ Good' /\ NoneLost({}) /\ NoneNew({})
      \/ \E t \in Threads : Put(t) /\ Good' /\ NoneLost({}) /\ NoneNew({at[t].key})
      \/ \E t \in Threads, k \in Keys :
           RemoveDisk(t, k) /\ Good' /\ NoneLost({k}) /\ NoneNew({})
  <2>1. CASE Restart
    BY Zenon, <1>0, <2>1, RestartGood
  <2>2. ASSUME NEW t \in Threads, AllocStep(t)
        PROVE  Good' /\ NoneLost({}) /\ NoneNew({})
    <3>1. CASE Descend(t) \/ OldWrapper(t) \/ (AllocFails(t) /\ wrap' = wrap)
      BY Zenon, <1>0, <3>1, MoveStepGood
    <3>2. CASE AllocFails(t) /\ wrap' # wrap
      BY Zenon, <1>0, <3>2, ReserveFailsGood
    <3>3. CASE AllocateBlock(t)
      BY Zenon, <1>0, <3>3, AllocateBlockGood
    <3>4. CASE PublishBlock(t)
      BY Zenon, <1>0, <3>4, PublishBlockGood
    <3>5. CASE NewWrapper(t)
      BY Zenon, <1>0, <3>5, NewWrapperGood
    <3>6. CASE ReserveValue(t)
      BY Zenon, <1>0, <3>6, ReserveValueGood
    <3> QED
      BY Zenon, <2>2, <3>1, <3>2, <3>3, <3>4, <3>5, <3>6 DEF AllocStep
  <2>3. ASSUME NEW t \in Threads, Put(t)
        PROVE  Good' /\ NoneLost({}) /\ NoneNew({at[t].key})
    BY Zenon, <1>0, <2>3, PutGood
  <2>4. ASSUME NEW t \in Threads, PublishUpdate(t)
        PROVE  Good' /\ NoneLost({}) /\ NoneNew({})
    BY Zenon, <1>0, <2>4, PublishUpdateGood
  <2>5. ASSUME NEW t \in Threads, NEW k \in Keys,
               AllocValueForKey(t, k) \/ UpdateWrapper(t, k)
        PROVE  Good' /\ NoneLost({}) /\ NoneNew({})
    BY Zenon, <1>0, <2>5, MoveStepGood, UpdateWrapperGood
  <2>6. ASSUME NEW t \in Threads, NEW k \in Keys, RemoveDisk(t, k)
        PROVE  Good' /\ NoneLost({k}) /\ NoneNew({})
    BY Zenon, <1>0, <2>6, RemoveDiskGood
  <2>7. ASSUME NEW t \in Threads, NEW k \in Keys, RemovePmem(t, k)
        PROVE  FALSE
    BY Zenon, <2>7 DEF RemovePmem
  <2> QED
    BY Zenon, <2>1, <2>2, <2>3, <2>4, <2>5, <2>6, <2>7 DEF Next, Call
<1> QED
  BY Zenon, <1>1 DEF NoneLost, NoneNew

\* The steps of the tree keep the invariant.
LEMMA NextInv ==
  ASSUME TreeInv, [Next]_vars
  PROVE  TreeInv'
<1>1. CASE unlinked
  <2>1. Next => unlinked'
    BY ZenonT(30), <1>1 DEF Next, AllocStep, Call, Descend, AllocateBlock, PublishBlock, NewWrapper,
       OldWrapper, ReserveValue, AllocFails, Put, PublishUpdate, AllocValueForKey,
       UpdateWrapper, RemoveDisk, RemovePmem, Restart
  <2> QED
    BY Zenon, <1>1, <2>1 DEF TreeInv, vars
<1>2. CASE Good /\ Next
  BY Zenon, <1>2, NextGood DEF TreeInv
<1>3. CASE Good /\ UNCHANGED vars
  <2>1. \A j \in Keys : findValueInNode(j)' = findValueInNode(j)
    BY Zenon, <1>3, SameWrappers DEF vars
  <2>2. /\ \A j \in Keys : (InPmem(j)' <=> InPmem(j)) /\ (OnDisk(j)' <=> OnDisk(j))
        /\ \A j \in Keys : \A q : Doing(j, q)' <=> Doing(j, q)
    BY Zenon, <1>3, <2>1 DEF vars, InPmem, OnDisk, Doing
  <2>u. /\ UNCHANGED <<wrap, mem, published, reserved>>
        /\ LeafInv /\ ValueInv /\ MemoryInv
    BY Zenon, <1>3 DEF vars, Good
  <2>3. Types' /\ ThreadInv' /\ (torn \/ BlockInv)'
    BY <1>3 DEF vars, Good, Types, ThreadInv, BlockInv
  <2>l. LeafInv'
    BY Zenon, <2>u, <2>1, <2>2 DEF LeafInv
  <2>4. ASSUME NEW j \in Keys
        PROVE  ValueOf(j)'
    <3>1. ValueOf(j)
      BY Zenon, <2>u DEF ValueInv
    <3> QED
      BY Zenon, <2>u, <2>1, <2>2, <3>1 DEF ValueOf
  <2>5. \A j \in Keys : HasMemory(j)' <=> HasMemory(j)
    BY Zenon, <2>2 DEF HasMemory
  <2>6. MemoryInv'
    BY Zenon, <2>u, <2>1, <2>5 DEF MemoryInv
  <2> QED
    BY Zenon, <2>3, <2>l, <2>4, <2>6 DEF Good, TreeInv, ValueInv
<1> QED
  BY Zenon, <1>1, <1>2, <1>3 DEF TreeInv

-----------------------------------------------------------------------------
\* TreeInv holds always: a block is linked below one prefix, a wrapper by one leaf,
\* and the memory of a value belongs to one key.
THEOREM TreeInvariant == Spec => []TreeInv
<1>1. Init => TreeInv
  BY Zenon, InitGood DEF TreeInv
<1>2. TreeInv /\ [Next]_vars => TreeInv'
  BY Zenon, NextInv
<1> QED
  BY <1>1, <1>2, PTL DEF Spec

\* ARTree::Get shows a key's own value or IOV block, in allocated memory, whatever
\* threads do to other keys and wherever the process is stopped and restarted.
THEOREM TreeOwnValue == Spec => []OwnValue
<1>1. TreeInv => OwnValue
  <2> SUFFICES ASSUME Good, NEW k \in Keys, \A t \in Threads : at[t].key # k
               PROVE  /\ InPmem(k) => Read(k) = k
                      /\ OnDisk(k) => Read(k) = <<"iov", k>>
    BY Zenon DEF TreeInv, OwnValue
  <2>1. ~Doing(k, "update") /\ ValueOf(k)
    BY Zenon DEF Doing, Good, ValueInv
  <2> QED
    BY Zenon, <2>1 DEF ValueOf, Read
<1> QED
  BY <1>1, TreeInvariant, PTL

\* Only ARTree::Remove of a key ends its offloaded value: no restart does, at
\* whichever step the process stops, and no operation on another key.
THEOREM TreeOffloadedSurvives == Spec => OffloadedSurvives
<1>1. TreeInv /\ [Next]_vars
        => [\A k \in Keys : OnDisk(k) /\ ~OnDisk(k)'
              => unlinked \/ \E t \in Threads : RemoveDisk(t, k)]_vars
  <2> SUFFICES ASSUME TreeInv, Next, NEW k \in Keys, OnDisk(k), ~OnDisk(k)', ~unlinked
               PROVE  \E t \in Threads : RemoveDisk(t, k)
    BY Zenon
  <2>1. Good
    BY Zenon DEF TreeInv
  <2>2. CASE ~unlinked'
    BY Zenon, <2>1, <2>2, NextGood
  <2>3. CASE unlinked'
    <3>1. PICK t \in Threads, j \in Keys : RemovePmem(t, j)
      BY ZenonT(30), <2>3 DEF Next, AllocStep, Call, Descend, AllocateBlock, PublishBlock,
         NewWrapper, OldWrapper, ReserveValue, AllocFails, Put, PublishUpdate,
         AllocValueForKey, UpdateWrapper, RemoveDisk, Restart
    <3>2. PICK x \in Wraps : x = findValueInNode(j)
      BY Zenon, <2>1, <3>1, Lookup DEF RemovePmem, InPmem, Good
    <3>3. /\ wrap[x].loc = "PMEM" /\ UNCHANGED <<block, leaf>>
          /\ wrap' = [wrap EXCEPT ![x].loc = "EMPTY", ![x].act = Garbage]
      BY Zenon, <3>1, <3>2 DEF RemovePmem, InPmem
    <3>4. PICK y \in Wraps : y = findValueInNode(k)
      BY Zenon, <2>1, Lookup DEF OnDisk, Good
    <3>5. y # x
      BY Zenon, <3>3, <3>4 DEF OnDisk
    <3>6. wrap'[y] = wrap[y]
      BY Zenon, <2>1, <3>3, <3>5 DEF Good, Types
    <3>7. findValueInNode(k)' = y
      BY Zenon, <3>3, <3>4, SameWrappers
    <3> QED
      BY Zenon, <3>4, <3>6, <3>7 DEF OnDisk
  <2> QED
    BY Zenon, <2>2, <2>3
<1> QED
  BY <1>1, TreeInvariant, PTL DEF Spec, OffloadedSurvives

\* As long as values are removed only once they are offloaded, ARTree::Get finds a
\* value only after ARTree::Put of its key: freeing a wrapper that a leaf still
\* points to, as ARTree::Remove does in persistent memory, is the only way for a
\* removed key to come back.
THEOREM TreeAppearsByPut == ASSUME "REMOVE_PMEM" \notin Ops PROVE Spec => AppearsByPut
<1>1. Init => ~unlinked
  BY Zenon DEF Init
<1>2. ~unlinked /\ [Next]_vars => ~unlinked'
  BY Zenon DEF Next, AllocStep, Call, Descend, AllocateBlock, PublishBlock, NewWrapper,
     OldWrapper, ReserveValue, AllocFails, Put, PublishUpdate, AllocValueForKey,
     UpdateWrapper, RemoveDisk, RemovePmem, Restart, vars
<1>3. TreeInv /\ ~unlinked' /\ ~unlinked /\ [Next]_vars
        => [\A k \in Keys : (InPmem(k) \/ OnDisk(k))' /\ ~(InPmem(k) \/ OnDisk(k))
              => \E t \in Threads : at[t].key = k /\ Put(t)]_vars
  BY Zenon, NextGood DEF TreeInv
<1> QED
  BY <1>1, <1>2, <1>3, TreeInvariant, PTL DEF Spec, AppearsByPut
==============================================================================
