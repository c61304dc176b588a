------------------------- MODULE GeneralPool_proofs -------------------------
(***************************************************************************)
(* Theorems about the object pools: for any number of threads, buckets,    *)
(* slots and buffers, no object is in two places, and the pool aborts only *)
(* when a bucket has reached its limit.                                    *)
(*                                                                         *)
(* The first part is about one bucket: putNoLock, getNoLock and makeBuffer *)
(* keep the objects between tail and head, each in one slot, and the other *)
(* slots null.  The second is about all buckets and threads.  The third    *)
(* shows that the buckets implement first-in first-out queues: the ring of *)
(* slots, read from tail, is the queue, over wrap-around and over the      *)
(* insertion of a buffer in the middle of the ring.  The fourth is about   *)
(* MemMgr, which tells from the stamp in front of a block where it goes.   *)
(***************************************************************************)
EXTENDS MemMgr, Sequences, TLAPS

-----------------------------------------------------------------------------
(* Arithmetic of buffers and slots.                                         *)

(* A slot number splits into a buffer and a place in it.                    *)
LEMMA Split ==
    ASSUME NEW k \in Nat, NEW s \in Nat \ {0}
    PROVE  /\ k \div s \in Nat /\ k % s \in 0 .. s - 1
           /\ k = (k \div s) * s + (k % s)
OBVIOUS

(* One buffer further is Slots slots further.                               *)
LEMMA Times ==
    ASSUME NEW i \in Nat, NEW p \in Nat, NEW s \in Nat \ {0}, i < p
    PROVE  i * s + s <= p * s
<1>1. PICK d \in Nat : p = i + 1 + d
  <2>1. p - i - 1 \in Nat /\ p = i + 1 + (p - i - 1)
    OBVIOUS
  <2>. QED BY Zenon, <2>1
<1>2. p * s = i * s + s + d * s
  BY <1>1
<1>3. d * s \in Nat
  OBVIOUS
<1>4. i * s \in Nat /\ p * s \in Nat
  OBVIOUS
<1>. QED BY <1>2, <1>3, <1>4

(* A slot below the capacity lies in one of the buffers.                    *)
LEMMA InBuffer ==
    ASSUME NEW k \in Nat, NEW n \in Nat, NEW s \in Nat \ {0}, k < n * s
    PROVE  k \div s \in 0 .. n - 1
<1>1. k \div s \in Nat /\ k % s \in 0 .. s - 1 /\ k = (k \div s) * s + (k % s)
  BY ZenonT(30), Split
<1>2. ASSUME n <= k \div s PROVE n * s <= k
  <2>1. CASE n = k \div s
    BY <2>1, <1>1
  <2>2. CASE n < k \div s
    <3>1. n * s + s <= (k \div s) * s
      BY Zenon, <2>2, <1>1, Times
    <3>. QED BY <3>1, <1>1
  <2>. QED BY <1>2, <1>1, <2>1, <2>2
<1>. QED BY <1>1, <1>2

(* The order of slots is that of buffers, then of places.                   *)
LEMMA Order ==
    ASSUME NEW i \in Nat, NEW p \in Nat, NEW s \in Nat \ {0},
           NEW j \in 0 .. s - 1, NEW h \in 0 .. s - 1
    PROVE  i * s + j < p * s + h <=> (i < p \/ (i = p /\ j < h))
<1>1. i * s \in Nat /\ p * s \in Nat
  OBVIOUS
<1>2. CASE i < p
  <2>1. i * s + s <= p * s
    BY Zenon, <1>2, Times
  <2>. QED BY <2>1, <1>1, <1>2
<1>3. CASE p < i
  <2>1. p * s + s <= i * s
    BY Zenon, <1>3, Times
  <2>. QED BY <2>1, <1>1, <1>3
<1>4. CASE i = p
  BY <1>4, <1>1
<1>. QED BY <1>2, <1>3, <1>4

(* A pair of a buffer and a place is the split of its slot number.          *)
LEMMA Unsplit ==
    ASSUME NEW i \in Nat, NEW s \in Nat \ {0}, NEW j \in 0 .. s - 1
    PROVE  /\ i * s + j \in Nat
           /\ (i * s + j) \div s = i /\ (i * s + j) % s = j
<1>. DEFINE k == i * s + j
<1>1. i * s \in Nat /\ k \in Nat
  OBVIOUS
<1>2. k \div s \in Nat /\ k % s \in 0 .. s - 1 /\ k = (k \div s) * s + (k % s)
  BY ZenonT(30), <1>1, Split
<1>. HIDE DEF k
<1>3. ~ (k \div s < i) /\ ~ (i < k \div s)
  <2>1. ASSUME k \div s < i PROVE FALSE
    <3>1. (k \div s) * s + s <= i * s
      BY Zenon, <2>1, <1>2, Times
    <3>. QED BY <3>1, <1>1, <1>2 DEF k
  <2>2. ASSUME i < k \div s PROVE FALSE
    <3>1. i * s + s <= (k \div s) * s
      BY Zenon, <2>2, <1>2, Times
    <3>. QED BY <3>1, <1>1, <1>2 DEF k
  <2>. QED BY Zenon, <2>1, <2>2
<1>4. k \div s = i
  BY <1>1, <1>2, <1>3
<1>5. k % s = j
  BY <1>1, <1>2, <1>4 DEF k
<1>. QED BY Zenon, <1>1, <1>4, <1>5 DEF k

(* The slot after k in a ring of m slots.                                   *)
LEMMA NextSlot ==
    ASSUME NEW m \in Nat \ {0}, NEW k \in 0 .. m - 1
    PROVE  (k + 1) % m = IF k + 1 = m THEN 0 ELSE k + 1
<1>1. CASE k + 1 = m
  <2>1. (1 * m + 0) % m = 0
    BY Unsplit
  <2>. QED BY <2>1, <1>1
<1>2. CASE k + 1 # m
  <2>. DEFINE x == k + 1
  <2>1. x \in Nat /\ x < 1 * m
    BY <1>2
  <2>2. x \div m \in 0 .. 1 - 1
    BY Zenon, <2>1, InBuffer
  <2>3. x % m \in 0 .. m - 1 /\ x = (x \div m) * m + (x % m)
    BY Zenon, <2>1, Split
  <2>4. x \div m = 0
    BY <2>2
  <2>. HIDE DEF x
  <2>5. x % m = x
    BY <2>1, <2>3, <2>4
  <2>. QED BY Zenon, <2>5, <1>2 DEF x
<1>. QED BY Zenon, <1>1, <1>2

-----------------------------------------------------------------------------
(* One bucket.                                                              *)

(* A record of the fields of a bucket; head and tail are slots of it.       *)
IsBucket(r) ==
    /\ r = [head |-> r.head, tail |-> r.tail, full |-> r.full, empty |-> r.empty,
            n |-> r.n, buf |-> r.buf]
    /\ r.head \in Nat /\ r.tail \in Nat /\ r.n \in Nat
    /\ r.full \in BOOLEAN /\ r.empty \in BOOLEAN
    /\ r.buf \in [0 .. r.n - 1 -> [SlotNums -> Nat]]
    /\ IF r.n = 0 THEN r.head = 0 /\ r.tail = 0 /\ r.empty /\ ~r.full
       ELSE r.head < CurrentMax(r) /\ r.tail < CurrentMax(r)

(* The objects in its slots, none in two of them.                           *)
Objs(r) == {o \in Nat \ {Null} :
              \E i \in 0 .. r.n - 1, j \in SlotNums : r.buf[i][j] = o}

UniqueSlots(r) ==
    \A i, k \in 0 .. r.n - 1, j, l \in SlotNums :
        (r.buf[i][j] # Null /\ r.buf[i][j] = r.buf[k][l]) => (i = k /\ j = l)

(* The slots from tail to head are taken, the others are null.              *)
Taken(r, k) ==
    \/ r.full
    \/ r.tail <= k /\ k < r.head
    \/ r.head < r.tail /\ (k < r.head \/ r.tail <= k)

Window(r) ==
    /\ ~ (r.full /\ r.empty)
    /\ r.head = r.tail <=> (r.full \/ r.empty)
    /\ \A k \in 0 .. CurrentMax(r) - 1 : SlotAt(r, k) # Null <=> Taken(r, k)

BucketOK(r) == IsBucket(r) /\ UniqueSlots(r) /\ Window(r)

(* Slot number k of the ring is slot k % Slots of buffer k \div Slots.      *)
LEMMA SlotFacts ==
    ASSUME NEW r, IsBucket(r)
    PROVE  /\ Slots \in Nat \ {0} /\ CurrentMax(r) \in Nat
           /\ r.n # 0 => CurrentMax(r) # 0
           /\ \A k \in 0 .. CurrentMax(r) - 1 :
                /\ k \div Slots \in 0 .. r.n - 1 /\ k % Slots \in SlotNums
                /\ k = (k \div Slots) * Slots + (k % Slots)
                /\ SlotAt(r, k) = r.buf[k \div Slots][k % Slots]
                /\ SlotAt(r, k) \in Nat
<1>. USE PoolAssumption
<1>1. Slots \in Nat \ {0} /\ r.n \in Nat /\ r.n * Slots \in Nat
  BY DEF IsBucket
<1>2. r.n # 0 => r.n * Slots # 0
  <2>. SUFFICES ASSUME r.n # 0 PROVE r.n * Slots # 0
    BY Zenon
  <2>1. 0 * Slots + Slots <= r.n * Slots
    BY <1>1, Times
  <2>. QED BY <2>1, <1>1
<1>3. ASSUME NEW k \in 0 .. CurrentMax(r) - 1
      PROVE  /\ k \div Slots \in 0 .. r.n - 1 /\ k % Slots \in SlotNums
             /\ k = (k \div Slots) * Slots + (k % Slots)
  <2>1. k \in Nat /\ k < r.n * Slots
    BY <1>1 DEF CurrentMax
  <2>2. k \div Slots \in 0 .. r.n - 1
    BY Zenon, <2>1, <1>1, InBuffer
  <2>3. k % Slots \in 0 .. Slots - 1 /\ k = (k \div Slots) * Slots + (k % Slots)
    BY Zenon, <2>1, <1>1, Split
  <2>. QED BY Zenon, <2>2, <2>3 DEF SlotNums
<1>4. ASSUME NEW k \in 0 .. CurrentMax(r) - 1
      PROVE  SlotAt(r, k) = r.buf[k \div Slots][k % Slots] /\ SlotAt(r, k) \in Nat
  BY SMTT(30), <1>3 DEF SlotAt, IsBucket
<1>. QED BY Zenon, <1>1, <1>2, <1>3, <1>4 DEF CurrentMax

-----------------------------------------------------------------------------
(* makeBuffer, in terms of buffers and places.                              *)
LEMMA MakeBufferIs ==
    ASSUME NEW r, IsBucket(r)
    PROVE  LET g == makeBuffer(r)
               p == r.head \div Slots
               h == r.head % Slots
           IN  /\ g = [head |-> r.head, tail |-> (r.tail + Slots) % (CurrentMax(r) + Slots),
                       full |-> FALSE, empty |-> r.empty, n |-> r.n + 1, buf |-> g.buf]
               /\ p \in 0 .. r.n /\ h \in SlotNums
               /\ r.n # 0 => p \in 0 .. r.n - 1
               /\ r.n = 0 => p = 0 /\ h = 0
               /\ g.buf \in [0 .. r.n -> [SlotNums -> Nat]]
               /\ \A i \in 0 .. r.n, j \in SlotNums :
                    /\ i < p \/ (i = p /\ j < h) => i \in 0 .. r.n - 1 /\ g.buf[i][j] = r.buf[i][j]
                    /\ (i = p /\ j >= h) \/ (i = p + 1 /\ j < h) => g.buf[i][j] = Null
                    /\ i > p + 1 \/ (i = p + 1 /\ j >= h) =>
                         i - 1 \in 0 .. r.n - 1 /\ g.buf[i][j] = r.buf[i - 1][j]
<1>. DEFINE g == makeBuffer(r)
            p == r.head \div Slots
            h == r.head % Slots
            E(i, j) == CASE i < p -> r.buf[i][j]
                         [] i = p -> IF j < h THEN r.buf[p][j] ELSE Null
                         [] i = p + 1 -> IF j < h THEN Null ELSE r.buf[p][j]
                         [] i > p + 1 -> r.buf[i - 1][j]
            B == [i \in 0 .. r.n |-> [j \in SlotNums |-> E(i, j)]]
<1>1. g = [head |-> r.head, tail |-> (r.tail + Slots) % (CurrentMax(r) + Slots),
           full |-> FALSE, empty |-> r.empty, n |-> r.n + 1, buf |-> B]
  <2>1. r = [head |-> r.head, tail |-> r.tail, full |-> r.full, empty |-> r.empty,
             n |-> r.n, buf |-> r.buf]
    BY Zenon DEF IsBucket
  <2>2. g = [r EXCEPT !.buf = B, !.n = r.n + 1,
                      !.tail = (r.tail + Slots) % (CurrentMax(r) + Slots), !.full = FALSE]
    BY Zenon DEF makeBuffer
  <2>. HIDE DEF B, g
  <2>. QED BY ZenonT(30), <2>1, <2>2
<1>2. /\ p \in 0 .. r.n /\ h \in SlotNums
      /\ r.n # 0 => p \in 0 .. r.n - 1
      /\ r.n = 0 => p = 0 /\ h = 0
  <2>1. CASE r.n = 0
    <3>1. (0 * Slots + 0) \div Slots = 0 /\ (0 * Slots + 0) % Slots = 0
      BY PoolAssumption, Unsplit
    <3>2. 0 * Slots + 0 = 0
      BY PoolAssumption
    <3>3. r.head = 0
      BY Zenon, <2>1 DEF IsBucket
    <3>4. p = 0 /\ h = 0
      BY Zenon, <3>1, <3>2, <3>3
    <3>. HIDE DEF p, h
    <3>. QED BY <3>4, <2>1, PoolAssumption DEF SlotNums
  <2>2. CASE r.n # 0
    <3>1. r.head \in 0 .. CurrentMax(r) - 1
      BY <2>2, SlotFacts DEF IsBucket
    <3>2. p \in 0 .. r.n - 1 /\ h \in SlotNums
      BY Zenon, <3>1, SlotFacts
    <3>. QED BY <3>2, <2>2 DEF IsBucket
  <2>. QED BY Zenon, <2>1, <2>2
<1>3. r.n \in Nat /\ SlotNums \subseteq Nat /\ r.buf \in [0 .. r.n - 1 -> [SlotNums -> Nat]]
  BY SMTT(30), PoolAssumption DEF IsBucket, SlotNums
<1>. HIDE DEF p, h
<1>4. ASSUME NEW i \in 0 .. r.n, NEW j \in SlotNums
      PROVE  /\ i < p \/ (i = p /\ j < h) => i \in 0 .. r.n - 1 /\ B[i][j] = r.buf[i][j]
             /\ (i = p /\ j >= h) \/ (i = p + 1 /\ j < h) => B[i][j] = Null
             /\ i > p + 1 \/ (i = p + 1 /\ j >= h) =>
                  i - 1 \in 0 .. r.n - 1 /\ B[i][j] = r.buf[i - 1][j]
             /\ B[i][j] \in Nat
  <2>. DEFINE x == E(i, j)
  <2>1. B[i][j] = x
    BY ZenonT(30)
  <2>2. p \in Nat /\ h \in Nat /\ i \in Nat /\ j \in Nat
    <3>1. p \in 0 .. r.n /\ r.n \in Nat /\ h \in SlotNums /\ SlotNums \subseteq Nat
      BY Zenon, <1>2, <1>3
    <3>. QED BY <3>1
  <2>3. (i < p \/ (i = p /\ j < h)) => i \in 0 .. r.n - 1
    BY <1>2, <1>3, <2>2 DEF SlotNums
  <2>4. (i > p + 1 \/ (i = p + 1 /\ j >= h)) => i - 1 \in 0 .. r.n - 1
    BY <1>2, <1>3, <2>2
  <2>. HIDE DEF B
  <2>5. CASE i < p
    <3>1. x = r.buf[i][j]
      BY <2>5, <2>2
    <3>. QED BY <3>1, <2>1, <2>2, <2>3, <2>5, <1>3
  <2>6. CASE i = p /\ j < h
    <3>1. x = r.buf[p][j]
      BY <2>6, <2>2
    <3>. QED BY <3>1, <2>1, <2>2, <2>3, <2>6, <1>3
  <2>7. CASE (i = p /\ j >= h) \/ (i = p + 1 /\ j < h)
    <3>1. x = Null
      BY <2>7, <2>2
    <3>. QED BY <3>1, <2>1, <2>2, <2>7 DEF Null
  <2>8. CASE i = p + 1 /\ j >= h
    <3>1. x = r.buf[p][j]
      BY <2>8, <2>2
    <3>2. i - 1 = p
      BY <2>8, <2>2
    <3>. QED BY <3>1, <3>2, <2>1, <2>2, <2>4, <2>8, <1>3
  <2>9. CASE i > p + 1
    <3>1. x = r.buf[i - 1][j]
      BY <2>9, <2>2
    <3>. QED BY SMTT(30), <3>1, <2>1, <2>2, <2>4, <2>9, <1>3
  <2>. QED BY <2>2, <2>5, <2>6, <2>7, <2>8, <2>9
<1>5. B \in [0 .. r.n -> [SlotNums -> Nat]]
  <2>1. \A i \in 0 .. r.n, j \in SlotNums : E(i, j) \in Nat
    <3>. SUFFICES ASSUME NEW i \in 0 .. r.n, NEW j \in SlotNums PROVE E(i, j) \in Nat
      BY ZenonT(30)
    <3>1. B[i][j] = E(i, j)
      BY ZenonT(30)
    <3>2. B[i][j] \in Nat
      BY ZenonT(30), <1>4
    <3>. QED BY ZenonT(30), <3>1, <3>2
  <2>. HIDE DEF E
  <2>. QED BY Zenon, <2>1
<1>6. g.buf = B
  <2>. HIDE DEF B
  <2>. QED BY <1>1
<1>. HIDE DEF B, g
<1>7. QED BY Zenon, <1>1, <1>2, <1>4, <1>5, <1>6 DEF g, p, h

(* A bucket that is full, or new, keeps its objects in their order when a   *)
(* buffer goes in at head.                                                  *)
LEMMA MakeBufferOK ==
    ASSUME NEW r, BucketOK(r), Grows(r)
    PROVE  LET g == makeBuffer(r)
           IN  BucketOK(g) /\ Objs(g) \subseteq Objs(r) /\ g.n = r.n + 1 /\ ~g.full
<1>. DEFINE g == makeBuffer(r)
            p == r.head \div Slots
            h == r.head % Slots
            Below(i, j) == i < p \/ (i = p /\ j < h)
            Gap(i, j) == (i = p /\ j >= h) \/ (i = p + 1 /\ j < h)
            Above(i, j) == i > p + 1 \/ (i = p + 1 /\ j >= h)
<1>1. IsBucket(r) /\ UniqueSlots(r) /\ Window(r)
  BY Zenon DEF BucketOK
<1>2. /\ g = [head |-> r.head, tail |-> (r.tail + Slots) % (CurrentMax(r) + Slots),
              full |-> FALSE, empty |-> r.empty, n |-> r.n + 1, buf |-> g.buf]
      /\ p \in 0 .. r.n /\ h \in SlotNums
      /\ g.buf \in [0 .. r.n -> [SlotNums -> Nat]]
      /\ \A i \in 0 .. r.n, j \in SlotNums :
           /\ Below(i, j) => i \in 0 .. r.n - 1 /\ g.buf[i][j] = r.buf[i][j]
           /\ Gap(i, j) => g.buf[i][j] = Null
           /\ Above(i, j) => i - 1 \in 0 .. r.n - 1 /\ g.buf[i][j] = r.buf[i - 1][j]
  <2>. HIDE DEF g
  <2>. QED BY Zenon, <1>1, MakeBufferIs DEF g
<1>3. Slots \in Nat \ {0} /\ r.n \in Nat /\ r.head \in Nat /\ r.tail \in Nat /\ CurrentMax(r) \in Nat
  BY Zenon, <1>1, SlotFacts DEF IsBucket
<1>4. r.head = p * Slots + h /\ p \in Nat /\ h \in 0 .. Slots - 1
  BY ZenonT(30), <1>3, Split
<1>5. p \in 0 .. r.n /\ SlotNums = 0 .. Slots - 1 /\ p * Slots \in Nat
  <2>1. p \in 0 .. r.n
    BY Zenon, <1>2
  <2>. HIDE DEF p
  <2>. QED BY <2>1, <1>3 DEF SlotNums
<1>. HIDE DEF g, p, h
<1>6. g.head = r.head /\ g.n = r.n + 1 /\ g.tail = (r.tail + Slots) % (CurrentMax(r) + Slots)
  BY <1>2
<1>7. g.full = FALSE /\ g.empty = r.empty
  BY <1>2
<1>8. CurrentMax(g) = CurrentMax(r) + Slots
  BY <1>3, <1>6 DEF CurrentMax
<1>9. /\ r.n = 0 => r.head = 0 /\ r.tail = 0 /\ r.empty /\ CurrentMax(r) = 0
      /\ r.n # 0 => r.full /\ r.head = r.tail /\ r.head < CurrentMax(r) /\ ~r.empty
  <2>1. r.n = 0 => r.head = 0 /\ r.tail = 0 /\ r.empty
    BY Zenon, <1>1 DEF IsBucket
  <2>2. r.n # 0 => r.full /\ r.head < CurrentMax(r)
    BY Zenon, <1>1 DEF IsBucket, Grows
  <2>3. r.n # 0 => r.head = r.tail /\ ~r.empty
    BY Zenon, <2>2, <1>1 DEF Window
  <2>4. r.n = 0 => CurrentMax(r) = 0
    BY <1>3 DEF CurrentMax
  <2>. QED BY Zenon, <2>1, <2>2, <2>3, <2>4
<1>10. g.tail = IF r.n = 0 THEN 0 ELSE r.tail + Slots
  <2>1. CASE r.n = 0
    <3>1. (1 * Slots + 0) % Slots = 0
      BY <1>3, Unsplit
    <3>2. 1 * Slots + 0 = Slots /\ r.tail + Slots = Slots /\ CurrentMax(r) + Slots = Slots
      BY <1>3, <1>9, <2>1
    <3>. QED BY Zenon, <3>1, <3>2, <2>1, <1>6
  <2>2. CASE r.n # 0
    <3>. DEFINE m == CurrentMax(r) + Slots
                k == r.tail + Slots - 1
    <3>1. m \in Nat \ {0} /\ k \in 0 .. m - 1 /\ k + 1 # m /\ k + 1 = r.tail + Slots
      BY <2>2, <1>3, <1>9
    <3>. HIDE DEF m, k
    <3>2. (k + 1) % m = k + 1
      BY Zenon, <3>1, NextSlot
    <3>. QED BY Zenon, <3>1, <3>2, <2>2, <1>6 DEF m
  <2>. QED BY Zenon, <2>1, <2>2
<1>11. g.n \in Nat /\ g.n # 0 /\ 0 .. g.n - 1 = 0 .. r.n
  BY SMTT(30), <1>3, <1>6
<1>12. /\ g.head < CurrentMax(g) /\ g.tail < CurrentMax(g) /\ g.tail \in Nat /\ g.head \in Nat
  <2>1. CASE r.n = 0
    <3>1. r.head = 0 /\ CurrentMax(r) = 0 /\ g.tail = 0
      BY Zenon, <2>1, <1>9, <1>10
    <3>. QED BY <3>1, <1>3, <1>6, <1>8
  <2>2. CASE r.n # 0
    <3>1. r.head = r.tail /\ r.head < CurrentMax(r) /\ g.tail = r.tail + Slots
      BY Zenon, <2>2, <1>9, <1>10
    <3>. QED BY <3>1, <1>3, <1>6, <1>8
  <2>. QED BY Zenon, <2>1, <2>2
<1>13. IsBucket(g)
  <2>1. g = [head |-> g.head, tail |-> g.tail, full |-> g.full, empty |-> g.empty,
             n |-> g.n, buf |-> g.buf]
    BY Zenon, <1>2, <1>6, <1>7
  <2>2. g.full \in BOOLEAN /\ g.empty \in BOOLEAN
    BY ZenonT(30), <1>1, <1>7 DEF IsBucket
  <2>3. g.buf \in [0 .. g.n - 1 -> [SlotNums -> Nat]]
    BY ZenonT(30), <1>2, <1>11
  <2>. QED BY Zenon, <2>1, <2>2, <2>3, <1>11, <1>12 DEF IsBucket
<1>14. ASSUME NEW i \in 0 .. r.n, NEW j \in SlotNums
       PROVE  Below(i, j) \/ Gap(i, j) \/ Above(i, j)
  <2>1. i \in Nat /\ j \in Nat /\ p \in Nat /\ h \in Nat
    BY <1>3, <1>4, <1>5
  <2>. QED BY <2>1
<1>15. /\ \A i, k \in Nat, j, l \in SlotNums : ~ (Below(i, j) /\ Above(k, l) /\ i = k - 1 /\ j = l)
       /\ \A i \in Nat, j \in SlotNums : Gap(i, j) => ~Below(i, j) /\ ~Above(i, j)
  <2>1. p \in Nat /\ h \in Nat /\ SlotNums \subseteq Nat
    BY <1>3, <1>4, <1>5
  <2>. QED BY <2>1
<1>. HIDE DEF Below, Gap, Above
(* Where the objects of the grown ring come from.                           *)
<1>16. ASSUME NEW i \in 0 .. r.n, NEW j \in SlotNums, g.buf[i][j] # Null
       PROVE  \E a \in 0 .. r.n - 1 : /\ g.buf[i][j] = r.buf[a][j]
                                      /\ \/ a = i /\ Below(i, j)
                                         \/ a = i - 1 /\ Above(i, j)
  <2>1. Below(i, j) \/ Above(i, j)
    BY Zenon, <1>2, <1>14, <1>16
  <2>2. CASE Below(i, j)
    <3>1. i \in 0 .. r.n - 1 /\ g.buf[i][j] = r.buf[i][j]
      BY Zenon, <1>2, <2>2
    <3>. QED BY Zenon, <3>1, <2>2
  <2>3. CASE Above(i, j)
    <3>1. i - 1 \in 0 .. r.n - 1 /\ g.buf[i][j] = r.buf[i - 1][j]
      BY Zenon, <1>2, <2>3
    <3>. QED BY Zenon, <3>1, <2>3
  <2>. QED BY Zenon, <2>1, <2>2, <2>3
<1>17. UniqueSlots(g)
  <2>. SUFFICES ASSUME NEW i \in 0 .. g.n - 1, NEW k \in 0 .. g.n - 1,
                       NEW j \in SlotNums, NEW l \in SlotNums,
                       g.buf[i][j] # Null, g.buf[i][j] = g.buf[k][l]
                PROVE  i = k /\ j = l
    BY DEF UniqueSlots
  <2>0. i \in 0 .. r.n /\ k \in 0 .. r.n
    BY ZenonT(30), <1>11
  <2>1. PICK a \in 0 .. r.n - 1 : /\ g.buf[i][j] = r.buf[a][j]
                                  /\ \/ a = i /\ Below(i, j)
                                     \/ a = i - 1 /\ Above(i, j)
    BY Zenon, <2>0, <1>16
  <2>2. PICK b \in 0 .. r.n - 1 : /\ g.buf[k][l] = r.buf[b][l]
                                  /\ \/ b = k /\ Below(k, l)
                                     \/ b = k - 1 /\ Above(k, l)
    BY Zenon, <2>0, <1>16
  <2>3. r.buf[a][j] # Null /\ r.buf[a][j] = r.buf[b][l]
    BY ZenonT(30), <2>1, <2>2
  <2>4. a = b /\ j = l
    BY <2>3, <1>1 DEF UniqueSlots
  <2>5. i \in Nat /\ k \in Nat
    BY <2>0, <1>3
  <2>6. ~(a = i /\ Below(i, j) /\ b = k - 1 /\ Above(k, l))
    BY Zenon, <2>4, <2>5, <1>15
  <2>7. ~(b = k /\ Below(k, l) /\ a = i - 1 /\ Above(i, j))
    BY Zenon, <2>4, <2>5, <1>15
  <2>8. (a = i /\ b = k) \/ (a = i - 1 /\ b = k - 1)
    BY Zenon, <2>1, <2>2, <2>6, <2>7
  <2>. QED BY <2>4, <2>5, <2>8
<1>18. Objs(g) \subseteq Objs(r)
  <2>. SUFFICES ASSUME NEW o \in Nat \ {Null}, NEW i \in 0 .. r.n, NEW j \in SlotNums,
                       g.buf[i][j] = o
                PROVE  \E a \in 0 .. r.n - 1 : r.buf[a][j] = o
    <3>1. \A o \in Objs(g) : o \in Nat \ {Null} /\ \E i \in 0 .. r.n, j \in SlotNums : g.buf[i][j] = o
      BY ZenonT(30), <1>11 DEF Objs
    <3>. QED BY <3>1 DEF Objs
  <2>. QED BY Zenon, <1>16
<1>19. ASSUME NEW k \in 0 .. CurrentMax(g) - 1
       PROVE  SlotAt(g, k) # Null <=> Taken(g, k)
  <2>. DEFINE i == k \div Slots
              j == k % Slots
  <2>1. /\ i \in 0 .. g.n - 1 /\ j \in SlotNums /\ k = i * Slots + j
        /\ SlotAt(g, k) = g.buf[i][j]
    BY Zenon, <1>13, SlotFacts
  <2>. HIDE DEF i, j
  <2>2. i \in 0 .. r.n /\ i \in Nat /\ j \in 0 .. Slots - 1
    BY SMTT(30), <2>1, <1>3, <1>5, <1>11
  <2>3. k < r.head <=> Below(i, j)
    <3>1. i * Slots + j < p * Slots + h <=> (i < p \/ (i = p /\ j < h))
      BY Zenon, <2>2, <1>3, <1>4, Order
    <3>. QED BY Zenon, <3>1, <2>1, <1>4 DEF Below
  <2>4. r.head + Slots <= k <=> Above(i, j)
    <3>1. p + 1 \in Nat
      BY <1>4
    <3>2. i * Slots + j < (p + 1) * Slots + h <=> (i < p + 1 \/ (i = p + 1 /\ j < h))
      BY <2>2, <3>1, <1>3, <1>4, Order
    <3>3. r.head + Slots = (p + 1) * Slots + h /\ r.head + Slots \in Nat /\ k \in Nat
      BY <1>3, <1>4, <1>8
    <3>4. k < r.head + Slots <=> (i < p + 1 \/ (i = p + 1 /\ j < h))
      BY Zenon, <3>2, <3>3, <2>1
    <3>5. (i < p + 1 \/ (i = p + 1 /\ j < h)) <=> ~ Above(i, j)
      BY <2>2, <1>4, <1>3 DEF Above
    <3>. QED BY <3>3, <3>4, <3>5
  <2>5. CASE r.n = 0
    <3>1. k \in Nat /\ g.head = 0 /\ g.tail = 0
      BY <2>5, <1>3, <1>6, <1>8, <1>9, <1>10
    <3>2. ~Taken(g, k)
      BY <3>1, <1>7 DEF Taken
    <3>3. ~Below(i, j) /\ ~Above(i, j)
      <4>1. ~ (k < r.head) /\ ~ (r.head + Slots <= k)
        BY <3>1, <2>5, <1>3, <1>8, <1>9
      <4>. QED BY Zenon, <4>1, <2>3, <2>4
    <3>4. g.buf[i][j] = Null
      BY Zenon, <3>3, <2>1, <2>2, <1>2, <1>14
    <3>. QED BY Zenon, <3>2, <3>4, <2>1
  <2>6. CASE r.n # 0
    <3>1. Taken(g, k) <=> (k < r.head \/ r.head + Slots <= k)
      <4>1. /\ k \in Nat /\ g.head = r.head /\ g.tail = r.head + Slots
        BY <2>6, <1>3, <1>6, <1>8, <1>9, <1>10
      <4>2. g.head < g.tail
        BY <4>1, <1>3
      <4>3. Taken(g, k) <=> \/ g.tail <= k /\ k < g.head
                            \/ g.head < g.tail /\ (k < g.head \/ g.tail <= k)
        BY Zenon, <1>7 DEF Taken
      <4>. QED BY Zenon, <4>1, <4>2, <4>3, <1>3
    <3>2. ASSUME NEW a \in 0 .. r.n - 1 PROVE r.buf[a][j] # Null
      <4>. DEFINE t == a * Slots + j
      <4>1. a \in Nat /\ a < r.n
        BY <1>3
      <4>2. t \in Nat /\ t \div Slots = a /\ t % Slots = j
        BY ZenonT(30), <4>1, <2>2, <1>3, Unsplit
      <4>3. a * Slots + Slots <= r.n * Slots
        BY Zenon, <4>1, <1>3, Times
      <4>4. t < CurrentMax(r)
        <5>1. a * Slots \in Nat /\ r.n * Slots \in Nat
          BY <4>1, <1>3
        <5>. QED BY <5>1, <4>3, <2>2, <1>3 DEF CurrentMax
      <4>. HIDE DEF t
      <4>5. t \in 0 .. CurrentMax(r) - 1
        BY <4>2, <4>4, <1>3
      <4>6. Taken(r, t)
        BY Zenon, <2>6, <1>9 DEF Taken
      <4>7. SlotAt(r, t) # Null
        BY Zenon, <4>5, <4>6, <1>1 DEF Window
      <4>. QED BY Zenon, <4>2, <4>7 DEF SlotAt
    <3>3. CASE Below(i, j)
      <4>1. g.buf[i][j] # Null
        BY Zenon, <3>3, <3>2, <2>1, <2>2, <1>2
      <4>. QED BY Zenon, <4>1, <3>1, <3>3, <2>1, <2>3
    <3>4. CASE Above(i, j)
      <4>1. g.buf[i][j] # Null
        BY SMTT(30), <3>4, <3>2, <2>1, <2>2, <1>2
      <4>. QED BY Zenon, <4>1, <3>1, <3>4, <2>1, <2>4
    <3>5. CASE Gap(i, j)
      <4>1. g.buf[i][j] = Null
        BY Zenon, <3>5, <2>1, <2>2, <1>2
      <4>2. ~Below(i, j) /\ ~Above(i, j)
        BY Zenon, <3>5, <2>1, <2>2, <1>15
      <4>. QED BY Zenon, <4>1, <4>2, <3>1, <2>1, <2>3, <2>4
    <3>. QED BY Zenon, <3>3, <3>4, <3>5, <2>1, <2>2, <1>14
  <2>. QED BY Zenon, <2>5, <2>6
<1>20. Window(g)
  <2>1. g.head = g.tail <=> g.empty
    <3>1. CASE r.n = 0
      BY Zenon, <3>1, <1>6, <1>7, <1>9, <1>10
    <3>2. CASE r.n # 0
      <4>1. g.head # g.tail
        BY <3>2, <1>3, <1>6, <1>9, <1>10
      <4>2. ~g.empty
        BY Zenon, <3>2, <1>7, <1>9
      <4>. QED BY Zenon, <4>1, <4>2
    <3>. QED BY Zenon, <3>1, <3>2
  <2>. QED BY Zenon, <2>1, <1>7, <1>19 DEF Window
<1>. QED BY Zenon, <1>6, <1>7, <1>13, <1>17, <1>18, <1>20 DEF BucketOK, g

(* putNoLock works on a bucket that has a buffer and is not full.           *)
LEMMA GrownOK ==
    ASSUME NEW r, BucketOK(r)
    PROVE  LET g == Grown(r)
           IN  /\ BucketOK(g) /\ Objs(g) \subseteq Objs(r) /\ g.n # 0 /\ ~g.full
               /\ g.n = IF Grows(r) THEN r.n + 1 ELSE r.n
<1>1. CASE Grows(r)
  <2>1. r.n \in Nat /\ Grown(r) = makeBuffer(r)
    BY Zenon, <1>1 DEF BucketOK, IsBucket, Grown
  <2>. QED BY <1>1, <2>1, MakeBufferOK
<1>2. CASE ~Grows(r)
  BY Zenon, <1>2 DEF Grown, Grows
<1>. QED BY Zenon, <1>1, <1>2

(* put: the slot at head is free, and a new object goes in.                 *)
LEMMA PutOK ==
    ASSUME NEW r, BucketOK(r), NEW o \in Nat \ {Null}, o \notin Objs(r)
    PROVE  /\ putAborts(r) => Grows(r) /\ r.n >= MaxBuffers
           /\ LET q == putNoLock(r, o)
              IN  /\ BucketOK(q) /\ Objs(q) \subseteq Objs(r) \cup {o} /\ ~q.empty
                  /\ q.n = IF Grows(r) THEN r.n + 1 ELSE r.n
           /\ LET g == Grown(r)
                  q == putNoLock(r, o)
              IN  /\ q.tail = g.tail /\ q.n = g.n /\ (q.full <=> q.head = g.tail)
                  /\ q.head = IF g.head + 1 = CurrentMax(g) THEN 0 ELSE g.head + 1
                  /\ \A k \in 0 .. CurrentMax(g) - 1 :
                       SlotAt(q, k) = IF k = g.head THEN o ELSE SlotAt(g, k)
<1>. DEFINE g == Grown(r)
            q == putNoLock(r, o)
            p == g.head \div Slots
            h == g.head % Slots
            nh == (g.head + 1) % CurrentMax(g)
<1>1. /\ BucketOK(g) /\ Objs(g) \subseteq Objs(r) /\ g.n # 0 /\ ~g.full
      /\ g.n = IF Grows(r) THEN r.n + 1 ELSE r.n
  BY Zenon, GrownOK
<1>2. /\ IsBucket(g) /\ UniqueSlots(g) /\ Window(g)
      /\ g.buf \in [0 .. g.n - 1 -> [SlotNums -> Nat]]
      /\ g.head \in Nat /\ g.tail \in Nat /\ g.n \in Nat /\ CurrentMax(g) \in Nat \ {0}
      /\ g.full = FALSE /\ g.empty \in BOOLEAN
      /\ g.head \in 0 .. CurrentMax(g) - 1 /\ g.tail \in 0 .. CurrentMax(g) - 1
      /\ Slots \in Nat \ {0} /\ Null = 0
  <2>. HIDE DEF g
  <2>1. IsBucket(g) /\ UniqueSlots(g) /\ Window(g)
    BY Zenon, <1>1 DEF BucketOK
  <2>2. Slots \in Nat \ {0} /\ CurrentMax(g) \in Nat \ {0} /\ Null = 0
    BY Zenon, <1>1, <2>1, SlotFacts DEF Null
  <2>3. /\ g.buf \in [0 .. g.n - 1 -> [SlotNums -> Nat]]
        /\ g.full \in BOOLEAN /\ g.empty \in BOOLEAN
    BY Zenon, <2>1 DEF IsBucket
  <2>4. g.full = FALSE
    BY Zenon, <1>1, <2>3
  <2>5. /\ g.head \in Nat /\ g.tail \in Nat /\ g.n \in Nat
        /\ g.head < CurrentMax(g) /\ g.tail < CurrentMax(g)
    BY Zenon, <1>1, <2>1 DEF IsBucket
  <2>6. g.head \in 0 .. CurrentMax(g) - 1 /\ g.tail \in 0 .. CurrentMax(g) - 1
    BY <2>2, <2>5
  <2>. QED BY Zenon, <2>1, <2>2, <2>3, <2>4, <2>5, <2>6
<1>3. /\ q = [head |-> nh, tail |-> g.tail, full |-> nh = g.tail, empty |-> FALSE,
              n |-> g.n, buf |-> [g.buf EXCEPT ![p][h] = o]]
  <2>. HIDE DEF g
  <2>1. g = [head |-> g.head, tail |-> g.tail, full |-> g.full, empty |-> g.empty,
             n |-> g.n, buf |-> g.buf]
    BY Zenon, <1>2 DEF IsBucket
  <2>2. q = [g EXCEPT !.buf[p][h] = o, !.head = nh,
                      !.full = IF nh = g.tail THEN TRUE ELSE @, !.empty = FALSE]
    BY Zenon DEF putNoLock, g
  <2>3. (IF nh = g.tail THEN TRUE ELSE g.full) = (nh = g.tail)
    BY ZenonT(30), <1>2
  <2>. HIDE DEF q, nh, p, h
  <2>. QED BY ZenonT(30), <2>1, <2>2, <2>3
<1>. HIDE DEF g, q, p, h, nh
<1>4. /\ q.head = nh /\ q.tail = g.tail /\ q.full = (nh = g.tail) /\ q.empty = FALSE
      /\ q.n = g.n /\ q.buf = [g.buf EXCEPT ![p][h] = o] /\ CurrentMax(q) = CurrentMax(g)
  BY Zenon, <1>3 DEF CurrentMax
<1>5. /\ p \in 0 .. g.n - 1 /\ h \in SlotNums /\ g.head = p * Slots + h
      /\ SlotAt(g, g.head) = g.buf[p][h]
  BY ZenonT(30), <1>2, SlotFacts DEF p, h
<1>6. nh = IF g.head + 1 = CurrentMax(g) THEN 0 ELSE g.head + 1
  BY ZenonT(30), <1>2, NextSlot DEF nh
<1>7. nh \in 0 .. CurrentMax(g) - 1
  <2>1. g.head \in 0 .. CurrentMax(g) - 1 /\ CurrentMax(g) \in Nat \ {0}
    BY Zenon, <1>2
  <2>. QED BY <2>1, <1>6
<1>8. SlotAt(g, g.head) = Null
  <2>1. ~Taken(g, g.head)
    BY <1>2 DEF Taken
  <2>. QED BY Zenon, <2>1, <1>2 DEF Window
<1>9. \A i \in 0 .. g.n - 1, j \in SlotNums :
        q.buf[i][j] = IF i = p /\ j = h THEN o ELSE g.buf[i][j]
  BY SMTT(30), <1>2, <1>4, <1>5
<1>10. q.buf \in [0 .. g.n - 1 -> [SlotNums -> Nat]]
  BY SMTT(30), <1>2, <1>4, <1>5
<1>11. IsBucket(q)
  <2>1. q = [head |-> q.head, tail |-> q.tail, full |-> q.full, empty |-> q.empty,
             n |-> q.n, buf |-> q.buf]
    BY Zenon, <1>3, <1>4
  <2>2. q.head \in Nat /\ q.head < CurrentMax(q) /\ q.tail < CurrentMax(q) /\ q.n # 0
    BY <1>1, <1>2, <1>4, <1>7
  <2>. QED BY ZenonT(30), <2>1, <2>2, <1>2, <1>4, <1>10 DEF IsBucket
<1>12. \A i \in 0 .. g.n - 1, j \in SlotNums : g.buf[i][j] # o
  BY ZenonT(30), <1>1, <1>2 DEF Objs
<1>13. UniqueSlots(q)
  BY SMTT(30), <1>2, <1>4, <1>9, <1>12 DEF UniqueSlots
<1>14. Objs(q) \subseteq Objs(g) \cup {o}
  BY <1>4, <1>9 DEF Objs
<1>15. ASSUME NEW k \in 0 .. CurrentMax(g) - 1
       PROVE  SlotAt(q, k) = IF k = g.head THEN o ELSE SlotAt(g, k)
  <2>1. /\ k \div Slots \in 0 .. g.n - 1 /\ k % Slots \in SlotNums
        /\ k = (k \div Slots) * Slots + (k % Slots)
        /\ SlotAt(g, k) = g.buf[k \div Slots][k % Slots]
        /\ SlotAt(q, k) = q.buf[k \div Slots][k % Slots]
    BY ZenonT(30), <1>2, <1>4, SlotFacts DEF SlotAt
  <2>2. (k \div Slots = p /\ k % Slots = h) <=> k = g.head
    BY Zenon, <2>1, <1>5 DEF p, h
  <2>. QED BY Zenon, <2>1, <2>2, <1>9
<1>16. ASSUME NEW k \in 0 .. CurrentMax(q) - 1
       PROVE  SlotAt(q, k) # Null <=> Taken(q, k)
  <2>4. k \in 0 .. CurrentMax(g) - 1 /\ SlotAt(q, k) = IF k = g.head THEN o ELSE SlotAt(g, k)
    BY Zenon, <1>4, <1>15
  <2>5. SlotAt(g, k) # Null <=> Taken(g, k)
    BY Zenon, <2>4, <1>2 DEF Window
  <2>6. g.head = g.tail => g.empty
    BY Zenon, <1>2 DEF Window
  <2>7. Taken(q, k) <=> (k = g.head \/ Taken(g, k))
    <3>1. Taken(q, k) <=> \/ nh = g.tail
                          \/ g.tail <= k /\ k < nh
                          \/ nh < g.tail /\ (k < nh \/ g.tail <= k)
      BY ZenonT(30), <1>4 DEF Taken
    <3>2. Taken(g, k) <=> \/ g.tail <= k /\ k < g.head
                          \/ g.head < g.tail /\ (k < g.head \/ g.tail <= k)
      BY Zenon, <1>2 DEF Taken
    <3>. QED BY <3>1, <3>2, <2>4, <1>2, <1>6
  <2>. QED BY Zenon, <2>4, <2>5, <2>7
<1>17. Window(q)
  <2>1. ~ (q.full /\ q.empty) /\ (q.head = q.tail <=> (q.full \/ q.empty))
    BY ZenonT(30), <1>4
  <2>. QED BY Zenon, <2>1, <1>16 DEF Window
<1>18. putAborts(r) => Grows(r) /\ r.n >= MaxBuffers
  BY Zenon, <1>8 DEF putAborts, g
<1>19. BucketOK(q) /\ Objs(q) \subseteq Objs(r) \cup {o} /\ ~q.empty
       /\ q.n = IF Grows(r) THEN r.n + 1 ELSE r.n
  BY Zenon, <1>1, <1>4, <1>11, <1>13, <1>14, <1>17 DEF BucketOK
<1>20. /\ q.tail = g.tail /\ q.n = g.n /\ (q.full <=> q.head = g.tail)
       /\ q.head = IF g.head + 1 = CurrentMax(g) THEN 0 ELSE g.head + 1
  BY ZenonT(30), <1>4, <1>6
<1>. QED BY Zenon, <1>15, <1>18, <1>19, <1>20 DEF q, g

(* get of a bucket that is not empty: the slot at tail has an object, which *)
(* leaves the bucket.                                                       *)
LEMMA GetOK ==
    ASSUME NEW r, BucketOK(r), ~r.empty
    PROVE  /\ ~getAborts(r)
           /\ SlotAt(r, r.tail) \in Objs(r)
           /\ LET q == getNoLock(r)
              IN  /\ BucketOK(q) /\ q.n = r.n
                  /\ Objs(q) \subseteq Objs(r) \ {SlotAt(r, r.tail)}
                  /\ q.head = r.head /\ ~q.full
                  /\ q.tail = IF r.tail + 1 = CurrentMax(r) THEN 0 ELSE r.tail + 1
                  /\ \A k \in 0 .. CurrentMax(r) - 1 :
                       SlotAt(q, k) = IF k = r.tail THEN Null ELSE SlotAt(r, k)
<1>. DEFINE q == getNoLock(r)
            p == r.tail \div Slots
            h == r.tail % Slots
            nt == (r.tail + 1) % CurrentMax(r)
<1>1. /\ IsBucket(r) /\ UniqueSlots(r) /\ Window(r) /\ r.n # 0
      /\ r.buf \in [0 .. r.n - 1 -> [SlotNums -> Nat]]
      /\ r.head \in Nat /\ r.tail \in Nat /\ r.n \in Nat /\ CurrentMax(r) \in Nat \ {0}
      /\ r.full \in BOOLEAN /\ r.empty = FALSE
      /\ r.head \in 0 .. CurrentMax(r) - 1 /\ r.tail \in 0 .. CurrentMax(r) - 1
      /\ Slots \in Nat \ {0} /\ Null = 0
  BY SlotFacts DEF BucketOK, IsBucket, Null
<1>2. q = [head |-> r.head, tail |-> nt, full |-> FALSE, empty |-> nt = r.head,
           n |-> r.n, buf |-> [r.buf EXCEPT ![p][h] = Null]]
  <2>1. r = [head |-> r.head, tail |-> r.tail, full |-> r.full, empty |-> r.empty,
             n |-> r.n, buf |-> r.buf]
    BY Zenon, <1>1 DEF IsBucket
  <2>2. q = [r EXCEPT !.buf[p][h] = Null, !.tail = nt,
                      !.empty = IF nt = r.head THEN TRUE ELSE @, !.full = FALSE]
    BY Zenon DEF getNoLock
  <2>3. (IF nt = r.head THEN TRUE ELSE r.empty) = (nt = r.head)
    BY ZenonT(30), <1>1
  <2>. HIDE DEF q, nt, p, h
  <2>. QED BY ZenonT(30), <2>1, <2>2, <2>3
<1>. HIDE DEF q, p, h, nt
<1>3. /\ q.head = r.head /\ q.tail = nt /\ q.full = FALSE /\ q.empty = (nt = r.head)
      /\ q.n = r.n /\ q.buf = [r.buf EXCEPT ![p][h] = Null] /\ CurrentMax(q) = CurrentMax(r)
  BY Zenon, <1>2 DEF CurrentMax
<1>4. /\ p \in 0 .. r.n - 1 /\ h \in SlotNums /\ r.tail = p * Slots + h
      /\ SlotAt(r, r.tail) = r.buf[p][h] /\ SlotAt(r, r.tail) \in Nat
  BY ZenonT(30), <1>1, SlotFacts DEF p, h
<1>5. nt = IF r.tail + 1 = CurrentMax(r) THEN 0 ELSE r.tail + 1
  BY Zenon, <1>1, NextSlot DEF nt
<1>6. SlotAt(r, r.tail) # Null
  <2>1. r.head = r.tail => r.full
    BY Zenon, <1>1 DEF Window
  <2>2. Taken(r, r.tail)
    BY <2>1, <1>1 DEF Taken
  <2>. QED BY Zenon, <2>2, <1>1 DEF Window
<1>7. ~getAborts(r) /\ SlotAt(r, r.tail) \in Objs(r)
  BY Zenon, <1>4, <1>6 DEF getAborts, Objs
<1>8. \A i \in 0 .. r.n - 1, j \in SlotNums :
        q.buf[i][j] = IF i = p /\ j = h THEN Null ELSE r.buf[i][j]
  BY SMTT(30), <1>1, <1>3, <1>4
<1>9. IsBucket(q)
  <2>1. q = [head |-> q.head, tail |-> q.tail, full |-> q.full, empty |-> q.empty,
             n |-> q.n, buf |-> q.buf]
    BY Zenon, <1>2, <1>3
  <2>2. q.head < CurrentMax(q) /\ q.tail \in Nat /\ q.tail < CurrentMax(q)
    BY <1>1, <1>3, <1>5
  <2>3. q.buf \in [0 .. r.n - 1 -> [SlotNums -> Nat]]
    BY SMTT(30), <1>1, <1>3, <1>4
  <2>. QED BY ZenonT(30), <2>1, <2>2, <2>3, <1>1, <1>3 DEF IsBucket
<1>10. UniqueSlots(q)
  BY SMTT(30), <1>1, <1>3, <1>8 DEF UniqueSlots
<1>11. Objs(q) \subseteq Objs(r) \ {SlotAt(r, r.tail)}
  <2>. SUFFICES ASSUME NEW o \in Nat \ {Null}, NEW i \in 0 .. r.n - 1, NEW j \in SlotNums,
                       q.buf[i][j] = o
                PROVE  o \in Objs(r) /\ o # SlotAt(r, r.tail)
    BY <1>3 DEF Objs
  <2>1. ~ (i = p /\ j = h) /\ r.buf[i][j] = o
    BY Zenon, <1>8
  <2>2. o # r.buf[p][h]
    <3>1. (r.buf[i][j] # Null /\ r.buf[i][j] = r.buf[p][h]) => (i = p /\ j = h)
      BY <1>1, <1>4 DEF UniqueSlots
    <3>. QED BY Zenon, <3>1, <2>1
  <2>. QED BY Zenon, <2>1, <2>2, <1>4 DEF Objs
<1>12. ASSUME NEW k \in 0 .. CurrentMax(r) - 1
       PROVE  SlotAt(q, k) = IF k = r.tail THEN Null ELSE SlotAt(r, k)
  <2>1. /\ k \div Slots \in 0 .. r.n - 1 /\ k % Slots \in SlotNums
        /\ k = (k \div Slots) * Slots + (k % Slots)
        /\ SlotAt(r, k) = r.buf[k \div Slots][k % Slots]
        /\ SlotAt(q, k) = q.buf[k \div Slots][k % Slots]
    BY ZenonT(30), <1>1, <1>3, SlotFacts DEF SlotAt
  <2>2. (k \div Slots = p /\ k % Slots = h) <=> k = r.tail
    BY Zenon, <2>1, <1>4 DEF p, h
  <2>. QED BY Zenon, <2>1, <2>2, <1>8
<1>13. ASSUME NEW k \in 0 .. CurrentMax(q) - 1
       PROVE  SlotAt(q, k) # Null <=> Taken(q, k)
  <2>4. k \in 0 .. CurrentMax(r) - 1 /\ SlotAt(q, k) = IF k = r.tail THEN Null ELSE SlotAt(r, k)
    BY Zenon, <1>3, <1>12
  <2>5. SlotAt(r, k) # Null <=> Taken(r, k)
    BY Zenon, <2>4, <1>1 DEF Window
  <2>6. r.head = r.tail <=> r.full
    BY Zenon, <1>1 DEF Window
  <2>7. Taken(q, k) <=> (k # r.tail /\ Taken(r, k))
    <3>1. Taken(q, k) <=> \/ nt <= k /\ k < r.head
                          \/ r.head < nt /\ (k < r.head \/ nt <= k)
      BY Zenon, <1>3 DEF Taken
    <3>2. Taken(r, k) <=> \/ r.full
                          \/ r.tail <= k /\ k < r.head
                          \/ r.head < r.tail /\ (k < r.head \/ r.tail <= k)
      BY Zenon DEF Taken
    <3>. QED BY <3>1, <3>2, <2>4, <2>6, <1>1, <1>5
  <2>. QED BY Zenon, <2>4, <2>5, <2>7
<1>14. Window(q)
  <2>1. ~ (q.full /\ q.empty) /\ (q.head = q.tail <=> (q.full \/ q.empty))
    BY ZenonT(30), <1>3
  <2>. QED BY Zenon, <2>1, <1>13 DEF Window
<1>15. BucketOK(q) /\ q.n = r.n /\ q.head = r.head /\ ~q.full
  BY Zenon, <1>3, <1>9, <1>10, <1>14 DEF BucketOK
<1>. QED BY Zenon, <1>3, <1>5, <1>7, <1>11, <1>12, <1>15 DEF q

(* A new bucket.                                                            *)
LEMMA NewBucketOK == BucketOK(NewBucket) /\ Objs(NewBucket) = {}
<1>. DEFINE r == NewBucket
<1>1. /\ r = [head |-> 0, tail |-> 0, full |-> FALSE, empty |-> TRUE, n |-> 0, buf |-> r.buf]
      /\ r.buf = [i \in {} |-> [j \in SlotNums |-> Null]]
  BY Zenon DEF NewBucket
<1>2. 0 .. 0 - 1 = {}
  OBVIOUS
<1>. HIDE DEF r
<1>3. /\ r.head = 0 /\ r.tail = 0 /\ r.full = FALSE /\ r.empty = TRUE /\ r.n = 0
      /\ CurrentMax(r) = 0 /\ 0 .. r.n - 1 = {} /\ 0 .. CurrentMax(r) - 1 = {}
  BY <1>1, <1>2, PoolAssumption DEF CurrentMax
<1>4. r.buf \in [0 .. r.n - 1 -> [SlotNums -> Nat]]
  BY Zenon, <1>1, <1>3
<1>5. IsBucket(r)
  <2>1. r = [head |-> r.head, tail |-> r.tail, full |-> r.full, empty |-> r.empty,
             n |-> r.n, buf |-> r.buf]
    BY Zenon, <1>1, <1>3
  <2>2. r.head \in Nat /\ r.tail \in Nat /\ r.n \in Nat
    BY <1>3
  <2>3. r.full \in BOOLEAN /\ r.empty \in BOOLEAN /\ r.empty /\ ~r.full
    BY ZenonT(30), <1>3
  <2>. QED BY Zenon, <2>1, <2>2, <2>3, <1>3, <1>4 DEF IsBucket
<1>6. UniqueSlots(r) /\ Window(r) /\ Objs(r) = {}
  BY Zenon, <1>3 DEF UniqueSlots, Window, Objs
<1>. QED BY Zenon, <1>5, <1>6 DEF BucketOK, r

-----------------------------------------------------------------------------
(* make() puts in at least one object.                                      *)
LEMMA QuantPositive == QuantInc \in Nat \ {0}
<1>1. IncCount \div ObjSize \in Nat
  BY Zenon, PoolAssumption, Split
<1>. QED BY <1>1, PoolAssumption DEF QuantInc, setStrategy

(* put reads from a stamp what make() wrote.                                *)
LEMMA StampRead ==
    ASSUME NEW b \in BucketNums
    PROVE  /\ makeStamp(b, ObjSize) \in Nat
           /\ StampSize(makeStamp(b, ObjSize)) = ObjSize
           /\ StampBucket(makeStamp(b, ObjSize)) = b
<1>0. SizeBits \in Nat \ {0}
  BY SMT DEF SizeBits
<1>1. /\ SizeBits \in Nat \ {0} /\ ObjSize \in 0 .. SizeBits - 1
      /\ b \in Nat /\ b \in 0 .. 256 - 1
  BY <1>0, SMT, PoolAssumption, StampAssumption DEF BucketNums
<1>2. /\ b * SizeBits + ObjSize \in Nat
      /\ (b * SizeBits + ObjSize) \div SizeBits = b /\ (b * SizeBits + ObjSize) % SizeBits = ObjSize
  BY Zenon, <1>1, Unsplit
<1>3. (0 * 256 + b) % 256 = b
  BY <1>1, Unsplit
<1>4. 0 * 256 + b = b
  BY <1>1
<1>. QED BY Zenon, <1>2, <1>3, <1>4 DEF makeStamp, StampSize, StampBucket

-----------------------------------------------------------------------------
(* The inductive invariant.                                                 *)

Labels == {"idle", "bump", "getlock", "make", "take", "putlock"}

PoolTypes ==
    /\ counter \in Nat /\ made \in Nat /\ aborted \in BOOLEAN
    /\ pc \in [Users -> Labels]
    /\ loc \in [Users -> [b : Nat, left : Nat, obj : Nat]]
    /\ held \in [Users -> SUBSET Objects]
    /\ lock \in [BucketNums -> Users \cup {NoUser}]
    /\ bk = [b \in BucketNums |-> bk[b]]

(* Every object names, in its stamp, the size of the pool and a bucket.     *)
Stamped == \A o \in Objects : \E b \in BucketNums : stamp[o] = makeStamp(b, ObjSize)

(* The flags of every ring agree with its slots, also while it is growing.  *)
Rings == \A b \in BucketNums :
           BucketOK(bk[b]) /\ bk[b].n <= MaxBuffers /\ Objs(bk[b]) \subseteq Objects

(* An object is in one bucket, or in one hand.                              *)
Apart ==
    /\ \A o \in Objects, b, c \in BucketNums :
         (o \in Objs(bk[b]) /\ o \in Objs(bk[c])) => b = c
    /\ \A o \in Objects, u, v \in Users : (InHand(o, u) /\ InHand(o, v)) => u = v
    /\ \A o \in Objects, u \in Users, b \in BucketNums :
         InHand(o, u) => o \notin Objs(bk[b])

(* A thread that makes or takes has the mutex of its bucket, and the bucket *)
(* has an object for it when the making is over.                            *)
Locals ==
    \A u \in Users :
      /\ pc[u] \in {"getlock", "make", "take", "putlock"} => loc[u].b \in BucketNums
      /\ pc[u] = "putlock" => loc[u].obj \in Objects /\ loc[u].obj \notin held[u]
      /\ pc[u] \in {"make", "take"} => lock[loc[u].b] = u
      /\ pc[u] = "take" => ~bk[loc[u].b].empty
      /\ pc[u] = "make" /\ loc[u].left = 0 => ~bk[loc[u].b].empty

PoolInv == PoolTypes /\ Stamped /\ Rings /\ Apart /\ Locals /\ AbortsOnlyAtLimit

(* The initial state.                                                       *)
LEMMA PoolInit == Init => PoolInv
<1>. SUFFICES ASSUME Init PROVE PoolInv
  BY Zenon
<1>1. Objects = {} /\ made = 0 /\ 0 \in Nat
  BY DEF Init, Objects
<1>2. PoolTypes
  BY ZenonT(30), <1>1, PoolAssumption DEF Init, PoolTypes, Labels, NoLocals, Null
<1>3. Stamped /\ Apart
  BY Zenon, <1>1 DEF Stamped, Apart
<1>4. Rings
  <2>. SUFFICES ASSUME NEW b \in BucketNums
                PROVE  BucketOK(bk[b]) /\ bk[b].n <= MaxBuffers /\ Objs(bk[b]) \subseteq Objects
    BY Zenon DEF Rings
  <2>1. bk[b] = NewBucket
    BY Zenon DEF Init
  <2>2. NewBucket.n = 0
    BY Zenon DEF NewBucket
  <2>. QED BY <2>1, <2>2, NewBucketOK, PoolAssumption
<1>5. Locals
  BY Zenon DEF Init, Locals
<1>6. AbortsOnlyAtLimit
  BY Zenon DEF Init, AbortsOnlyAtLimit
<1>. QED BY Zenon, <1>2, <1>3, <1>4, <1>5, <1>6 DEF PoolInv

(* A bucket that refuses an object is full and has all its buffers.         *)
LEMMA RefusedAtLimit ==
    ASSUME PoolInv, NEW b \in BucketNums, NEW o \in Nat \ {Null}, o \notin Objs(bk[b]),
           putAborts(bk[b])
    PROVE  bk[b].n = MaxBuffers /\ size(bk[b]) = CurrentMax(bk[b])
<1>1. BucketOK(bk[b]) /\ bk[b].n <= MaxBuffers
  BY Zenon DEF PoolInv, Rings
<1>2. Grows(bk[b]) /\ bk[b].n >= MaxBuffers
  BY Zenon, <1>1, PutOK
<1>3. bk[b].n = MaxBuffers /\ bk[b].n # 0
  BY <1>1, <1>2, PoolAssumption DEF BucketOK, IsBucket
<1>4. bk[b].full
  BY Zenon, <1>2, <1>3 DEF Grows
<1>. QED BY Zenon, <1>3, <1>4 DEF size

(* abort() keeps the state.                                                 *)
LEMMA AbortKeeps ==
    ASSUME PoolInv, Abort, \E b \in BucketNums : bk[b].n = MaxBuffers /\ size(bk[b]) = CurrentMax(bk[b])
    PROVE  PoolInv'
<1>1. /\ aborted' = TRUE /\ counter' = counter /\ bk' = bk /\ lock' = lock /\ made' = made
      /\ stamp' = stamp /\ pc' = pc /\ loc' = loc /\ held' = held
  BY Zenon DEF Abort
<1>2. PoolTypes'
  BY Zenon, <1>1 DEF PoolInv, PoolTypes, Objects
<1>3. Stamped' /\ Rings' /\ Apart'
  BY Zenon, <1>1 DEF PoolInv, Stamped, Rings, Apart, InHand, Objects
<1>4. Locals'
  BY Zenon, <1>1 DEF PoolInv, Locals, Objects
<1>5. AbortsOnlyAtLimit'
  BY Zenon, <1>1 DEF AbortsOnlyAtLimit
<1>. QED BY Zenon, <1>2, <1>3, <1>4, <1>5 DEF PoolInv

(* A bucket that takes an object.                                           *)
LEMMA PutFits ==
    ASSUME PoolInv, NEW b \in BucketNums, NEW o \in Nat \ {Null}, o \notin Objs(bk[b]),
           ~putAborts(bk[b])
    PROVE  LET q == putNoLock(bk[b], o)
           IN  /\ BucketOK(q) /\ q.n <= MaxBuffers /\ ~q.empty
               /\ Objs(q) \subseteq Objs(bk[b]) \cup {o}
<1>. DEFINE r == bk[b]
            q == putNoLock(r, o)
<1>1. BucketOK(r) /\ r.n <= MaxBuffers /\ r.n \in Nat
  BY Zenon DEF PoolInv, Rings, BucketOK, IsBucket
<1>2. /\ BucketOK(q) /\ Objs(q) \subseteq Objs(r) \cup {o} /\ ~q.empty
      /\ q.n = IF Grows(r) THEN r.n + 1 ELSE r.n
  BY Zenon, <1>1, PutOK
<1>3. ~ (Grows(r) /\ r.n >= MaxBuffers)
  BY Zenon DEF putAborts
<1>. HIDE DEF r, q
<1>4. q.n <= MaxBuffers
  BY <1>1, <1>2, <1>3, PoolAssumption
<1>. QED BY Zenon, <1>2, <1>4 DEF q, r

(* The steps of get and put outside the buckets.                            *)
LEMMA CounterStep ==
    ASSUME PoolInv, NEW u \in Users, GetCounter(u) \/ BumpCounter(u)
    PROVE  PoolInv'
<1>1. /\ bk' = bk /\ lock' = lock /\ made' = made /\ stamp' = stamp /\ held' = held
      /\ aborted' = aborted /\ ~aborted /\ Objects' = Objects
  BY Zenon DEF GetCounter, BumpCounter, Objects
<1>2. PoolTypes /\ Locals /\ Apart /\ Rings /\ Stamped
  BY Zenon DEF PoolInv
<1>3. /\ pc[u] \in {"idle", "bump"}
      /\ pc' \in [Users -> Labels] /\ pc'[u] \in {"bump", "getlock"}
      /\ loc' \in [Users -> [b : Nat, left : Nat, obj : Nat]]
      /\ counter' \in Nat
      /\ pc'[u] = "getlock" => loc'[u].b \in BucketNums
      /\ \A v \in Users : v # u => pc'[v] = pc[v] /\ loc'[v] = loc[v]
  <2>1. CASE GetCounter(u)
    BY Zenon, <2>1, <1>2 DEF GetCounter, PoolTypes, Goto, Labels
  <2>2. CASE BumpCounter(u)
    <3>1. loc[u].b \in Nat /\ loc[u].b + 1 \in Nat
      BY <1>2 DEF PoolTypes
    <3>2. (loc[u].b + 1) % CounterMod \in Nat /\ loc[u].b % Buckets \in BucketNums /\ loc[u].b % Buckets \in Nat
      <4>1. (loc[u].b + 1) % CounterMod \in 0 .. CounterMod - 1
        BY ZenonT(30), <3>1, PoolAssumption, Split
      <4>2. loc[u].b % Buckets \in 0 .. Buckets - 1
        BY ZenonT(30), <3>1, PoolAssumption, Split
      <4>. QED BY <4>1, <4>2, PoolAssumption DEF BucketNums
    <3>. DEFINE x == loc[u].b % Buckets
    <3>3. x \in BucketNums /\ x \in Nat /\ loc' = [loc EXCEPT ![u].b = x] /\ counter' \in Nat
      BY Zenon, <3>2, <2>2 DEF BumpCounter
    <3>. HIDE DEF x
    <3>4. pc[u] = "bump" /\ pc' = [pc EXCEPT ![u] = "getlock"]
      BY Zenon, <2>2 DEF BumpCounter, Goto
    <3>. QED BY Zenon, <3>3, <3>4, <1>2 DEF PoolTypes, Labels
  <2>. QED BY Zenon, <2>1, <2>2
<1>4. PoolTypes'
  BY Zenon, <1>1, <1>2, <1>3 DEF PoolTypes
<1>5. Stamped' /\ Rings'
  BY Zenon, <1>1, <1>2 DEF Stamped, Rings
<1>6. \A o, v : v \in Users => (InHand(o, v)' <=> InHand(o, v))
  BY Zenon, <1>1, <1>3 DEF InHand
<1>7. Apart'
  BY Zenon, <1>1, <1>2, <1>6 DEF Apart
<1>8. Locals'
  BY <1>1, <1>2, <1>3 DEF Locals
<1>9. AbortsOnlyAtLimit'
  BY Zenon, <1>1 DEF AbortsOnlyAtLimit
<1>. QED BY Zenon, <1>4, <1>5, <1>7, <1>8, <1>9 DEF PoolInv

(* The mutex is taken only when free, and decides between make and take.    *)
LEMMA GetLockStep ==
    ASSUME PoolInv, NEW u \in Users, GetLock(u)
    PROVE  PoolInv'
<1>. DEFINE b == loc[u].b
<1>1. /\ bk' = bk /\ made' = made /\ stamp' = stamp /\ held' = held /\ counter' = counter
      /\ aborted' = aborted /\ ~aborted /\ Objects' = Objects
      /\ lock' = [lock EXCEPT ![b] = u] /\ lock[b] = NoUser /\ pc[u] = "getlock"
  BY Zenon DEF GetLock, Objects
<1>2. PoolTypes /\ Locals /\ Apart /\ Rings /\ Stamped
  BY Zenon DEF PoolInv
<1>3. b \in BucketNums /\ NoUser \notin Users
  BY Zenon, <1>1, <1>2, PoolAssumption DEF Locals
<1>4. /\ pc' \in [Users -> Labels] /\ pc'[u] \in {"make", "take"}
      /\ loc' \in [Users -> [b : Nat, left : Nat, obj : Nat]] /\ loc'[u].b = b
      /\ pc'[u] = "make" => loc'[u].left # 0
      /\ pc'[u] = "take" => ~bk[b].empty
      /\ \A v \in Users : v # u => pc'[v] = pc[v] /\ loc'[v] = loc[v]
  <2>1. CASE bk[b].empty
    <3>1. loc' = [loc EXCEPT ![u].left = QuantInc] /\ pc' = [pc EXCEPT ![u] = "make"]
      BY Zenon, <2>1 DEF GetLock, Goto
    <3>. QED BY Zenon, <3>1, <1>2, QuantPositive DEF PoolTypes, Labels
  <2>2. CASE ~bk[b].empty
    <3>1. loc' = loc /\ pc' = [pc EXCEPT ![u] = "take"]
      BY Zenon, <2>2 DEF GetLock, Goto
    <3>. QED BY Zenon, <3>1, <2>2, <1>2 DEF PoolTypes, Labels
  <2>. QED BY Zenon, <2>1, <2>2
<1>. HIDE DEF b
<1>5. /\ lock' \in [BucketNums -> Users \cup {NoUser}] /\ lock'[b] = u
      /\ \A c \in BucketNums : c # b => lock'[c] = lock[c]
  BY Zenon, <1>1, <1>2, <1>3 DEF PoolTypes
<1>6. PoolTypes'
  BY Zenon, <1>1, <1>2, <1>4, <1>5 DEF PoolTypes
<1>7. Stamped' /\ Rings'
  BY Zenon, <1>1, <1>2 DEF Stamped, Rings
<1>8. \A o, v : v \in Users => (InHand(o, v)' <=> InHand(o, v))
  BY Zenon, <1>1, <1>4 DEF InHand
<1>9. Apart'
  BY Zenon, <1>1, <1>2, <1>8 DEF Apart
<1>10. Locals'
  <2>. SUFFICES ASSUME NEW v \in Users
                PROVE  /\ pc'[v] \in {"getlock", "make", "take", "putlock"} => loc'[v].b \in BucketNums
                       /\ pc'[v] = "putlock" => loc'[v].obj \in Objects /\ loc'[v].obj \notin held[v]
                       /\ pc'[v] \in {"make", "take"} => lock'[loc'[v].b] = v
                       /\ pc'[v] = "take" => ~bk[loc'[v].b].empty
                       /\ pc'[v] = "make" /\ loc'[v].left = 0 => ~bk[loc'[v].b].empty
    BY Zenon, <1>1 DEF Locals
  <2>1. CASE v = u
    BY Zenon, <2>1, <1>3, <1>4, <1>5
  <2>2. CASE v # u
    <3>1. pc'[v] = pc[v] /\ loc'[v] = loc[v]
      BY Zenon, <2>2, <1>4
    <3>2. pc[v] \in {"make", "take"} => loc[v].b \in BucketNums /\ loc[v].b # b
      BY Zenon, <1>1, <1>2, <1>3 DEF Locals
    <3>. QED BY Zenon, <3>1, <3>2, <1>2, <1>5 DEF Locals
  <2>. QED BY Zenon, <2>1, <2>2
<1>11. AbortsOnlyAtLimit'
  BY Zenon, <1>1 DEF AbortsOnlyAtLimit
<1>. QED BY Zenon, <1>6, <1>7, <1>9, <1>10, <1>11 DEF PoolInv

(* make(): a new object goes in, stamped with its bucket.                   *)
LEMMA MakeStep ==
    ASSUME PoolInv, NEW u \in Users, Make(u)
    PROVE  PoolInv'
<1>. DEFINE b == loc[u].b
            o == made + 1
            q == putNoLock(bk[b], o)
<1>1. PoolTypes /\ Locals /\ Apart /\ Rings /\ Stamped /\ ~aborted /\ pc[u] = "make"
  BY Zenon DEF PoolInv, Make
<1>2. b \in BucketNums /\ lock[b] = u
  BY Zenon, <1>1 DEF Locals
<1>3. made \in Nat /\ o \in Nat \ {Null} /\ o \notin Objects /\ Objects' = 1 .. made'
  BY <1>1 DEF PoolTypes, Objects, Null
<1>4. o \notin Objs(bk[b])
  BY Zenon, <1>1, <1>2, <1>3 DEF Rings
<1>5. CASE loc[u].left = 0
  <2>1. /\ bk' = bk /\ made' = made /\ stamp' = stamp /\ held' = held /\ counter' = counter
        /\ aborted' = aborted /\ loc' = loc /\ lock' = lock /\ Objects' = Objects
        /\ pc' = [pc EXCEPT ![u] = "take"]
    BY Zenon, <1>5 DEF Make, Goto, Objects
  <2>2. PoolTypes'
    BY Zenon, <1>1, <2>1 DEF PoolTypes, Labels
  <2>3. pc'[u] = "take" /\ \A v \in Users : v # u => pc'[v] = pc[v]
    BY Zenon, <1>1, <2>1 DEF PoolTypes
  <2>4. \A x, v : v \in Users => (InHand(x, v)' <=> InHand(x, v))
    BY Zenon, <1>1, <2>1, <2>3 DEF InHand
  <2>5. Stamped' /\ Rings' /\ Apart'
    BY Zenon, <1>1, <2>1, <2>4 DEF Stamped, Rings, Apart
  <2>6. Locals'
    BY Zenon, <1>1, <1>5, <2>1, <2>3 DEF Locals
  <2>7. AbortsOnlyAtLimit'
    BY Zenon, <1>1, <2>1 DEF AbortsOnlyAtLimit
  <2>. QED BY Zenon, <2>2, <2>5, <2>6, <2>7 DEF PoolInv
<1>6. CASE loc[u].left # 0 /\ putAborts(bk[b])
  <2>1. Abort
    BY Zenon, <1>6 DEF Make
  <2>2. bk[b].n = MaxBuffers /\ size(bk[b]) = CurrentMax(bk[b])
    BY Zenon, <1>2, <1>3, <1>4, <1>6, RefusedAtLimit
  <2>. QED BY Zenon, <2>1, <2>2, <1>2, AbortKeeps
<1>7. CASE loc[u].left # 0 /\ ~putAborts(bk[b])
  <2>1. /\ made' = o /\ bk' = [bk EXCEPT ![b] = q] /\ loc' = [loc EXCEPT ![u].left = @ - 1]
        /\ stamp' = [x \in 1 .. o |-> IF x = o THEN makeStamp(b, ObjSize) ELSE stamp[x]]
        /\ counter' = counter /\ lock' = lock /\ pc' = pc /\ held' = held /\ aborted' = aborted
    BY Zenon, <1>7 DEF Make
  <2>2. BucketOK(q) /\ q.n <= MaxBuffers /\ ~q.empty /\ Objs(q) \subseteq Objs(bk[b]) \cup {o}
    BY Zenon, <1>2, <1>3, <1>4, <1>7, PutFits
  <2>. HIDE DEF q, b
  <2>3. /\ bk' = [c \in BucketNums |-> bk'[c]] /\ bk'[b] = q
        /\ \A c \in BucketNums : c # b => bk'[c] = bk[c]
    BY ZenonT(30), <1>1, <1>2, <2>1 DEF PoolTypes
  <2>4. Objects' = Objects \cup {o} /\ 1 .. o = Objects \cup {o}
    BY <1>3, <2>1 DEF Objects
  <2>5. /\ loc' \in [Users -> [b : Nat, left : Nat, obj : Nat]]
        /\ loc'[u].b = b /\ loc'[u].obj = loc[u].obj
        /\ \A v \in Users : v # u => loc'[v] = loc[v]
    <3>1. loc[u].left - 1 \in Nat /\ loc \in [Users -> [b : Nat, left : Nat, obj : Nat]]
      BY <1>1, <1>7 DEF PoolTypes
    <3>. QED BY ZenonT(30), <3>1, <2>1 DEF b
  <2>. HIDE DEF o
  <2>6. PoolTypes'
    BY SMTT(30), <1>1, <1>3, <2>1, <2>3, <2>4, <2>5 DEF PoolTypes
  <2>7. Stamped'
    BY Zenon, <1>1, <1>2, <1>3, <2>1, <2>4 DEF Stamped
  <2>8. Rings'
    <3>. SUFFICES ASSUME NEW c \in BucketNums
                  PROVE  BucketOK(bk'[c]) /\ bk'[c].n <= MaxBuffers /\ Objs(bk'[c]) \subseteq Objects'
      BY Zenon DEF Rings
    <3>1. BucketOK(bk[c]) /\ bk[c].n <= MaxBuffers /\ Objs(bk[c]) \subseteq Objects
      BY Zenon, <1>1 DEF Rings
    <3>. QED BY Zenon, <3>1, <1>1, <1>2, <2>2, <2>3, <2>4
  <2>9. \A c \in BucketNums : \A x : x \in Objs(bk'[c]) => (x \in Objs(bk[c]) \/ (x = o /\ c = b))
    BY Zenon, <1>2, <2>2, <2>3
  <2>10. \A x, v : v \in Users => (InHand(x, v)' <=> InHand(x, v))
    BY Zenon, <2>1, <2>5, <1>1 DEF InHand
  <2>11. \A v \in Users : ~InHand(o, v)
    BY Zenon, <1>1, <1>3 DEF InHand, PoolTypes, Locals
  <2>12. \A c \in BucketNums : o \notin Objs(bk[c])
    BY Zenon, <1>1, <1>3 DEF Rings
  <2>13. Apart'
    <3>1. ASSUME NEW x \in Objects', NEW c \in BucketNums, NEW d \in BucketNums,
                 x \in Objs(bk'[c]), x \in Objs(bk'[d])
          PROVE  c = d
      BY <3>1, <1>1, <2>4, <2>9, <2>12 DEF Apart
    <3>2. ASSUME NEW x \in Objects', NEW v \in Users, NEW w \in Users, InHand(x, v)', InHand(x, w)'
          PROVE  v = w
      BY Zenon, <3>2, <1>1, <2>4, <2>10, <2>11 DEF Apart
    <3>3. ASSUME NEW x \in Objects', NEW v \in Users, NEW c \in BucketNums, InHand(x, v)'
          PROVE  x \notin Objs(bk'[c])
      BY <3>3, <1>1, <2>4, <2>9, <2>10, <2>11 DEF Apart
    <3>. QED BY Zenon, <3>1, <3>2, <3>3 DEF Apart
  <2>14. Locals'
    <3>. SUFFICES ASSUME NEW v \in Users
                  PROVE  /\ pc[v] \in {"getlock", "make", "take", "putlock"} => loc'[v].b \in BucketNums
                         /\ pc[v] = "putlock" => loc'[v].obj \in Objects' /\ loc'[v].obj \notin held[v]
                         /\ pc[v] \in {"make", "take"} => lock[loc'[v].b] = v
                         /\ pc[v] = "take" => ~bk'[loc'[v].b].empty
                         /\ pc[v] = "make" /\ loc'[v].left = 0 => ~bk'[loc'[v].b].empty
      BY Zenon, <2>1 DEF Locals
    <3>1. CASE v = u
      BY Zenon, <3>1, <1>1, <1>2, <2>2, <2>3, <2>5
    <3>2. CASE v # u
      <4>1. loc'[v] = loc[v]
        BY Zenon, <3>2, <2>5
      <4>2. pc[v] \in {"make", "take"} => loc[v].b \in BucketNums /\ loc[v].b # b
        BY Zenon, <3>2, <1>1, <1>2 DEF Locals
      <4>3. pc[v] \in {"make", "take"} => bk'[loc[v].b] = bk[loc[v].b]
        BY Zenon, <4>2, <2>3
      <4>. QED BY Zenon, <4>1, <4>3, <1>1, <2>4 DEF Locals
    <3>. QED BY Zenon, <3>1, <3>2
  <2>15. AbortsOnlyAtLimit'
    BY Zenon, <1>1, <2>1 DEF AbortsOnlyAtLimit
  <2>. QED BY Zenon, <2>6, <2>7, <2>8, <2>13, <2>14, <2>15 DEF PoolInv
<1>. QED BY Zenon, <1>5, <1>6, <1>7

(* The rest of getNoLock: the object moves from the bucket to the thread.   *)
LEMMA TakeStep ==
    ASSUME PoolInv, NEW u \in Users, Take(u)
    PROVE  PoolInv'
<1>. DEFINE b == loc[u].b
            o == SlotAt(bk[b], bk[b].tail)
            q == getNoLock(bk[b])
<1>1. PoolTypes /\ Locals /\ Apart /\ Rings /\ Stamped /\ ~aborted /\ pc[u] = "take"
  BY Zenon DEF PoolInv, Take
<1>2. b \in BucketNums /\ lock[b] = u /\ ~bk[b].empty
  BY Zenon, <1>1 DEF Locals
<1>3. BucketOK(bk[b]) /\ bk[b].n <= MaxBuffers /\ Objs(bk[b]) \subseteq Objects
  BY Zenon, <1>1, <1>2 DEF Rings
<1>4. /\ ~getAborts(bk[b]) /\ o \in Objs(bk[b])
      /\ BucketOK(q) /\ q.n = bk[b].n /\ Objs(q) \subseteq Objs(bk[b]) \ {o}
  BY Zenon, <1>2, <1>3, GetOK
<1>5. /\ held' = [held EXCEPT ![u] = @ \cup {o}] /\ bk' = [bk EXCEPT ![b] = q]
      /\ lock' = [lock EXCEPT ![b] = NoUser] /\ loc' = [loc EXCEPT ![u] = NoLocals]
      /\ pc' = [pc EXCEPT ![u] = "idle"]
      /\ counter' = counter /\ made' = made /\ stamp' = stamp /\ aborted' = aborted
      /\ Objects' = Objects
  BY Zenon, <1>4 DEF Take, Goto, Objects
<1>6. o \in Objects
  BY Zenon, <1>3, <1>4
<1>. HIDE DEF q, b, o
<1>7. /\ bk' = [c \in BucketNums |-> bk'[c]] /\ bk'[b] = q
      /\ \A c \in BucketNums : c # b => bk'[c] = bk[c]
  BY ZenonT(30), <1>1, <1>2, <1>5 DEF PoolTypes
<1>8. /\ held' \in [Users -> SUBSET Objects] /\ held'[u] = held[u] \cup {o}
      /\ pc' \in [Users -> Labels] /\ pc'[u] = "idle"
      /\ \A v \in Users : v # u => held'[v] = held[v] /\ pc'[v] = pc[v] /\ loc'[v] = loc[v]
  BY Zenon, <1>1, <1>5, <1>6 DEF PoolTypes, Labels
<1>9. loc' \in [Users -> [b : Nat, left : Nat, obj : Nat]]
  BY Zenon, <1>1, <1>5 DEF PoolTypes, NoLocals, Null
<1>10. /\ lock' \in [BucketNums -> Users \cup {NoUser}]
       /\ \A c \in BucketNums : c # b => lock'[c] = lock[c]
  BY Zenon, <1>1, <1>2, <1>5 DEF PoolTypes
<1>11. PoolTypes'
  BY Zenon, <1>1, <1>5, <1>7, <1>8, <1>9, <1>10 DEF PoolTypes
<1>12. Stamped'
  BY Zenon, <1>1, <1>5 DEF Stamped
<1>13. Rings'
  <2>. SUFFICES ASSUME NEW c \in BucketNums
                PROVE  BucketOK(bk'[c]) /\ bk'[c].n <= MaxBuffers /\ Objs(bk'[c]) \subseteq Objects
    BY Zenon, <1>5 DEF Rings
  <2>1. CASE c = b
    BY Zenon, <2>1, <1>3, <1>4, <1>7
  <2>2. CASE c # b
    BY Zenon, <2>2, <1>1, <1>7 DEF Rings
  <2>. QED BY Zenon, <2>1, <2>2
<1>14. \A c \in BucketNums : \A x : x \in Objs(bk'[c]) => x \in Objs(bk[c]) /\ x # o
  <2>. SUFFICES ASSUME NEW c \in BucketNums, NEW x, x \in Objs(bk'[c])
                PROVE  x \in Objs(bk[c]) /\ x # o
    BY Zenon
  <2>1. CASE c = b
    BY Zenon, <2>1, <1>4, <1>7
  <2>2. CASE c # b
    BY <2>2, <1>1, <1>2, <1>4, <1>6, <1>7 DEF Apart
  <2>. QED BY Zenon, <2>1, <2>2
<1>15. \A x, v : v \in Users => (InHand(x, v)' => InHand(x, v) \/ (x = o /\ v = u))
  BY Zenon, <1>1, <1>8 DEF InHand
<1>16. \A v \in Users : ~InHand(o, v)
  BY Zenon, <1>1, <1>2, <1>4, <1>6 DEF Apart
<1>17. Apart'
  <2>1. ASSUME NEW x \in Objects, NEW c \in BucketNums, NEW d \in BucketNums,
               x \in Objs(bk'[c]), x \in Objs(bk'[d])
        PROVE  c = d
    BY Zenon, <2>1, <1>1, <1>14 DEF Apart
  <2>2. ASSUME NEW x \in Objects, NEW v \in Users, NEW w \in Users, InHand(x, v)', InHand(x, w)'
        PROVE  v = w
    BY <2>2, <1>1, <1>15, <1>16 DEF Apart
  <2>3. ASSUME NEW x \in Objects, NEW v \in Users, NEW c \in BucketNums, InHand(x, v)'
        PROVE  x \notin Objs(bk'[c])
    BY Zenon, <2>3, <1>1, <1>14, <1>15 DEF Apart
  <2>. QED BY Zenon, <2>1, <2>2, <2>3, <1>5 DEF Apart
<1>18. Locals'
  <2>. SUFFICES ASSUME NEW v \in Users
                PROVE  /\ pc'[v] \in {"getlock", "make", "take", "putlock"} => loc'[v].b \in BucketNums
                       /\ pc'[v] = "putlock" => loc'[v].obj \in Objects /\ loc'[v].obj \notin held'[v]
                       /\ pc'[v] \in {"make", "take"} => lock'[loc'[v].b] = v
                       /\ pc'[v] = "take" => ~bk'[loc'[v].b].empty
                       /\ pc'[v] = "make" /\ loc'[v].left = 0 => ~bk'[loc'[v].b].empty
    BY Zenon, <1>5 DEF Locals
  <2>1. CASE v = u
    BY Zenon, <2>1, <1>8
  <2>2. CASE v # u
    <3>1. loc'[v] = loc[v] /\ pc'[v] = pc[v] /\ held'[v] = held[v]
      BY Zenon, <2>2, <1>8
    <3>2. pc[v] \in {"make", "take"} => loc[v].b \in BucketNums /\ loc[v].b # b
      BY Zenon, <2>2, <1>1, <1>2 DEF Locals
    <3>3. pc[v] \in {"make", "take"} => bk'[loc[v].b] = bk[loc[v].b] /\ lock'[loc[v].b] = lock[loc[v].b]
      BY Zenon, <3>2, <1>7, <1>10
    <3>. QED BY Zenon, <3>1, <3>3, <1>1 DEF Locals
  <2>. QED BY Zenon, <2>1, <2>2
<1>19. AbortsOnlyAtLimit'
  BY Zenon, <1>1, <1>5 DEF AbortsOnlyAtLimit
<1>. QED BY Zenon, <1>11, <1>12, <1>13, <1>17, <1>18, <1>19 DEF PoolInv

(* put: the stamp is right, so that put does not abort.                     *)
LEMMA PutStep ==
    ASSUME PoolInv, NEW u \in Users, Put(u)
    PROVE  PoolInv'
<1>1. PoolTypes /\ Locals /\ Apart /\ Rings /\ Stamped
  BY Zenon DEF PoolInv
<1>2. PICK o \in held[u] :
        /\ ~aborted /\ pc[u] = "idle"
        /\ IF StampSize(stamp[o]) # ObjSize \/ StampBucket(stamp[o]) >= Buckets THEN Abort
           ELSE /\ held' = [held EXCEPT ![u] = @ \ {o}]
                /\ loc' = [loc EXCEPT ![u].b = StampBucket(stamp[o]), ![u].obj = o]
                /\ Goto(u, "putlock")
                /\ UNCHANGED <<counter, bk, lock, made, stamp, aborted>>
  BY Zenon DEF Put
<1>3. o \in Objects /\ o \in Nat /\ held[u] \subseteq Objects
  BY <1>1 DEF PoolTypes, Objects
<1>4. PICK b \in BucketNums : stamp[o] = makeStamp(b, ObjSize)
  BY Zenon, <1>1, <1>3 DEF Stamped
<1>5. StampSize(stamp[o]) = ObjSize /\ StampBucket(stamp[o]) = b
  BY Zenon, <1>4, StampRead
<1>6. b \in Nat /\ b < Buckets /\ ~ (b >= Buckets)
  BY PoolAssumption DEF BucketNums
<1>7. /\ held' = [held EXCEPT ![u] = @ \ {o}]
      /\ loc' = [loc EXCEPT ![u].b = b, ![u].obj = o]
      /\ pc' = [pc EXCEPT ![u] = "putlock"]
      /\ counter' = counter /\ bk' = bk /\ lock' = lock /\ made' = made /\ stamp' = stamp
      /\ aborted' = aborted /\ Objects' = Objects
  BY Zenon, <1>2, <1>5, <1>6 DEF Goto, Objects
<1>8. /\ held' \in [Users -> SUBSET Objects] /\ held'[u] = held[u] \ {o}
      /\ pc' \in [Users -> Labels] /\ pc'[u] = "putlock"
      /\ \A v \in Users : v # u => held'[v] = held[v] /\ pc'[v] = pc[v]
  BY Zenon, <1>1, <1>7 DEF PoolTypes, Labels
<1>9. /\ loc' \in [Users -> [b : Nat, left : Nat, obj : Nat]]
      /\ loc'[u].b = b /\ loc'[u].obj = o
      /\ \A v \in Users : v # u => loc'[v] = loc[v]
  BY ZenonT(30), <1>1, <1>3, <1>6, <1>7 DEF PoolTypes
<1>10. PoolTypes'
  BY Zenon, <1>1, <1>7, <1>8, <1>9 DEF PoolTypes
<1>11. Stamped' /\ Rings'
  BY Zenon, <1>1, <1>7 DEF Stamped, Rings
<1>12. \A x, v : v \in Users => (InHand(x, v)' <=> InHand(x, v))
  <2>. SUFFICES ASSUME NEW x, NEW v \in Users PROVE InHand(x, v)' <=> InHand(x, v)
    BY Zenon
  <2>1. CASE v = u
    BY Zenon, <2>1, <1>2, <1>8, <1>9 DEF InHand
  <2>2. CASE v # u
    BY Zenon, <2>2, <1>8, <1>9 DEF InHand
  <2>. QED BY Zenon, <2>1, <2>2
<1>13. Apart'
  BY Zenon, <1>1, <1>7, <1>12 DEF Apart
<1>14. Locals'
  BY <1>1, <1>3, <1>7, <1>8, <1>9 DEF Locals
<1>15. AbortsOnlyAtLimit'
  BY Zenon, <1>2, <1>7 DEF AbortsOnlyAtLimit
<1>. QED BY Zenon, <1>10, <1>11, <1>13, <1>14, <1>15 DEF PoolInv

(* buckets[...].put(): the object moves from the thread to the bucket.      *)
LEMMA PutLockStep ==
    ASSUME PoolInv, NEW u \in Users, PutLock(u)
    PROVE  PoolInv'
<1>. DEFINE b == loc[u].b
            o == loc[u].obj
            q == putNoLock(bk[b], o)
<1>1. /\ PoolTypes /\ Locals /\ Apart /\ Rings /\ Stamped
      /\ ~aborted /\ pc[u] = "putlock" /\ lock[b] = NoUser
  BY Zenon DEF PoolInv, PutLock
<1>2. b \in BucketNums /\ o \in Objects /\ o \notin held[u] /\ NoUser \notin Users
  BY Zenon, <1>1, PoolAssumption DEF Locals
<1>3. o \in Nat \ {Null}
  BY <1>1, <1>2 DEF Objects, Null, PoolTypes
<1>4. InHand(o, u) /\ \A c \in BucketNums : o \notin Objs(bk[c])
  BY Zenon, <1>1, <1>2 DEF InHand, Apart
<1>5. CASE putAborts(bk[b])
  <2>1. Abort
    BY Zenon, <1>5 DEF PutLock
  <2>2. bk[b].n = MaxBuffers /\ size(bk[b]) = CurrentMax(bk[b])
    BY Zenon, <1>2, <1>3, <1>4, <1>5, RefusedAtLimit
  <2>. QED BY Zenon, <2>1, <2>2, <1>2, AbortKeeps
<1>6. CASE ~putAborts(bk[b])
  <2>1. /\ bk' = [bk EXCEPT ![b] = q] /\ loc' = [loc EXCEPT ![u] = NoLocals]
        /\ pc' = [pc EXCEPT ![u] = "idle"]
        /\ counter' = counter /\ lock' = lock /\ made' = made /\ stamp' = stamp /\ held' = held
        /\ aborted' = aborted /\ Objects' = Objects
    BY Zenon, <1>6 DEF PutLock, Goto, Objects
  <2>2. BucketOK(q) /\ q.n <= MaxBuffers /\ ~q.empty /\ Objs(q) \subseteq Objs(bk[b]) \cup {o}
    BY Zenon, <1>2, <1>3, <1>4, <1>6, PutFits
  <2>. HIDE DEF q, b, o
  <2>3. /\ bk' = [c \in BucketNums |-> bk'[c]] /\ bk'[b] = q
        /\ \A c \in BucketNums : c # b => bk'[c] = bk[c]
    BY ZenonT(30), <1>1, <1>2, <2>1 DEF PoolTypes
  <2>4. /\ pc' \in [Users -> Labels] /\ pc'[u] = "idle"
        /\ loc' \in [Users -> [b : Nat, left : Nat, obj : Nat]]
        /\ \A v \in Users : v # u => pc'[v] = pc[v] /\ loc'[v] = loc[v]
    BY Zenon, <1>1, <2>1 DEF PoolTypes, Labels, NoLocals, Null
  <2>5. PoolTypes'
    BY Zenon, <1>1, <2>1, <2>3, <2>4 DEF PoolTypes
  <2>6. Stamped'
    BY Zenon, <1>1, <2>1 DEF Stamped
  <2>7. Rings'
    <3>. SUFFICES ASSUME NEW c \in BucketNums
                  PROVE  BucketOK(bk'[c]) /\ bk'[c].n <= MaxBuffers /\ Objs(bk'[c]) \subseteq Objects
      BY Zenon, <2>1 DEF Rings
    <3>1. BucketOK(bk[c]) /\ bk[c].n <= MaxBuffers /\ Objs(bk[c]) \subseteq Objects
      BY Zenon, <1>1 DEF Rings
    <3>. QED BY Zenon, <3>1, <1>2, <2>2, <2>3
  <2>8. \A c \in BucketNums : \A x : x \in Objs(bk'[c]) => (x \in Objs(bk[c]) \/ (x = o /\ c = b))
    BY Zenon, <1>2, <2>2, <2>3
  <2>9. \A x, v : v \in Users => (InHand(x, v)' => InHand(x, v) /\ x # o)
    <3>. SUFFICES ASSUME NEW x, NEW v \in Users, InHand(x, v)' PROVE InHand(x, v) /\ x # o
      BY Zenon
    <3>1. CASE v = u
      BY Zenon, <3>1, <1>2, <2>1, <2>4 DEF InHand
    <3>2. CASE v # u
      <4>1. InHand(x, v)
        BY Zenon, <3>2, <2>1, <2>4 DEF InHand
      <4>. QED BY Zenon, <4>1, <3>2, <1>1, <1>2, <1>4 DEF Apart
    <3>. QED BY Zenon, <3>1, <3>2
  <2>10. Apart'
    <3>1. ASSUME NEW x \in Objects, NEW c \in BucketNums, NEW d \in BucketNums,
                 x \in Objs(bk'[c]), x \in Objs(bk'[d])
          PROVE  c = d
      BY <3>1, <1>1, <1>4, <2>8 DEF Apart
    <3>2. ASSUME NEW x \in Objects, NEW v \in Users, NEW w \in Users, InHand(x, v)', InHand(x, w)'
          PROVE  v = w
      BY Zenon, <3>2, <1>1, <2>9 DEF Apart
    <3>3. ASSUME NEW x \in Objects, NEW v \in Users, NEW c \in BucketNums, InHand(x, v)'
          PROVE  x \notin Objs(bk'[c])
      BY <3>3, <1>1, <2>8, <2>9 DEF Apart
    <3>. QED BY Zenon, <3>1, <3>2, <3>3, <2>1 DEF Apart
  <2>11. Locals'
    <3>. SUFFICES ASSUME NEW v \in Users
                  PROVE  /\ pc'[v] \in {"getlock", "make", "take", "putlock"} => loc'[v].b \in BucketNums
                         /\ pc'[v] = "putlock" => loc'[v].obj \in Objects /\ loc'[v].obj \notin held[v]
                         /\ pc'[v] \in {"make", "take"} => lock[loc'[v].b] = v
                         /\ pc'[v] = "take" => ~bk'[loc'[v].b].empty
                         /\ pc'[v] = "make" /\ loc'[v].left = 0 => ~bk'[loc'[v].b].empty
      BY Zenon, <2>1 DEF Locals
    <3>1. CASE v = u
      BY SMTT(30), <3>1, <2>4
    <3>2. CASE v # u
      <4>1. loc'[v] = loc[v] /\ pc'[v] = pc[v]
        BY SMTT(30), <3>2, <2>4
      <4>2. pc[v] \in {"make", "take"} => loc[v].b \in BucketNums /\ loc[v].b # b
        BY Zenon, <1>1, <1>2 DEF Locals
      <4>3. pc[v] \in {"make", "take"} => bk'[loc[v].b] = bk[loc[v].b]
        BY Zenon, <4>2, <2>3
      <4>. QED BY Zenon, <4>1, <4>3, <1>1 DEF Locals
    <3>. QED BY Zenon, <3>1, <3>2
  <2>12. AbortsOnlyAtLimit'
    BY Zenon, <1>1, <2>1 DEF AbortsOnlyAtLimit
  <2>. QED BY Zenon, <2>5, <2>6, <2>7, <2>10, <2>11, <2>12 DEF PoolInv
<1>. QED BY Zenon, <1>5, <1>6

-----------------------------------------------------------------------------
(* Every step of every thread keeps the invariant.                          *)
LEMMA PoolNext == PoolInv /\ [Next]_poolVars => PoolInv'
<1>. SUFFICES ASSUME PoolInv, [Next]_poolVars PROVE PoolInv'
  BY Zenon
<1>1. ASSUME NEW u \in Users, UserStep(u) PROVE PoolInv'
  <2>1. CASE GetCounter(u) \/ BumpCounter(u)
    BY Zenon, <2>1, CounterStep
  <2>2. CASE GetLock(u)
    BY Zenon, <2>2, GetLockStep
  <2>3. CASE Make(u)
    BY Zenon, <2>3, MakeStep
  <2>4. CASE Take(u)
    BY Zenon, <2>4, TakeStep
  <2>5. CASE Put(u)
    BY Zenon, <2>5, PutStep
  <2>6. CASE PutLock(u)
    BY Zenon, <2>6, PutLockStep
  <2>. QED BY Zenon, <1>1, <2>1, <2>2, <2>3, <2>4, <2>5, <2>6 DEF UserStep
<1>2. CASE UNCHANGED poolVars
  <2>1. /\ aborted' = aborted /\ counter' = counter /\ bk' = bk /\ lock' = lock /\ made' = made
        /\ stamp' = stamp /\ pc' = pc /\ loc' = loc /\ held' = held
    BY Zenon, <1>2 DEF poolVars
  <2>2. PoolTypes' /\ Stamped' /\ Rings'
    BY Zenon, <2>1 DEF PoolInv, PoolTypes, Stamped, Rings, Objects
  <2>3. Apart' /\ Locals'
    BY Zenon, <2>1 DEF PoolInv, Apart, Locals, InHand, Objects
  <2>4. AbortsOnlyAtLimit'
    BY Zenon, <2>1 DEF PoolInv, AbortsOnlyAtLimit
  <2>. QED BY Zenon, <2>2, <2>3, <2>4 DEF PoolInv
<1>. QED BY Zenon, <1>1, <1>2 DEF Next

(* The invariant holds in every state of the pool.                          *)
THEOREM PoolInvariant == Spec => []PoolInv
<1>. QED BY PoolInit, PoolNext, PTL DEF Spec

(* No object of a pool is in two slots, in two hands, or both idle and in   *)
(* use: get never gives one OffloadRqst or buffer to two threads, for any   *)
(* number of threads, buckets, slots and buffers.                           *)
THEOREM PoolNoSharing == Spec => []NoSharing
<1>1. PoolInv => NoSharing
  <2>. SUFFICES ASSUME PoolInv PROVE NoSharing
    BY Zenon
  <2>1. PoolTypes /\ Rings /\ Apart
    BY Zenon DEF PoolInv
  <2>2. ASSUME NEW b \in BucketNums, NEW i \in 0 .. bk[b].n - 1, NEW j \in SlotNums,
               bk[b].buf[i][j] # Null
        PROVE  bk[b].buf[i][j] \in Objs(bk[b]) /\ bk[b].buf[i][j] \in Objects
    <3>1. bk[b].buf[i][j] \in Nat /\ Objs(bk[b]) \subseteq Objects
      BY ZenonT(30), <2>1 DEF Rings, BucketOK, IsBucket
    <3>. QED BY Zenon, <3>1, <2>2 DEF Objs
  <2>3. ASSUME NEW b \in BucketNums, NEW c \in BucketNums,
               NEW i \in 0 .. bk[b].n - 1, NEW k \in 0 .. bk[c].n - 1,
               NEW j \in SlotNums, NEW l \in SlotNums,
               bk[b].buf[i][j] # Null, bk[b].buf[i][j] = bk[c].buf[k][l]
        PROVE  b = c /\ i = k /\ j = l
    <3>1. b = c
      BY Zenon, <2>1, <2>2, <2>3 DEF Apart
    <3>2. UniqueSlots(bk[b])
      BY Zenon, <2>1 DEF Rings, BucketOK
    <3>. QED BY Zenon, <3>1, <3>2, <2>3 DEF UniqueSlots
  <2>4. ASSUME NEW o \in Objects, NEW u \in Users, InHand(o, u), NEW b \in BucketNums,
               NEW i \in 0 .. bk[b].n - 1, NEW j \in SlotNums
        PROVE  bk[b].buf[i][j] # o
    <3>1. o # Null
      BY <2>1 DEF PoolTypes, Objects, Null
    <3>. QED BY <3>1, <2>1, <2>2, <2>4 DEF Apart
  <2>5. \A o \in Objects, u, v \in Users : (InHand(o, u) /\ InHand(o, v)) => u = v
    BY Zenon, <2>1 DEF Apart
  <2>. QED BY <2>3, <2>4, <2>5 DEF NoSharing
<1>. QED BY <1>1, PoolInvariant, PTL

(* abort() of a pool happens only in a bucket that has all its buffers and  *)
(* no free slot: the checks of getNoLock, of the slot that putNoLock writes *)
(* and of the stamp that put reads never fail.                              *)
THEOREM PoolAbortsOnlyAtLimit == Spec => []AbortsOnlyAtLimit
<1>1. PoolInv => AbortsOnlyAtLimit
  BY Zenon DEF PoolInv
<1>. QED BY <1>1, PoolInvariant, PTL

-----------------------------------------------------------------------------
(* Sequences.                                                               *)
LEMMA SeqOf ==
    ASSUME NEW S, NEW n \in Nat, NEW f \in [1 .. n -> S]
    PROVE  f \in Seq(S) /\ Len(f) = n
<1>1. f \in Seq(S)
  OBVIOUS
<1>2. Len(f) \in Nat /\ DOMAIN f = 1 .. Len(f)
  BY <1>1
<1>3. DOMAIN f = 1 .. n
  BY Zenon
<1>4. 1 .. n = 1 .. Len(f)
  BY Zenon, <1>2, <1>3
<1>. QED BY <1>1, <1>2, <1>4

(* Sequences that agree at every place are the same.                        *)
LEMMA SameSeq ==
    ASSUME NEW S, NEW s \in Seq(S), NEW t \in Seq(S), Len(s) = Len(t),
           \A k \in 1 .. Len(s) : s[k] = t[k]
    PROVE  s = t
OBVIOUS

(* Only the empty sequence has length 0.                                    *)
LEMMA NoSeq ==
    ASSUME NEW S
    PROVE  Len(<<>>) = 0 /\ <<>> \in Seq(S) /\ \A s \in Seq(S) : s # <<>> => Len(s) \in Nat \ {0}
OBVIOUS

(* A sequence longer by one element that agrees with s is an Append.        *)
LEMMA IsAppend ==
    ASSUME NEW S, NEW s \in Seq(S), NEW e \in S, NEW t \in Seq(S),
           Len(t) = Len(s) + 1, \A k \in 1 .. Len(s) : t[k] = s[k], t[Len(s) + 1] = e
    PROVE  t = Append(s, e)
<1>1. Len(s) \in Nat
  OBVIOUS
<1>2. /\ Append(s, e) \in Seq(S) /\ Len(Append(s, e)) = Len(s) + 1
      /\ \A k \in 1 .. Len(s) + 1 : Append(s, e)[k] = IF k <= Len(s) THEN s[k] ELSE e
  OBVIOUS
<1>3. \A k \in 1 .. Len(t) : t[k] = Append(s, e)[k]
  BY <1>1, <1>2
<1>. QED BY Zenon, <1>2, <1>3, SameSeq

(* A sequence shorter by one element and shifted by one is a Tail.          *)
LEMMA IsTail ==
    ASSUME NEW S, NEW s \in Seq(S), NEW t \in Seq(S),
           Len(s) = Len(t) + 1, \A k \in 1 .. Len(t) : t[k] = s[k + 1]
    PROVE  s # << >> /\ Head(s) = s[1] /\ t = Tail(s)
<1>1. Len(t) \in Nat /\ Len(<<>>) = 0
  OBVIOUS
<1>2. s # <<>>
  BY <1>1
<1>3. /\ Tail(s) \in Seq(S) /\ Len(Tail(s)) = Len(s) - 1
      /\ \A k \in 1 .. Len(Tail(s)) : Tail(s)[k] = s[k + 1]
  BY <1>2
<1>4. Len(Tail(s)) = Len(t)
  BY <1>1, <1>3
<1>5. t = Tail(s)
  BY Zenon, <1>3, <1>4, SameSeq
<1>. QED BY <1>2, <1>5

-----------------------------------------------------------------------------
(* The queue of one bucket.                                                 *)

(* One turn of the ring: an index below twice m, modulo m.                  *)
LEMMA Wrap ==
    ASSUME NEW m \in Nat \ {0}, NEW x \in Nat, x < m + m
    PROVE  x % m = IF x < m THEN x ELSE x - m
<1>1. CASE x < m
  <2>1. (0 * m + x) % m = x
    BY <1>1, Unsplit
  <2>. QED BY <2>1, <1>1
<1>2. CASE ~ (x < m)
  <2>1. x - m \in 0 .. m - 1
    BY <1>2
  <2>2. (1 * m + (x - m)) % m = x - m
    BY Zenon, <2>1, Unsplit
  <2>3. 1 * m + (x - m) = x
    OBVIOUS
  <2>. QED BY Zenon, <2>2, <2>3, <1>2
<1>. QED BY Zenon, <1>1, <1>2

(* The k-th slot from tail, and the queue.                                  *)
Pos(r, k) == (r.tail + k - 1) % CurrentMax(r)

IdleOf(r) == [k \in 1 .. size(r) |-> SlotAt(r, Pos(r, k))]

(* What a bucket in order looks like, as numbers.                           *)
LEMMA RingNumbers ==
    ASSUME NEW r, BucketOK(r)
    PROVE  /\ r.head \in Nat /\ r.tail \in Nat /\ CurrentMax(r) \in Nat
           /\ r.n \in Nat /\ Slots \in Nat \ {0}
           /\ r.n = 0 => r.head = 0 /\ r.tail = 0 /\ ~r.full /\ r.empty /\ CurrentMax(r) = 0
           /\ r.n # 0 => r.head < CurrentMax(r) /\ r.tail < CurrentMax(r) /\ CurrentMax(r) # 0
           /\ r.full => r.head = r.tail /\ r.n # 0
           /\ ~r.full /\ r.head = r.tail => r.empty
           /\ r.empty => r.head = r.tail /\ ~r.full
<1>1. IsBucket(r) /\ Window(r)
  BY Zenon DEF BucketOK
<1>2. /\ CurrentMax(r) \in Nat /\ Slots \in Nat \ {0}
      /\ r.n # 0 => CurrentMax(r) # 0
  BY Zenon, <1>1, SlotFacts
<1>3. r.n \in Nat /\ r.head \in Nat /\ r.tail \in Nat
  BY Zenon, <1>1 DEF IsBucket
<1>4. /\ r.n = 0 => r.head = 0 /\ r.tail = 0 /\ ~r.full /\ r.empty
      /\ r.n # 0 => r.head < CurrentMax(r) /\ r.tail < CurrentMax(r)
  BY Zenon, <1>1 DEF IsBucket
<1>5. r.n = 0 => CurrentMax(r) = 0
  BY <1>2 DEF CurrentMax
<1>6. /\ r.full => r.head = r.tail
      /\ ~r.full /\ r.head = r.tail => r.empty
      /\ r.empty => r.head = r.tail /\ ~r.full
  BY Zenon, <1>1 DEF Window
<1>. QED BY Zenon, <1>2, <1>3, <1>4, <1>5, <1>6

(* size() is 0 exactly when the ring is empty, and within its slots.        *)
LEMMA SizeIs ==
    ASSUME NEW r, BucketOK(r)
    PROVE  size(r) \in Nat /\ size(r) <= CurrentMax(r) /\ (size(r) = 0 <=> r.empty)
<1>1. CASE r.full
  BY <1>1, RingNumbers DEF size
<1>2. CASE ~r.full /\ r.head >= r.tail
  BY <1>2, RingNumbers DEF size
<1>3. CASE ~r.full /\ ~ (r.head >= r.tail)
  BY <1>3, RingNumbers DEF size
<1>. QED BY Zenon, <1>1, <1>2, <1>3

(* The k-th position from tail, with the wrap-around spelled out.           *)
LEMMA PosIs ==
    ASSUME NEW r, BucketOK(r), NEW k \in 1 .. CurrentMax(r)
    PROVE  /\ Pos(r, k) = IF r.tail + k - 1 < CurrentMax(r) THEN r.tail + k - 1
                          ELSE r.tail + k - 1 - CurrentMax(r)
           /\ Pos(r, k) \in 0 .. CurrentMax(r) - 1
<1>. DEFINE m == CurrentMax(r)
            x == r.tail + k - 1
<1>1. m \in Nat \ {0} /\ x \in Nat /\ x < m + m /\ r.tail \in Nat /\ r.tail < m
  BY RingNumbers
<1>2. x % m = IF x < m THEN x ELSE x - m
  <2>. HIDE DEF m, x
  <2>. QED BY ZenonT(30), <1>1, Wrap
<1>3. Pos(r, k) = IF x < m THEN x ELSE x - m
  BY Zenon, <1>2 DEF Pos
<1>. QED BY <1>1, <1>3

(* The queue of a ring is a sequence of size() slots.                       *)
LEMMA IdleSeq ==
    ASSUME NEW r, BucketOK(r)
    PROVE  /\ IdleOf(r) \in Seq(Nat) /\ Len(IdleOf(r)) = size(r)
           /\ \A k \in 1 .. size(r) : /\ IdleOf(r)[k] = SlotAt(r, Pos(r, k))
                                      /\ Pos(r, k) \in 0 .. CurrentMax(r) - 1
<1>1. size(r) \in Nat /\ size(r) <= CurrentMax(r) /\ CurrentMax(r) \in Nat
  BY Zenon, SizeIs, RingNumbers
<1>2. \A k \in 1 .. size(r) : k \in 1 .. CurrentMax(r)
  BY <1>1
<1>3. \A k \in 1 .. size(r) : Pos(r, k) \in 0 .. CurrentMax(r) - 1
  BY Zenon, <1>2, PosIs
<1>4. \A k \in 1 .. size(r) : SlotAt(r, Pos(r, k)) \in Nat
  BY Zenon, <1>3, SlotFacts DEF BucketOK
<1>5. IdleOf(r) \in [1 .. size(r) -> Nat]
  BY Zenon, <1>4 DEF IdleOf
<1>6. \A k \in 1 .. size(r) : IdleOf(r)[k] = SlotAt(r, Pos(r, k))
  BY Zenon DEF IdleOf
<1>. QED BY Zenon, <1>1, <1>3, <1>5, <1>6, SeqOf

-----------------------------------------------------------------------------
(* makeBuffer moves the slots from head on up by one buffer.                *)
LEMMA MakeBufferSlots ==
    ASSUME NEW r, BucketOK(r), r.n # 0, NEW k \in 0 .. CurrentMax(r) - 1
    PROVE  LET g == makeBuffer(r)
           IN  /\ k < r.head => SlotAt(g, k) = SlotAt(r, k)
               /\ k >= r.head => SlotAt(g, k + Slots) = SlotAt(r, k)
<1>. DEFINE g == makeBuffer(r)
            p == r.head \div Slots
            h == r.head % Slots
            i == k \div Slots
            j == k % Slots
<1>1. IsBucket(r) /\ Slots \in Nat \ {0} /\ r.head \in Nat /\ r.n \in Nat
  BY Zenon, RingNumbers DEF BucketOK
<1>2. /\ i \in 0 .. r.n - 1 /\ j \in SlotNums /\ k = i * Slots + j
      /\ SlotAt(r, k) = r.buf[i][j]
  BY Zenon, <1>1, SlotFacts
<1>3. r.head = p * Slots + h /\ p \in Nat /\ h \in 0 .. Slots - 1
  BY ZenonT(30), <1>1, Split
<1>4. \A a \in 0 .. r.n, c \in SlotNums :
        /\ a < p \/ (a = p /\ c < h) => g.buf[a][c] = r.buf[a][c]
        /\ a > p + 1 \/ (a = p + 1 /\ c >= h) => g.buf[a][c] = r.buf[a - 1][c]
  <2>. HIDE DEF g
  <2>1. \A a \in 0 .. r.n, c \in SlotNums :
          /\ a < p \/ (a = p /\ c < h) => a \in 0 .. r.n - 1 /\ g.buf[a][c] = r.buf[a][c]
          /\ (a = p /\ c >= h) \/ (a = p + 1 /\ c < h) => g.buf[a][c] = Null
          /\ a > p + 1 \/ (a = p + 1 /\ c >= h) =>
               a - 1 \in 0 .. r.n - 1 /\ g.buf[a][c] = r.buf[a - 1][c]
    BY ZenonT(30), <1>1, MakeBufferIs DEF g
  <2>. HIDE DEF p, h
  <2>. QED BY Zenon, <2>1
<1>. HIDE DEF g, p, h
<1>5. SlotAt(g, k) = g.buf[i][j]
  BY Zenon DEF SlotAt
<1>. HIDE DEF i, j
<1>6. i \in Nat /\ i + 1 \in Nat /\ i \in 0 .. r.n /\ i + 1 \in 0 .. r.n /\ j \in 0 .. Slots - 1
  BY <1>1, <1>2 DEF SlotNums
<1>7. k < r.head <=> (i < p \/ (i = p /\ j < h))
  <2>1. i * Slots + j < p * Slots + h <=> (i < p \/ (i = p /\ j < h))
    BY Zenon, <1>1, <1>3, <1>6, Order
  <2>. QED BY Zenon, <2>1, <1>2, <1>3
<1>8. SlotAt(g, k + Slots) = g.buf[i + 1][j]
  <2>1. ((i + 1) * Slots + j) \div Slots = i + 1 /\ ((i + 1) * Slots + j) % Slots = j
    BY ZenonT(30), <1>1, <1>6, Unsplit
  <2>2. k + Slots = (i + 1) * Slots + j
    BY <1>1, <1>2, <1>6
  <2>. QED BY Zenon, <2>1, <2>2 DEF SlotAt
<1>9. k < r.head => SlotAt(g, k) = SlotAt(r, k)
  BY Zenon, <1>2, <1>4, <1>5, <1>6, <1>7
<1>10. ASSUME k >= r.head PROVE SlotAt(g, k + Slots) = SlotAt(r, k)
  <2>1. ~ (k < r.head)
    BY <1>10, <1>1
  <2>2. i + 1 > p + 1 \/ (i + 1 = p + 1 /\ j >= h)
    BY <2>1, <1>1, <1>3, <1>6, <1>7
  <2>3. g.buf[i + 1][j] = r.buf[i + 1 - 1][j]
    BY <2>2, <1>2, <1>4, <1>6
  <2>4. i + 1 - 1 = i
    BY <1>6
  <2>. QED BY Zenon, <2>3, <2>4, <1>2, <1>8
<1>. QED BY Zenon, <1>9, <1>10 DEF g

(* A bucket that grows keeps its queue.                                     *)
LEMMA GrownIdle ==
    ASSUME NEW r, BucketOK(r)
    PROVE  IdleOf(Grown(r)) = IdleOf(r)
<1>. DEFINE g == Grown(r)
<1>1. CASE ~Grows(r)
  BY Zenon, <1>1 DEF Grown
<1>2. CASE Grows(r)
  <2>1. /\ BucketOK(g) /\ g.n # 0 /\ ~g.full /\ g = makeBuffer(r) /\ g.n = r.n + 1
    BY Zenon, <1>2, GrownOK DEF Grown
  <2>2. /\ g.head = r.head /\ g.empty = r.empty
        /\ g.tail = (r.tail + Slots) % (CurrentMax(r) + Slots)
    BY <2>1, MakeBufferIs DEF BucketOK
  <2>. HIDE DEF g
  <2>3. CASE r.n = 0
    <3>1. r.empty /\ g.empty
      BY Zenon, <2>3, <2>2, RingNumbers
    <3>2. size(r) = 0 /\ size(g) = 0
      BY Zenon, <3>1, <2>1, SizeIs
    <3>3. /\ IdleOf(r) \in Seq(Nat) /\ Len(IdleOf(r)) = 0
          /\ IdleOf(g) \in Seq(Nat) /\ Len(IdleOf(g)) = 0
      BY Zenon, <3>2, <2>1, IdleSeq
    <3>4. \A k \in 1 .. 0 : IdleOf(g)[k] = IdleOf(r)[k]
      OBVIOUS
    <3>. QED BY Zenon, <3>3, <3>4, SameSeq DEF g
  <2>4. CASE r.n # 0
    <3>. DEFINE m == CurrentMax(r)
    <3>1. /\ r.full /\ r.head = r.tail /\ r.head \in Nat /\ r.head < m /\ m \in Nat \ {0}
          /\ Slots \in Nat \ {0} /\ r.n \in Nat
      BY Zenon, <1>2, <2>4, RingNumbers DEF Grows
    <3>2. CurrentMax(g) = m + Slots
      BY <3>1, <2>1 DEF CurrentMax
    <3>. HIDE DEF m
    <3>3. g.tail = r.head + Slots
      <4>. DEFINE M == m + Slots
                  x == r.tail + Slots
      <4>1. M \in Nat \ {0} /\ x \in Nat /\ x < M + M /\ x < M
        BY <3>1
      <4>. HIDE DEF M, x
      <4>2. x % M = x
        BY Zenon, <4>1, Wrap
      <4>. QED BY Zenon, <4>2, <3>1, <2>2 DEF M, x, m
    <3>4. size(r) = m /\ size(g) = m
      <4>1. size(r) = m
        BY Zenon, <3>1 DEF size, m
      <4>2. ~ (g.head >= g.tail)
        BY <3>1, <3>3, <2>2
      <4>3. size(g) = CurrentMax(g) - (g.tail - g.head)
        BY Zenon, <4>2, <2>1 DEF size
      <4>. QED BY <4>1, <4>3, <3>1, <3>2, <3>3, <2>2
    <3>5. /\ IdleOf(r) \in Seq(Nat) /\ Len(IdleOf(r)) = m
          /\ IdleOf(g) \in Seq(Nat) /\ Len(IdleOf(g)) = m
          /\ \A k \in 1 .. m : /\ IdleOf(r)[k] = SlotAt(r, Pos(r, k))
                               /\ IdleOf(g)[k] = SlotAt(g, Pos(g, k))
      BY Zenon, <3>4, <2>1, IdleSeq
    <3>6. ASSUME NEW k \in 1 .. m PROVE IdleOf(g)[k] = IdleOf(r)[k]
      <4>1. k \in 1 .. CurrentMax(r) /\ k \in 1 .. CurrentMax(g) /\ k \in Nat
        BY <3>1, <3>2 DEF m
      <4>2. /\ Pos(r, k) = IF r.head + k - 1 < m THEN r.head + k - 1 ELSE r.head + k - 1 - m
            /\ Pos(r, k) \in 0 .. m - 1
        BY Zenon, <4>1, <3>1, PosIs DEF m
      <4>3. Pos(g, k) = IF g.tail + k - 1 < CurrentMax(g) THEN g.tail + k - 1
                        ELSE g.tail + k - 1 - CurrentMax(g)
        BY Zenon, <4>1, <2>1, PosIs
      <4>4. Pos(g, k) = IF r.head + k - 1 < m THEN Pos(r, k) + Slots ELSE Pos(r, k)
        BY <4>1, <4>2, <4>3, <3>1, <3>2, <3>3
      <4>5. Pos(r, k) >= r.head <=> r.head + k - 1 < m
        BY <4>1, <4>2, <3>1
      <4>6. /\ Pos(r, k) < r.head => SlotAt(g, Pos(r, k)) = SlotAt(r, Pos(r, k))
            /\ Pos(r, k) >= r.head => SlotAt(g, Pos(r, k) + Slots) = SlotAt(r, Pos(r, k))
        BY Zenon, <4>2, <2>1, <2>4, MakeBufferSlots DEF m
      <4>7. SlotAt(g, Pos(g, k)) = SlotAt(r, Pos(r, k))
        <5>1. CASE r.head + k - 1 < m
          BY Zenon, <5>1, <4>4, <4>5, <4>6
        <5>2. CASE ~ (r.head + k - 1 < m)
          <6>1. Pos(r, k) < r.head
            BY <5>2, <4>2, <4>5, <3>1
          <6>. QED BY Zenon, <6>1, <5>2, <4>4, <4>6
        <5>. QED BY Zenon, <5>1, <5>2
      <4>. QED BY Zenon, <4>7, <3>5
    <3>. QED BY Zenon, <3>5, <3>6, SameSeq DEF g
  <2>. QED BY Zenon, <2>3, <2>4
<1>. QED BY Zenon, <1>1, <1>2

(* put joins the end of the queue.                                          *)
LEMMA PutIdle ==
    ASSUME NEW r, BucketOK(r), NEW o \in Nat \ {Null}, o \notin Objs(r)
    PROVE  IdleOf(putNoLock(r, o)) = Append(IdleOf(r), o)
<1>. DEFINE g == Grown(r)
            q == putNoLock(r, o)
            m == CurrentMax(g)
            z == size(g)
<1>1. BucketOK(g) /\ g.n # 0 /\ ~g.full /\ IdleOf(g) = IdleOf(r)
  BY Zenon, GrownOK, GrownIdle
<1>2. /\ BucketOK(q) /\ q.tail = g.tail /\ q.n = g.n /\ (q.full <=> q.head = g.tail)
      /\ q.head = IF g.head + 1 = m THEN 0 ELSE g.head + 1
      /\ \A k \in 0 .. m - 1 : SlotAt(q, k) = IF k = g.head THEN o ELSE SlotAt(g, k)
  BY Zenon, PutOK
<1>. HIDE DEF g, q
<1>3. /\ g.head \in Nat /\ g.tail \in Nat /\ g.head < m /\ g.tail < m /\ m \in Nat \ {0}
  BY Zenon, <1>1, RingNumbers
<1>4. CurrentMax(q) = m
  BY Zenon, <1>2 DEF CurrentMax
<1>5. z = IF g.head >= g.tail THEN g.head - g.tail ELSE m - (g.tail - g.head)
  BY Zenon, <1>1 DEF size
<1>6. size(q) = z + 1 /\ z \in Nat /\ z < m
  <2>1. size(q) = IF q.full THEN m ELSE IF q.head >= g.tail THEN q.head - g.tail ELSE m - (g.tail - q.head)
    BY Zenon, <1>2, <1>4 DEF size
  <2>. HIDE DEF m, z
  <2>2. CASE q.full
    <3>1. q.head = g.tail
      BY Zenon, <2>2, <1>2
    <3>2. size(q) = m /\ g.tail = IF g.head + 1 = m THEN 0 ELSE g.head + 1
      BY Zenon, <3>1, <2>1, <2>2, <1>2
    <3>. QED BY <3>2, <1>3, <1>5
  <2>3. CASE ~q.full
    <3>1. q.head # g.tail
      BY Zenon, <2>3, <1>2
    <3>. QED BY <3>1, <2>1, <2>3, <1>2, <1>3, <1>5
  <2>. QED BY Zenon, <2>2, <2>3
<1>7. /\ IdleOf(g) \in Seq(Nat) /\ Len(IdleOf(g)) = z
      /\ \A k \in 1 .. z : IdleOf(g)[k] = SlotAt(g, Pos(g, k))
  BY Zenon, <1>1, IdleSeq
<1>8. /\ IdleOf(q) \in Seq(Nat) /\ Len(IdleOf(q)) = z + 1
      /\ \A k \in 1 .. z + 1 : IdleOf(q)[k] = SlotAt(q, Pos(q, k))
  BY Zenon, <1>2, <1>6, IdleSeq
<1>9. ASSUME NEW k \in 1 .. z + 1
      PROVE  /\ Pos(q, k) = Pos(g, k) /\ Pos(g, k) \in 0 .. m - 1
             /\ Pos(g, k) = g.head <=> k = z + 1
  <2>1. Pos(q, k) = Pos(g, k)
    BY Zenon, <1>2, <1>4 DEF Pos
  <2>2. k \in 1 .. m
    BY <1>3, <1>6
  <2>3. /\ Pos(g, k) = IF g.tail + k - 1 < m THEN g.tail + k - 1 ELSE g.tail + k - 1 - m
        /\ Pos(g, k) \in 0 .. m - 1
    BY Zenon, <2>2, <1>1, PosIs
  <2>. HIDE DEF m, z
  <2>4. Pos(g, k) = g.head <=> k = z + 1
    BY <2>2, <2>3, <1>3, <1>5, <1>6
  <2>. QED BY Zenon, <2>1, <2>3, <2>4
<1>. HIDE DEF m, z
<1>10. \A k \in 1 .. z : IdleOf(q)[k] = IdleOf(g)[k]
  <2>. TAKE k \in 1 .. z
  <2>1. k \in 1 .. z + 1 /\ k # z + 1
    BY <1>6
  <2>. QED BY <2>1, <1>2, <1>7, <1>8, <1>9
<1>11. IdleOf(q)[z + 1] = o
  <2>1. z + 1 \in 1 .. z + 1
    BY <1>6
  <2>. QED BY <2>1, <1>2, <1>8, <1>9
<1>12. IdleOf(q) = Append(IdleOf(g), o)
  BY Zenon, <1>7, <1>8, <1>10, <1>11, IsAppend
<1>. QED BY Zenon, <1>1, <1>12 DEF q

(* get takes the first of the queue.                                        *)
LEMMA GetIdle ==
    ASSUME NEW r, BucketOK(r), ~r.empty
    PROVE  /\ IdleOf(r) # <<>> /\ Head(IdleOf(r)) = SlotAt(r, r.tail)
           /\ IdleOf(getNoLock(r)) = Tail(IdleOf(r))
<1>. DEFINE q == getNoLock(r)
            m == CurrentMax(r)
            z == size(q)
<1>1. /\ BucketOK(q) /\ q.n = r.n /\ q.head = r.head /\ ~q.full
      /\ q.tail = IF r.tail + 1 = m THEN 0 ELSE r.tail + 1
      /\ \A k \in 0 .. m - 1 : SlotAt(q, k) = IF k = r.tail THEN Null ELSE SlotAt(r, k)
  BY Zenon, GetOK
<1>. HIDE DEF q
<1>2. /\ r.head \in Nat /\ r.tail \in Nat /\ r.head < m /\ r.tail < m /\ m \in Nat \ {0}
      /\ r.full => r.head = r.tail
      /\ ~r.full => r.head # r.tail
  BY Zenon, RingNumbers
<1>3. CurrentMax(q) = m
  BY Zenon, <1>1 DEF CurrentMax
<1>4. size(r) = z + 1 /\ z \in Nat /\ z < m
  <2>1. z = IF q.head >= q.tail THEN q.head - q.tail ELSE m - (q.tail - q.head)
    BY Zenon, <1>1, <1>3 DEF size
  <2>2. size(r) = IF r.full THEN m ELSE IF r.head >= r.tail THEN r.head - r.tail ELSE m - (r.tail - r.head)
    BY Zenon DEF size
  <2>. HIDE DEF m, z
  <2>3. CASE r.full
    BY <2>1, <2>2, <2>3, <1>1, <1>2
  <2>4. CASE ~r.full
    BY <2>1, <2>2, <2>4, <1>1, <1>2
  <2>. QED BY Zenon, <2>3, <2>4
<1>5. /\ IdleOf(r) \in Seq(Nat) /\ Len(IdleOf(r)) = z + 1
      /\ \A k \in 1 .. z + 1 : IdleOf(r)[k] = SlotAt(r, Pos(r, k))
  BY Zenon, <1>4, IdleSeq
<1>6. /\ IdleOf(q) \in Seq(Nat) /\ Len(IdleOf(q)) = z
      /\ \A k \in 1 .. z : IdleOf(q)[k] = SlotAt(q, Pos(q, k))
  BY Zenon, <1>1, IdleSeq
<1>7. ASSUME NEW k \in 1 .. z
      PROVE  Pos(q, k) = Pos(r, k + 1) /\ Pos(q, k) \in 0 .. m - 1 /\ Pos(q, k) # r.tail
  <2>1. k \in 1 .. m /\ k + 1 \in 1 .. m /\ k \in 1 .. CurrentMax(q) /\ k \in Nat
    BY <1>2, <1>3, <1>4
  <2>2. /\ Pos(q, k) = IF q.tail + k - 1 < m THEN q.tail + k - 1 ELSE q.tail + k - 1 - m
        /\ Pos(q, k) \in 0 .. m - 1
    BY Zenon, <2>1, <1>1, <1>3, PosIs
  <2>3. Pos(r, k + 1) = IF r.tail + (k + 1) - 1 < m THEN r.tail + (k + 1) - 1
                        ELSE r.tail + (k + 1) - 1 - m
    BY Zenon, <2>1, PosIs
  <2>. HIDE DEF m, z
  <2>. QED BY <2>1, <2>2, <2>3, <1>1, <1>2, <1>4
<1>8. Pos(r, 1) = r.tail
  <2>1. 1 \in 1 .. m
    BY <1>2
  <2>2. Pos(r, 1) = IF r.tail + 1 - 1 < m THEN r.tail + 1 - 1 ELSE r.tail + 1 - 1 - m
    BY Zenon, <2>1, PosIs
  <2>. QED BY <2>2, <1>2
<1>. HIDE DEF m, z
<1>9. \A k \in 1 .. z : IdleOf(q)[k] = IdleOf(r)[k + 1]
  <2>. TAKE k \in 1 .. z
  <2>1. k + 1 \in 1 .. z + 1
    BY <1>4
  <2>. QED BY Zenon, <2>1, <1>1, <1>5, <1>6, <1>7
<1>10. IdleOf(r) # <<>> /\ Head(IdleOf(r)) = IdleOf(r)[1] /\ IdleOf(q) = Tail(IdleOf(r))
  BY Zenon, <1>5, <1>6, <1>9, IsTail
<1>11. IdleOf(r)[1] = SlotAt(r, r.tail)
  <2>1. 1 \in 1 .. z + 1
    BY <1>4
  <2>. QED BY Zenon, <2>1, <1>5, <1>8
<1>. QED BY Zenon, <1>10, <1>11 DEF q

-----------------------------------------------------------------------------
(* The pool and the queues.                                                 *)

(* Every object has a stamp, and put goes to the bucket that it names.      *)
HomeInv ==
    /\ DOMAIN stamp = Objects
    /\ \A u \in Users : pc[u] = "putlock" => loc[u].b = StampBucket(stamp[loc[u].obj])

(* Every step of every thread keeps HomeInv.                                *)
LEMMA HomeNext == PoolInv /\ HomeInv /\ [Next]_poolVars => HomeInv'
<1>. SUFFICES ASSUME PoolInv, HomeInv, [Next]_poolVars PROVE HomeInv'
  BY Zenon
<1>1. PoolTypes /\ Locals
  BY Zenon DEF PoolInv
<1>2. ASSUME Abort PROVE HomeInv'
  BY Zenon, <1>2 DEF Abort, HomeInv, Objects
<1>3. ASSUME NEW u \in Users, UserStep(u) PROVE HomeInv'
  <2>1. CASE GetCounter(u) \/ BumpCounter(u) \/ GetLock(u)
    <3>1. /\ stamp' = stamp /\ made' = made
          /\ pc'[u] # "putlock"
          /\ \A v \in Users : v # u => pc'[v] = pc[v] /\ loc'[v] = loc[v]
      BY Zenon, <2>1, <1>1 DEF GetCounter, BumpCounter, GetLock, Goto, PoolTypes
    <3>. QED BY Zenon, <3>1 DEF HomeInv, Objects
  <2>2. CASE Make(u)
    <3>1. CASE loc[u].left = 0
      <4>1. /\ stamp' = stamp /\ made' = made /\ loc' = loc
            /\ pc'[u] # "putlock" /\ \A v \in Users : v # u => pc'[v] = pc[v]
        BY Zenon, <2>2, <3>1, <1>1 DEF Make, Goto, PoolTypes
      <4>. QED BY Zenon, <4>1 DEF HomeInv, Objects
    <3>2. CASE loc[u].left # 0 /\ ~putAborts(bk[loc[u].b])
      <4>1. /\ made' = made + 1 /\ DOMAIN stamp' = 1 .. made + 1
            /\ \A o \in Objects : stamp'[o] = stamp[o]
            /\ pc' = pc /\ pc[u] = "make"
            /\ \A v \in Users : v # u => loc'[v] = loc[v]
        <5>1. made \in Nat
          BY Zenon, <1>1 DEF PoolTypes
        <5>2. \A o \in Objects : o \in 1 .. made + 1 /\ o # made + 1
          BY <5>1 DEF Objects
        <5>. QED BY Zenon, <5>2, <2>2, <3>2, <1>1 DEF Make, PoolTypes
      <4>2. \A v \in Users : pc[v] = "putlock" => loc[v].obj \in Objects
        BY Zenon, <1>1 DEF Locals
      <4>. QED BY <4>1, <4>2 DEF HomeInv, Objects
    <3>3. CASE loc[u].left # 0 /\ putAborts(bk[loc[u].b])
      BY Zenon, <3>3, <2>2, <1>2 DEF Make
    <3>. QED BY Zenon, <3>1, <3>2, <3>3
  <2>3. CASE Take(u)
    <3>1. CASE ~getAborts(bk[loc[u].b])
      <4>1. /\ stamp' = stamp /\ made' = made
            /\ pc'[u] # "putlock"
            /\ \A v \in Users : v # u => pc'[v] = pc[v] /\ loc'[v] = loc[v]
        BY Zenon, <2>3, <3>1, <1>1 DEF Take, Goto, PoolTypes
      <4>. QED BY Zenon, <4>1 DEF HomeInv, Objects
    <3>2. CASE getAborts(bk[loc[u].b])
      BY Zenon, <3>2, <2>3, <1>2 DEF Take
    <3>. QED BY Zenon, <3>1, <3>2
  <2>4. CASE Put(u)
    <3>1. PICK o \in held[u] :
            IF StampSize(stamp[o]) # ObjSize \/ StampBucket(stamp[o]) >= Buckets THEN Abort
            ELSE /\ held' = [held EXCEPT ![u] = @ \ {o}]
                 /\ loc' = [loc EXCEPT ![u].b = StampBucket(stamp[o]), ![u].obj = o]
                 /\ Goto(u, "putlock")
                 /\ UNCHANGED <<counter, bk, lock, made, stamp, aborted>>
      BY Zenon, <2>4 DEF Put
    <3>2. CASE ~Abort
      <4>1. /\ stamp' = stamp /\ made' = made
            /\ loc' = [loc EXCEPT ![u].b = StampBucket(stamp[o]), ![u].obj = o]
            /\ pc' = [pc EXCEPT ![u] = "putlock"]
        BY Zenon, <3>1, <3>2 DEF Goto
      <4>2. /\ loc'[u].b = StampBucket(stamp[o]) /\ loc'[u].obj = o
            /\ \A v \in Users : v # u => pc'[v] = pc[v] /\ loc'[v] = loc[v]
        BY Zenon, <4>1, <1>1 DEF PoolTypes
      <4>. QED BY ZenonT(30), <4>1, <4>2 DEF HomeInv, Objects
    <3>. QED BY Zenon, <3>2, <1>2
  <2>5. CASE PutLock(u)
    <3>1. CASE ~putAborts(bk[loc[u].b])
      <4>1. /\ stamp' = stamp /\ made' = made
            /\ pc'[u] # "putlock"
            /\ \A v \in Users : v # u => pc'[v] = pc[v] /\ loc'[v] = loc[v]
        BY Zenon, <2>5, <3>1, <1>1 DEF PutLock, Goto, PoolTypes
      <4>. QED BY Zenon, <4>1 DEF HomeInv, Objects
    <3>2. CASE putAborts(bk[loc[u].b])
      BY Zenon, <3>2, <2>5, <1>2 DEF PutLock
    <3>. QED BY Zenon, <3>1, <3>2
  <2>. QED BY Zenon, <1>3, <2>1, <2>2, <2>3, <2>4, <2>5 DEF UserStep
<1>4. CASE UNCHANGED poolVars
  BY Zenon, <1>4 DEF poolVars, HomeInv, Objects
<1>. QED BY Zenon, <1>3, <1>4 DEF Next

(* Every object keeps its stamp, and a put under way goes where it says.    *)
THEOREM HomeInvariant == Spec => []HomeInv
<1>1. Init => HomeInv
  BY DEF Init, HomeInv, Objects
<1>. QED BY <1>1, HomeNext, PoolInvariant, PTL DEF Spec

(* The refinement mapping of RefinesQueues.                                 *)
queueBar == [b \in BucketNums |-> Idle(b)]
homeBar == [o \in DOMAIN stamp |-> StampBucket(stamp[o])]
handsBar == [u \in Users |-> held[u] \cup (IF pc[u] = "putlock" THEN {loc[u].obj} ELSE {})]

(* The queue of a bucket is that of its ring.                               *)
LEMMA IdleIs == \A b : Idle(b) = IdleOf(bk[b])
  BY Zenon DEF Idle, IdleOf, Pos

(* The homes read from the stamps are one for each object made.             *)
LEMMA HomeSeq ==
    ASSUME PoolInv, HomeInv
    PROVE  /\ homeBar \in Seq(Nat) /\ Len(homeBar) = made /\ made \in Nat
           /\ \A o \in Objects : homeBar[o] = StampBucket(stamp[o])
<1>1. made \in Nat /\ DOMAIN stamp = 1 .. made
  BY Zenon DEF PoolInv, PoolTypes, HomeInv, Objects
<1>2. \A o \in 1 .. made : StampBucket(stamp[o]) \in Nat
  <2>. TAKE o \in 1 .. made
  <2>1. PICK b \in BucketNums : stamp[o] = makeStamp(b, ObjSize)
    BY Zenon DEF PoolInv, Stamped, Objects
  <2>2. StampBucket(stamp[o]) = b
    BY Zenon, <2>1, StampRead
  <2>. QED BY <2>2, PoolAssumption DEF BucketNums
<1>3. homeBar \in [1 .. made -> Nat]
  BY Zenon, <1>1, <1>2 DEF homeBar
<1>. QED BY Zenon, <1>1, <1>3, SeqOf DEF homeBar, Objects

(* An empty pool is empty queues.                                           *)
LEMMA RefineInit == Init => Q!Init
<1>. SUFFICES ASSUME Init PROVE Q!Init
  BY Zenon
<1>1. PoolInv /\ HomeInv
  BY PoolInit DEF Init, HomeInv, Objects
<1>2. homeBar = <<>>
  <2>1. homeBar \in Seq(Nat) /\ Len(homeBar) = 0
    BY Zenon, <1>1, HomeSeq DEF Init
  <2>. QED BY Zenon, <2>1, NoSeq
<1>3. queueBar = [b \in BucketNums |-> <<>>]
  <2>. SUFFICES ASSUME NEW b \in BucketNums PROVE IdleOf(bk[b]) = <<>>
    BY Zenon, IdleIs DEF queueBar
  <2>1. BucketOK(bk[b]) /\ bk[b].empty
    BY Zenon, NewBucketOK DEF Init, NewBucket
  <2>2. IdleOf(bk[b]) \in Seq(Nat) /\ Len(IdleOf(bk[b])) = 0
    BY Zenon, <2>1, IdleSeq, SizeIs
  <2>. QED BY Zenon, <2>2, NoSeq
<1>4. handsBar = [u \in Users |-> {}]
  BY Zenon DEF Init, handsBar
<1>. QED BY Zenon, <1>2, <1>3, <1>4 DEF Q!Init, queueBar, homeBar, handsBar

(* A new object joins the queue of its bucket.                              *)
LEMMA MakeRefines ==
    ASSUME PoolInv, HomeInv, PoolInv', HomeInv', NEW u \in Users, Make(u),
           loc[u].left # 0, ~putAborts(bk[loc[u].b])
    PROVE  Q!New(loc[u].b) /\ loc[u].b \in BucketNums
<1>. DEFINE b == loc[u].b
            o == made + 1
<1>1. PoolTypes /\ Rings /\ Locals /\ pc[u] = "make"
  BY Zenon DEF PoolInv, Make
<1>2. b \in BucketNums /\ b \in Nat /\ made \in Nat /\ o \in Nat \ {Null} /\ o \notin Objects
  BY <1>1, PoolAssumption DEF Locals, BucketNums, PoolTypes, Objects, Null
<1>3. BucketOK(bk[b]) /\ o \notin Objs(bk[b])
  BY Zenon, <1>1, <1>2 DEF Rings
<1>4. /\ made' = o /\ bk' = [bk EXCEPT ![b] = putNoLock(@, o)]
      /\ loc' = [loc EXCEPT ![u].left = @ - 1]
      /\ stamp' = [x \in 1 .. o |-> IF x = o THEN makeStamp(b, ObjSize) ELSE stamp[x]]
      /\ pc' = pc /\ held' = held
  BY Zenon DEF Make
<1>5. IdleOf(putNoLock(bk[b], o)) = Append(IdleOf(bk[b]), o)
  BY Zenon, <1>2, <1>3, PutIdle
<1>6. /\ homeBar \in Seq(Nat) /\ Len(homeBar) = made
      /\ \A x \in Objects : homeBar[x] = StampBucket(stamp[x])
  BY Zenon, HomeSeq
<1>7. /\ homeBar' \in Seq(Nat) /\ Len(homeBar') = made'
      /\ \A x \in Objects' : homeBar'[x] = StampBucket(stamp'[x])
  <2>1. DOMAIN stamp' = 1 .. made' /\ made' \in Nat
    BY Zenon, <1>2, <1>4
  <2>2. \A x \in 1 .. made' : StampBucket(stamp'[x]) \in Nat
    <3>. TAKE x \in 1 .. made'
    <3>1. PICK c \in BucketNums : stamp'[x] = makeStamp(c, ObjSize)
      BY Zenon DEF PoolInv, Stamped, Objects
    <3>2. StampBucket(stamp'[x]) = c
      BY Zenon, <3>1, StampRead
    <3>. QED BY <3>2, PoolAssumption DEF BucketNums
  <2>3. homeBar' \in [1 .. made' -> Nat]
    BY Zenon, <2>1, <2>2 DEF homeBar
  <2>. QED BY Zenon, <2>1, <2>3, SeqOf DEF homeBar, Objects
<1>. HIDE DEF b, o
<1>8. homeBar' = Append(homeBar, b)
  <2>1. \A x \in 1 .. made : homeBar'[x] = homeBar[x]
    <3>. TAKE x \in 1 .. made
    <3>1. x \in Objects /\ x \in Objects' /\ x \in 1 .. o /\ x # o
      BY <1>2, <1>4 DEF Objects, o
    <3>2. stamp'[x] = stamp[x]
      BY Zenon, <3>1, <1>4
    <3>. QED BY Zenon, <3>1, <3>2, <1>6, <1>7
  <2>2. homeBar'[made + 1] = b
    <3>1. o \in Objects' /\ o \in 1 .. o
      BY <1>2, <1>4 DEF Objects, o
    <3>2. stamp'[o] = makeStamp(b, ObjSize)
      BY Zenon, <3>1, <1>4
    <3>3. homeBar'[o] = b
      BY Zenon, <3>1, <3>2, <1>2, <1>7, StampRead
    <3>. QED BY Zenon, <3>3 DEF o
  <2>3. Len(homeBar') = Len(homeBar) + 1
    BY Zenon, <1>4, <1>6, <1>7 DEF o
  <2>. QED BY Zenon, <2>1, <2>2, <2>3, <1>2, <1>6, <1>7, IsAppend
<1>9. queueBar' = [queueBar EXCEPT ![b] = Append(@, Len(homeBar) + 1)]
  <2>1. \A c \in BucketNums : bk'[c] = IF c = b THEN putNoLock(bk[b], o) ELSE bk[c]
    BY Zenon, <1>1, <1>2, <1>4 DEF PoolTypes
  <2>2. \A c \in BucketNums : Idle(c)' = IF c = b THEN Append(Idle(b), o) ELSE Idle(c)
    <3>. TAKE c \in BucketNums
    <3>1. Idle(c)' = IdleOf(bk'[c]) /\ Idle(c) = IdleOf(bk[c]) /\ Idle(b) = IdleOf(bk[b])
      BY Zenon DEF Idle, IdleOf, Pos
    <3>. QED BY ZenonT(30), <3>1, <2>1, <1>5
  <2>3. o = Len(homeBar) + 1
    BY Zenon, <1>6 DEF o
  <2>. QED BY ZenonT(30), <2>2, <2>3, <1>2 DEF queueBar
<1>10. handsBar' = handsBar
  <2>1. \A v \in Users : pc[v] = "putlock" => loc'[v].obj = loc[v].obj
    BY Zenon, <1>1, <1>4 DEF PoolTypes
  <2>. QED BY Zenon, <2>1, <1>4 DEF handsBar
<1>11. Q!New(b)
  BY ZenonT(30), <1>8, <1>9, <1>10 DEF Q!New, queueBar, homeBar, handsBar
<1>. QED BY Zenon, <1>2, <1>11 DEF b

(* A user leaves with the oldest idle object of the bucket.                 *)
LEMMA TakeRefines ==
    ASSUME PoolInv, NEW u \in Users, Take(u)
    PROVE  \E b \in BucketNums : Q!Take(u, b)
<1>0. PICK b \in BucketNums : b = loc[u].b
  BY Zenon DEF PoolInv, Locals, Take
<1>. DEFINE o == SlotAt(bk[b], bk[b].tail)
<1>1. PoolTypes /\ Locals /\ Rings /\ pc[u] = "take"
  BY Zenon DEF PoolInv, Take
<1>2. b \in BucketNums /\ ~bk[b].empty
  BY Zenon, <1>0, <1>1 DEF Locals
<1>3. BucketOK(bk[b])
  BY Zenon, <1>1, <1>2 DEF Rings
<1>4. ~getAborts(bk[b])
  BY Zenon, <1>2, <1>3, GetOK
<1>5. /\ held' = [held EXCEPT ![u] = @ \cup {o}] /\ bk' = [bk EXCEPT ![b] = getNoLock(@)]
      /\ loc' = [loc EXCEPT ![u] = NoLocals] /\ pc' = [pc EXCEPT ![u] = "idle"]
      /\ stamp' = stamp
  BY Zenon, <1>0, <1>4 DEF Take, Goto
<1>6. /\ IdleOf(bk[b]) # <<>> /\ Head(IdleOf(bk[b])) = o
      /\ IdleOf(getNoLock(bk[b])) = Tail(IdleOf(bk[b]))
  BY Zenon, <1>2, <1>3, GetIdle
<1>. HIDE DEF o
<1>7. queueBar[b] # <<>> /\ Head(queueBar[b]) = o
  BY Zenon, <1>2, <1>6, IdleIs DEF queueBar
<1>8. queueBar' = [queueBar EXCEPT ![b] = Tail(@)]
  <2>1. \A c \in BucketNums : bk'[c] = IF c = b THEN getNoLock(bk[b]) ELSE bk[c]
    BY Zenon, <1>1, <1>2, <1>5 DEF PoolTypes
  <2>2. \A c \in BucketNums : Idle(c)' = IF c = b THEN Tail(Idle(b)) ELSE Idle(c)
    <3>. TAKE c \in BucketNums
    <3>1. Idle(c)' = IdleOf(bk'[c]) /\ Idle(c) = IdleOf(bk[c]) /\ Idle(b) = IdleOf(bk[b])
      BY Zenon DEF Idle, IdleOf, Pos
    <3>. QED BY ZenonT(30), <3>1, <2>1, <1>6
  <2>. QED BY ZenonT(30), <2>2, <1>2 DEF queueBar
<1>9. handsBar' = [handsBar EXCEPT ![u] = @ \cup {o}]
  <2>1. /\ handsBar'[u] = held[u] \cup {o} /\ handsBar[u] = held[u]
        /\ \A v \in Users : v # u => handsBar'[v] = handsBar[v]
    BY Zenon, <1>1, <1>5 DEF PoolTypes, handsBar
  <2>2. handsBar = [v \in Users |-> handsBar[v]] /\ handsBar' = [v \in Users |-> handsBar'[v]]
    BY Zenon DEF handsBar
  <2>. HIDE DEF handsBar
  <2>. QED BY Zenon, <2>1, <2>2
<1>10. homeBar' = homeBar
  BY Zenon, <1>5 DEF homeBar
<1>11. Q!Take(u, b)
  BY ZenonT(30), <1>7, <1>8, <1>9, <1>10 DEF Q!Take, queueBar, homeBar, handsBar
<1>. QED BY Zenon, <1>11

(* An object goes back to the bucket that its stamp names.                  *)
LEMMA GiveRefines ==
    ASSUME PoolInv, HomeInv, NEW u \in Users, PutLock(u), ~putAborts(bk[loc[u].b])
    PROVE  \E o \in 1 .. Len(homeBar) : Q!Give(u, o)
<1>. DEFINE b == loc[u].b
<1>0. PICK o \in Objects : o = loc[u].obj
  BY Zenon DEF PoolInv, Locals, PutLock
<1>1. PoolTypes /\ Locals /\ Rings /\ Apart /\ pc[u] = "putlock"
  BY Zenon DEF PoolInv, PutLock
<1>2. b \in BucketNums /\ o \in Objects /\ o \notin held[u]
  BY Zenon, <1>0, <1>1 DEF Locals
<1>3. o \in Nat \ {Null}
  BY <1>1, <1>2 DEF Objects, Null, PoolTypes
<1>4. BucketOK(bk[b]) /\ o \notin Objs(bk[b])
  <2>1. InHand(o, u)
    BY Zenon, <1>0, <1>1 DEF InHand
  <2>. QED BY Zenon, <2>1, <1>1, <1>2 DEF Rings, Apart
<1>5. /\ bk' = [bk EXCEPT ![b] = putNoLock(@, o)] /\ loc' = [loc EXCEPT ![u] = NoLocals]
      /\ pc' = [pc EXCEPT ![u] = "idle"] /\ stamp' = stamp /\ held' = held
  BY Zenon, <1>0 DEF PutLock, Goto
<1>6. IdleOf(putNoLock(bk[b], o)) = Append(IdleOf(bk[b]), o)
  BY Zenon, <1>3, <1>4, PutIdle
<1>7. Len(homeBar) = made /\ homeBar[o] = b
  BY Zenon, <1>0, <1>1, <1>2, HomeSeq DEF HomeInv
<1>. HIDE DEF b
<1>8. queueBar' = [queueBar EXCEPT ![homeBar[o]] = Append(@, o)]
  <2>1. \A c \in BucketNums : bk'[c] = IF c = b THEN putNoLock(bk[b], o) ELSE bk[c]
    BY Zenon, <1>1, <1>2, <1>5 DEF PoolTypes
  <2>2. \A c \in BucketNums : Idle(c)' = IF c = b THEN Append(Idle(b), o) ELSE Idle(c)
    <3>. TAKE c \in BucketNums
    <3>1. Idle(c)' = IdleOf(bk'[c]) /\ Idle(c) = IdleOf(bk[c]) /\ Idle(b) = IdleOf(bk[b])
      BY Zenon DEF Idle, IdleOf, Pos
    <3>. QED BY ZenonT(30), <3>1, <2>1, <1>6
  <2>. QED BY ZenonT(30), <2>2, <1>2, <1>7 DEF queueBar
<1>9. o \in handsBar[u] /\ handsBar' = [handsBar EXCEPT ![u] = @ \ {o}]
  <2>1. /\ handsBar'[u] = held[u] /\ handsBar[u] = held[u] \cup {o}
        /\ \A v \in Users : v # u => handsBar'[v] = handsBar[v]
    BY Zenon, <1>0, <1>1, <1>5 DEF PoolTypes, handsBar
  <2>2. handsBar = [v \in Users |-> handsBar[v]] /\ handsBar' = [v \in Users |-> handsBar'[v]]
    BY Zenon DEF handsBar
  <2>3. held[u] = (held[u] \cup {o}) \ {o}
    BY Zenon, <1>2
  <2>. HIDE DEF handsBar
  <2>. QED BY Zenon, <2>1, <2>2, <2>3
<1>10. homeBar' = homeBar
  BY Zenon, <1>5 DEF homeBar
<1>11. Q!Give(u, o)
  BY Zenon, <1>8, <1>9, <1>10 DEF Q!Give, queueBar, homeBar, handsBar
<1>12. o \in 1 .. Len(homeBar)
  BY Zenon, <1>2, <1>7 DEF Objects
<1>. QED BY Zenon, <1>11, <1>12

(* A step that touches neither a ring, nor a stamp, nor a hand.             *)
LEMMA Stutters ==
    ASSUME bk' = bk, stamp' = stamp, handsBar' = handsBar
    PROVE  UNCHANGED Q!vars
<1>1. queueBar' = queueBar
  BY Zenon DEF queueBar, Idle
<1>2. homeBar' = homeBar
  BY Zenon DEF homeBar
<1>. QED BY Zenon, <1>1, <1>2 DEF Q!vars, queueBar, homeBar, handsBar

(* put takes an object out of held and into the call: it stays in the hand. *)
LEMMA PutStutters ==
    ASSUME PoolInv, NEW u \in Users, Put(u)
    PROVE  UNCHANGED Q!vars
<1>1. PICK o \in held[u] :
        /\ pc[u] = "idle"
        /\ IF StampSize(stamp[o]) # ObjSize \/ StampBucket(stamp[o]) >= Buckets THEN Abort
           ELSE /\ held' = [held EXCEPT ![u] = @ \ {o}]
                /\ loc' = [loc EXCEPT ![u].b = StampBucket(stamp[o]), ![u].obj = o]
                /\ Goto(u, "putlock")
                /\ UNCHANGED <<counter, bk, lock, made, stamp, aborted>>
  BY Zenon DEF Put
<1>2. CASE Abort
  BY Zenon, <1>2, Stutters DEF Abort, handsBar
<1>3. CASE ~Abort
  <2>1. /\ held' = [held EXCEPT ![u] = @ \ {o}]
        /\ loc' = [loc EXCEPT ![u].b = StampBucket(stamp[o]), ![u].obj = o]
        /\ pc' = [pc EXCEPT ![u] = "putlock"]
        /\ bk' = bk /\ stamp' = stamp
    BY Zenon, <1>1, <1>3 DEF Goto
  <2>2. PoolTypes
    BY Zenon DEF PoolInv
  <2>3. /\ held'[u] = held[u] \ {o} /\ loc'[u].obj = o /\ pc'[u] = "putlock"
        /\ \A v \in Users : v # u => held'[v] = held[v] /\ loc'[v] = loc[v] /\ pc'[v] = pc[v]
    BY Zenon, <2>1, <2>2 DEF PoolTypes
  <2>4. (held[u] \ {o}) \cup {o} = held[u]
    BY Zenon
  <2>5. handsBar' = handsBar
    BY Zenon, <1>1, <2>3, <2>4 DEF handsBar
  <2>. QED BY Zenon, <2>1, <2>5, Stutters
<1>. QED BY Zenon, <1>2, <1>3

(* Every step of a thread is a step of the queues, or none.                 *)
LEMMA StepRefines ==
    PoolInv /\ HomeInv /\ PoolInv' /\ HomeInv' /\ [Next]_poolVars => [Q!Next]_(Q!vars)
<1>. SUFFICES ASSUME PoolInv, HomeInv, PoolInv', HomeInv', [Next]_poolVars
              PROVE  Q!Next \/ UNCHANGED Q!vars
  BY Zenon
<1>1. PoolTypes
  BY Zenon DEF PoolInv
<1>2. ASSUME Abort PROVE UNCHANGED Q!vars
  BY Zenon, <1>2, Stutters DEF Abort, handsBar
<1>3. ASSUME NEW u \in Users, UserStep(u) PROVE Q!Next \/ UNCHANGED Q!vars
  <2>1. CASE GetCounter(u) \/ BumpCounter(u) \/ GetLock(u)
    <3>1. /\ bk' = bk /\ stamp' = stamp /\ held' = held
          /\ pc[u] # "putlock" /\ pc'[u] # "putlock"
          /\ \A v \in Users : v # u => pc'[v] = pc[v] /\ loc'[v] = loc[v]
      BY Zenon, <2>1, <1>1 DEF GetCounter, BumpCounter, GetLock, Goto, PoolTypes
    <3>2. handsBar' = handsBar
      BY Zenon, <3>1 DEF handsBar
    <3>. QED BY Zenon, <3>1, <3>2, Stutters
  <2>2. CASE Make(u)
    <3>1. CASE loc[u].left = 0
      <4>1. /\ bk' = bk /\ stamp' = stamp /\ held' = held /\ loc' = loc
            /\ pc[u] # "putlock" /\ pc'[u] # "putlock"
            /\ \A v \in Users : v # u => pc'[v] = pc[v]
        BY Zenon, <2>2, <3>1, <1>1 DEF Make, Goto, PoolTypes
      <4>2. handsBar' = handsBar
        BY Zenon, <4>1 DEF handsBar
      <4>. QED BY Zenon, <4>1, <4>2, Stutters
    <3>2. CASE loc[u].left # 0 /\ ~putAborts(bk[loc[u].b])
      BY Zenon, <2>2, <3>2, MakeRefines DEF Q!Next
    <3>3. CASE loc[u].left # 0 /\ putAborts(bk[loc[u].b])
      BY Zenon, <3>3, <2>2, <1>2 DEF Make
    <3>. QED BY Zenon, <3>1, <3>2, <3>3
  <2>3. CASE Take(u)
    BY Zenon, <2>3, TakeRefines DEF Q!Next
  <2>4. CASE Put(u)
    BY Zenon, <2>4, PutStutters
  <2>5. CASE PutLock(u)
    <3>1. CASE ~putAborts(bk[loc[u].b])
      BY Zenon, <2>5, <3>1, GiveRefines DEF Q!Next, homeBar
    <3>2. CASE putAborts(bk[loc[u].b])
      BY Zenon, <3>2, <2>5, <1>2 DEF PutLock
    <3>. QED BY Zenon, <3>1, <3>2
  <2>. QED BY Zenon, <1>3, <2>1, <2>2, <2>3, <2>4, <2>5 DEF UserStep
<1>4. CASE UNCHANGED poolVars
  BY Zenon, <1>4, Stutters DEF poolVars, handsBar
<1>. QED BY Zenon, <1>3, <1>4 DEF Next

(* GeneralPool.h: whatever the threads do, every bucket of the pool is a    *)
(* first-in first-out queue; an object put back goes to the bucket it was   *)
(* made for, and get hands out the oldest.                                  *)
THEOREM PoolRefinesQueues == Spec => RefinesQueues
<1>. QED BY RefineInit, StepRefines, PoolInvariant, HomeInvariant, PTL
         DEF Spec, RefinesQueues, Q!Spec

-----------------------------------------------------------------------------
(* MemMgr: the pools behind operator new and delete.                        *)

(* The pools are small enough for the size field of a stamp.                *)
LEMMA PoolSizesFit ==
    /\ PoolSizes \subseteq Nat \ {0}
    /\ \A p \in PoolSizes : p < SizeBits
    /\ SizeBits \in Nat \ {0}
  BY SMT DEF PoolSizes, SizeBits

(* The chain of ifs of getMem: of the pools that are large enough there is  *)
(* a smallest one.                                                          *)
LEMMA SmallestPool ==
    ASSUME NEW sz \in Int, \E p \in PoolSizes : sz <= p
    PROVE  \E p \in PoolSizes : sz <= p /\ \A q \in PoolSizes : sz <= q => p <= q
  BY SMT DEF PoolSizes

(* putMem reads from a word what makeStamp wrote for a pool and a bucket.   *)
LEMMA PoolStampRead ==
    ASSUME NEW p \in PoolSizes, NEW b \in 0 .. 255
    PROVE  /\ StampSize(makeStamp(b, p)) = p
           /\ StampBucket(makeStamp(b, p)) = b
<1>1. SizeBits \in Nat \ {0} /\ p \in 0 .. SizeBits - 1 /\ b \in Nat /\ b \in 0 .. 256 - 1
  <2>1. p \in Nat /\ p < SizeBits /\ SizeBits \in Nat \ {0}
    BY Zenon, PoolSizesFit
  <2> QED BY <2>1
<1>2. (b * SizeBits + p) \div SizeBits = b /\ (b * SizeBits + p) % SizeBits = p
  BY Zenon, <1>1, Unsplit
<1>3. (0 * 256 + b) % 256 = b
  BY <1>1, Unsplit
<1>4. 0 * 256 + b = b
  BY <1>1
<1> QED BY Zenon, <1>2, <1>3, <1>4 DEF makeStamp, StampSize, StampBucket

(* free() gets the blocks of malloc: the word in front of them is no stamp. *)
LEMMA MallocWord == putMem(0) = Malloc
<1>1. StampSize(0) = 0
  BY SMT DEF StampSize, SizeBits
<1>2. 0 \notin PoolSizes
  BY Zenon, PoolSizesFit
<1> QED BY Zenon, <1>1, <1>2 DEF putMem

(* MemMgr, for every size, not only those around which getMem changes its   *)
(* mind: a block is large enough and goes back where it came from.          *)
LEMMA EveryBlockGoesHome ==
    ASSUME NEW sz \in Int, NEW before \in BOOLEAN, NEW after \in BOOLEAN, before => after,
           NEW home \in new(before, sz)
    PROVE  delete(after, WordOf(home)) = home /\ (home # Malloc => home.pool >= sz)
<1>1. CASE home = Malloc
  BY Zenon, <1>1, MallocWord DEF delete, WordOf
<1>2. CASE home # Malloc
  <2>1. before /\ after /\ home \in getMem(sz)
    BY Zenon, <1>2 DEF new
  <2> DEFINE fits == {p \in PoolSizes : sz <= p}
             least == CHOOSE p \in fits : \A q \in fits : p <= q
  <2>2. fits # {}
    BY Zenon, <2>1, <1>2 DEF getMem
  <2>3. PICK b \in 0 .. MaxPoolBuckets - 1 : home = [pool |-> least, bucket |-> b]
    BY Zenon, <2>1, <2>2 DEF getMem
  <2>4. \E p \in fits : \A q \in fits : p <= q
    BY Zenon, <2>2, SmallestPool
  <2>5. least \in fits
    BY Zenon, <2>4
  <2>6. home.pool \in PoolSizes /\ sz <= home.pool /\ home.bucket = b
    BY Zenon, <2>3, <2>5
  <2>7. b \in 0 .. 255
    BY <2>3, MemMgrAssumption
  <2>8. /\ WordOf(home) = makeStamp(home.bucket, home.pool)
        /\ StampSize(WordOf(home)) = home.pool /\ StampBucket(WordOf(home)) = b
    BY Zenon, <2>6, <2>7, <1>2, PoolStampRead DEF WordOf
  <2>9. delete(after, WordOf(home)) = home
    <3>1. putMem(WordOf(home)) = [pool |-> home.pool, bucket |-> b]
      BY Zenon, <2>6, <2>8 DEF putMem
    <3>2. home = [pool |-> home.pool, bucket |-> b]
      BY Zenon, <2>3
    <3> QED BY Zenon, <3>1, <3>2, <2>1 DEF delete
  <2>10. home.pool >= sz
    <3>1. home.pool \in Nat
      BY Zenon, <2>6, PoolSizesFit
    <3> QED BY <2>6, <3>1
  <2> QED BY Zenon, <2>9, <2>10
<1> QED BY Zenon, <1>1, <1>2

(* operator new and delete (MemMgr.cpp:49-249): a block is large enough,    *)
(* and delete gives it back to the pool and the bucket it came from, or to  *)
(* free(), for any number of buckets that a stamp can name.                 *)
THEOREM MemMgrBlocksGoHome == Spec => []BlocksGoHome
<1>1. EdgeSizes \subseteq Int
  BY PoolSizesFit DEF EdgeSizes
<1>2. BlocksGoHome
  BY Zenon, <1>1, EveryBlockGoesHome DEF BlocksGoHome
<1> QED BY <1>2, PTL
=============================================================================
