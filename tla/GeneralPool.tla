---------------------------- MODULE GeneralPool ----------------------------
(***************************************************************************)
(* GeneralPool<T, Alloc> (lib/common/GeneralPool.h) and its buckets        *)
(* (GeneralPoolBucket.h, GeneralPoolBuffer.h): the recycling pools behind  *)
(* every OffloadRqst and every SPDK I/O buffer.                            *)
(*                                                                         *)
(* A bucket is a ring of slots cut into buffers of MAX_BUFFER_SLOTS.  put  *)
(* writes at head, get reads at tail; a full bucket grows by one buffer,   *)
(* inserted at head, and an empty one makes quantInc new objects.  Objects *)
(* are numbered in the order they are made; 0 is the null pointer.  The    *)
(* mutex of a bucket is held from GetLock to Take, so the loop of make()   *)
(* is one step per object.  counter++ is not atomic: reading and writing   *)
(* it are two steps.                                                       *)
(***************************************************************************)
EXTENDS Integers, FiniteSets

CONSTANTS Users,       \* the threads that call get and put
          NoUser,      \* a mutex nobody holds
          Buckets,     \* MAX_POOL_BUCKETS
          Slots,       \* MAX_BUFFER_SLOTS
          MaxBuffers,  \* MAX_BUCKET_BUFFERS
          IncCount, MinInc, MaxInc,   \* the allocation strategy
          ObjSize,     \* Alloc::objectSize()
          CounterMod,  \* the width of counter, 2^32 in the code
          MaxMade      \* bound: no bucket starts to make objects beyond it

ASSUME PoolAssumption ==
    /\ NoUser \notin Users
    /\ Buckets \in Nat \ {0}
    /\ Slots \in Nat \ {0}
    /\ MaxBuffers \in Nat \ {0}
    /\ IncCount \in Nat /\ MinInc \in Nat \ {0} /\ MaxInc \in Nat \ {0}
    /\ ObjSize \in Nat \ {0}
    /\ CounterMod \in Nat \ {0}
    /\ MaxMade \in Nat

VARIABLES counter,  \* GeneralPool::counter
          bk,       \* the buckets, each a record of head, tail, full, empty, n, buf
          lock,     \* the mutex of each bucket: its holder, or NoUser
          made,     \* how many objects Alloc::New has made
          stamp,    \* object -> the word that make() stamped on it
          pc,       \* where each thread is
          loc,      \* its local variables: b (bucket), left (make), obj (put)
          held,     \* the objects each thread got and has not given back
          aborted   \* abort() was called

poolVars == <<counter, bk, lock, made, stamp, pc, loc, held, aborted>>

Null == 0
BucketNums == 0 .. Buckets - 1
SlotNums == 0 .. Slots - 1

(* The size of the increment: objectSize() units of IncCount, clamped. *)
setStrategy ==
    LET q == IncCount \div ObjSize
        q1 == IF q <= MinInc THEN MinInc ELSE q
    IN  IF q1 >= MaxInc THEN MaxInc ELSE q1

QuantInc == setStrategy

(* makeStamp: the number of the bucket above BUCKET_NUMBER_SHIFT bits of    *)
(* the size of its objects.                                                 *)
SizeBits == 16777216

(* MAX_POOL_BUCKETS is 64, and no object comes near the size field.         *)
ASSUME StampAssumption == Buckets <= 256 /\ ObjSize < SizeBits

makeStamp(b, sz) == b * SizeBits + sz

(* put and MemMgr::putMem take it apart again.                              *)
StampSize(w) == w % SizeBits

StampBucket(w) == (w \div SizeBits) % 256

------------------------------------------------------------------------------
(* The bucket, as functions of its record. *)

NewBucket == [head |-> 0, tail |-> 0, full |-> FALSE, empty |-> TRUE, n |-> 0,
              buf |-> [i \in {} |-> [j \in SlotNums |-> Null]]]

CurrentMax(r) == r.n * Slots

SlotAt(r, k) == r.buf[k \div Slots][k % Slots]

(* Mutant: the moved slots are copied to the new buffer and not zeroed.     *)
MutMakeBufferNoZeroOut(r) ==
    LET p == r.head \div Slots
        h == r.head % Slots
    IN  [r EXCEPT
           !.buf = [i \in 0 .. r.n |->
                      [j \in SlotNums |->
                         CASE i < p -> r.buf[i][j]
                           [] i = p -> IF j < h THEN r.buf[p][j] ELSE Null
                           [] i > p -> r.buf[i - 1][j]]],
           !.n = @ + 1,
           !.tail = (@ + Slots) % (CurrentMax(r) + Slots),
           !.full = FALSE]

(* makeBuffer: a zeroed buffer goes in at the buffer of head, the buffers   *)
(* from there on move up by one, and the slots below head of the moved      *)
(* buffer are relocated to the new one.                                     *)
makeBuffer(r) ==
    LET p == r.head \div Slots
        h == r.head % Slots
        max == CurrentMax(r) + Slots
    IN  [r EXCEPT
           !.buf = [i \in 0 .. r.n |->
                      [j \in SlotNums |->
                         CASE i < p -> r.buf[i][j]
                           [] i = p -> IF j < h THEN r.buf[p][j] ELSE Null
                           [] i = p + 1 -> IF j < h THEN Null ELSE r.buf[p][j]
                           [] i > p + 1 -> r.buf[i - 1][j]]],
           !.n = @ + 1,
           !.tail = (@ + Slots) % max,
           !.full = FALSE]

Grows(r) == r.full \/ r.n = 0

Grown(r) == IF Grows(r) THEN makeBuffer(r) ELSE r

(* putNoLock aborts when the ring cannot grow, or the slot at head is taken. *)
putAborts(r) ==
    \/ Grows(r) /\ r.n >= MaxBuffers
    \/ SlotAt(Grown(r), Grown(r).head) # Null

(* Mutant: the flag full is set one slot early, when one slot is left.      *)
MutPutNoLockFullEarly(r, o) ==
    LET g == Grown(r)
        nh == (g.head + 1) % CurrentMax(g)
    IN  [g EXCEPT !.buf[g.head \div Slots][g.head % Slots] = o,
                  !.head = nh,
                  !.full = (nh + 1) % CurrentMax(g) = g.tail \/ nh = g.tail,
                  !.empty = FALSE]

putNoLock(r, o) ==
    LET g == Grown(r)
        nh == (g.head + 1) % CurrentMax(g)
    IN  [g EXCEPT !.buf[g.head \div Slots][g.head % Slots] = o,
                  !.head = nh,
                  !.full = IF nh = g.tail THEN TRUE ELSE @,
                  !.empty = FALSE]

getAborts(r) == SlotAt(r, r.tail) = Null

(* Mutant: the bucket does not notice that its last object is taken.        *)
MutGetNoLockNeverEmpty(r) ==
    [r EXCEPT !.buf[r.tail \div Slots][r.tail % Slots] = Null,
              !.tail = (@ + 1) % CurrentMax(r),
              !.full = FALSE]

getNoLock(r) ==
    LET nt == (r.tail + 1) % CurrentMax(r)
    IN  [r EXCEPT !.buf[r.tail \div Slots][r.tail % Slots] = Null,
                  !.tail = nt,
                  !.empty = IF nt = r.head THEN TRUE ELSE @,
                  !.full = FALSE]

size(r) == IF r.full THEN CurrentMax(r)
           ELSE IF r.head >= r.tail THEN r.head - r.tail
           ELSE CurrentMax(r) - (r.tail - r.head)

------------------------------------------------------------------------------
(* The pool. *)

NoLocals == [b |-> 0, left |-> 0, obj |-> Null]

Init ==
    /\ counter = 0
    /\ bk = [b \in BucketNums |-> NewBucket]
    /\ lock = [b \in BucketNums |-> NoUser]
    /\ made = 0
    /\ stamp = [o \in {} |-> 0]
    /\ pc = [u \in Users |-> "idle"]
    /\ loc = [u \in Users |-> NoLocals]
    /\ held = [u \in Users |-> {}]
    /\ aborted = FALSE

Goto(u, l) == pc' = [pc EXCEPT ![u] = l]

(* abort(): nothing of the process runs any more. *)
Abort == aborted' = TRUE /\ UNCHANGED <<counter, bk, lock, made, stamp, pc, loc, held>>

(* get: local_counter = counter++, read ...                                 *)
GetCounter(u) ==
    /\ ~aborted /\ pc[u] = "idle"
    /\ loc' = [loc EXCEPT ![u].b = counter]
    /\ Goto(u, "bump")
    /\ UNCHANGED <<counter, bk, lock, made, stamp, held, aborted>>

(* ... and written back, whatever the other threads wrote in between.       *)
BumpCounter(u) ==
    /\ ~aborted /\ pc[u] = "bump"
    /\ counter' = (loc[u].b + 1) % CounterMod
    /\ loc' = [loc EXCEPT ![u].b = @ % Buckets]
    /\ Goto(u, "getlock")
    /\ UNCHANGED <<bk, lock, made, stamp, held, aborted>>

(* buckets[...].get(): the mutex, then getNoLock's "if empty make".          *)
GetLock(u) ==
    LET b == loc[u].b IN
    /\ ~aborted /\ pc[u] = "getlock"
    /\ lock[b] = NoUser
    /\ bk[b].empty => made < MaxMade
    /\ lock' = [lock EXCEPT ![b] = u]
    /\ IF bk[b].empty
       THEN /\ loc' = [loc EXCEPT ![u].left = QuantInc]
            /\ Goto(u, "make")
       ELSE Goto(u, "take") /\ UNCHANGED loc
    /\ UNCHANGED <<counter, bk, made, stamp, held, aborted>>

(* One round of make(): a new object, stamped, goes in by putNoLock.         *)
Make(u) ==
    LET b == loc[u].b IN
    /\ ~aborted /\ pc[u] = "make"
    /\ IF loc[u].left = 0
       THEN /\ Goto(u, "take")
            /\ UNCHANGED <<counter, bk, lock, made, stamp, loc, held, aborted>>
       ELSE IF putAborts(bk[b]) THEN Abort
       ELSE /\ made' = made + 1
            /\ stamp' = [o \in 1 .. made + 1 |-> IF o = made + 1 THEN makeStamp(b, ObjSize)
                                              ELSE stamp[o]]
            /\ bk' = [bk EXCEPT ![b] = putNoLock(@, made + 1)]
            /\ loc' = [loc EXCEPT ![u].left = @ - 1]
            /\ UNCHANGED <<counter, lock, pc, held, aborted>>

(* The rest of getNoLock, and the mutex is released.                         *)
Take(u) ==
    LET b == loc[u].b IN
    /\ ~aborted /\ pc[u] = "take"
    /\ IF getAborts(bk[b]) THEN Abort
       ELSE /\ held' = [held EXCEPT ![u] = @ \cup {SlotAt(bk[b], bk[b].tail)}]
            /\ bk' = [bk EXCEPT ![b] = getNoLock(@)]
            /\ lock' = [lock EXCEPT ![b] = NoUser]
            /\ loc' = [loc EXCEPT ![u] = NoLocals]
            /\ Goto(u, "idle")
            /\ UNCHANGED <<counter, made, stamp, aborted>>

(* put: the stamp on the object names the bucket; a wrong size, or a number  *)
(* out of range, aborts.                                                     *)
Put(u) ==
    \E o \in held[u] :
      /\ ~aborted /\ pc[u] = "idle"
      /\ IF StampSize(stamp[o]) # ObjSize \/ StampBucket(stamp[o]) >= Buckets THEN Abort
         ELSE /\ held' = [held EXCEPT ![u] = @ \ {o}]
              /\ loc' = [loc EXCEPT ![u].b = StampBucket(stamp[o]), ![u].obj = o]
              /\ Goto(u, "putlock")
              /\ UNCHANGED <<counter, bk, lock, made, stamp, aborted>>

(* buckets[...].put(): the mutex, putNoLock, and the mutex is released.      *)
PutLock(u) ==
    LET b == loc[u].b IN
    /\ ~aborted /\ pc[u] = "putlock"
    /\ lock[b] = NoUser
    /\ IF putAborts(bk[b]) THEN Abort
       ELSE /\ bk' = [bk EXCEPT ![b] = putNoLock(@, loc[u].obj)]
            /\ loc' = [loc EXCEPT ![u] = NoLocals]
            /\ Goto(u, "idle")
            /\ UNCHANGED <<counter, lock, made, stamp, held, aborted>>

UserStep(u) == GetCounter(u) \/ BumpCounter(u) \/ GetLock(u) \/ Make(u)
               \/ Take(u) \/ Put(u) \/ PutLock(u)

Next == \E u \in Users : UserStep(u)

Spec == Init /\ [][Next]_poolVars

------------------------------------------------------------------------------
Objects == 1 .. made

(* What a user has, or is giving back.                                        *)
InHand(o, u) == o \in held[u] \/ (pc[u] = "putlock" /\ loc[u].obj = o)

(* No object is in two places at once: not in two slots of the ring of any    *)
(* bucket, not with two users, and not both idle and in use, over every       *)
(* growth of the ring (getNoLock, putNoLock, makeBuffer).                    *)
NoSharing ==
    /\ \A b, c \in BucketNums : \A i \in 0 .. bk[b].n - 1, k \in 0 .. bk[c].n - 1 :
         \A j, l \in SlotNums :
           (bk[b].buf[i][j] # Null /\ bk[b].buf[i][j] = bk[c].buf[k][l])
             => (b = c /\ i = k /\ j = l)
    /\ \A o \in Objects, u, v \in Users :
         (InHand(o, u) /\ InHand(o, v)) => u = v
    /\ \A o \in Objects, u \in Users : InHand(o, u) =>
         \A b \in BucketNums : \A i \in 0 .. bk[b].n - 1, j \in SlotNums :
           bk[b].buf[i][j] # o

(* abort() happens only where the code says "No more buffers can be           *)
(* allocated": never "Null returned from slot" and never "Slot should be      *)
(* NULL", so head, tail, full and empty always agree with the slots.          *)
AbortsOnlyAtLimit ==
    aborted => \E b \in BucketNums : bk[b].n = MaxBuffers /\ size(bk[b]) = CurrentMax(bk[b])

(* The idle objects of a bucket, oldest first: the slots that dump() walks    *)
(* from tail, as many as size() says.                                         *)
Idle(b) == [k \in 1 .. size(bk[b]) |->
              SlotAt(bk[b], (bk[b].tail + k - 1) % CurrentMax(bk[b]))]

Q == INSTANCE BucketQueues WITH
       queue <- [b \in BucketNums |-> Idle(b)],
       home <- [o \in DOMAIN stamp |-> StampBucket(stamp[o])],
       hands <- [u \in Users |-> held[u] \cup
                   (IF pc[u] = "putlock" THEN {loc[u].obj} ELSE {})]

(* The rings implement first-in first-out queues: over wrap-around and over   *)
(* the insertion of a buffer in the middle of the ring no idle object is      *)
(* lost, duplicated or overtaken, and size() counts them.                     *)
RefinesQueues == Q!Spec
=============================================================================
