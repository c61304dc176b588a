--------------------------- MODULE OffloadPipeline ---------------------------
(***************************************************************************)
(* The path of a value between persistent memory and the offload device:   *)
(*                                                                         *)
(*   client threads   KVStore::Update, Get, Remove (lib/core/KVStore.cpp)  *)
(*     | offRing                                                           *)
(*   offload poller   OffloadPoller::process (the SPDK reactor thread)     *)
(*     | ioRing                                                            *)
(*   I/O engine       SpdkIoEngine::process and SpdkBdev (one thread)      *)
(*     | inDev, ioWait                                                     *)
(*   device           completes reads and writes, in any order             *)
(*     | finRing                                                           *)
(*   finalizer        FinalizePoller::process (one thread)                 *)
(*                                                                         *)
(* A request object is taken from a pool by the client and returned by the *)
(* thread that ends it, after it called the request's callback.  A         *)
(* synchronous call waits for its callback for one second.                 *)
(*                                                                         *)
(* Values are smaller than 4096 bytes (bucket 0 of the LBA allocator).     *)
(* Clients do not remove a value that is in persistent memory: ARTree      *)
(* models what that does to the tree.                                      *)
(* Batches are taken one request at a time: a batch is at most canQueue()  *)
(* long, and only its own processing raises ioBufsInUse.  A request that   *)
(* the first ring refuses goes back to the pool and the caller is told, in *)
(* one step with no effect on this state, so no action is written for it.  *)
(***************************************************************************)
EXTENDS LbaBucket, FiniteSets

CONSTANTS
  Keys, Values, Clients,
  Cells,        \* blocks of persistent memory that can hold a value
  Rqsts,        \* request objects of the pools
  Nil,          \* the null pointer, and "no value"
  Garbage,      \* memory that does not hold a value
  Async,        \* the callback of a call that does not wait
  RingSize,     \* capacity of a ring, 4 * 4096 in the code
  MaxIoBufs,    \* SpdkBdev::maxIoBufs
  UintMod,      \* 2^32 in the code: the range of ioBufsInUse
  Ops,          \* the calls that clients make
  Faults,       \* what the device may do: "ENOMEM", "EIO", "FAIL"
  MaxListLen,   \* bound: no Remove once the LBA list is longer than this
  Exclusive     \* clients call one operation at a time for each key

ASSUME PipelineAssumption ==
  /\ RingSize \in Nat \ {0}
  /\ UintMod \in Nat
  /\ MaxIoBufs \in Nat \ {0}
  /\ MaxIoBufs < UintMod
  /\ Exclusive \in BOOLEAN
  /\ Nil \notin Keys \cup Values \cup Cells
  /\ Async \notin Clients

VARIABLES
  tree,         \* the ValueWrapper of each key
  cells,        \* contents of persistent memory, Nil when not reserved
  disk,         \* contents of the device
  lbas,         \* the LBA allocator, bucket 0
  pool,         \* how many times a request object is in its pool
  rq,           \* fields of the request objects and of their DeviceTask
  offRing, ioRing, finRing,     \* the rings, oldest first
  inDev,        \* requests submitted to the device
  ioWait,       \* requests queued with spdk_bdev_queue_io_wait
  ioBufsInUse, outstanding, ioState, fpState,
  ioHung,       \* the I/O engine thread spins in deinit
  fin,          \* where the finalizer thread is within a request
  call,         \* the operation each client is in
  answers,      \* callbacks made for a request since it left the pool
  crashed       \* the process ended by a fault

dataVars == <<tree, cells, disk, lbas>>
rqstVars == <<pool, rq, answers>>
ringVars == <<offRing, ioRing, finRing, inDev, ioWait>>
bdevVars == <<ioBufsInUse, outstanding, ioState, ioHung>>
vars == <<dataVars, rqstVars, ringVars, bdevVars, fpState, fin, call,
          crashed>>

Locations == {"EMPTY", "PMEM", "DISK"}

\* The LBAs of the device, those getBlock computes beyond MaxLba included.
DiskLbas == 0 .. MaxLba + LbasSize

\* key is what the request's key pointer shows, asked the key that the caller
\* named.
NoRqst == [op |-> "NONE", key |-> Nil, asked |-> Nil, value |-> Nil,
           loc |-> "EMPTY", clb |-> Async, freeLba |-> 0, addr |-> 0,
           io |-> "none", buf |-> Nil, result |-> FALSE]

IdleCall == [pc |-> "idle", key |-> Nil, ptr |-> Nil, op |-> "NONE",
             r |-> Nil, ready |-> FALSE, ok |-> FALSE, val |-> Nil]

IdleFin == [pc |-> "idle", r |-> Nil, bufs |-> 0]

Init ==
  /\ tree = [k \in Keys |-> [loc |-> "EMPTY", vol |-> "EMPTY",
                             ptr |-> Nil, act |-> Nil]]
  /\ cells = [c \in Cells |-> Nil]
  /\ disk = [l \in DiskLbas |-> Garbage]
  /\ lbas = NewBucket
  /\ pool = [r \in Rqsts |-> 1]
  /\ rq = [r \in Rqsts |-> NoRqst]
  /\ answers = [r \in Rqsts |-> 1]
  /\ offRing = <<>> /\ ioRing = <<>> /\ finRing = <<>>
  /\ inDev = {} /\ ioWait = {}
  /\ ioBufsInUse = 0 /\ outstanding = 0
  /\ ioState = "INIT" /\ fpState = "READY"
  /\ ioHung = FALSE
  /\ fin = IdleFin
  /\ call = [c \in Clients |-> IdleCall]
  /\ crashed = FALSE

-----------------------------------------------------------------------------
(***************************************************************************)
(* The radix tree (lib/pmem/ARTree.cpp), as far as one key's ValueWrapper: *)
(*   loc  location (persistent),  vol  locationVolatile                    *)
(*   ptr  locationPtr: a cell, or the LBA stored in the IOV block          *)
(*   act  actionValue: the cell whose reservation it can cancel            *)
(* A wrapper whose ptr is Nil was never created.                           *)
(***************************************************************************)
\* ARTree::Get finds a value.
Found(k) ==
  \/ tree[k].loc = "PMEM" /\ tree[k].vol # "EMPTY"
  \/ tree[k].loc = "DISK"

\* What is read through a pointer into persistent memory.
Deref(p) == IF p \in Cells /\ cells[p] # Nil THEN cells[p] ELSE Garbage

\* pmemobj_cancel of an action that is null or was deleted.
CancelFaults(k) == tree[k].act \notin Cells

\* ARTree::AllocValueForKey reserves memory for the value of a key whose location
\* is EMPTY.
AllocValueForKey(k, v) ==
  /\ tree[k].loc = "EMPTY"
  /\ \E m \in Cells :
       /\ cells[m] = Nil
       /\ cells' = [cells EXCEPT ![m] = v]
       /\ tree' = [tree EXCEPT ![k].ptr = m, ![k].act = m]

\* ARTree::Put publishes the value, whatever the location has become.
TreePut(k) == tree' = [tree EXCEPT ![k].vol = "PMEM", ![k].loc = "PMEM"]

\* ARTree::Remove of a key that has a value.  The reservation of a value in
\* persistent memory is cancelled; actionValue is left dangling.
TreeRemove(k) ==
  IF tree[k].loc = "PMEM" /\ tree[k].vol # "EMPTY"
  THEN /\ tree' = [tree EXCEPT ![k].loc = "EMPTY", ![k].act = Garbage]
       /\ cells' = [cells EXCEPT ![tree[k].act] = Nil]
  ELSE /\ tree' = [tree EXCEPT ![k].loc = "EMPTY"]
       /\ UNCHANGED cells

TreeRemoveFaults(k) ==
  tree[k].loc = "PMEM" /\ tree[k].vol # "EMPTY" /\ CancelFaults(k)

\* The process ends.
Crash ==
  /\ crashed' = TRUE
  /\ UNCHANGED <<dataVars, rqstVars, ringVars, bdevVars, fpState, fin, call>>

-----------------------------------------------------------------------------
(***************************************************************************)
(* Requests.                                                               *)
(***************************************************************************)
InPool(r) == pool[r] > 0

\* r goes back to its pool, n times.  Its fields are set anew before they are
\* read again; NoRqst stands for what they hold until then.
PoolPut(r, n) ==
  /\ pool' = [pool EXCEPT ![r] = @ + n]
  /\ rq' = [rq EXCEPT ![r] = NoRqst]

\* The request's callback runs.  A synchronous caller that still waits for r is
\* woken; one that has timed out has left the frame the callback writes to.
Reply(r, ok, val) ==
  LET c       == rq[r].clb
      waiting == c # Async /\ call[c].pc = "wait" /\ call[c].r = r
  IN  /\ answers' = [answers EXCEPT ![r] = @ + 1]
      /\ call' = IF waiting
                 THEN [call EXCEPT ![c].ready = TRUE, ![c].ok = ok,
                                   ![c].val = val]
                 ELSE call

\* A client takes a request from the pool, fills it in (finalizeUpdate,
\* finalizeGet, finalizeRemove) and enqueues it; n callbacks were already made.
Submit(r, op, k, value, loc, clb, n) ==
  /\ InPool(r)
  /\ Len(offRing) < RingSize
  /\ pool' = [pool EXCEPT ![r] = @ - 1]
  /\ rq' = [rq EXCEPT ![r] = [NoRqst EXCEPT !.op = op, !.key = k, !.asked = k,
                                            !.value = value, !.loc = loc,
                                            !.clb = clb]]
  /\ answers' = [answers EXCEPT ![r] = n]
  /\ offRing' = Append(offRing, r)
  /\ UNCHANGED <<ioRing, finRing, inDev, ioWait>>

-----------------------------------------------------------------------------
(***************************************************************************)
(* Clients.                                                                *)
(***************************************************************************)
\* Client c may start operation op on key k.
MayCall(c, op, k) ==
  /\ op \in Ops
  /\ call[c].pc = "idle"
  /\ Exclusive => /\ \A d \in Clients : call[d].pc = "idle" \/ call[d].key # k
                  /\ \A r \in Rqsts : InPool(r) \/ rq[r].asked # k

Enter(c, pc, op, k, ptr, r) ==
  call' = [call EXCEPT ![c] = [IdleCall EXCEPT !.pc = pc, !.op = op, !.key = k,
                                               !.ptr = ptr, !.r = r]]

Leave(c) == call' = [call EXCEPT ![c] = IdleCall]

\* KVStore::Alloc; the client then writes the value to the memory it got.
Alloc(c, k, v) ==
  /\ MayCall(c, "PUT", k)
  /\ AllocValueForKey(k, v)
  /\ Enter(c, "put", "PUT", k, Nil, Nil)
  /\ UNCHANGED <<disk, lbas, rqstVars, ringVars, bdevVars, fpState, fin,
                 crashed>>

\* KVStore::Put of the value allocated before.  The primary key's queue takes
\* every key (PrimaryKeyBase::enqueueNext does nothing).
Put(c) ==
  /\ call[c].pc = "put"
  /\ TreePut(call[c].key)
  /\ Leave(c)
  /\ UNCHANGED <<cells, disk, lbas, rqstVars, ringVars, bdevVars, fpState, fin,
                 crashed>>

\* KVStore::Update with LONG_TERM: the value's address and location are read
\* from the tree, and an UPDATE request asks the pipeline to move it.
Update(c, k) ==
  /\ MayCall(c, "UPDATE", k)
  /\ Found(k)
  /\ \E r \in Rqsts :
       /\ Submit(r, "UPDATE", k, tree[k].ptr, tree[k].loc, c, 0)
       /\ Enter(c, "wait", "UPDATE", k, Nil, r)
  /\ UNCHANGED <<dataVars, bdevVars, fpState, fin, crashed>>

\* KVStore::UpdateAsync of a key that has a value.
UpdateAsync(c, k) ==
  /\ MayCall(c, "UPDATE_ASYNC", k)
  /\ Found(k)
  /\ \E r \in Rqsts :
       Submit(r, "UPDATE", k, tree[k].ptr, tree[k].loc, Async, 0)
  /\ UNCHANGED <<dataVars, bdevVars, fpState, fin, call, crashed>>

\* KVStore::UpdateAsync of a key that has none: the callback is called with
\* KEY_NOT_FOUND, and the request is enqueued all the same, with an empty value
\* and a location that was never set.
UpdateAsyncMissing(c, k) ==
  /\ MayCall(c, "UPDATE_ASYNC_MISSING", k)
  /\ ~Found(k)
  /\ \E r \in Rqsts, loc \in Locations :
       Submit(r, "UPDATE", k, Nil, loc, Async, 1)
  /\ UNCHANGED <<dataVars, bdevVars, fpState, fin, call, crashed>>

\* KVStore::Get: the value is copied from persistent memory, or a GET request
\* asks the pipeline to read it from the device.
Get(c, k) ==
  /\ MayCall(c, "GET", k)
  /\ Found(k)
  /\ IF tree[k].loc = "PMEM"
     THEN /\ Enter(c, "copy", "GET", k, tree[k].ptr, Nil)
          /\ UNCHANGED <<rqstVars, ringVars>>
     ELSE \E r \in Rqsts :
            /\ Submit(r, "GET", k, Nil, "EMPTY", c, 0)
            /\ Enter(c, "wait", "GET", k, Nil, r)
  /\ UNCHANGED <<dataVars, bdevVars, fpState, fin, crashed>>

\* The copy ends and KVStore::Get returns.
GetCopy(c) ==
  /\ call[c].pc = "copy"
  /\ Leave(c)
  /\ UNCHANGED <<dataVars, rqstVars, ringVars, bdevVars, fpState, fin,
                 crashed>>

\* KVStore::GetAsync with LONG_TERM.
GetAsync(c, k) ==
  /\ MayCall(c, "GET_ASYNC", k)
  /\ \E r \in Rqsts : Submit(r, "GET", k, Nil, "EMPTY", Async, 0)
  /\ UNCHANGED <<dataVars, bdevVars, fpState, fin, call, crashed>>

\* KVStore::Remove of a value on the device: a REMOVE request.
RemoveOffloaded(c, k) ==
  /\ MayCall(c, "REMOVE_DISK", k)
  /\ tree[k].loc = "DISK"
  /\ Len(lbas.list) <= MaxListLen
  /\ \E r \in Rqsts :
       /\ Submit(r, "REMOVE", k, Nil, "EMPTY", c, 0)
       /\ Enter(c, "wait", "REMOVE", k, Nil, r)
  /\ UNCHANGED <<dataVars, bdevVars, fpState, fin, crashed>>

\* The waiting caller is woken, or gives up after one second (TIME_OUT).
Return(c) ==
  /\ call[c].pc = "wait"
  /\ call[c].ready
  /\ Leave(c)
  /\ UNCHANGED <<dataVars, rqstVars, ringVars, bdevVars, fpState, fin,
                 crashed>>

\* finalizeGet and finalizeRemove keep a pointer to the caller's key
\* (finalizeUpdate copies it): once the caller has left, that memory may hold
\* another key.
TimeOut(c) ==
  /\ call[c].pc = "wait"
  /\ ~call[c].ready
  /\ IF rq[call[c].r].clb = c /\ call[c].op # "UPDATE"
     THEN \E k \in Keys : rq' = [rq EXCEPT ![call[c].r].key = k]
     ELSE UNCHANGED rq
  /\ Leave(c)
  /\ UNCHANGED <<dataVars, pool, answers, ringVars, bdevVars, fpState, fin,
                 crashed>>

\* KVStore::QuiesceOffload: SpdkBdev::IOQuiesce, then a loop that ends when
\* isIOQuiescent() or, with forceAbort, after some twenty tries.
Quiesce(c) ==
  /\ "QUIESCE" \in Ops
  /\ call[c].pc = "idle"
  /\ fpState' = "QUIESCING"
  /\ ioState' = "QUIESCING"
  /\ Enter(c, "quiesce", "QUIESCE", Nil, Nil, Nil)
  /\ UNCHANGED <<dataVars, rqstVars, ringVars, ioBufsInUse, outstanding, ioHung,
                 fin, crashed>>

isIOQuiescent ==
  ioState \in {"QUIESCENT", "ABORTED"} /\ fpState = "QUIESCENT"

QuiesceEnd(c) ==
  /\ call[c].pc = "quiesce"
  /\ isIOQuiescent \/ "FORCE_ABORT" \in Ops
  /\ ioState' = IF isIOQuiescent THEN ioState ELSE "ABORTED"
  /\ Leave(c)
  /\ UNCHANGED <<dataVars, rqstVars, ringVars, ioBufsInUse, outstanding, ioHung,
                 fpState, fin, crashed>>

ClientCall(c) ==
  \E k \in Keys :
    \/ \E v \in Values : Alloc(c, k, v)
    \/ Update(c, k) \/ UpdateAsync(c, k) \/ UpdateAsyncMissing(c, k)
    \/ Get(c, k) \/ GetAsync(c, k)
    \/ RemoveOffloaded(c, k)

ClientStep(c) ==
  \/ Put(c) \/ GetCopy(c)
  \/ Return(c) \/ TimeOut(c)
  \/ QuiesceEnd(c)

-----------------------------------------------------------------------------
(***************************************************************************)
(* OffloadPoller::process: the oldest request of offRing is answered, or   *)
(* becomes a DeviceTask on ioRing.                                         *)
(***************************************************************************)
\* _processGet and _processRemove look the key up again; _processUpdate uses
\* the location the client read.
PollerRefuses(r) ==
  LET k == rq[r].key IN
  CASE rq[r].op = "UPDATE" -> \/ rq[r].loc = "EMPTY"
                              \/ rq[r].loc = "DISK" /\ rq[r].value = Nil
    [] OTHER               -> tree[k].loc # "DISK"

\* The LBA read from an IOV block, or from memory that is none.
LbaThrough(p) == IF p \in DiskLbas THEN {p} ELSE DiskLbas

PollerAnswer(r) ==
  /\ PollerRefuses(r) \/ Len(ioRing) >= RingSize
  /\ Reply(r, rq[r].op = "UPDATE" /\ rq[r].loc = "DISK" /\ PollerRefuses(r), Nil)
  /\ PoolPut(r, 1)
  /\ UNCHANGED ioRing

PollerForward(r) ==
  /\ ~PollerRefuses(r)
  /\ Len(ioRing) < RingSize
  /\ ioRing' = Append(ioRing, r)
  /\ IF rq[r].op = "UPDATE"
     THEN UNCHANGED rq
     ELSE \E lba \in LbaThrough(tree[rq[r].key].ptr) :
            rq' = [rq EXCEPT ![r].addr = lba]
  /\ UNCHANGED <<pool, answers, call>>

Poller ==
  /\ offRing # <<>>
  /\ offRing' = Tail(offRing)
  /\ PollerAnswer(Head(offRing)) \/ PollerForward(Head(offRing))
  /\ UNCHANGED <<dataVars, finRing, inDev, ioWait, bdevVars, fpState, fin,
                 crashed>>

-----------------------------------------------------------------------------
(***************************************************************************)
(* SpdkIoEngine::process and SpdkBdev::doRead, doWrite, doRemove, with     *)
(* SpdkBdev::stateMachine at the start of each.                            *)
(***************************************************************************)
Inc(n) == (n + 1) % UintMod

\* Mutated form of Dec: no wrap-around.
MutDecSigned(n) == n - 1

Dec(n) == (n + UintMod - 1) % UintMod

canQueue == IF MaxIoBufs > ioBufsInUse THEN MaxIoBufs - ioBufsInUse ELSE 0

\* Mutated form of stateAfter: outstanding I/Os are not waited for.
MutStateAfterAtOnce(n) == IF ioState = "QUIESCING" THEN "QUIESCENT" ELSE ioState

\* stateMachine with n I/Os outstanding: the state it leaves, and whether it
\* returns true.  In the state ABORTED it does not return, see IoHang.
stateAfter(n) ==
  IF ioState = "QUIESCING" /\ n = 0 THEN "QUIESCENT" ELSE ioState

stops(n) == stateAfter(n) = "QUIESCENT"

\* deinit on the I/O engine thread waits for that thread itself.
IoHang ==
  /\ ioHung' = TRUE
  /\ UNCHANGED <<dataVars, rqstVars, ioBufsInUse, outstanding, ioState, finRing,
                 inDev, ioWait, fpState, fin, call, crashed>>

\* Mutated form of IoRefuse: every request goes back to its pool twice.
MutIoRefusePutsTwice(r) ==
  /\ ioState' = stateAfter(outstanding)
  /\ Reply(r, FALSE, Nil)
  /\ PoolPut(r, 2)
  /\ UNCHANGED <<dataVars, finRing, inDev, ioWait, ioBufsInUse, outstanding,
                 ioHung, fpState, fin, crashed>>

\* Mutated form of IoRefuse: doRead and doWrite call back as well.
MutIoRefuseAnswersTwice(r) ==
  /\ ioState' = stateAfter(outstanding)
  /\ answers' = [answers EXCEPT ![r] = @ + 2]
  /\ PoolPut(r, 1)
  /\ UNCHANGED <<dataVars, finRing, inDev, ioWait, ioBufsInUse, outstanding,
                 ioHung, fpState, fin, call, crashed>>

\* doRead and doWrite give back a buffer they did not take; doRemove puts the
\* request back to its pool, and SpdkIoEngine::process puts it back again.
IoRefuse(r) ==
  /\ ioState' = stateAfter(outstanding)
  /\ ioBufsInUse' = IF rq[r].op = "REMOVE" THEN ioBufsInUse ELSE Dec(ioBufsInUse)
  /\ Reply(r, FALSE, Nil)
  /\ PoolPut(r, IF rq[r].op = "REMOVE" THEN 2 ELSE 1)
  /\ UNCHANGED <<dataVars, finRing, inDev, ioWait, outstanding, ioHung, fpState,
                 fin, crashed>>

\* The device takes the I/O of r, or SPDK is short of buffers and reschedule
\* queues it, or the submission fails and deinit hangs the thread.
IoSubmit(r) ==
  /\ outstanding' = outstanding + 1
  /\ \/ inDev' = inDev \cup {r} /\ UNCHANGED <<ioWait, ioHung>>
     \/ "ENOMEM" \in Faults /\ ioWait' = ioWait \cup {r}
                            /\ UNCHANGED <<inDev, ioHung>>
     \/ "EIO" \in Faults /\ ioHung' = TRUE /\ UNCHANGED <<inDev, ioWait>>
  /\ UNCHANGED <<pool, answers, finRing, ioState, fpState, fin, call,
                 crashed>>

\* doRead: the buffer holds no value until the device has filled it.
IoRead(r) ==
  /\ rq[r].op = "GET"
  /\ ioBufsInUse' = Inc(ioBufsInUse)
  /\ rq' = [rq EXCEPT ![r].io = "read", ![r].buf = Garbage]
  /\ IoSubmit(r)
  /\ UNCHANGED dataVars

\* doWrite: a value of persistent memory gets an LBA, one that is on the device
\* already does not and goes to LBA 0; the value is copied to the buffer now.
IoWrite(r) ==
  /\ rq[r].op = "UPDATE"
  /\ \E g \in IF rq[r].loc = "PMEM" THEN GetLba(lbas, 0)
              ELSE {[lba |-> 0, bucket |-> lbas]} :
       /\ lbas' = g.bucket
       /\ rq' = [rq EXCEPT ![r].io = "write", ![r].freeLba = g.lba,
                           ![r].buf = IF rq[r].value = Nil THEN Nil
                                      ELSE Deref(rq[r].value)]
  /\ ioBufsInUse' = Inc(ioBufsInUse)
  /\ IoSubmit(r)
  /\ UNCHANGED <<tree, cells, disk>>

\* doRemove gives the LBA back and hands the task to the finalizer; when its
\* ring is full the request fails although the LBA is free.
IoRemove(r) ==
  /\ rq[r].op = "REMOVE"
  /\ lbas' = PutLba(lbas, rq[r].addr)
  /\ IF Len(finRing) < RingSize
     THEN /\ finRing' = Append(finRing, r)
          /\ rq' = [rq EXCEPT ![r].result = TRUE]
          /\ UNCHANGED <<pool, answers, call>>
     ELSE /\ Reply(r, FALSE, Nil)
          /\ PoolPut(r, 1)
          /\ UNCHANGED finRing
  /\ UNCHANGED <<tree, cells, disk, inDev, ioWait, bdevVars, fpState, fin,
                 crashed>>

\* getFreeLba ran out of LBAs: the exception ends the process.
IoLbaAborts(r) ==
  rq[r].op = "UPDATE" /\ rq[r].loc = "PMEM" /\ GetLbaAborts(lbas, 0)

IoEngine ==
  /\ ~ioHung
  /\ canQueue > 0
  /\ ioRing # <<>>
  /\ LET r == Head(ioRing) IN
     IF ioState # "ABORTED" /\ ~stops(outstanding) /\ IoLbaAborts(r)
     THEN Crash
     ELSE /\ ioRing' = Tail(ioRing)
          /\ UNCHANGED offRing
          /\ \/ ioState = "ABORTED" /\ IoHang
             \/ ioState # "ABORTED" /\ stops(outstanding) /\ IoRefuse(r)
             \/ /\ ioState # "ABORTED" /\ ~stops(outstanding)
                /\ IoRead(r) \/ IoWrite(r) \/ IoRemove(r)

-----------------------------------------------------------------------------
(***************************************************************************)
(* Completions: writeComplete, readComplete and writeQueueIoWait run on    *)
(* the I/O engine thread.                                                  *)
(***************************************************************************)
\* stateMachine comes before the task is handed over: in the state ABORTED the
\* task never reaches the finalizer.  A full ring loses the task.
ToFinalizer(r, n) ==
  /\ outstanding' = n
  /\ inDev' = inDev \ {r}
  /\ IF ioState = "ABORTED"
     THEN ioHung' = TRUE /\ UNCHANGED <<finRing, ioState>>
     ELSE /\ ioState' = stateAfter(n)
          /\ finRing' = IF Len(finRing) < RingSize THEN Append(finRing, r)
                        ELSE finRing
          /\ UNCHANGED ioHung
  /\ UNCHANGED <<tree, cells, lbas, pool, answers, offRing, ioRing, ioWait,
                 fpState, fin, call, crashed>>

Completed == IF outstanding > 0 THEN outstanding - 1 ELSE 0

Outcomes == IF "FAIL" \in Faults THEN BOOLEAN ELSE {TRUE}

\* Mutated form of WriteComplete: the buffer is not counted back.
MutWriteCompleteKeepsBuf(r, success) ==
  /\ rq[r].io = "write"
  /\ rq' = [rq EXCEPT ![r].result = success]
  /\ disk' = IF success THEN [disk EXCEPT ![rq[r].freeLba] = rq[r].buf] ELSE disk
  /\ ToFinalizer(r, Completed)
  /\ UNCHANGED ioBufsInUse

WriteComplete(r, success) ==
  /\ rq[r].io = "write"
  /\ ioBufsInUse' = Dec(ioBufsInUse)
  /\ rq' = [rq EXCEPT ![r].result = success]
  /\ disk' = IF success /\ rq[r].buf # Nil
             THEN [disk EXCEPT ![rq[r].freeLba] = rq[r].buf]
             ELSE disk
  /\ ToFinalizer(r, Completed)

\* Mutated form of ReadComplete: the block read is that of the write path.
MutReadCompleteFreeLba(r, success) ==
  /\ rq[r].io = "read"
  /\ rq' = [rq EXCEPT ![r].result = success, ![r].buf = disk[rq[r].freeLba]]
  /\ ToFinalizer(r, Completed)
  /\ UNCHANGED <<disk, ioBufsInUse>>

ReadComplete(r, success) ==
  /\ rq[r].io = "read"
  /\ rq' = [rq EXCEPT ![r].result = success,
                      ![r].buf = IF success THEN disk[rq[r].addr] ELSE @]
  /\ ToFinalizer(r, Completed)
  /\ UNCHANGED <<disk, ioBufsInUse>>

Device(r) ==
  /\ ~ioHung
  /\ r \in inDev
  /\ \E success \in Outcomes : WriteComplete(r, success) \/ ReadComplete(r, success)

\* reschedule registers writeQueueIoWait for reads as well as for writes.
QueueIoWait(r) ==
  /\ ~ioHung
  /\ r \in ioWait
  /\ ioWait' = ioWait \ {r}
  /\ inDev' = inDev \cup {r}
  /\ rq' = [rq EXCEPT ![r].io = "write"]
  /\ UNCHANGED <<dataVars, pool, answers, offRing, ioRing, finRing, bdevVars,
                 fpState, fin, call, crashed>>

-----------------------------------------------------------------------------
(***************************************************************************)
(* FinalizePoller::process: the oldest task of finRing.                    *)
(***************************************************************************)
\* Not ready: the request goes back to its pool and nothing else happens.
FinDrop(r) ==
  /\ fpState # "READY"
  /\ PoolPut(r, 1)
  /\ UNCHANGED <<tree, cells, answers, fin, call, crashed>>

\* _processGet calls back, then gives the buffer back: ioBufsInUse-- reads and
\* writes a counter that the I/O engine thread changes too.
FinGet(r) ==
  /\ fpState = "READY"
  /\ rq[r].op = "GET"
  /\ Reply(r, rq[r].result, IF rq[r].result THEN rq[r].buf ELSE Nil)
  /\ fin' = [pc |-> "get", r |-> r, bufs |-> ioBufsInUse]
  /\ UNCHANGED <<tree, cells, pool, rq, crashed>>

FinGetEnd ==
  /\ fin.pc = "get"
  /\ ioBufsInUse' = Dec(fin.bufs)
  /\ PoolPut(fin.r, 1)
  /\ fin' = IdleFin
  /\ UNCHANGED <<dataVars, answers, ringVars, outstanding, ioState, ioHung,
                 fpState, call, crashed>>

\* Mutated forms of Moves: whatever the location, whatever the result.
MutMovesAnyLocation(r) == rq[r].op = "UPDATE" /\ rq[r].result
MutMovesAnyResult(r) == rq[r].op = "UPDATE" /\ rq[r].loc = "PMEM"

\* _processUpdate of a value that was in persistent memory and was written:
\* AllocateAndUpdateValueWrapper cancels the reservation of the value and points
\* the wrapper to a new IOV block; it then publishes the LBA and the location.
Moves(r) == rq[r].op = "UPDATE" /\ rq[r].result /\ rq[r].loc = "PMEM"

FinUpdate(r) ==
  LET k == rq[r].key IN
  /\ fpState = "READY"
  /\ Moves(r)
  /\ tree[k].ptr # Nil
  /\ IF CancelFaults(k)
     THEN crashed' = TRUE /\ UNCHANGED <<tree, cells, fin>>
     ELSE /\ cells' = [cells EXCEPT ![tree[k].act] = Nil]
          /\ tree' = [tree EXCEPT ![k].act = Nil, ![k].ptr = Garbage]
          /\ fin' = [pc |-> "update", r |-> r, bufs |-> 0]
          /\ UNCHANGED crashed
  /\ UNCHANGED <<pool, rq, answers, call>>

\* Mutated form of FinUpdateEnd: the LBA published is that of the read path.
MutFinUpdateEndAddr ==
  /\ fin.pc = "update"
  /\ tree' = [tree EXCEPT ![rq[fin.r].key].ptr = rq[fin.r].addr,
                          ![rq[fin.r].key].loc = "DISK"]
  /\ Reply(fin.r, TRUE, Nil)
  /\ PoolPut(fin.r, 1)
  /\ fin' = IdleFin
  /\ UNCHANGED <<cells, disk, lbas, ringVars, bdevVars, fpState, crashed>>

FinUpdateEnd ==
  /\ fin.pc = "update"
  /\ tree' = [tree EXCEPT ![rq[fin.r].key].ptr = rq[fin.r].freeLba,
                          ![rq[fin.r].key].loc = "DISK"]
  /\ Reply(fin.r, TRUE, Nil)
  /\ PoolPut(fin.r, 1)
  /\ fin' = IdleFin
  /\ UNCHANGED <<cells, disk, lbas, ringVars, bdevVars, fpState, crashed>>

\* Mutated forms of FinAnswer: without the callback, without the put.
MutFinAnswerSilent(r) ==
  /\ fpState = "READY" /\ rq[r].op = "UPDATE" /\ ~Moves(r)
  /\ PoolPut(r, 1)
  /\ UNCHANGED <<tree, cells, fin, call, answers, crashed>>
MutFinAnswerKeeps(r) ==
  /\ fpState = "READY" /\ rq[r].op = "UPDATE" /\ ~Moves(r)
  /\ Reply(r, rq[r].result, Nil)
  /\ UNCHANGED <<tree, cells, fin, pool, rq, crashed>>

\* _processUpdate when there is nothing to move: the write failed, or the value
\* was on the device already, or the key has no wrapper.
FinAnswer(r) ==
  /\ fpState = "READY"
  /\ rq[r].op = "UPDATE"
  /\ ~Moves(r) \/ tree[rq[r].key].ptr = Nil
  /\ Reply(r, rq[r].result /\ ~Moves(r), Nil)
  /\ PoolPut(r, 1)
  /\ UNCHANGED <<tree, cells, fin, crashed>>

\* _processRemove: ARTree::Remove throws when the key has no value any more, and
\* nothing catches it.
FinRemove(r) ==
  LET k == rq[r].key IN
  /\ fpState = "READY"
  /\ rq[r].op = "REMOVE"
  /\ IF tree[k].loc = "EMPTY" \/ TreeRemoveFaults(k)
     THEN /\ crashed' = TRUE
          /\ UNCHANGED <<tree, cells, rqstVars, call>>
     ELSE /\ TreeRemove(k)
          /\ Reply(r, TRUE, Nil)
          /\ PoolPut(r, 1)
          /\ UNCHANGED crashed
  /\ UNCHANGED fin

Finalizer ==
  /\ fin.pc = "idle"
  /\ finRing # <<>>
  /\ finRing' = Tail(finRing)
  /\ LET r == Head(finRing) IN
       FinDrop(r) \/ FinGet(r) \/ FinUpdate(r) \/ FinAnswer(r) \/ FinRemove(r)
  /\ UNCHANGED <<disk, lbas, offRing, ioRing, inDev, ioWait, bdevVars, fpState>>

-----------------------------------------------------------------------------
Running ==
  \/ \E c \in Clients : ClientCall(c) \/ ClientStep(c) \/ Quiesce(c)
  \/ Poller
  \/ IoEngine
  \/ \E r \in Rqsts : Device(r) \/ QueueIoWait(r)
  \/ Finalizer \/ FinGetEnd \/ FinUpdateEnd

Next ==
  \/ ~crashed /\ Running
  \/ crashed /\ UNCHANGED vars

Spec == Init /\ [][Next]_vars

\* Every thread of the pipeline polls for ever, the device completes what it was
\* given, and a caller that has started an operation goes on with it.  Nobody
\* has to start one.
Fairness ==
  /\ WF_vars(~crashed /\ Poller)
  /\ WF_vars(~crashed /\ IoEngine)
  /\ WF_vars(~crashed /\ (FinGetEnd \/ FinUpdateEnd \/ Finalizer))
  /\ \A r \in Rqsts : /\ WF_vars(~crashed /\ Device(r))
                      /\ WF_vars(~crashed /\ QueueIoWait(r))
  /\ \A c \in Clients : WF_vars(~crashed /\ ClientStep(c))

FairSpec == Spec /\ Fairness

-----------------------------------------------------------------------------
\* The value of key k, wherever it is.
Logical(k) ==
  IF fin.pc = "update" /\ rq[fin.r].key = k THEN disk[rq[fin.r].freeLba]
  ELSE IF ~Found(k) THEN Nil
  ELSE IF tree[k].loc = "PMEM" THEN Deref(tree[k].ptr)
  ELSE disk[tree[k].ptr]

\* Every variable stays within the values the code can give it: no ring holds
\* more than its capacity, and the buffer counter is a machine word.
TypeOK ==
  /\ pool \in [Rqsts -> Nat]
  /\ answers \in [Rqsts -> Nat]
  /\ {offRing, ioRing, finRing} \subseteq Seq(Rqsts)
  /\ \A ring \in {offRing, ioRing, finRing} : Len(ring) <= RingSize
  /\ inDev \subseteq Rqsts /\ ioWait \subseteq Rqsts
  /\ ioBufsInUse \in 0 .. UintMod - 1
  /\ outstanding \in Nat
  /\ ioState \in {"INIT", "QUIESCING", "QUIESCENT", "ABORTED"}
  /\ fpState \in {"READY", "QUIESCING"}

\* Where a request object is held outside of its pool.
Held(ring) == {ring[i] : i \in DOMAIN ring}
InFin == IF fin.pc = "idle" THEN {} ELSE {fin.r}
Outside == <<Held(offRing), Held(ioRing), inDev, ioWait, Held(finRing), InFin>>

NoDuplicate(ring) ==
  \A i, j \in DOMAIN ring : ring[i] = ring[j] => i = j

\* A request object belongs to one thread or queue at a time: it is never in two
\* rings, twice in one, or both in its pool and still in the pipeline, where the
\* next caller would overwrite it (Rqst::finalizeUpdate and the pool's get and
\* put).
SingleOwner ==
  /\ \A ring \in {offRing, ioRing, finRing} : NoDuplicate(ring)
  /\ \A p, q \in DOMAIN Outside : p # q => Outside[p] \cap Outside[q] = {}
  /\ \A r \in Rqsts :
       /\ pool[r] <= 1
       /\ pool[r] = 1 => \A p \in DOMAIN Outside : r \notin Outside[p]

\* No request is called back twice: its callback writes to the frame of a caller
\* that the first call let go (KVStore::Update, Get and Remove).
AnsweredAtMostOnce == \A r \in Rqsts : answers[r] <= 1

\* A request object goes back to its pool only after its callback ran
\* (OffloadPoller, SpdkIoEngine, FinalizePoller: "_rqstClb ... put").
AnsweredBeforeReuse == \A r \in Rqsts : InPool(r) => answers[r] >= 1

\* A device that reports quiescence has no I/O left that would still write to
\* the medium or to a request (SpdkBdev::stateMachine).
DrainedWhenQuiescent == ioState = "QUIESCENT" => inDev \cup ioWait = {}

\* The buffers counted by ioBufsInUse are those of the I/Os in the device or
\* waiting for it (SpdkBdev::canQueue relies on it).
BuffersAccounted == ioBufsInUse = Cardinality(inDev \cup ioWait)

\* A Get whose I/O succeeded gives the value the key has at that moment, from
\* whichever tier: the location it saw is still right (KVStore::Get and
\* _getOffloaded).
GetReturnsStored ==
  \A c \in Clients :
    /\ call[c].pc = "copy" => Deref(call[c].ptr) = Logical(call[c].key)
    /\ call[c].pc = "wait" /\ call[c].op = "GET" /\ call[c].ready /\ call[c].ok
         => call[c].val = Logical(call[c].key)

\* Two values on the device never share an LBA (OffloadLbaAlloc::getLba).
LbaExclusive ==
  \A j, k \in Keys : j # k /\ tree[j].loc = "DISK" /\ tree[k].loc = "DISK"
                    => tree[j].ptr # tree[k].ptr

\* The pipeline never ends the process: no reservation is cancelled twice, and
\* ARTree::Remove on the finalizer thread throws no exception.
NoCrash == ~crashed

\* The counter node never leaves the head of the list of the allocator, in
\* whatever way values are written and removed: OffloadFreeList::getBlock always
\* takes fresh LBAs, and what putBlock appended is never handed out again.
CounterStaysAtHead == lbas.list # <<>> /\ Head(lbas.list) < 0

\* The store is a map: offloading, reading and failing I/O never change the
\* value of a key.
Map == INSTANCE KVMap WITH store <- [k \in Keys |-> Logical(k)], None <- Nil
RefinesMap == Map!Spec

\* Every request that is taken from its pool comes back to it, unless the process
\* ends (LBAs of failed writes are not given back, so the device can fill up).
EveryRequestReturns ==
  \A r \in Rqsts : ~InPool(r) ~> (InPool(r) \/ crashed)
=============================================================================
