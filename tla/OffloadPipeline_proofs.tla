----------------------- MODULE OffloadPipeline_proofs -----------------------
(***************************************************************************)
(* The offload pipeline, for any number of clients, keys, requests, values *)
(* and ring slots.                                                         *)
(*                                                                         *)
(* The requests: no ring exceeds its capacity and the buffer counter stays *)
(* a machine word; a request object has one owner at a time, is called back*)
(* at most once, and is called back before it can be used again.           *)
(*                                                                         *)
(* The LBA allocator: its counter never leaves the head of the list, and   *)
(* it hands out each LBA once when none is given back.                     *)
(*                                                                         *)
(* DataInv, the invariant of the data: where the value of each key is,     *)
(* what a request knows of it, and who uses a key.  The poller, the I/O    *)
(* engine and the device keep it (here); so do the finalizer and the       *)
(* clients (OffloadPipeline_refines).                                      *)
(***************************************************************************)
EXTENDS OffloadPipeline, TLAPS

-----------------------------------------------------------------------------
(***************************************************************************)
(* Rings.                                                                  *)
(***************************************************************************)
\* Enqueueing r adds r to what the ring holds, and keeps it free of duplicates
\* when r was not in it.
LEMMA HeldAppend ==
  ASSUME NEW S, NEW s \in Seq(S), NEW r \in S
  PROVE  /\ Append(s, r) \in Seq(S)
         /\ Len(Append(s, r)) = Len(s) + 1
         /\ Held(Append(s, r)) = Held(s) \cup {r}
         /\ NoDuplicate(s) /\ r \notin Held(s) => NoDuplicate(Append(s, r))
<1> DEFINE t == Append(s, r)
<1>1. /\ t \in Seq(S) /\ Len(t) = Len(s) + 1
      /\ DOMAIN s = 1 .. Len(s) /\ DOMAIN t = 1 .. Len(s) + 1
      /\ Len(s) \in Nat
      /\ \A i \in 1 .. Len(s) : t[i] = s[i]
      /\ t[Len(s) + 1] = r
  OBVIOUS
<1> HIDE DEF t
<1>2. Held(t) = Held(s) \cup {r}
  <2>1. Held(t) \subseteq Held(s) \cup {r}
    BY <1>1 DEF Held
  <2>2. Held(s) \subseteq Held(t)
    BY <1>1 DEF Held
  <2>3. r \in Held(t)
    BY <1>1 DEF Held
  <2>4. QED
    BY Zenon, <2>1, <2>2, <2>3
<1>3. ASSUME NoDuplicate(s), r \notin Held(s)
      PROVE  NoDuplicate(t)
  BY <1>1, <1>3 DEF NoDuplicate, Held
<1>4. QED
  BY Zenon, <1>1, <1>2, <1>3 DEF t

\* Dequeueing takes the head, and nothing else, out of a ring without
\* duplicates.
LEMMA HeldTail ==
  ASSUME NEW S, NEW s \in Seq(S), s # <<>>
  PROVE  /\ Head(s) \in S /\ Head(s) \in Held(s)
         /\ Tail(s) \in Seq(S)
         /\ Len(Tail(s)) = Len(s) - 1
         /\ NoDuplicate(s) => /\ NoDuplicate(Tail(s))
                              /\ Held(Tail(s)) = Held(s) \ {Head(s)}
<1> DEFINE t == Tail(s)
<1> DEFINE h == Head(s)
<1>1. /\ t \in Seq(S) /\ Len(t) = Len(s) - 1 /\ Len(s) \in Nat /\ Len(s) >= 1
      /\ DOMAIN s = 1 .. Len(s) /\ DOMAIN t = 1 .. Len(s) - 1
      /\ \A i \in 1 .. Len(s) - 1 : t[i] = s[i + 1]
      /\ h = s[1] /\ h \in S
  OBVIOUS
<1> HIDE DEF t, h
<1>2. h \in Held(s)
  BY <1>1 DEF Held
<1>3. ASSUME NoDuplicate(s)
      PROVE  NoDuplicate(t)
  <2> SUFFICES ASSUME NEW i \in 1 .. Len(s) - 1, NEW j \in 1 .. Len(s) - 1,
                      t[i] = t[j]
               PROVE  i = j
    BY Zenon, <1>1 DEF NoDuplicate
  <2>1. i + 1 \in 1 .. Len(s) /\ j + 1 \in 1 .. Len(s) /\ s[i + 1] = s[j + 1]
    BY <1>1
  <2>2. i + 1 = j + 1
    BY SMTT(60), <1>1, <1>3, <2>1 DEF NoDuplicate
  <2>3. QED
    BY <1>1, <2>2
<1>4. ASSUME NoDuplicate(s)
      PROVE  Held(t) = Held(s) \ {h}
  <2>1. ASSUME NEW x \in Held(t)
        PROVE  x \in Held(s) /\ x # h
    <3>1. PICK i \in 1 .. Len(s) - 1 : x = t[i]
      BY Zenon, <1>1, <2>1 DEF Held
    <3>2. i + 1 \in 1 .. Len(s) /\ 1 \in 1 .. Len(s) /\ i + 1 # 1 /\ x = s[i + 1]
      BY <1>1, <3>1
    <3>3. QED
      BY SMTT(60), <1>1, <1>4, <3>2 DEF Held, NoDuplicate
  <2>2. ASSUME NEW x \in Held(s), x # h
        PROVE  x \in Held(t)
    <3>1. PICK i \in 1 .. Len(s) : x = s[i]
      BY Zenon, <1>1, <2>2 DEF Held
    <3>2. i - 1 \in 1 .. Len(s) - 1 /\ t[i - 1] = s[(i - 1) + 1] /\ (i - 1) + 1 = i
      BY <1>1, <2>2, <3>1
    <3>3. QED
      BY Zenon, <1>1, <3>1, <3>2 DEF Held
  <2>3. QED
    BY Zenon, <2>1, <2>2
<1>5. QED
  BY Zenon, <1>1, <1>2, <1>3, <1>4 DEF t, h

-----------------------------------------------------------------------------
(***************************************************************************)
(* Types.                                                                  *)
(***************************************************************************)
\* TypeOK with what it takes to be inductive: the finalizer's record, and the
\* fields of the requests that are used without a look at the others.
FinOK ==
  /\ fin \in [pc : {"idle", "get", "update"}, r : Rqsts \cup {Nil},
              bufs : 0 .. UintMod - 1]
  /\ fin.pc # "idle" => fin.r \in Rqsts

RqOK ==
  /\ DOMAIN rq = Rqsts
  /\ \A r \in Rqsts : /\ "op" \in DOMAIN rq[r] /\ "io" \in DOMAIN rq[r]
                       /\ "addr" \in DOMAIN rq[r] /\ rq[r].addr \in DiskLbas

TypeInv == TypeOK /\ FinOK /\ RqOK

\* The buffer counter stays a machine word.
LEMMA WordArithmetic ==
  ASSUME NEW n \in 0 .. UintMod - 1
  PROVE  Inc(n) \in 0 .. UintMod - 1 /\ Dec(n) \in 0 .. UintMod - 1
BY PipelineAssumption DEF Inc, Dec

\* What is read from an IOV block is an LBA of the device, and so is the LBA of a
\* request that was not filled in.
LEMMA LbaTypes == 0 \in DiskLbas /\ \A p : LbaThrough(p) \subseteq DiskLbas
<1>1. 0 \in DiskLbas
  BY LbaBucketAssumption DEF DiskLbas
<1>2. ASSUME NEW p, NEW l \in LbaThrough(p) PROVE l \in DiskLbas
  BY Zenon, <1>2 DEF LbaThrough
<1>3. QED
  BY Zenon, <1>1, <1>2

\* Types hold initially.
LEMMA InitType == Init => TypeInv
<1> SUFFICES ASSUME Init PROVE TypeInv
  BY Zenon
<1>1. TypeOK /\ FinOK
  BY PipelineAssumption DEF Init, TypeOK, FinOK, IdleFin
<1>2. RqOK
  BY Zenon, LbaTypes DEF Init, RqOK, NoRqst
<1>3. QED
  BY Zenon, <1>1, <1>2 DEF TypeInv

\* A client that submits a request keeps the types.
LEMMA SubmitType ==
  ASSUME TypeInv, NEW r \in Rqsts, NEW op, NEW k, NEW v, NEW loc, NEW clb,
         NEW n \in Nat, Submit(r, op, k, v, loc, clb, n),
         UNCHANGED <<bdevVars, fpState, fin>>
  PROVE  TypeInv'
<1>1. offRing' \in Seq(Rqsts) /\ Len(offRing') <= RingSize
  <2>1. offRing \in Seq(Rqsts) /\ offRing' = Append(offRing, r)
    BY Zenon DEF TypeInv, TypeOK, Submit
  <2>2. QED
    BY <2>1, PipelineAssumption DEF Submit
<1>2. pool' \in [Rqsts -> Nat] /\ answers' \in [Rqsts -> Nat]
  BY DEF TypeInv, TypeOK, Submit, InPool
<1>3. RqOK'
  BY Zenon, LbaTypes DEF TypeInv, RqOK, Submit, NoRqst
<1>4. TypeOK'
  BY SMTT(60), <1>1, <1>2 DEF TypeInv, TypeOK, Submit, bdevVars
<1>5. FinOK'
  BY Zenon DEF TypeInv, FinOK
<1>6. QED
  BY Zenon, <1>3, <1>4, <1>5 DEF TypeInv

\* The steps of a client keep the types.
LEMMA ClientType ==
  ASSUME TypeInv, NEW c \in Clients, ClientCall(c) \/ ClientStep(c) \/ Quiesce(c)
  PROVE  TypeInv'
<1> USE DEF dataVars, rqstVars, ringVars, bdevVars
<1>1. ASSUME NEW k \in Keys, NEW v \in Values, Alloc(c, k, v)
      PROVE  TypeInv'
  BY Zenon, <1>1 DEF TypeInv, TypeOK, FinOK, RqOK, Alloc
<1>2. ASSUME NEW k \in Keys, Update(c, k)
      PROVE  TypeInv'
  BY Zenon, <1>2, SubmitType DEF Update
<1>3. ASSUME NEW k \in Keys, UpdateAsync(c, k)
      PROVE  TypeInv'
  BY Zenon, <1>3, SubmitType DEF UpdateAsync
<1>4. ASSUME NEW k \in Keys, UpdateAsyncMissing(c, k)
      PROVE  TypeInv'
  BY Zenon, <1>4, SubmitType DEF UpdateAsyncMissing
<1>5. ASSUME NEW k \in Keys, Get(c, k)
      PROVE  TypeInv'
  <2>1. CASE tree[k].loc = "PMEM"
    BY Zenon, <1>5, <2>1 DEF Get, TypeInv, TypeOK, FinOK, RqOK
  <2>2. CASE tree[k].loc # "PMEM"
    BY Zenon, <1>5, <2>2, SubmitType DEF Get
  <2>3. QED
    BY Zenon, <2>1, <2>2
<1>6. ASSUME NEW k \in Keys, GetAsync(c, k)
      PROVE  TypeInv'
  BY Zenon, <1>6, SubmitType DEF GetAsync
<1>7. ASSUME NEW k \in Keys, RemoveOffloaded(c, k)
      PROVE  TypeInv'
  BY Zenon, <1>7, SubmitType DEF RemoveOffloaded
<1>8. CASE Put(c) \/ GetCopy(c) \/ Return(c)
  BY Zenon, <1>8 DEF Put, GetCopy, Return, TypeInv, TypeOK, FinOK, RqOK
<1>9. CASE TimeOut(c)
  <2>1. RqOK'
    BY ZenonT(30), <1>9 DEF TimeOut, TypeInv, RqOK
  <2>2. QED
    BY Zenon, <1>9, <2>1 DEF TimeOut, TypeInv, TypeOK, FinOK
<1>10. CASE Quiesce(c)
  BY Zenon, <1>10 DEF Quiesce, TypeInv, TypeOK, FinOK, RqOK
<1>11. CASE QuiesceEnd(c)
  BY Zenon, <1>11 DEF QuiesceEnd, TypeInv, TypeOK, FinOK, RqOK
<1>12. QED
  BY Zenon, <1>1, <1>2, <1>3, <1>4, <1>5, <1>6, <1>7, <1>8, <1>9, <1>10, <1>11
     DEF ClientCall, ClientStep

\* A callback keeps the types.
LEMMA ReplyType ==
  ASSUME TypeInv, NEW r \in Rqsts, NEW ok, NEW val, Reply(r, ok, val)
  PROVE  answers' \in [Rqsts -> Nat] /\ answers' = [answers EXCEPT ![r] = @ + 1]
BY DEF TypeInv, TypeOK, Reply

\* The return of a request to its pool keeps the types.
LEMMA PoolPutType ==
  ASSUME TypeInv, NEW r \in Rqsts, NEW n \in Nat, PoolPut(r, n)
  PROVE  pool' \in [Rqsts -> Nat] /\ RqOK'
<1>1. pool' \in [Rqsts -> Nat]
  BY DEF TypeInv, TypeOK, PoolPut
<1>2. RqOK'
  BY Zenon, LbaTypes DEF TypeInv, RqOK, PoolPut, NoRqst
<1>3. QED
  BY Zenon, <1>1, <1>2

\* The offload poller keeps the types.
LEMMA PollerType == TypeInv /\ Poller => TypeInv'
<1> SUFFICES ASSUME TypeInv, Poller PROVE TypeInv'
  BY Zenon
<1> USE DEF dataVars, bdevVars
<1> DEFINE r == Head(offRing)
<1>1. /\ offRing \in Seq(Rqsts) /\ offRing # <<>> /\ offRing' = Tail(offRing)
      /\ Len(offRing) <= RingSize
  BY Zenon DEF Poller, TypeInv, TypeOK
<1>2. r \in Rqsts /\ offRing' \in Seq(Rqsts) /\ Len(offRing') <= RingSize
  BY <1>1, HeldTail, PipelineAssumption
<1>3. UNCHANGED <<finRing, inDev, ioWait, ioBufsInUse, outstanding, ioState,
                  fpState, fin>>
  BY Zenon DEF Poller
<1> HIDE DEF r
<1>4. CASE PollerAnswer(r)
  <2>1. answers' \in [Rqsts -> Nat] /\ pool' \in [Rqsts -> Nat] /\ RqOK'
    BY Zenon, <1>2, <1>4, ReplyType, PoolPutType DEF PollerAnswer
  <2>2. UNCHANGED ioRing
    BY Zenon, <1>4 DEF PollerAnswer
  <2>3. QED
    BY SMTT(60), <1>2, <1>3, <2>1, <2>2 DEF TypeInv, TypeOK, FinOK
<1>5. CASE PollerForward(r)
  <2>1. ioRing' \in Seq(Rqsts) /\ Len(ioRing') <= RingSize
    <3>1. ioRing \in Seq(Rqsts) /\ ioRing' = Append(ioRing, r) /\ Len(ioRing) < RingSize
      BY Zenon, <1>5 DEF PollerForward, TypeInv, TypeOK
    <3>2. QED
      BY <1>2, <3>1, PipelineAssumption
  <2>2. UNCHANGED <<pool, answers>>
    BY Zenon, <1>5 DEF PollerForward
  <2>3. RqOK'
    <3>1. ASSUME NEW lba \in DiskLbas, rq' = [rq EXCEPT ![r].addr = lba]
          PROVE  RqOK'
      BY Zenon, <1>2, <3>1 DEF TypeInv, RqOK
    <3>2. CASE UNCHANGED rq
      BY Zenon, <3>2 DEF TypeInv, RqOK
    <3>3. QED
      BY Zenon, <1>5, <3>1, <3>2, LbaTypes DEF PollerForward
  <2>4. QED
    BY Zenon, <1>2, <1>3, <2>1, <2>2, <2>3 DEF TypeInv, TypeOK, FinOK
<1>6. QED
  BY Zenon, <1>4, <1>5 DEF Poller, r

\* The I/O engine keeps the types.
LEMMA IoEngineType == TypeInv /\ IoEngine => TypeInv'
<1> SUFFICES ASSUME TypeInv, IoEngine PROVE TypeInv'
  BY Zenon
<1> USE DEF dataVars, rqstVars, ringVars, bdevVars
<1>1. CASE Crash
  BY Zenon, <1>1 DEF Crash, TypeInv, TypeOK, FinOK, RqOK
<1> DEFINE r == Head(ioRing)
<1>2. /\ ioRing \in Seq(Rqsts) /\ ioRing # <<>> /\ Len(ioRing) <= RingSize
      /\ finRing \in Seq(Rqsts) /\ Len(finRing) <= RingSize
  BY Zenon DEF IoEngine, TypeInv, TypeOK
<1>3. /\ r \in Rqsts /\ Tail(ioRing) \in Seq(Rqsts)
      /\ Len(Tail(ioRing)) <= RingSize
  BY <1>2, HeldTail, PipelineAssumption
<1>4. CASE ioRing' = Tail(ioRing) /\ UNCHANGED offRing /\ IoHang
  BY SMTT(60), <1>3, <1>4 DEF IoHang, TypeInv, TypeOK, FinOK, RqOK
<1>5. ASSUME ioRing' = Tail(ioRing), UNCHANGED offRing, IoRefuse(r)
      PROVE  TypeInv'
  <2>1. answers' \in [Rqsts -> Nat] /\ pool' \in [Rqsts -> Nat] /\ RqOK'
    BY ZenonT(30), <1>3, <1>5, ReplyType, PoolPutType DEF IoRefuse
  <2>2. ioBufsInUse' \in 0 .. UintMod - 1
    BY ZenonT(30), <1>5, WordArithmetic DEF IoRefuse, TypeInv, TypeOK
  <2>3. ioState' \in {"INIT", "QUIESCING", "QUIESCENT", "ABORTED"}
    BY Zenon, <1>5 DEF IoRefuse, stateAfter, TypeInv, TypeOK
  <2>4. UNCHANGED <<finRing, inDev, ioWait, outstanding, fpState, fin>>
    BY Zenon, <1>5 DEF IoRefuse
  <2>5. QED
    BY ZenonT(30), <1>3, <1>5, <2>1, <2>2, <2>3, <2>4 DEF TypeInv, TypeOK, FinOK
<1>6. ASSUME ioRing' = Tail(ioRing), UNCHANGED offRing, IoRead(r) \/ IoWrite(r)
      PROVE  TypeInv'
  <2>1. RqOK'
    BY ZenonT(30), <1>6 DEF IoRead, IoWrite, TypeInv, RqOK
  <2>2. ioBufsInUse' \in 0 .. UintMod - 1
    BY ZenonT(30), <1>6, WordArithmetic DEF IoRead, IoWrite, TypeInv, TypeOK
  <2>3. IoSubmit(r)
    BY ZenonT(30), <1>6 DEF IoRead, IoWrite
  <2>4. QED
    BY SMTT(60), <1>3, <1>6, <2>1, <2>2, <2>3 DEF IoSubmit, TypeInv, TypeOK, FinOK
<1>7. ASSUME ioRing' = Tail(ioRing), UNCHANGED offRing, IoRemove(r)
      PROVE  TypeInv'
  <2>1. UNCHANGED <<inDev, ioWait, ioBufsInUse, outstanding, ioState, fpState, fin>>
    BY Zenon, <1>7 DEF IoRemove
  <2>2. CASE Len(finRing) < RingSize
    <3>1. finRing' = Append(finRing, r) /\ UNCHANGED <<pool, answers>>
      BY Zenon, <1>7, <2>2 DEF IoRemove
    <3>2. finRing' \in Seq(Rqsts) /\ Len(finRing') <= RingSize
      BY <1>2, <1>3, <2>2, <3>1, PipelineAssumption
    <3>3. RqOK'
      BY Zenon, <1>7, <2>2 DEF IoRemove, TypeInv, RqOK
    <3>4. QED
      BY SMTT(60), <1>3, <1>7, <2>1, <3>1, <3>2, <3>3 DEF TypeInv, TypeOK, FinOK
  <2>3. CASE ~(Len(finRing) < RingSize)
    <3>1. Reply(r, FALSE, Nil) /\ PoolPut(r, 1) /\ UNCHANGED finRing
      BY ZenonT(30), <1>7, <2>3 DEF IoRemove
    <3>2. answers' \in [Rqsts -> Nat] /\ pool' \in [Rqsts -> Nat] /\ RqOK'
      BY ZenonT(30), <1>3, <3>1, ReplyType, PoolPutType
    <3>3. QED
      BY ZenonT(30), <1>3, <1>7, <2>1, <3>1, <3>2 DEF TypeInv, TypeOK, FinOK
  <2>4. QED
    BY Zenon, <2>2, <2>3
<1>8. QED
  BY Zenon, <1>1, <1>4, <1>5, <1>6, <1>7 DEF IoEngine

\* The completions keep the types.
LEMMA DeviceType ==
  ASSUME TypeInv, NEW r \in Rqsts, Device(r) \/ QueueIoWait(r)
  PROVE  TypeInv'
<1> USE DEF dataVars, bdevVars
<1>1. CASE QueueIoWait(r)
  BY Zenon, <1>1 DEF QueueIoWait, TypeInv, TypeOK, FinOK, RqOK
<1>2. CASE Device(r)
  <2>1. PICK success : WriteComplete(r, success) \/ ReadComplete(r, success)
    BY Zenon, <1>2 DEF Device
  <2>2. RqOK'
    BY Zenon, <2>1 DEF WriteComplete, ReadComplete, TypeInv, RqOK
  <2>3. ioBufsInUse' \in 0 .. UintMod - 1
    BY Zenon, <2>1, WordArithmetic DEF WriteComplete, ReadComplete, TypeInv, TypeOK
  <2>4. ToFinalizer(r, Completed)
    BY Zenon, <2>1 DEF WriteComplete, ReadComplete
  <2>5. outstanding' \in Nat
    BY <2>4 DEF ToFinalizer, Completed, TypeInv, TypeOK
  <2>6. finRing' \in Seq(Rqsts) /\ Len(finRing') <= RingSize
    <3>1. finRing \in Seq(Rqsts) /\ Len(finRing) <= RingSize
      BY Zenon DEF TypeInv, TypeOK
    <3>2. \/ finRing' = finRing
          \/ finRing' = Append(finRing, r) /\ Len(finRing) < RingSize
      BY Zenon, <2>4 DEF ToFinalizer
    <3>3. QED
      BY <3>1, <3>2, PipelineAssumption
  <2>7. ioState' \in {"INIT", "QUIESCING", "QUIESCENT", "ABORTED"}
    BY Zenon, <2>4 DEF ToFinalizer, stateAfter, TypeInv, TypeOK
  <2>8. /\ inDev' \subseteq Rqsts
        /\ UNCHANGED <<pool, answers, offRing, ioRing, ioWait, fpState, fin>>
    BY Zenon, <2>4 DEF ToFinalizer, TypeInv, TypeOK
  <2>9. QED
    BY SMTT(60), <2>2, <2>3, <2>5, <2>6, <2>7, <2>8 DEF TypeInv, TypeOK, FinOK
<1>3. QED
  BY Zenon, <1>1, <1>2

\* The finalizer keeps the types.
LEMMA FinalizerType == TypeInv /\ Finalizer => TypeInv'
<1> SUFFICES ASSUME TypeInv, Finalizer PROVE TypeInv'
  BY Zenon
<1> USE DEF rqstVars, bdevVars
<1> DEFINE r == Head(finRing)
<1>1. finRing \in Seq(Rqsts) /\ finRing # <<>> /\ Len(finRing) <= RingSize
  BY Zenon DEF Finalizer, TypeInv, TypeOK
<1>2. /\ r \in Rqsts /\ finRing' \in Seq(Rqsts) /\ Len(finRing') <= RingSize
      /\ UNCHANGED <<offRing, ioRing, inDev, ioWait, bdevVars, fpState>>
  BY <1>1, HeldTail, PipelineAssumption DEF Finalizer
<1> HIDE DEF r
<1>3. CASE FinDrop(r)
  <2>1. pool' \in [Rqsts -> Nat] /\ RqOK' /\ UNCHANGED <<answers, fin>>
    BY Zenon, <1>2, <1>3, PoolPutType DEF FinDrop
  <2>2. QED
    BY Zenon, <1>2, <2>1 DEF TypeInv, TypeOK, FinOK
<1>4. CASE FinGet(r)
  <2>1. answers' \in [Rqsts -> Nat] /\ UNCHANGED <<pool, rq>>
    BY Zenon, <1>2, <1>4, ReplyType DEF FinGet
  <2>2. FinOK'
    BY Zenon, <1>2, <1>4 DEF FinGet, FinOK, TypeInv, TypeOK
  <2>3. QED
    BY Zenon, <1>2, <2>1, <2>2 DEF TypeInv, TypeOK, RqOK
<1>5. CASE FinUpdate(r)
  <2>1. FinOK'
    BY SMTT(60), <1>2, <1>5, PipelineAssumption DEF FinUpdate, FinOK, TypeInv, TypeOK
  <2>2. UNCHANGED <<pool, rq, answers>>
    BY Zenon, <1>5 DEF FinUpdate
  <2>3. QED
    BY Zenon, <1>2, <2>1, <2>2 DEF TypeInv, TypeOK, RqOK
<1>6. CASE FinAnswer(r)
  <2>1. /\ answers' \in [Rqsts -> Nat] /\ pool' \in [Rqsts -> Nat] /\ RqOK'
        /\ UNCHANGED fin
    BY Zenon, <1>2, <1>6, ReplyType, PoolPutType DEF FinAnswer
  <2>2. QED
    BY SMTT(60), <1>2, <2>1 DEF TypeInv, TypeOK, FinOK
<1>7. CASE FinRemove(r)
  <2>1. UNCHANGED fin
    BY Zenon, <1>7 DEF FinRemove
  <2>2. CASE UNCHANGED rqstVars
    BY Zenon, <1>2, <2>1, <2>2 DEF TypeInv, TypeOK, FinOK, RqOK
  <2>3. CASE Reply(r, TRUE, Nil) /\ PoolPut(r, 1)
    <3>1. answers' \in [Rqsts -> Nat] /\ pool' \in [Rqsts -> Nat] /\ RqOK'
      BY ZenonT(30), <1>2, <2>3, ReplyType, PoolPutType
    <3>2. QED
      BY SMTT(60), <1>2, <2>1, <3>1 DEF TypeInv, TypeOK, FinOK
  <2>4. QED
    BY ZenonT(30), <1>7, <2>2, <2>3 DEF FinRemove
<1>8. QED
  BY Zenon, <1>3, <1>4, <1>5, <1>6, <1>7 DEF Finalizer, r

\* The second halves of the finalizer's steps keep the types.
LEMMA FinEndType == TypeInv /\ (FinGetEnd \/ FinUpdateEnd) => TypeInv'
<1> SUFFICES ASSUME TypeInv, FinGetEnd \/ FinUpdateEnd PROVE TypeInv'
  BY Zenon
<1> USE DEF dataVars, ringVars, bdevVars
<1>1. fin.r \in Rqsts /\ fin.bufs \in 0 .. UintMod - 1
  BY ZenonT(30) DEF FinGetEnd, FinUpdateEnd, TypeInv, FinOK
<1>2. pool' \in [Rqsts -> Nat] /\ RqOK' /\ answers' \in [Rqsts -> Nat]
  <2>1. CASE FinGetEnd
    BY Zenon, <1>1, <2>1, PoolPutType DEF FinGetEnd, TypeInv, TypeOK
  <2>2. CASE FinUpdateEnd
    BY ZenonT(30), <1>1, <2>2, PoolPutType, ReplyType DEF FinUpdateEnd
  <2>3. QED
    BY Zenon, <2>1, <2>2
<1>3. FinOK'
  <2>1. fin' = IdleFin
    BY ZenonT(30) DEF FinGetEnd, FinUpdateEnd
  <2>2. QED
    BY <2>1, PipelineAssumption DEF FinOK, IdleFin
<1>4. ioBufsInUse' \in 0 .. UintMod - 1
  BY ZenonT(30), <1>1, WordArithmetic DEF FinGetEnd, FinUpdateEnd, TypeInv, TypeOK
<1>5. UNCHANGED <<ringVars, outstanding, ioState, fpState>>
  BY ZenonT(30) DEF FinGetEnd, FinUpdateEnd
<1>6. QED
  BY Zenon, <1>2, <1>3, <1>4, <1>5 DEF TypeInv, TypeOK

\* Every step keeps the types.
LEMMA NextType == TypeInv /\ [Next]_vars => TypeInv'
<1> SUFFICES ASSUME TypeInv, [Next]_vars PROVE TypeInv'
  BY Zenon
<1>1. CASE UNCHANGED vars
  BY Zenon, <1>1 DEF vars, dataVars, rqstVars, ringVars, bdevVars, TypeInv, TypeOK,
              FinOK, RqOK
<1>2. CASE Running
  BY Zenon, <1>2, ClientType, PollerType, IoEngineType, DeviceType, FinalizerType,
     FinEndType DEF Running
<1>3. QED
  BY Zenon, <1>1, <1>2 DEF Next

\* The rings never hold more than their capacity, the buffer counter is always a
\* machine word, and every other variable has its type, in every behaviour.
THEOREM PipelineTypes == Spec => []TypeOK
<1>1. Init => TypeInv
  BY Zenon, InitType
<1>2. TypeInv /\ [Next]_vars => TypeInv'
  BY Zenon, NextType
<1>3. TypeInv => TypeOK
  BY Zenon DEF TypeInv
<1>4. QED
  BY <1>1, <1>2, <1>3, PTL DEF Spec

-----------------------------------------------------------------------------
(***************************************************************************)
(* What clients never do leaves no trace in the pipeline: without removes  *)
(* no REMOVE request, without reads no GET request, without quiescing no   *)
(* state of quiescing.                                                     *)
(***************************************************************************)
CallOK ==
  /\ DOMAIN call = Clients
  /\ \A c \in Clients : /\ "pc" \in DOMAIN call[c]
                        /\ call[c].pc = "quiesce" => "QUIESCE" \in Ops

Reads == "GET" \in Ops \/ "GET_ASYNC" \in Ops

OpOK ==
  \A r \in Rqsts : /\ rq[r].op = "REMOVE" => "REMOVE_DISK" \in Ops
                   /\ rq[r].op = "GET" => Reads
                   /\ rq[r].io = "read" => Reads

StateOK == ioState # "INIT" \/ fpState # "READY" => "QUIESCE" \in Ops

\* Without Remove there are no REMOVE requests; without QuiesceOffload the device
\* and the finalizer stay in their first state.
ModeInv ==
  /\ CallOK
  /\ OpOK
  /\ StateOK

\* Entering, leaving and answering a call keep the calls in order.
LEMMA CallSteps ==
  ASSUME CallOK
  PROVE  /\ \A op, k, ptr, r :
              \A c \in Clients, pc \in {"put", "wait", "copy"} :
                Enter(c, pc, op, k, ptr, r) => CallOK'
         /\ \A c \in Clients : Leave(c) => CallOK'
         /\ UNCHANGED call => CallOK'
<1>1. ASSUME NEW c \in Clients, NEW op, NEW k, NEW ptr, NEW r,
             NEW pc \in {"put", "wait", "copy"}, Enter(c, pc, op, k, ptr, r)
      PROVE  CallOK'
  BY Zenon, <1>1 DEF CallOK, Enter, IdleCall
<1>2. ASSUME NEW c \in Clients, Leave(c)
      PROVE  CallOK'
  BY Zenon, <1>2 DEF CallOK, Leave, IdleCall
<1>3. UNCHANGED call => CallOK'
  BY Zenon DEF CallOK
<1>4. QED
  BY Zenon, <1>1, <1>2, <1>3

\* A callback keeps the calls in order.
LEMMA ReplyCall ==
  ASSUME CallOK, NEW r, NEW ok, NEW val, Reply(r, ok, val)
  PROVE  CallOK'
BY Zenon DEF CallOK, Reply

\* A request that is filled in, or put back, keeps the operations in order.
LEMMA RequestOp ==
  ASSUME RqOK, OpOK, NEW r \in Rqsts
  PROVE  /\ \A op, k, v, loc, clb, n :
              Submit(r, op, k, v, loc, clb, n)
              /\ (op = "REMOVE" => "REMOVE_DISK" \in Ops) /\ (op = "GET" => Reads)
              => OpOK'
         /\ \A n : PoolPut(r, n) => OpOK'
         /\ UNCHANGED rq => OpOK'
<1>1. ASSUME NEW op, NEW k, NEW v, NEW loc, NEW clb, NEW n,
             Submit(r, op, k, v, loc, clb, n),
             op = "REMOVE" => "REMOVE_DISK" \in Ops, op = "GET" => Reads
      PROVE  OpOK'
  BY Zenon, <1>1 DEF OpOK, RqOK, Submit, NoRqst
<1>2. ASSUME NEW n, PoolPut(r, n)
      PROVE  OpOK'
  BY Zenon, <1>2 DEF OpOK, RqOK, PoolPut, NoRqst
<1>3. QED
  BY Zenon, <1>1, <1>2 DEF OpOK

\* The steps of a client keep ModeInv.
LEMMA ClientMode ==
  ASSUME TypeInv, ModeInv, NEW c \in Clients,
         ClientCall(c) \/ ClientStep(c) \/ Quiesce(c)
  PROVE  ModeInv'
<1> USE DEF dataVars, rqstVars, ringVars, bdevVars, ModeInv, TypeInv
<1>1. ASSUME NEW k \in Keys, NEW v \in Values, Alloc(c, k, v)
      PROVE  ModeInv'
  BY Zenon, <1>1, CallSteps DEF Alloc, OpOK, StateOK
<1>2. ASSUME NEW k \in Keys,
             Update(c, k) \/ UpdateAsync(c, k) \/ UpdateAsyncMissing(c, k)
             \/ GetAsync(c, k) \/ RemoveOffloaded(c, k)
      PROVE  ModeInv'
  <2>1. CallOK'
    BY Zenon, <1>2, CallSteps
       DEF Update, UpdateAsync, UpdateAsyncMissing, GetAsync, RemoveOffloaded
  <2>2. OpOK'
    <3>1. CASE Update(c, k) \/ UpdateAsync(c, k)
      BY <3>1, RequestOp DEF Update, UpdateAsync
    <3>2. CASE UpdateAsyncMissing(c, k)
      BY <3>2, RequestOp DEF UpdateAsyncMissing
    <3>3. CASE GetAsync(c, k)
      BY Zenon, <3>3, RequestOp DEF GetAsync, MayCall, Reads
    <3>4. CASE RemoveOffloaded(c, k)
      BY <3>4, RequestOp DEF RemoveOffloaded, MayCall
    <3>5. QED
      BY Zenon, <1>2, <3>1, <3>2, <3>3, <3>4
  <2>3. StateOK'
    BY Zenon, <1>2
       DEF Update, UpdateAsync, UpdateAsyncMissing, GetAsync, RemoveOffloaded,
           StateOK
  <2>4. QED
    BY Zenon, <2>1, <2>2, <2>3
<1>3. ASSUME NEW k \in Keys, Get(c, k)
      PROVE  ModeInv'
  <2>1. CallOK'
    BY Zenon, <1>3, CallSteps DEF Get
  <2>2. OpOK'
    <3>1. CASE tree[k].loc = "PMEM"
      BY Zenon, <1>3, <3>1 DEF Get, OpOK
    <3>2. CASE tree[k].loc # "PMEM"
      BY Zenon, <1>3, <3>2, RequestOp DEF Get, MayCall, Reads
    <3>3. QED
      BY Zenon, <3>1, <3>2
  <2>3. QED
    BY Zenon, <1>3, <2>1, <2>2 DEF Get, StateOK
<1>4. CASE Put(c) \/ GetCopy(c) \/ Return(c)
  BY Zenon, <1>4, CallSteps DEF Put, GetCopy, Return, OpOK, StateOK
<1>5. CASE TimeOut(c)
  <2>1. OpOK'
    <3>1. ASSUME NEW r, NEW k, rq' = [rq EXCEPT ![r].key = k]
          PROVE  OpOK'
      BY Zenon, <3>1 DEF OpOK, RqOK
    <3>2. CASE UNCHANGED rq
      BY Zenon, <3>2 DEF OpOK
    <3>3. QED
      BY Zenon, <1>5, <3>1, <3>2 DEF TimeOut
  <2>2. QED
    BY Zenon, <1>5, <2>1, CallSteps DEF TimeOut, StateOK
<1>6. CASE Quiesce(c)
  <2>1. CallOK'
    BY Zenon, <1>6 DEF Quiesce, Enter, CallOK, IdleCall
  <2>2. QED
    BY Zenon, <1>6, <2>1 DEF Quiesce, StateOK, OpOK
<1>7. CASE QuiesceEnd(c)
  <2>1. StateOK'
    BY Zenon, <1>7 DEF QuiesceEnd, CallOK, StateOK
  <2>2. QED
    BY Zenon, <1>7, <2>1, CallSteps DEF QuiesceEnd, OpOK
<1>8. QED
  BY Zenon, <1>1, <1>2, <1>3, <1>4, <1>5, <1>6, <1>7 DEF ClientCall, ClientStep

\* The threads of the pipeline keep ModeInv.
LEMMA PipelineMode ==
  ASSUME TypeInv, ModeInv,
         \/ Poller \/ IoEngine \/ Finalizer \/ FinGetEnd \/ FinUpdateEnd
         \/ \E r \in Rqsts : Device(r) \/ QueueIoWait(r)
  PROVE  ModeInv'
<1> USE DEF dataVars, rqstVars, ringVars, bdevVars, ModeInv, TypeInv
<1>1. CASE Poller
  <2>1. Head(offRing) \in Rqsts
    BY Zenon, <1>1, HeldTail DEF Poller, TypeOK
  <2>2. CallOK'
    BY Zenon, <1>1, ReplyCall, CallSteps DEF Poller, PollerAnswer, PollerForward
  <2>3. OpOK'
    <3>1. CASE PollerAnswer(Head(offRing))
      BY Zenon, <2>1, <3>1, RequestOp DEF PollerAnswer
    <3>2. CASE PollerForward(Head(offRing))
      <4>1. CASE UNCHANGED rq
        BY Zenon, <4>1 DEF OpOK
      <4>2. ASSUME NEW lba, rq' = [rq EXCEPT ![Head(offRing)].addr = lba]
            PROVE  OpOK'
        BY Zenon, <2>1, <4>2 DEF OpOK, RqOK
      <4>3. QED
        BY ZenonT(30), <3>2, <4>1, <4>2 DEF PollerForward
    <3>3. QED
      BY Zenon, <1>1, <3>1, <3>2 DEF Poller
  <2>4. QED
    BY Zenon, <1>1, <2>2, <2>3 DEF Poller, StateOK
<1>2. CASE IoEngine
  <2> DEFINE r == Head(ioRing)
  <2>1. r \in Rqsts
    BY Zenon, <1>2, HeldTail DEF IoEngine, TypeOK
  <2> HIDE DEF r
  <2>2. CASE Crash \/ IoHang
    BY Zenon, <2>2, CallSteps DEF Crash, IoHang, OpOK, StateOK
  <2>3. CASE IoRefuse(r)
    <3>1. StateOK'
      BY Zenon, <2>3 DEF IoRefuse, stateAfter, StateOK
    <3>2. QED
      BY ZenonT(30), <2>1, <2>3, <3>1, ReplyCall, RequestOp DEF IoRefuse
  <2>4. CASE IoRead(r) \/ IoWrite(r)
    <3>1. OpOK'
      <4>1. CASE IoRead(r)
        BY Zenon, <2>1, <4>1 DEF IoRead, OpOK, RqOK
      <4>2. ASSUME NEW lba, NEW buf,
                   rq' = [rq EXCEPT ![r].io = "write", ![r].freeLba = lba,
                                    ![r].buf = buf]
            PROVE  OpOK'
        BY SMTT(30), <2>1, <4>2 DEF OpOK, RqOK
      <4>3. CASE IoWrite(r)
        <5>1. PICK g : rq' = [rq EXCEPT ![r].io = "write", ![r].freeLba = g.lba,
                                        ![r].buf = IF rq[r].value = Nil THEN Nil
                                                   ELSE Deref(rq[r].value)]
          BY ZenonT(30), <4>3 DEF IoWrite
        <5>2. QED
          BY ZenonT(30), <4>2, <5>1
      <4>4. QED
        BY Zenon, <2>4, <4>1, <4>3
    <3>2. QED
      BY ZenonT(30), <2>4, <3>1, CallSteps DEF IoRead, IoWrite, IoSubmit, StateOK
  <2>5. CASE IoRemove(r)
    <3>1. CallOK'
      BY ZenonT(30), <2>5, ReplyCall, CallSteps DEF IoRemove
    <3>2. OpOK'
      <4>1. CASE rq' = [rq EXCEPT ![r].result = TRUE]
        BY Zenon, <4>1 DEF OpOK, RqOK
      <4>2. CASE PoolPut(r, 1)
        BY Zenon, <2>1, <4>2, RequestOp
      <4>3. QED
        BY ZenonT(30), <2>5, <4>1, <4>2 DEF IoRemove
    <3>3. QED
      BY Zenon, <2>5, <3>1, <3>2 DEF IoRemove, StateOK
  <2>6. QED
    BY Zenon, <1>2, <2>2, <2>3, <2>4, <2>5 DEF IoEngine, r
<1>3. ASSUME NEW r \in Rqsts, Device(r) \/ QueueIoWait(r)
      PROVE  ModeInv'
  <2>1. OpOK'
    <3>1. ASSUME NEW res, rq' = [rq EXCEPT ![r].result = res]
          PROVE  OpOK'
      BY Zenon, <3>1 DEF OpOK, RqOK
    <3>2. ASSUME NEW res, NEW buf,
                 rq' = [rq EXCEPT ![r].result = res, ![r].buf = buf]
          PROVE  OpOK'
      BY Zenon, <3>2 DEF OpOK, RqOK
    <3>3. CASE QueueIoWait(r)
      BY Zenon, <3>3 DEF QueueIoWait, OpOK, RqOK
    <3>4. QED
      BY ZenonT(30), <1>3, <3>1, <3>2, <3>3 DEF Device, WriteComplete, ReadComplete
  <2>2. CallOK'
    BY ZenonT(30), <1>3, CallSteps
       DEF Device, WriteComplete, ReadComplete, ToFinalizer, QueueIoWait
  <2>3. StateOK'
    BY ZenonT(30), <1>3 DEF Device, WriteComplete, ReadComplete, ToFinalizer, QueueIoWait,
                stateAfter, StateOK
  <2>4. QED
    BY Zenon, <2>1, <2>2, <2>3
<1>4. CASE Finalizer
  <2> DEFINE r == Head(finRing)
  <2>1. r \in Rqsts
    BY Zenon, <1>4, HeldTail DEF Finalizer, TypeOK
  <2> HIDE DEF r
  <2>2. /\ FinDrop(r) \/ FinGet(r) \/ FinUpdate(r) \/ FinAnswer(r) \/ FinRemove(r)
        /\ StateOK'
    BY Zenon, <1>4 DEF Finalizer, r, StateOK
  <2>3. CASE FinDrop(r)
    BY Zenon, <2>1, <2>2, <2>3, CallSteps, RequestOp DEF FinDrop
  <2>4. CASE FinGet(r)
    BY Zenon, <2>2, <2>4, ReplyCall DEF FinGet, OpOK
  <2>5. CASE FinUpdate(r)
    BY Zenon, <2>2, <2>5, CallSteps DEF FinUpdate, OpOK
  <2>6. CASE FinAnswer(r)
    BY Zenon, <2>1, <2>2, <2>6, ReplyCall, RequestOp DEF FinAnswer
  <2>7. CASE FinRemove(r)
    <3>1. \/ UNCHANGED <<rq, call>>
          \/ Reply(r, TRUE, Nil) /\ PoolPut(r, 1)
      BY ZenonT(30), <2>7 DEF FinRemove
    <3>2. QED
      BY ZenonT(30), <2>1, <2>2, <3>1, ReplyCall, CallSteps, RequestOp
  <2>8. QED
    BY Zenon, <2>2, <2>3, <2>4, <2>5, <2>6, <2>7
<1>5. CASE FinGetEnd \/ FinUpdateEnd
  <2>1. fin.r \in Rqsts
    BY ZenonT(30), <1>5 DEF FinGetEnd, FinUpdateEnd, FinOK
  <2>2. OpOK'
    BY ZenonT(30), <1>5, <2>1, RequestOp DEF FinGetEnd, FinUpdateEnd
  <2>3. CallOK'
    BY ZenonT(30), <1>5, ReplyCall, CallSteps DEF FinGetEnd, FinUpdateEnd
  <2>4. QED
    BY ZenonT(30), <1>5, <2>2, <2>3 DEF FinGetEnd, FinUpdateEnd, StateOK
<1>6. QED
  BY Zenon, <1>1, <1>2, <1>3, <1>4, <1>5

-----------------------------------------------------------------------------
(***************************************************************************)
(* One owner for each request.                                             *)
(***************************************************************************)

\* Request r is in one place of the pipeline, or in its pool, or was lost with a
\* thread that hangs or with a ring that was full.
OwnAt(r) ==
  /\ r \in Held(offRing) => /\ r \notin Held(ioRing) /\ r \notin inDev
                            /\ r \notin ioWait /\ r \notin Held(finRing)
                            /\ r \notin InFin
  /\ r \in Held(ioRing) => /\ r \notin inDev /\ r \notin ioWait
                           /\ r \notin Held(finRing) /\ r \notin InFin
  /\ r \in inDev => /\ r \notin ioWait /\ r \notin Held(finRing)
                    /\ r \notin InFin
  /\ r \in ioWait => r \notin Held(finRing) /\ r \notin InFin
  /\ r \in Held(finRing) => r \notin InFin
  /\ pool[r] <= 1
  /\ pool[r] = 1 => /\ r \notin Held(offRing) /\ r \notin Held(ioRing)
                    /\ r \notin inDev /\ r \notin ioWait
                    /\ r \notin Held(finRing) /\ r \notin InFin

\* Nobody has called r back while it travels, and somebody has when it is in its
\* pool again.
Travels(r) ==
  \/ r \in Held(offRing) \/ r \in Held(ioRing) \/ r \in inDev \/ r \in ioWait
  \/ r \in Held(finRing) \/ (fin.pc = "update" /\ fin.r = r)

AnsAt(r) ==
  /\ "UPDATE_ASYNC_MISSING" \notin Ops =>
       answers[r] <= 1 /\ (Travels(r) => answers[r] = 0)
  /\ "QUIESCE" \notin Ops =>
       (pool[r] = 1 \/ (fin.pc = "get" /\ fin.r = r) => answers[r] >= 1)

OwnInv ==
  /\ NoDuplicate(offRing) /\ NoDuplicate(ioRing) /\ NoDuplicate(finRing)
  /\ \A r \in Rqsts : OwnAt(r) /\ AnsAt(r)

\* Nothing that OwnInv is about changes.
Still == UNCHANGED <<pool, answers, ringVars, fin>>

\* A step that moves no request keeps OwnInv.
LEMMA StillOwn == OwnInv /\ Still => OwnInv'
BY Zenon DEF OwnInv, Still, ringVars, OwnAt, AnsAt, Travels, InFin

\* Only request x moves: the others are where they were.
OthersStay(x) ==
  \A y \in Rqsts : y # x =>
    /\ y \in Held(offRing)' => y \in Held(offRing)
    /\ y \in Held(ioRing)' => y \in Held(ioRing)
    /\ y \in inDev' => y \in inDev
    /\ y \in ioWait' => y \in ioWait
    /\ y \in Held(finRing)' => y \in Held(finRing)
    /\ y \in InFin' => y \in InFin /\ UNCHANGED fin
    /\ pool'[y] = pool[y]
    /\ answers'[y] = answers[y]

\* It is enough to look at the request that moves.
LEMMA OneMoves ==
  ASSUME TypeInv', OwnInv, NEW x \in Rqsts, OthersStay(x),
         NoDuplicate(offRing)', NoDuplicate(ioRing)', NoDuplicate(finRing)',
         OwnAt(x)', AnsAt(x)'
  PROVE  OwnInv'
<1> SUFFICES ASSUME NEW y \in Rqsts, y # x
             PROVE  OwnAt(y)' /\ AnsAt(y)'
  BY Zenon DEF OwnInv
<1>1. OwnAt(y) /\ AnsAt(y)
  BY Zenon DEF OwnInv
<1>2. OwnAt(y)'
  BY Zenon, <1>1 DEF OthersStay, OwnAt
<1>3. /\ (fin'.pc = "update" /\ fin'.r = y) => (fin.pc = "update" /\ fin.r = y)
      /\ (fin'.pc = "get" /\ fin'.r = y) => (fin.pc = "get" /\ fin.r = y)
  BY Zenon DEF OthersStay, InFin
<1>4. AnsAt(y)'
  BY Zenon, <1>1, <1>3 DEF OthersStay, AnsAt, Travels
<1>5. QED
  BY Zenon, <1>2, <1>4

\* A client that submits a request keeps OwnInv.
LEMMA SubmitOwn ==
  ASSUME TypeInv, TypeInv', OwnInv, NEW r \in Rqsts, NEW op, NEW k, NEW v,
         NEW loc, NEW clb, NEW n \in Nat, Submit(r, op, k, v, loc, clb, n),
         n = 0 \/ "UPDATE_ASYNC_MISSING" \in Ops,
         UNCHANGED fin
  PROVE  OwnInv'
<1>1. OwnAt(r) /\ pool[r] \in Nat /\ pool[r] > 0
  BY Zenon DEF OwnInv, TypeInv, TypeOK, Submit, InPool
<1>2. pool[r] = 1 /\ r \notin Held(offRing)
  BY <1>1 DEF OwnAt
<1>3. Held(offRing)' = Held(offRing) \cup {r} /\ NoDuplicate(offRing)'
  BY <1>2, HeldAppend DEF TypeInv, TypeOK, Submit, OwnInv
<1>4. UNCHANGED <<ioRing, finRing, inDev, ioWait, InFin>>
  BY Zenon DEF Submit, InFin
<1>5. /\ pool' = [pool EXCEPT ![r] = @ - 1] /\ answers' = [answers EXCEPT ![r] = n]
      /\ pool'[r] = 0 /\ answers'[r] = n
  BY <1>2 DEF Submit, TypeInv, TypeOK
<1>6. OthersStay(r)
  BY Zenon, <1>3, <1>4, <1>5 DEF OthersStay, TypeInv, TypeOK
<1>7. OwnAt(r)'
  BY <1>1, <1>2, <1>3, <1>4, <1>5 DEF OwnAt
<1>8. AnsAt(r)'
  <2>1. r \notin InFin /\ (fin.pc # "idle" => fin.r # r)
    BY Zenon, <1>1, <1>2 DEF OwnAt, InFin
  <2>2. QED
    BY <1>4, <1>5, <2>1 DEF AnsAt, Travels
<1>9. QED
  BY Zenon, <1>3, <1>4, <1>6, <1>7, <1>8, OneMoves DEF OwnInv

\* The steps of a client keep OwnInv.
LEMMA ClientOwn ==
  ASSUME TypeInv, TypeInv', OwnInv, NEW c \in Clients,
         ClientCall(c) \/ ClientStep(c) \/ Quiesce(c)
  PROVE  OwnInv'
<1> USE DEF dataVars, rqstVars, ringVars, bdevVars
<1>1. ASSUME NEW k \in Keys, NEW v \in Values, Alloc(c, k, v)
      PROVE  OwnInv'
  BY Zenon, <1>1, StillOwn DEF Alloc, Still
<1>2. ASSUME NEW k \in Keys,
             Update(c, k) \/ UpdateAsync(c, k) \/ UpdateAsyncMissing(c, k)
             \/ GetAsync(c, k) \/ RemoveOffloaded(c, k)
      PROVE  OwnInv'
  BY Zenon, <1>2, SubmitOwn
     DEF Update, UpdateAsync, UpdateAsyncMissing, GetAsync, RemoveOffloaded,
         MayCall
<1>3. ASSUME NEW k \in Keys, Get(c, k)
      PROVE  OwnInv'
  <2>1. CASE tree[k].loc = "PMEM"
    BY SMTT(60), <1>3, <2>1, StillOwn DEF Get, Still
  <2>2. CASE tree[k].loc # "PMEM"
    BY SMTT(60), <1>3, <2>2, SubmitOwn DEF Get
  <2>3. QED
    BY SMTT(60), <2>1, <2>2
<1>4. CASE ClientStep(c) \/ Quiesce(c)
  BY Zenon, <1>4, StillOwn
     DEF ClientStep, Put, GetCopy, Return, TimeOut, QuiesceEnd, Quiesce, Still
<1>5. QED
  BY Zenon, <1>1, <1>2, <1>3, <1>4 DEF ClientCall

\* What OwnInv says of a request in a ring or in the device.
LEMMA InPlace ==
  ASSUME TypeInv, OwnInv, NEW r \in Rqsts,
         r \in Held(offRing) \cup Held(ioRing) \cup inDev \cup ioWait
               \cup Held(finRing)
  PROVE  /\ OwnAt(r) /\ AnsAt(r) /\ pool[r] = 0 /\ r \notin InFin
         /\ (fin.pc # "idle" => fin.r # r)
<1>1. OwnAt(r) /\ AnsAt(r)
  BY Zenon DEF OwnInv
<1>2. r \notin InFin /\ pool[r] # 1 /\ pool[r] <= 1
  BY Zenon, <1>1 DEF OwnAt
<1>3. pool[r] \in Nat
  BY Zenon DEF TypeInv, TypeOK
<1>4. fin.pc # "idle" => fin.r # r
  BY Zenon, <1>2 DEF InFin
<1>5. pool[r] = 0
  BY <1>2, <1>3
<1>6. QED
  BY Zenon, <1>1, <1>2, <1>4, <1>5

\* The offload poller keeps OwnInv.
LEMMA PollerOwn == TypeInv /\ TypeInv' /\ OwnInv /\ Poller => OwnInv'
<1> SUFFICES ASSUME TypeInv, TypeInv', OwnInv, Poller PROVE OwnInv'
  BY Zenon
<1>0. PICK r : r = Head(offRing)
  BY Zenon
<1>1. /\ r \in Rqsts /\ r \in Held(offRing)
      /\ Held(offRing)' = Held(offRing) \ {r} /\ NoDuplicate(offRing)'
  BY Zenon, <1>0, HeldTail DEF Poller, TypeInv, TypeOK, OwnInv
<1>2. /\ OwnAt(r) /\ AnsAt(r) /\ pool[r] = 0 /\ r \notin InFin
      /\ (fin.pc # "idle" => fin.r # r)
  BY Zenon, <1>1, InPlace
<1>3. UNCHANGED <<finRing, inDev, ioWait, fin, InFin>>
  BY Zenon DEF Poller, InFin
<1>4. CASE PollerAnswer(r)
  <2>1. /\ UNCHANGED ioRing
        /\ pool' = [pool EXCEPT ![r] = @ + 1]
        /\ answers' = [answers EXCEPT ![r] = @ + 1]
    BY Zenon, <1>4 DEF PollerAnswer, PoolPut, Reply
  <2>2. pool'[r] = 1 /\ answers'[r] = answers[r] + 1 /\ answers[r] \in Nat
    BY <1>1, <1>2, <2>1 DEF TypeInv, TypeOK
  <2>3. OthersStay(r)
    BY Zenon, <1>1, <1>3, <2>1 DEF OthersStay, TypeInv, TypeOK
  <2>4. OwnAt(r)'
    BY <1>1, <1>2, <1>3, <2>1, <2>2 DEF OwnAt
  <2>5. AnsAt(r)'
    BY <1>1, <1>2, <1>3, <2>1, <2>2 DEF OwnAt, AnsAt, Travels
  <2>6. QED
    BY Zenon, <1>1, <1>3, <2>1, <2>3, <2>4, <2>5, OneMoves DEF OwnInv
<1>5. CASE PollerForward(r)
  <2>1. UNCHANGED <<pool, answers>>
    BY Zenon, <1>5 DEF PollerForward
  <2>2. r \notin Held(ioRing) /\ NoDuplicate(ioRing) /\ ioRing \in Seq(Rqsts)
    BY Zenon, <1>1, <1>2 DEF OwnAt, OwnInv, TypeInv, TypeOK
  <2>3. Held(ioRing)' = Held(ioRing) \cup {r} /\ NoDuplicate(ioRing)'
    BY <1>1, <1>5, <2>2, HeldAppend DEF PollerForward
  <2>4. OthersStay(r)
    BY Zenon, <1>1, <1>3, <2>1, <2>3 DEF OthersStay
  <2>5. OwnAt(r)'
    BY Zenon, <1>1, <1>2, <1>3, <2>1, <2>3 DEF OwnAt
  <2>6. AnsAt(r)'
    BY Zenon, <1>1, <1>2, <1>3, <2>1, <2>3 DEF AnsAt, Travels
  <2>7. QED
    BY Zenon, <1>1, <1>3, <2>3, <2>4, <2>5, <2>6, OneMoves DEF OwnInv
<1>6. QED
  BY Zenon, <1>0, <1>4, <1>5 DEF Poller

\* The I/O engine keeps OwnInv, unless it can refuse a REMOVE request.
LEMMA IoEngineOwn ==
  ASSUME "QUIESCE" \notin Ops \/ "REMOVE_DISK" \notin Ops,
         TypeInv, TypeInv', ModeInv, OwnInv, IoEngine
  PROVE  OwnInv'
<1> USE DEF dataVars, rqstVars, ringVars, bdevVars
<1>a. CASE Crash
  BY Zenon, <1>a, StillOwn DEF Crash, Still
<1>0. PICK r : r = Head(ioRing)
  BY Zenon
<1>1. SUFFICES ASSUME ioRing' = Tail(ioRing), UNCHANGED offRing,
                      \/ IoHang
                      \/ ioState # "ABORTED" /\ stops(outstanding) /\ IoRefuse(r)
                      \/ IoRead(r) \/ IoWrite(r) \/ IoRemove(r)
               PROVE  OwnInv'
  BY Zenon, <1>a, <1>0 DEF IoEngine
<1>2. /\ r \in Rqsts /\ r \in Held(ioRing)
      /\ Held(ioRing)' = Held(ioRing) \ {r} /\ NoDuplicate(ioRing)'
  BY Zenon, <1>0, <1>1, HeldTail DEF IoEngine, TypeInv, TypeOK, OwnInv
<1>3. /\ OwnAt(r) /\ AnsAt(r) /\ pool[r] = 0 /\ r \notin InFin
      /\ (fin.pc # "idle" => fin.r # r)
      /\ r \notin Held(offRing) /\ r \notin inDev /\ r \notin ioWait
      /\ r \notin Held(finRing)
  <2>1. /\ OwnAt(r) /\ AnsAt(r) /\ pool[r] = 0 /\ r \notin InFin
        /\ (fin.pc # "idle" => fin.r # r)
    BY SMTT(60), <1>2, InPlace
  <2>2. QED
    BY Zenon, <1>2, <2>1 DEF OwnAt
<1>4. UNCHANGED <<fin, InFin, offRing>>
  BY ZenonT(30), <1>1 DEF IoHang, IoRefuse, IoRead, IoWrite, IoSubmit, IoRemove, InFin
<1>5. CASE IoHang
  <2>1. UNCHANGED <<finRing, inDev, ioWait, pool, answers>>
    BY Zenon, <1>5 DEF IoHang
  <2>2. OthersStay(r)
    BY Zenon, <1>2, <1>4, <2>1 DEF OthersStay
  <2>3. OwnAt(r)' /\ AnsAt(r)'
    BY Zenon, <1>2, <1>3, <1>4, <2>1 DEF OwnAt, AnsAt, Travels
  <2>4. QED
    BY Zenon, <1>2, <1>4, <2>1, <2>2, <2>3, OneMoves DEF OwnInv
<1>6. CASE IoRefuse(r) /\ stops(outstanding)
  <2>1. rq[r].op # "REMOVE"
    <3>1. ioState # "INIT"
      BY Zenon, <1>6 DEF stops, stateAfter
    <3>2. QED
      BY Zenon, <1>2, <3>1 DEF ModeInv, OpOK, StateOK
  <2>2. /\ UNCHANGED <<finRing, inDev, ioWait>>
        /\ pool' = [pool EXCEPT ![r] = @ + 1]
        /\ answers' = [answers EXCEPT ![r] = @ + 1]
    BY Zenon, <1>6, <2>1 DEF IoRefuse, PoolPut, Reply
  <2>3. pool'[r] = 1 /\ answers'[r] = answers[r] + 1 /\ answers[r] \in Nat
    BY <1>2, <1>3, <2>2 DEF TypeInv, TypeOK
  <2>4. OthersStay(r)
    BY Zenon, <1>2, <1>4, <2>2 DEF OthersStay, TypeInv, TypeOK
  <2>5. OwnAt(r)' /\ AnsAt(r)'
    BY <1>2, <1>3, <1>4, <2>2, <2>3 DEF OwnAt, AnsAt, Travels
  <2>6. QED
    BY Zenon, <1>2, <1>4, <2>2, <2>4, <2>5, OneMoves DEF OwnInv
<1>7. CASE IoRead(r) \/ IoWrite(r)
  <2>1. /\ UNCHANGED <<finRing, pool, answers>>
        /\ \/ inDev' = inDev \cup {r} /\ ioWait' = ioWait
           \/ inDev' = inDev /\ ioWait' = ioWait \cup {r}
           \/ inDev' = inDev /\ ioWait' = ioWait
    BY ZenonT(30), <1>7 DEF IoRead, IoWrite, IoSubmit
  <2>2. OthersStay(r)
    BY SMTT(60), <1>2, <1>4, <2>1 DEF OthersStay
  <2>3. OwnAt(r)' /\ AnsAt(r)'
    BY Zenon, <1>2, <1>3, <1>4, <2>1 DEF OwnAt, AnsAt, Travels
  <2>4. QED
    BY SMTT(60), <1>2, <1>4, <2>1, <2>2, <2>3, OneMoves DEF OwnInv
<1>8. CASE IoRemove(r)
  <2>1. UNCHANGED <<inDev, ioWait>>
    BY Zenon, <1>8 DEF IoRemove
  <2>2. CASE finRing' = Append(finRing, r) /\ UNCHANGED <<pool, answers>>
    <3>1. Held(finRing)' = Held(finRing) \cup {r} /\ NoDuplicate(finRing)'
      BY <1>2, <1>3, <2>2, HeldAppend DEF TypeInv, TypeOK, OwnInv
    <3>2. OthersStay(r)
      BY Zenon, <1>2, <1>4, <2>1, <2>2, <3>1 DEF OthersStay
    <3>3. OwnAt(r)' /\ AnsAt(r)'
      BY Zenon, <1>2, <1>3, <1>4, <2>1, <2>2, <3>1 DEF OwnAt, AnsAt, Travels
    <3>4. QED
      BY Zenon, <1>2, <1>4, <2>1, <3>1, <3>2, <3>3, OneMoves DEF OwnInv
  <2>3. CASE Reply(r, FALSE, Nil) /\ PoolPut(r, 1) /\ UNCHANGED finRing
    <3>1. /\ UNCHANGED finRing
          /\ pool' = [pool EXCEPT ![r] = @ + 1]
          /\ answers' = [answers EXCEPT ![r] = @ + 1]
      BY Zenon, <2>3 DEF PoolPut, Reply
    <3>2. pool'[r] = 1 /\ answers'[r] = answers[r] + 1 /\ answers[r] \in Nat
      BY <1>2, <1>3, <3>1 DEF TypeInv, TypeOK
    <3>3. OthersStay(r)
      BY Zenon, <1>2, <1>4, <2>1, <3>1 DEF OthersStay, TypeInv, TypeOK
    <3>4. OwnAt(r)' /\ AnsAt(r)'
      BY <1>2, <1>3, <1>4, <2>1, <3>1, <3>2 DEF OwnAt, AnsAt, Travels
    <3>5. QED
      BY Zenon, <1>2, <1>4, <2>1, <3>1, <3>3, <3>4, OneMoves DEF OwnInv
  <2>4. QED
    BY ZenonT(30), <1>8, <2>2, <2>3 DEF IoRemove
<1>9. QED
  BY Zenon, <1>1, <1>5, <1>6, <1>7, <1>8

\* The completions keep OwnInv.
LEMMA DeviceOwn ==
  ASSUME TypeInv, TypeInv', OwnInv, NEW r \in Rqsts, Device(r) \/ QueueIoWait(r)
  PROVE  OwnInv'
<1>1. r \in inDev \/ r \in ioWait
  BY SMTT(60) DEF Device, QueueIoWait
<1>2. /\ OwnAt(r) /\ AnsAt(r) /\ pool[r] = 0 /\ r \notin InFin
      /\ (fin.pc # "idle" => fin.r # r)
  BY Zenon, <1>1, InPlace
<1>3. r \notin Held(offRing) /\ r \notin Held(ioRing) /\ r \notin Held(finRing)
  BY Zenon, <1>1, <1>2 DEF OwnAt
<1>4. UNCHANGED <<pool, answers, offRing, ioRing, fin, InFin>>
  BY ZenonT(30) DEF Device, WriteComplete, ReadComplete, ToFinalizer, QueueIoWait, InFin
<1>5. CASE QueueIoWait(r)
  <2>1. /\ UNCHANGED finRing
        /\ ioWait' = ioWait \ {r} /\ inDev' = inDev \cup {r}
    BY Zenon, <1>5 DEF QueueIoWait
  <2>2. OthersStay(r)
    BY Zenon, <1>4, <2>1 DEF OthersStay
  <2>3. OwnAt(r)' /\ AnsAt(r)'
    BY Zenon, <1>1, <1>2, <1>3, <1>4, <2>1 DEF OwnAt, AnsAt, Travels
  <2>4. QED
    BY Zenon, <1>4, <2>1, <2>2, <2>3, OneMoves DEF OwnInv
<1>6. CASE Device(r)
  <2>1. PICK n : ToFinalizer(r, n)
    BY Zenon, <1>6 DEF Device, WriteComplete, ReadComplete
  <2>2. /\ ioWait' = ioWait /\ inDev' = inDev \ {r} /\ r \in inDev
        /\ finRing' = finRing \/ finRing' = Append(finRing, r)
    BY Zenon, <1>6, <2>1 DEF Device, ToFinalizer
  <2>3. /\ NoDuplicate(finRing)'
        /\ \/ Held(finRing)' = Held(finRing)
           \/ Held(finRing)' = Held(finRing) \cup {r}
    <3>1. finRing \in Seq(Rqsts) /\ NoDuplicate(finRing)
      BY Zenon DEF TypeInv, TypeOK, OwnInv
    <3>2. CASE finRing' = finRing
      BY Zenon, <3>1, <3>2
    <3>3. CASE finRing' = Append(finRing, r)
      BY <1>3, <3>1, <3>3, HeldAppend
    <3>4. QED
      BY Zenon, <2>2, <3>2, <3>3
  <2>4. OthersStay(r)
    BY SMTT(60), <1>4, <2>2, <2>3 DEF OthersStay
  <2>5. OwnAt(r)' /\ AnsAt(r)'
    BY Zenon, <1>2, <1>3, <1>4, <2>2, <2>3 DEF OwnAt, AnsAt, Travels
  <2>6. QED
    BY Zenon, <1>4, <2>3, <2>4, <2>5, OneMoves DEF OwnInv
<1>7. QED
  BY Zenon, <1>5, <1>6

\* The finalizer keeps OwnInv.
LEMMA FinalizerOwn ==
  ASSUME TypeInv, TypeInv', ModeInv, OwnInv, Finalizer
  PROVE  OwnInv'
<1>0. PICK r : r = Head(finRing)
  BY Zenon
<1>1. /\ r \in Rqsts /\ r \in Held(finRing)
      /\ Held(finRing)' = Held(finRing) \ {r} /\ NoDuplicate(finRing)'
  BY ZenonT(30), <1>0, HeldTail DEF Finalizer, TypeInv, TypeOK, OwnInv
<1>2. /\ OwnAt(r) /\ AnsAt(r) /\ pool[r] = 0 /\ r \notin InFin
      /\ (fin.pc # "idle" => fin.r # r)
  BY SMTT(60), <1>1, InPlace
<1>3. /\ r \notin Held(offRing) /\ r \notin Held(ioRing) /\ r \notin inDev
      /\ r \notin ioWait
  BY Zenon, <1>1, <1>2 DEF OwnAt
<1>4. UNCHANGED <<offRing, ioRing, inDev, ioWait>> /\ InFin = {}
  BY Zenon DEF Finalizer, InFin
<1>5. answers \in [Rqsts -> Nat] /\ pool \in [Rqsts -> Nat]
  BY Zenon DEF TypeInv, TypeOK
\* The request stays with the finalizer thread, or is lost in a crash.
<1>6. CASE FinGet(r) \/ FinUpdate(r) \/ (FinRemove(r) /\ UNCHANGED rqstVars)
  <2>1. /\ UNCHANGED pool
        /\ \/ UNCHANGED <<answers, fin>>
           \/ UNCHANGED answers /\ fin' = [pc |-> "update", r |-> r, bufs |-> 0]
           \/ /\ answers' = [answers EXCEPT ![r] = @ + 1]
              /\ fin' = [pc |-> "get", r |-> r, bufs |-> ioBufsInUse]
    BY ZenonT(30), <1>6 DEF FinGet, FinUpdate, FinRemove, Reply, rqstVars
  <2>2. /\ UNCHANGED answers \/ answers' = [answers EXCEPT ![r] = @ + 1]
        /\ InFin' = {} \/ InFin' = {r}
    BY SMTT(60), <1>4, <2>1 DEF InFin
  <2>3. OthersStay(r)
    BY SMTT(60), <1>1, <1>4, <1>5, <2>1, <2>2 DEF OthersStay
  <2>4. OwnAt(r)'
    BY SMTT(60), <1>1, <1>2, <1>3, <1>4, <2>1, <2>2 DEF OwnAt
  <2>5. AnsAt(r)'
    <3>1. CASE UNCHANGED <<answers, fin>>
      BY SMTT(60), <1>1, <1>2, <1>3, <1>4, <2>1, <3>1 DEF AnsAt, Travels
    <3>2. CASE UNCHANGED answers /\ fin'.pc = "update"
      BY SMTT(60), <1>1, <1>2, <1>3, <1>4, <2>1, <3>2 DEF AnsAt, Travels
    <3>3. CASE answers' = [answers EXCEPT ![r] = @ + 1] /\ fin'.pc = "get"
      <4>1. answers'[r] = answers[r] + 1 /\ answers[r] \in Nat
        BY SMTT(60), <1>1, <1>5, <3>3
      <4>2. QED
        BY <1>1, <1>2, <1>3, <1>4, <2>1, <3>3, <4>1 DEF AnsAt, Travels
    <3>4. QED
      BY SMTT(60), <2>1, <3>1, <3>2, <3>3
  <2>6. QED
    BY SMTT(60), <1>1, <1>4, <2>3, <2>4, <2>5, OneMoves DEF OwnInv
\* The request goes back to its pool, called back unless it was dropped.
<1>7. CASE \/ FinDrop(r) \/ FinAnswer(r)
           \/ FinRemove(r) /\ Reply(r, TRUE, Nil) /\ PoolPut(r, 1)
  <2>1. /\ UNCHANGED fin /\ pool' = [pool EXCEPT ![r] = @ + 1]
        /\ \/ answers' = [answers EXCEPT ![r] = @ + 1]
           \/ UNCHANGED answers /\ "QUIESCE" \in Ops
    BY ZenonT(30), <1>7 DEF FinDrop, FinAnswer, FinRemove, Reply, PoolPut, ModeInv, StateOK
  <2>2. pool'[r] = 1 /\ InFin' = {}
    BY <1>1, <1>2, <1>4, <1>5, <2>1 DEF InFin
  <2>3. \/ answers'[r] = answers[r] + 1 /\ answers[r] \in Nat
        \/ answers'[r] = answers[r] /\ "QUIESCE" \in Ops
    BY Zenon, <1>1, <1>5, <2>1
  <2>4. OthersStay(r)
    BY SMTT(60), <1>1, <1>4, <1>5, <2>1, <2>2 DEF OthersStay
  <2>5. OwnAt(r)'
    BY <1>1, <1>2, <1>3, <1>4, <2>1, <2>2 DEF OwnAt
  <2>6. AnsAt(r)'
    BY <1>1, <1>2, <1>3, <1>4, <2>1, <2>2, <2>3 DEF AnsAt, Travels
  <2>7. QED
    BY SMTT(60), <1>1, <1>4, <2>4, <2>5, <2>6, OneMoves DEF OwnInv
<1>8. QED
  <2>1. FinRemove(r) => \/ UNCHANGED rqstVars
                        \/ Reply(r, TRUE, Nil) /\ PoolPut(r, 1)
    BY ZenonT(30) DEF FinRemove
  <2>2. QED
    BY ZenonT(30), <1>0, <1>6, <1>7, <2>1 DEF Finalizer

\* The second halves of the finalizer's steps keep OwnInv.
LEMMA FinEndOwn ==
  ASSUME TypeInv, TypeInv', OwnInv, FinGetEnd \/ FinUpdateEnd
  PROVE  OwnInv'
<1>0. PICK r : r = fin.r
  BY Zenon
<1>1. r \in Rqsts /\ InFin = {r} /\ InFin' = {} /\ fin'.pc = "idle"
  <2>1. fin' = IdleFin /\ fin.pc \in {"get", "update"}
    BY ZenonT(30) DEF FinGetEnd, FinUpdateEnd
  <2>2. r \in Rqsts /\ InFin = {r}
    BY Zenon, <1>0, <2>1 DEF TypeInv, FinOK, InFin
  <2>3. fin'.pc = "idle"
    BY Zenon, <2>1 DEF IdleFin
  <2>4. QED
    BY Zenon, <2>2, <2>3 DEF InFin
<1>2. OwnAt(r) /\ AnsAt(r) /\ pool[r] \in Nat
  BY Zenon, <1>1 DEF OwnInv, TypeInv, TypeOK
<1>3. /\ r \notin Held(offRing) /\ r \notin Held(ioRing) /\ r \notin inDev
      /\ r \notin ioWait /\ r \notin Held(finRing) /\ pool[r] = 0
  BY <1>1, <1>2 DEF OwnAt
<1>4. UNCHANGED <<offRing, ioRing, finRing, inDev, ioWait>>
  BY ZenonT(30) DEF FinGetEnd, FinUpdateEnd, ringVars
<1>5. answers \in [Rqsts -> Nat] /\ pool \in [Rqsts -> Nat]
  BY Zenon DEF TypeInv, TypeOK
<1>6. /\ pool' = [pool EXCEPT ![r] = @ + 1]
      /\ \/ answers' = [answers EXCEPT ![r] = @ + 1] /\ fin.pc = "update"
         \/ answers' = answers /\ fin.pc = "get"
  BY ZenonT(30), <1>0 DEF FinGetEnd, FinUpdateEnd, Reply, PoolPut
<1>7. /\ pool'[r] = 1
      /\ \/ answers'[r] = answers[r] + 1 /\ fin.pc = "update"
         \/ answers'[r] = answers[r] /\ fin.pc = "get"
      /\ answers[r] \in Nat
  BY <1>1, <1>3, <1>5, <1>6
<1>8. OthersStay(r)
  BY SMTT(60), <1>1, <1>4, <1>5, <1>6 DEF OthersStay
<1>9. OwnAt(r)'
  BY SMTT(60), <1>1, <1>3, <1>4, <1>7 DEF OwnAt
<1>10. AnsAt(r)'
  BY SMTT(60), <1>0, <1>1, <1>2, <1>3, <1>4, <1>7 DEF AnsAt, Travels
<1>11. QED
  BY Zenon, <1>1, <1>4, <1>8, <1>9, <1>10, OneMoves DEF OwnInv

\* The inductive invariant.
PipelineInv == TypeInv /\ ModeInv /\ OwnInv

\* PipelineInv holds in every behaviour in which clients do not both remove
\* values and quiesce the device.
LEMMA PipelineInvariant ==
  ASSUME "QUIESCE" \notin Ops \/ "REMOVE_DISK" \notin Ops
  PROVE  Spec => []PipelineInv
<1>1. Init => PipelineInv
  <2> SUFFICES ASSUME Init PROVE PipelineInv
    BY Zenon
  <2>1. TypeInv
    BY SMTT(60), InitType
  <2>2. ModeInv
    BY ZenonT(30) DEF Init, ModeInv, CallOK, OpOK, StateOK, IdleCall, NoRqst
  <2>3. /\ Held(offRing) = {} /\ Held(ioRing) = {} /\ Held(finRing) = {}
        /\ NoDuplicate(offRing) /\ NoDuplicate(ioRing) /\ NoDuplicate(finRing)
    BY DEF Init, Held, NoDuplicate
  <2>4. inDev = {} /\ ioWait = {} /\ fin.pc = "idle" /\ InFin = {}
    BY SMTT(60) DEF Init, IdleFin, InFin
  <2>5. ASSUME NEW r \in Rqsts
        PROVE  OwnAt(r) /\ AnsAt(r)
    <3>1. pool[r] = 1 /\ answers[r] = 1
      BY Zenon DEF Init
    <3>2. QED
      BY SMTT(60), <2>3, <2>4, <3>1 DEF OwnAt, AnsAt, Travels
  <2>6. QED
    BY Zenon, <2>1, <2>2, <2>3, <2>5 DEF PipelineInv, OwnInv
<1>2. PipelineInv /\ [Next]_vars => PipelineInv'
  <2> SUFFICES ASSUME PipelineInv, [Next]_vars PROVE PipelineInv'
    BY Zenon
  <2> USE DEF PipelineInv
  <2>1. TypeInv'
    BY Zenon, NextType
  <2>2. ModeInv'
    <3>1. CASE UNCHANGED vars
      BY Zenon, <3>1 DEF vars, rqstVars, bdevVars, ModeInv, CallOK, OpOK, StateOK
    <3>2. CASE Running
      BY Zenon, <3>2, ClientMode, PipelineMode DEF Running
    <3>3. QED
      BY Zenon, <3>1, <3>2 DEF Next
  <2>3. OwnInv'
    <3>1. CASE UNCHANGED vars
      BY Zenon, <3>1, StillOwn DEF vars, rqstVars, Still
    <3>2. CASE Running
      BY Zenon, <2>1, <3>2, ClientOwn, PollerOwn, IoEngineOwn, DeviceOwn, FinalizerOwn,
         FinEndOwn DEF Running
    <3>3. QED
      BY Zenon, <3>1, <3>2 DEF Next
  <2>4. QED
    BY Zenon, <2>1, <2>2, <2>3
<1>3. QED
  BY <1>1, <1>2, PTL DEF Spec

\* A request object is never in two places of the pipeline at once, nor in its
\* pool while a thread still holds it, for any number of clients and requests,
\* any ring size and any device failure: OffloadPoller, SpdkIoEngine, SpdkBdev
\* and FinalizePoller hand it over and put it back once.  The exception is in
\* the hypothesis: a device that quiesces puts a REMOVE request back twice.
THEOREM PipelineSingleOwner ==
  ASSUME "QUIESCE" \notin Ops \/ "REMOVE_DISK" \notin Ops
  PROVE  Spec => []SingleOwner
<1>1. PipelineInv => SingleOwner
  <2> SUFFICES ASSUME PipelineInv PROVE SingleOwner
    BY Zenon
  <2>1. /\ Held(offRing) \subseteq Rqsts /\ Held(ioRing) \subseteq Rqsts
        /\ Held(finRing) \subseteq Rqsts
    BY DEF PipelineInv, TypeInv, TypeOK, Held
  <2>2. inDev \subseteq Rqsts /\ ioWait \subseteq Rqsts /\ InFin \subseteq Rqsts
    BY Zenon DEF PipelineInv, TypeInv, TypeOK, FinOK, InFin
  <2>3. /\ \A r \in Rqsts : OwnAt(r) /\ pool[r] \in Nat
        /\ NoDuplicate(offRing) /\ NoDuplicate(ioRing) /\ NoDuplicate(finRing)
    BY Zenon DEF PipelineInv, OwnInv, TypeInv, TypeOK
  <2>4. DOMAIN Outside = 1 .. 6
    BY DEF Outside
  <2>5. /\ Outside[1] = Held(offRing) /\ Outside[2] = Held(ioRing)
        /\ Outside[3] = inDev /\ Outside[4] = ioWait
        /\ Outside[5] = Held(finRing) /\ Outside[6] = InFin
    BY Zenon DEF Outside
  <2>6. ASSUME NEW p \in 1 .. 6, NEW q \in 1 .. 6, p < q
        PROVE  Outside[p] \cap Outside[q] = {}
    <3>1. SUFFICES ASSUME NEW r \in Rqsts, r \in Outside[p], r \in Outside[q]
                   PROVE  FALSE
      BY <2>1, <2>2, <2>5
    <3>2. OwnAt(r)
      BY Zenon, <2>3
    <3>3. p \in {1, 2, 3, 4, 5} /\ q \in {2, 3, 4, 5, 6}
      BY SMTT(60), <2>6
    <3>4. QED
      BY SMTT(60), <2>5, <2>6, <3>1, <3>2, <3>3 DEF OwnAt
  <2>7. ASSUME NEW r \in Rqsts, pool[r] = 1, NEW p \in 1 .. 6
        PROVE  r \notin Outside[p]
    BY <2>3, <2>5, <2>7 DEF OwnAt
  <2>8. \A p, q \in 1 .. 6 : p # q => Outside[p] \cap Outside[q] = {}
    BY <2>6
  <2>9. \A r \in Rqsts : pool[r] <= 1
    BY Zenon, <2>3 DEF OwnAt
  <2>10. QED
    BY Zenon, <2>3, <2>4, <2>7, <2>8, <2>9 DEF SingleOwner
<1>2. QED
  BY <1>1, PipelineInvariant, PTL

\* No request is called back twice, unless UpdateAsync is called for a key that
\* has no value (KVStore::UpdateAsync then calls back and enqueues all the same).
THEOREM PipelineAnsweredAtMostOnce ==
  ASSUME "QUIESCE" \notin Ops \/ "REMOVE_DISK" \notin Ops,
         "UPDATE_ASYNC_MISSING" \notin Ops
  PROVE  Spec => []AnsweredAtMostOnce
<1>1. PipelineInv => AnsweredAtMostOnce
  BY Zenon DEF PipelineInv, OwnInv, AnsAt, AnsweredAtMostOnce
<1>2. QED
  BY <1>1, PipelineInvariant, PTL

\* A request is called back before it can be used again, unless the offload is
\* quiesced (FinalizePoller::process then drops requests): no caller of a
\* request that came back was left without its callback.
THEOREM PipelineAnsweredBeforeReuse ==
  ASSUME "QUIESCE" \notin Ops
  PROVE  Spec => []AnsweredBeforeReuse
<1>1. PipelineInv => AnsweredBeforeReuse
  <2> SUFFICES ASSUME PipelineInv, NEW r \in Rqsts, pool[r] > 0
               PROVE  answers[r] >= 1
    BY Zenon DEF AnsweredBeforeReuse, InPool
  <2>1. OwnAt(r) /\ AnsAt(r) /\ pool[r] \in Nat
    BY Zenon DEF PipelineInv, OwnInv, TypeInv, TypeOK
  <2>2. pool[r] = 1
    BY <2>1 DEF OwnAt
  <2>3. QED
    BY Zenon, <2>1, <2>2 DEF AnsAt
<1>2. QED
  BY <1>1, PipelineInvariant, PTL

-----------------------------------------------------------------------------
(***************************************************************************)
(* The list of the LBA allocator.                                          *)
(***************************************************************************)
Bucket == [list : Seq(Int), lbas : [0 .. LbasSize - 1 -> Int], level : Int]

CountsAtHead(b) == b \in Bucket /\ b.list # <<>> /\ Head(b.list) < 0

\* OffloadFreeList::getBlock leaves the counter at the head of the list: it only
\* makes it smaller.
LEMMA GetBlockCounts ==
  ASSUME NEW b, CountsAtHead(b)
  PROVE  CountsAtHead(GetBlock(b, 0))
<1>1. /\ b.list \in Seq(Int) /\ b.lbas \in [0 .. LbasSize - 1 -> Int]
      /\ b.list # <<>> /\ Head(b.list) \in Int /\ Head(b.list) < 0
      /\ LbasSize \in Nat
  BY LbaBucketAssumption DEF CountsAtHead, Bucket
<1>2. PICK h \in Int : h = Head(b.list)
  BY Zenon, <1>1
<1>3. PICK s : s = [b.list EXCEPT ![1] = h - (0 + 1) * LbasSize]
  BY Zenon
<1>4. PICK t : t = [i \in DOMAIN b.lbas |-> -h + (0 + 1) * (i + 1)]
  BY Zenon
<1>5. GetBlock(b, 0) = [list |-> s, lbas |-> t, level |-> LbasSize]
  <2>1. ~(h >= 0)
    BY <1>1, <1>2
  <2>2. QED
    BY Zenon, <1>2, <1>3, <1>4, <2>1 DEF GetBlock
<1>6. s \in Seq(Int) /\ s # <<>> /\ Head(s) = h - LbasSize
  BY <1>1, <1>3
<1>7. t \in [0 .. LbasSize - 1 -> Int]
  BY <1>1, <1>2, <1>4
<1>8. Head(s) < 0
  BY <1>1, <1>2, <1>6
<1>9. QED
  BY <1>1, <1>5, <1>6, <1>7, <1>8 DEF CountsAtHead, Bucket

\* OffloadLbaAlloc::getLba leaves the counter at the head of the list.
LEMMA GetLbaCounts ==
  ASSUME NEW b, CountsAtHead(b), NEW g \in GetLba(b, 0)
  PROVE  CountsAtHead(g.bucket)
<1>1. PICK a : a = IF b.level = 0 THEN GetBlock(b, 0) ELSE b
  BY Zenon
<1>2. CountsAtHead(a)
  BY Zenon, <1>1, GetBlockCounts
<1>3. g.bucket = [a EXCEPT !.level = @ - 1]
  BY <1>1 DEF GetLba, BucketGet
<1>4. a \in Bucket /\ a.level - 1 \in Int
  BY <1>2 DEF CountsAtHead, Bucket
<1>5. g.bucket \in Bucket /\ g.bucket.list = a.list
  BY Zenon, <1>3, <1>4 DEF Bucket
<1>6. QED
  BY Zenon, <1>2, <1>5 DEF CountsAtHead

\* OffloadLbaAlloc::putLba appends behind the counter, and nowhere else.
LEMMA PutLbaCounts ==
  ASSUME NEW b, CountsAtHead(b), NEW l \in Int
  PROVE  CountsAtHead(PutLba(b, l))
<1>1. CountsAtHead(PutBlock(b))
  <2>1. /\ b.list \in Seq(Int) /\ b.lbas \in [0 .. LbasSize - 1 -> Int]
        /\ b.list # <<>> /\ Head(b.list) < 0 /\ LbasSize \in Nat
    BY Zenon, LbaBucketAssumption DEF CountsAtHead, Bucket
  <2>2. PICK t : t = [i \in 1 .. LbasSize |-> b.lbas[i - 1]]
    BY Zenon
  <2>3. t \in Seq(Int)
    <3>1. \A i \in 1 .. LbasSize : i - 1 \in 0 .. LbasSize - 1
      BY <2>1
    <3>2. t \in [1 .. LbasSize -> Int]
      BY Zenon, <2>1, <2>2, <3>1
    <3>3. QED
      BY <2>1, <3>2
  <2>4. PICK s : s = b.list \o t
    BY Zenon
  <2>5. s \in Seq(Int) /\ s # <<>> /\ Head(s) = Head(b.list)
    BY <2>1, <2>3, <2>4
  <2>6. PutBlock(b) = [b EXCEPT !.list = s, !.level = 0]
    BY Zenon, <2>2, <2>4 DEF PutBlock
  <2>7. QED
    <3>1. b \in Bucket /\ 0 \in Int
      BY DEF CountsAtHead
    <3>2. PutBlock(b) \in Bucket /\ PutBlock(b).list = s
      BY Zenon, <2>5, <2>6, <3>1 DEF Bucket
    <3>3. QED
      BY Zenon, <2>1, <2>5, <3>2 DEF CountsAtHead
<1>2. PICK a : a = IF b.level >= LbasSize THEN PutBlock(b) ELSE b
  BY Zenon
<1>3. CountsAtHead(a)
  BY Zenon, <1>1, <1>2
<1>4. PutLba(b, l) = BucketPut(a, l)
  BY Zenon, <1>2 DEF PutLba
<1>5. a \in Bucket /\ a.level \in Int /\ a.level + 1 \in Int
  BY <1>3 DEF CountsAtHead, Bucket
<1>6. BucketPut(a, l).list = a.list /\ BucketPut(a, l) \in Bucket
  <2>1. CASE a.level >= LbasSize
    BY Zenon, <1>5, <2>1 DEF BucketPut
  <2>2. CASE ~(a.level >= LbasSize) /\ a.level + 1 < LbasSize
    <3>1. PICK n \in Int : n = a.level + 1
      BY Zenon, <1>5
    <3>2. PICK u : u = [a.lbas EXCEPT ![n] = l]
      BY Zenon
    <3>3. u \in [0 .. LbasSize - 1 -> Int]
      BY Zenon, <1>5, <3>2 DEF Bucket
    <3>4. BucketPut(a, l) = [a EXCEPT !.level = n, !.lbas[n] = l]
      BY Zenon, <2>2, <3>1 DEF BucketPut
    <3>5. BucketPut(a, l) = [a EXCEPT !.level = n, !.lbas = u]
      BY Zenon, <1>5, <3>2, <3>4 DEF Bucket
    <3>6. QED
      BY Zenon, <1>5, <3>3, <3>5 DEF Bucket
  <2>3. CASE ~(a.level >= LbasSize) /\ ~(a.level + 1 < LbasSize)
    BY Zenon, <1>5, <2>3 DEF BucketPut, Bucket
  <2>4. QED
    BY Zenon, <2>1, <2>2, <2>3
<1>7. QED
  BY Zenon, <1>3, <1>4, <1>6 DEF CountsAtHead

\* Every step leaves the counter at the head of the list.
LEMMA NextCounts ==
  ASSUME TypeInv, CountsAtHead(lbas), [Next]_vars
  PROVE  CountsAtHead(lbas')
<1> USE DEF dataVars
<1>1. SUFFICES ASSUME Running, lbas' # lbas
               PROVE  CountsAtHead(lbas')
  BY Zenon DEF Next, vars
<1>2. IoEngine
  BY ZenonT(30), <1>1
     DEF Running, ClientCall, ClientStep, Alloc, Update, UpdateAsync,
         UpdateAsyncMissing, Get, GetAsync, RemoveOffloaded, Put, GetCopy,
         Return, TimeOut, Quiesce, QuiesceEnd, Poller, Finalizer, FinGetEnd,
         FinUpdateEnd, Device, WriteComplete, ReadComplete, ToFinalizer,
         QueueIoWait
<1>3. PICK r : r = Head(ioRing)
  BY Zenon
<1>4. r \in Rqsts
  BY Zenon, <1>2, <1>3, HeldTail DEF IoEngine, TypeInv, TypeOK
<1>5. IoWrite(r) \/ IoRemove(r)
  BY Zenon, <1>1, <1>2, <1>3 DEF IoEngine, Crash, IoHang, IoRefuse, IoRead
<1>6. CASE IoWrite(r)
  <2>1. PICK g \in GetLba(lbas, 0) : lbas' = g.bucket
    <3>1. CASE rq[r].loc = "PMEM"
      BY Zenon, <1>6, <3>1 DEF IoWrite
    <3>2. CASE rq[r].loc # "PMEM"
      BY <1>1, <1>6, <3>2 DEF IoWrite
    <3>3. QED
      BY Zenon, <3>1, <3>2
  <2>2. QED
    BY Zenon, <2>1, GetLbaCounts
<1>7. CASE IoRemove(r)
  <2>1. rq[r].addr \in Int
    BY <1>4, LbaBucketAssumption DEF TypeInv, RqOK, DiskLbas
  <2>2. lbas' = PutLba(lbas, rq[r].addr)
    BY Zenon, <1>7 DEF IoRemove
  <2>3. QED
    BY Zenon, <2>1, <2>2, PutLbaCounts
<1>8. QED
  BY Zenon, <1>5, <1>6, <1>7

\* The counter node never leaves the head of the list of the allocator
\* (OffloadFreeList::getBlock and putBlock), in every behaviour of the pipeline:
\* each block of LBAs is a fresh one, and the LBAs that putLba gives back are
\* never handed out again by way of the list.
THEOREM PipelineCounterStaysAtHead == Spec => []CounterStaysAtHead
<1>1. Init => TypeInv /\ CountsAtHead(lbas)
  <2> SUFFICES ASSUME Init PROVE CountsAtHead(lbas)
    BY Zenon, InitType
  <2>1. lbas = NewBucket /\ LbasSize \in Nat
    BY Zenon, LbaBucketAssumption DEF Init
  <2>2. QED
    BY <2>1 DEF NewBucket, CountsAtHead, Bucket, Unset
<1>2. (TypeInv /\ CountsAtHead(lbas)) /\ [Next]_vars
      => (TypeInv /\ CountsAtHead(lbas))'
  BY Zenon, NextType, NextCounts
<1>3. TypeInv /\ CountsAtHead(lbas) => CounterStaysAtHead
  BY Zenon DEF CountsAtHead, CounterStaysAtHead
<1>4. QED
  BY <1>1, <1>2, <1>3, PTL DEF Spec

-----------------------------------------------------------------------------
(***************************************************************************)
(* The LBAs of the allocator when none is given back: those that were      *)
(* handed out are the ones up to the counter that are not on the stack.    *)
(***************************************************************************)
Counter(b) == -Head(b.list)

OnStack(b, l) == \E i \in 0 .. b.level - 1 : b.lbas[i] = l

Spent(b, l) == l \in 2 .. Counter(b) /\ ~OnStack(b, l)

\* The stack holds the last LBAs that were counted.
BucketInv(b) ==
  /\ CountsAtHead(b)
  /\ Counter(b) <= MaxLba + LbasSize
  /\ b.level \in 0 .. LbasSize
  /\ b.level > 0 => Counter(b) >= LbasSize + 1
  /\ \A i \in 0 .. b.level - 1 : b.lbas[i] = Counter(b) - LbasSize + i + 1

\* OffloadFreeList::getBlock counts a block of LBAs nobody has, and puts them on
\* the empty stack.
LEMMA GetBlockFresh ==
  ASSUME NEW b, BucketInv(b), b.level = 0, ~GetBlockAborts(b, 0)
  PROVE  /\ BucketInv(GetBlock(b, 0)) /\ GetBlock(b, 0).level = LbasSize
         /\ \A l : Spent(GetBlock(b, 0), l) <=> Spent(b, l)
<1>1. PICK a : a = GetBlock(b, 0)
  BY Zenon
<1>2. /\ b.list \in Seq(Int) /\ b.lbas \in [0 .. LbasSize - 1 -> Int]
      /\ b.list # <<>> /\ Head(b.list) \in Int /\ Head(b.list) < 0
      /\ LbasSize \in Nat \ {0} /\ MaxLba \in Nat
  BY LbaBucketAssumption DEF BucketInv, CountsAtHead, Bucket
<1>3. PICK h \in Int : h = Head(b.list)
  BY Zenon, <1>2
<1>4. /\ a.list = [b.list EXCEPT ![1] = h - (0 + 1) * LbasSize]
      /\ a.lbas = [i \in DOMAIN b.lbas |-> -h + (0 + 1) * (i + 1)]
      /\ a.level = LbasSize
  <2>1. ~(h >= 0)
    BY <1>2, <1>3
  <2>2. QED
    BY Zenon, <1>1, <1>3, <2>1 DEF GetBlock
<1>5. Head(a.list) = h - LbasSize
  BY <1>2, <1>4
<1>6. Counter(b) = -h /\ Counter(a) = LbasSize - h /\ h < 0 /\ -h <= MaxLba - 1
  BY <1>2, <1>3, <1>5 DEF Counter, GetBlockAborts
<1>7. \A i \in 0 .. LbasSize - 1 : a.lbas[i] = -h + i + 1
  BY <1>2, <1>4
<1>8. CountsAtHead(a)
  BY Zenon, <1>1, GetBlockCounts DEF BucketInv
<1>9. BucketInv(a)
  <2>1. Counter(a) <= MaxLba + LbasSize /\ Counter(a) >= LbasSize + 1
    BY <1>2, <1>6
  <2>2. a.level \in 0 .. LbasSize
    BY <1>2, <1>4
  <2>3. ASSUME NEW i \in 0 .. a.level - 1
        PROVE  a.lbas[i] = Counter(a) - LbasSize + i + 1
    <3>1. i \in 0 .. LbasSize - 1
      BY Zenon, <1>4
    <3>2. a.lbas[i] = -h + i + 1
      BY Zenon, <1>7, <3>1
    <3>3. QED
      BY <1>2, <1>6, <3>1, <3>2
  <2>4. QED
    BY Zenon, <1>8, <2>1, <2>2, <2>3 DEF BucketInv
<1>10. ASSUME NEW l PROVE Spent(a, l) <=> Spent(b, l)
  <2>1. OnStack(a, l) <=> \E i \in 0 .. LbasSize - 1 : l = -h + i + 1
    BY Zenon, <1>4, <1>7 DEF OnStack
  <2>2. ASSUME l \in Int
        PROVE  OnStack(a, l) <=> l \in -h + 1 .. LbasSize - h
    <3>1. ASSUME l \in -h + 1 .. LbasSize - h
          PROVE  \E i \in 0 .. LbasSize - 1 : l = -h + i + 1
      <4>1. l + h - 1 \in 0 .. LbasSize - 1 /\ l = -h + (l + h - 1) + 1
        BY <1>2, <2>2, <3>1
      <4>2. QED
        BY Zenon, <4>1
    <3>2. ASSUME NEW i \in 0 .. LbasSize - 1, l = -h + i + 1
          PROVE  l \in -h + 1 .. LbasSize - h
      BY <1>2, <3>2
    <3>3. QED
      BY Zenon, <2>1, <3>1, <3>2
  <2>3. ~OnStack(b, l)
    BY DEF OnStack
  <2>4. QED
    BY <1>2, <1>6, <2>2, <2>3 DEF Spent
<1>11. QED
  BY Zenon, <1>1, <1>4, <1>9, <1>10

\* OffloadLbaAlloc::getLba hands out an LBA that was not handed out before.
LEMMA GetLbaFresh ==
  ASSUME NEW b, BucketInv(b), ~GetLbaAborts(b, 0), NEW g \in GetLba(b, 0)
  PROVE  /\ BucketInv(g.bucket) /\ ~Spent(b, g.lba)
         /\ \A l : Spent(g.bucket, l) <=> Spent(b, l) \/ l = g.lba
<1>1. PICK a : a = IF b.level = 0 THEN GetBlock(b, 0) ELSE b
  BY Zenon
<1>2. /\ BucketInv(a) /\ a.level # 0
      /\ \A l : Spent(a, l) <=> Spent(b, l)
  BY Zenon, <1>1, GetBlockFresh, LbaBucketAssumption DEF GetLbaAborts
<1>3. PICK n : n = a.level - 1
  BY Zenon
<1>4. /\ LbasSize \in Nat \ {0} /\ Counter(a) \in Int /\ Counter(a) >= LbasSize + 1
      /\ n \in 0 .. LbasSize - 1 /\ a.level = n + 1
      /\ a \in Bucket
      /\ \A i \in 0 .. n : a.lbas[i] = Counter(a) - LbasSize + i + 1
  <2>1. /\ a \in Bucket /\ a.list \in Seq(Int) /\ a.list # <<>>
        /\ a.level \in 0 .. LbasSize
        /\ a.level > 0 => Counter(a) >= LbasSize + 1
        /\ \A i \in 0 .. a.level - 1 : a.lbas[i] = Counter(a) - LbasSize + i + 1
    BY Zenon, <1>2 DEF BucketInv, CountsAtHead, Bucket
  <2>2. Counter(a) \in Int
    BY <2>1 DEF Counter
  <2>3. QED
    BY <1>2, <1>3, <2>1, <2>2, LbaBucketAssumption
<1>5. a.lbas[n] = Counter(a) - LbasSize + n + 1 /\ a.lbas[n] \in 2 .. Counter(a)
  BY <1>4
<1>6. g.lba = a.lbas[n] /\ g.bucket = [a EXCEPT !.level = @ - 1]
  <2>1. LbasAt(a, n) = {a.lbas[n]}
    <3>1. n < LbasSize /\ a.lbas[n] # Unset
      BY <1>4, <1>5 DEF Unset
    <3>2. QED
      BY Zenon, <3>1 DEF LbasAt
  <2>2. g \in BucketGet(a)
    BY Zenon, <1>1 DEF GetLba
  <2>3. QED
    BY <1>3, <2>1, <2>2 DEF BucketGet
<1>7. PICK e : e = g.bucket
  BY Zenon
<1>8. e.list = a.list /\ e.lbas = a.lbas /\ e.level = n /\ e \in Bucket
  <2>1. n \in Int
    BY <1>4
  <2>2. QED
    BY Zenon, <1>3, <1>4, <1>6, <1>7, <2>1 DEF Bucket
<1>9. BucketInv(e)
  BY <1>2, <1>4, <1>8 DEF BucketInv, CountsAtHead, Counter
<1>10. OnStack(a, g.lba)
  BY <1>4, <1>6 DEF OnStack
<1>11. ASSUME NEW l PROVE Spent(e, l) <=> Spent(a, l) \/ l = g.lba
  <2>1. Counter(e) = Counter(a)
    BY Zenon, <1>8 DEF Counter
  <2>2. OnStack(a, l) <=> OnStack(e, l) \/ l = g.lba
    <3>1. OnStack(a, l) <=> \E i \in 0 .. n : a.lbas[i] = l
      BY <1>4 DEF OnStack
    <3>2. OnStack(e, l) <=> \E i \in 0 .. n - 1 : a.lbas[i] = l
      BY Zenon, <1>8 DEF OnStack
    <3>3. QED
      BY <1>4, <1>6, <3>1, <3>2
  <2>3. ~OnStack(e, g.lba)
    BY <1>4, <1>5, <1>6, <1>8 DEF OnStack
  <2>4. g.lba \in 2 .. Counter(a)
    BY Zenon, <1>5, <1>6
  <2>5. QED
    BY Zenon, <2>1, <2>2, <2>3, <2>4 DEF Spent
<1>12. ~Spent(a, g.lba)
  BY Zenon, <1>10 DEF Spent
<1>13. QED
  BY Zenon, <1>2, <1>7, <1>9, <1>11, <1>12

\* An LBA that was handed out is one of the device, and not LBA 0.
LEMMA SpentLba ==
  ASSUME NEW b, BucketInv(b), NEW l, Spent(b, l)
  PROVE  l \in DiskLbas /\ l # 0
BY LbaBucketAssumption DEF Spent, BucketInv, CountsAtHead, Bucket, Counter, DiskLbas

-----------------------------------------------------------------------------
(***************************************************************************)
(* The invariant of the data.                                              *)
(***************************************************************************)
Ptrs == Cells \cup DiskLbas \cup {Nil, Garbage}

Data == Values \cup {Nil, Garbage}

Wrapper == [loc : Locations, vol : {"EMPTY", "PMEM"}, ptr : Ptrs,
            act : Cells \cup {Nil}]

Request == [op : {"NONE", "UPDATE", "GET"}, key : Keys \cup {Nil},
            asked : Keys \cup {Nil}, value : Ptrs, loc : Locations,
            clb : Clients \cup {Async}, freeLba : DiskLbas, addr : DiskLbas,
            io : {"none", "read", "write"}, buf : Data, result : BOOLEAN]

Call == [pc : {"idle", "put", "wait", "copy", "quiesce"}, key : Keys \cup {Nil},
         ptr : Ptrs, op : {"NONE", "PUT", "UPDATE", "GET", "QUIESCE"},
         r : Rqsts \cup {Nil}, ready : BOOLEAN, ok : BOOLEAN, val : Data]

DataTypes ==
  /\ tree \in [Keys -> Wrapper]
  /\ cells \in [Cells -> Values \cup {Nil}]
  /\ disk \in [DiskLbas -> Data]
  /\ rq \in [Rqsts -> Request]
  /\ call \in [Clients -> Call]

\* The finalizer has freed the value of r and has not yet published its LBA.
Moving(r) == fin.pc = "update" /\ fin.r = r

\* Where the value of key k is.  A key without a value has memory only while a
\* client is between Alloc and Put.
KeyInv(k) ==
  /\ tree[k].act \in Cells => /\ tree[k].loc # "DISK"
                              /\ tree[k].ptr = tree[k].act
                              /\ cells[tree[k].act] \in Values
  /\ tree[k].loc = "PMEM" => /\ tree[k].vol = "PMEM"
                             /\ \/ tree[k].act \in Cells
                                \/ \E r \in Rqsts : Moving(r) /\ rq[r].key = k
  /\ tree[k].loc = "EMPTY" => \/ tree[k].act \notin Cells /\ tree[k].ptr = Nil
                              \/ \E c \in Clients : call[c].pc = "put" /\ call[c].key = k
  /\ tree[k].loc = "DISK" => /\ Spent(lbas, tree[k].ptr)
                             /\ disk[tree[k].ptr] \in Values

\* Two keys have different memory.
CellInv ==
  \A j, k \in Keys : tree[j].act = tree[k].act /\ tree[j].act \in Cells => j = k

\* r is to move a value from memory to the device.
Offloads(r) == rq[r].op = "UPDATE" /\ rq[r].loc = "PMEM"

\* Request r and the key it is about.  An UPDATE request carries the memory of its
\* key until the finalizer frees it, then its LBA holds the value; one for a key
\* that had no value finds none.
RqInv(r) ==
  /\ pool[r] # 0 => rq[r] = NoRqst
  /\ pool[r] = 0 => rq[r].asked \in Keys /\ rq[r].key \in Keys
  /\ rq[r].op = "UPDATE" => rq[r].key = rq[r].asked
  /\ Offloads(r) /\ rq[r].value = Nil
       => tree[rq[r].key].loc = "EMPTY" /\ tree[rq[r].key].act = Nil
  /\ Offloads(r) /\ rq[r].value # Nil
       => /\ tree[rq[r].key].loc = "PMEM"
          /\ ~Moving(r) => rq[r].value = tree[rq[r].key].act /\ rq[r].value \in Cells
          /\ ~Moving(r) /\ rq[r].io = "write" => rq[r].buf = cells[rq[r].value]
          /\ rq[r].result => /\ rq[r].io = "write"
                             /\ rq[r].buf \in Values
                             /\ disk[rq[r].freeLba] = rq[r].buf
  /\ Offloads(r) /\ rq[r].io = "write" => Spent(lbas, rq[r].freeLba)
  /\ ~(Offloads(r) /\ rq[r].io = "write") => rq[r].freeLba = 0
  /\ Moving(r) => /\ Offloads(r) /\ rq[r].value # Nil
                  /\ rq[r].result /\ tree[rq[r].key].act = Nil

\* The LBAs of the keys on the device and those of the writes on their way are all
\* different.
LbaInv ==
  /\ \A j, k \in Keys :
       tree[j].loc = "DISK" /\ tree[k].loc = "DISK" /\ tree[j].ptr = tree[k].ptr
       => j = k
  /\ \A j \in Keys, r \in Rqsts : tree[j].loc = "DISK" => tree[j].ptr # rq[r].freeLba
  /\ \A r, s \in Rqsts :
       rq[r].freeLba = rq[s].freeLba => r = s \/ rq[r].freeLba = 0

Busy(c, k) == call[c].pc # "idle" /\ call[c].key = k

Waits(c, r) == call[c].pc = "wait" /\ call[c].r = r /\ rq[r].clb = c

\* A key is used by one call or request at a time, or by a call and the request it
\* waits for.
UseInv ==
  /\ \A r, s \in Rqsts : rq[r].asked = rq[s].asked /\ rq[r].asked # Nil => r = s
  /\ \A c, d \in Clients, k \in Keys : Busy(c, k) /\ Busy(d, k) => c = d
  /\ \A c \in Clients, r \in Rqsts :
       /\ Busy(c, rq[r].asked) /\ rq[r].asked # Nil => Waits(c, r)
       /\ Waits(c, r) => /\ call[c].op = rq[r].op /\ call[c].key = rq[r].asked
                         /\ rq[r].key = rq[r].asked

\* What the operation of client c has found is still so.
CallInv(c) ==
  /\ call[c].pc \in {"put", "wait", "copy"} => call[c].key \in Keys
  /\ call[c].pc = "wait" => call[c].r \in Rqsts
  /\ call[c].pc = "put" => /\ tree[call[c].key].loc = "EMPTY"
                           /\ tree[call[c].key].act \in Cells
  /\ call[c].pc = "copy" => /\ tree[call[c].key].loc = "PMEM"
                            /\ call[c].ptr = tree[call[c].key].act
                            /\ call[c].ptr \in Cells
  /\ call[c].pc = "wait" /\ call[c].op = "GET" => tree[call[c].key].loc = "DISK"
  /\ /\ "ENOMEM" \notin Faults
     /\ call[c].pc = "wait" /\ call[c].op = "GET" /\ call[c].ready /\ call[c].ok
     => call[c].val = disk[tree[call[c].key].ptr]

\* How far request r has come.
PlaceInv(r) ==
  /\ r \in Held(offRing) \cup Held(ioRing) \cup inDev \cup ioWait => ~rq[r].result
  /\ r \in inDev \cup ioWait => rq[r].io # "none"
  /\ r \in ioWait => "ENOMEM" \in Faults
  /\ rq[r].op = "UPDATE" => rq[r].io # "read"
  /\ rq[r].op = "GET" /\ "ENOMEM" \notin Faults => rq[r].io # "write"

\* A read whose caller still waits is for the LBA of its key, and has its value.
ReadInv(r) ==
  "ENOMEM" \notin Faults =>
  \A c \in Clients : Waits(c, r) /\ rq[r].op = "GET" =>
    /\ r \in Held(ioRing) \cup inDev \cup ioWait \cup Held(finRing)
       => rq[r].addr = tree[rq[r].key].ptr
    /\ rq[r].result => rq[r].buf = disk[tree[rq[r].key].ptr]

StoreInv ==
  /\ DataTypes /\ BucketInv(lbas)
  /\ CellInv /\ \A k \in Keys : KeyInv(k)
  /\ LbaInv /\ \A r \in Rqsts : RqInv(r)

DataInv ==
  /\ StoreInv
  /\ UseInv
  /\ \A c \in Clients : CallInv(c)
  /\ \A r \in Rqsts : PlaceInv(r) /\ ReadInv(r)

-----------------------------------------------------------------------------
(***************************************************************************)
(* Steps that leave most of the data alone.                                *)
(***************************************************************************)
\* Only request r changes.
Aside(r) ==
  \A s \in Rqsts : s # r => rq'[s] = rq[s] /\ pool'[s] = pool[s]

SameMoves == \A s \in Rqsts : Moving(s)' <=> Moving(s)

SamePuts ==
  \A c \in Clients : call[c].pc = "put" => /\ call'[c].pc = "put"
                                           /\ call'[c].key = call[c].key

\* A step that changes one request that is not being moved, and no data, keeps
\* StoreInv if it keeps what StoreInv says of that request.
LEMMA QuietStore ==
  ASSUME StoreInv, DataTypes', UNCHANGED dataVars, NEW r \in Rqsts, Aside(r),
         ~Moving(r), SameMoves, SamePuts, RqInv(r)',
         rq'[r].freeLba = rq[r].freeLba \/ rq'[r].freeLba = 0
  PROVE  StoreInv'
<1> USE DEF dataVars
<1>1. ASSUME NEW k \in Keys PROVE KeyInv(k)'
  <2>1. KeyInv(k)
    BY Zenon DEF StoreInv
  <2>2. ASSUME NEW s \in Rqsts, Moving(s), rq[s].key = k
        PROVE  Moving(s)' /\ rq'[s].key = k
    BY Zenon, <2>2 DEF SameMoves, Aside
  <2>3. ASSUME NEW c \in Clients, call[c].pc = "put", call[c].key = k
        PROVE  call'[c].pc = "put" /\ call'[c].key = k
    BY Zenon, <2>3 DEF SamePuts
  <2>4. QED
    BY Zenon, <2>1, <2>2, <2>3 DEF KeyInv
<1>2. ASSUME NEW s \in Rqsts, s # r PROVE RqInv(s)'
  <2>1. RqInv(s) /\ rq'[s] = rq[s] /\ pool'[s] = pool[s] /\ (Moving(s)' <=> Moving(s))
    BY Zenon, <1>2 DEF StoreInv, Aside, SameMoves
  <2>2. QED
    BY Zenon, <2>1 DEF RqInv, Offloads
<1>3. LbaInv'
  <2>1. \A j \in Keys : tree[j].loc = "DISK" => tree[j].ptr # 0
    BY DEF StoreInv, KeyInv, Spent
  <2>2. \A s \in Rqsts : rq'[s].freeLba = rq[s].freeLba \/ rq'[s].freeLba = 0
    BY Zenon DEF Aside
  <2>3. QED
    BY Zenon, <2>1, <2>2 DEF StoreInv, LbaInv
<1>4. QED
  BY Zenon, <1>1, <1>2, <1>3 DEF StoreInv, CellInv

\* A step that changes no request and no data keeps StoreInv.
LEMMA StillStore ==
  ASSUME StoreInv, DataTypes', UNCHANGED <<dataVars, rq, pool>>, SameMoves, SamePuts
  PROVE  StoreInv'
<1> USE DEF dataVars
<1>1. ASSUME NEW k \in Keys PROVE KeyInv(k)'
  BY DEF StoreInv, KeyInv, SameMoves, SamePuts
<1>2. ASSUME NEW s \in Rqsts PROVE RqInv(s)'
  <2>1. RqInv(s) /\ (Moving(s)' <=> Moving(s))
    BY Zenon DEF StoreInv, SameMoves
  <2>2. QED
    BY Zenon, <2>1 DEF RqInv, Offloads
<1>3. QED
  BY Zenon, <1>1, <1>2 DEF StoreInv, CellInv, LbaInv

\* The request r is the only one that comes to a new place.
Near(r) ==
  /\ Held(offRing)' \subseteq Held(offRing) \cup {r}
  /\ Held(ioRing)' \subseteq Held(ioRing) \cup {r}
  /\ inDev' \subseteq inDev \cup {r}
  /\ ioWait' \subseteq ioWait \cup {r}
  /\ Held(finRing)' \subseteq Held(finRing) \cup {r}

\* The wrapper of k, and its value if it is on the device, are the same.
SameFor(k) ==
  /\ tree'[k] = tree[k]
  /\ tree[k].loc = "DISK" => disk'[tree[k].ptr] = disk[tree[k].ptr]

\* The calls that count on what the tree says of k.
Settled(k) ==
  \/ tree[k].loc = "DISK"
  \/ \E c \in Clients : call[c].pc \in {"put", "copy"} /\ call[c].key = k

\* Client c is where it was in its operation.
SameCall(c) ==
  /\ call'[c].pc = call[c].pc /\ call'[c].key = call[c].key
  /\ call'[c].ptr = call[c].ptr /\ call'[c].op = call[c].op
  /\ call'[c].r = call[c].r

SameRqst(r) ==
  /\ rq'[r].asked = rq[r].asked /\ rq'[r].key = rq[r].key
  /\ rq'[r].op = rq[r].op /\ rq'[r].clb = rq[r].clb

\* What a callback may say to client c.
RightAnswer(c) ==
  /\ "ENOMEM" \notin Faults
  /\ call[c].pc = "wait" /\ call[c].op = "GET" /\ call'[c].ready /\ call'[c].ok
  => call'[c].val = disk[tree[call[c].key].ptr]

\* What the fields of a request in its pool show.
LEMMA NoRqstFields ==
  /\ NoRqst.op = "NONE" /\ NoRqst.asked = Nil /\ NoRqst.clb = Async
  /\ NoRqst.freeLba = 0 /\ NoRqst.io = "none" /\ NoRqst.result = FALSE
BY DEF NoRqst

\* A step of a thread of the pipeline, on its request r, keeps DataInv if it keeps
\* what DataInv says of the store and of r.
LEMMA ThreadKeeps ==
  ASSUME DataInv, StoreInv', NEW r \in Rqsts, Aside(r), Near(r),
         \A k \in Keys : Settled(k) => SameFor(k),
         \A c \in Clients : SameCall(c) /\ (call'[c] = call[c] \/ RightAnswer(c)),
         rq'[r] = NoRqst \/ SameRqst(r),
         PlaceInv(r)', ReadInv(r)'
  PROVE  DataInv'
<1>1. ASSUME NEW s \in Rqsts PROVE rq'[s] = NoRqst \/ SameRqst(s)
  BY Zenon DEF Aside, SameRqst
<1>2. ASSUME NEW c \in Clients, NEW s \in Rqsts, Waits(c, s)'
      PROVE  Waits(c, s) /\ SameRqst(s)
  <2>1. rq'[s].clb # Async
    BY Zenon, <1>2, PipelineAssumption DEF Waits
  <2>2. SameRqst(s)
    BY Zenon, <1>1, <2>1, NoRqstFields
  <2>3. QED
    BY Zenon, <1>2, <2>2 DEF Waits, SameCall, SameRqst
<1>3. UseInv'
  <2>1. \A c \in Clients, k \in Keys : Busy(c, k)' <=> Busy(c, k)
    BY Zenon DEF Busy, SameCall
  <2>2. \A s \in Rqsts : rq'[s].asked # Nil => SameRqst(s)
    BY Zenon, <1>1, NoRqstFields
  <2>3. ASSUME NEW s \in Rqsts, NEW t \in Rqsts,
               rq'[s].asked = rq'[t].asked, rq'[s].asked # Nil
        PROVE  s = t
    <3>1. SameRqst(s) /\ SameRqst(t)
      BY Zenon, <2>2, <2>3
    <3>2. rq[s].asked = rq[t].asked /\ rq[s].asked # Nil
      BY Zenon, <2>3, <3>1 DEF SameRqst
    <3>3. QED
      BY Zenon, <3>2 DEF DataInv, UseInv
  <2>4. ASSUME NEW c \in Clients, NEW s \in Rqsts,
               Busy(c, rq[s].asked)', rq'[s].asked # Nil
        PROVE  Waits(c, s)'
    <3>1. SameRqst(s)
      BY Zenon, <2>2, <2>4
    <3>2. Busy(c, rq[s].asked) /\ rq[s].asked # Nil
      BY Zenon, <2>4, <3>1 DEF Busy, SameCall, SameRqst
    <3>3. Waits(c, s)
      BY Zenon, <3>2 DEF DataInv, UseInv
    <3>4. QED
      BY Zenon, <3>1, <3>3 DEF Waits, SameCall, SameRqst
  <2>5. ASSUME NEW c \in Clients, NEW s \in Rqsts, Waits(c, s)'
        PROVE  /\ call'[c].op = rq'[s].op /\ call'[c].key = rq'[s].asked
               /\ rq'[s].key = rq'[s].asked
    <3>1. Waits(c, s) /\ SameRqst(s) /\ SameCall(c)
      BY Zenon, <1>2, <2>5
    <3>2. QED
      BY Zenon, <3>1 DEF DataInv, UseInv, SameCall, SameRqst
  <2>6. \A c, d \in Clients, k \in Keys : Busy(c, k)' /\ Busy(d, k)' => c = d
    BY Zenon, <2>1 DEF DataInv, UseInv
  <2>7. QED
    BY Zenon, <2>3, <2>4, <2>5, <2>6 DEF UseInv
<1>4. ASSUME NEW c \in Clients PROVE CallInv(c)'
  <2>1. CallInv(c) /\ SameCall(c) /\ (call'[c] = call[c] \/ RightAnswer(c))
    BY Zenon DEF DataInv
  <2>2. CASE call[c].pc \in {"put", "copy"}
    <3>1. call[c].key \in Keys /\ SameFor(call[c].key)
      BY Zenon, <2>1, <2>2 DEF CallInv, Settled
    <3>2. QED
      BY Zenon, <2>1, <2>2, <3>1 DEF CallInv, SameCall, SameFor
  <2>3. CASE call[c].pc = "wait" /\ call[c].op = "GET"
    <3>1. /\ call[c].key \in Keys /\ SameFor(call[c].key)
          /\ tree[call[c].key].loc = "DISK"
      BY Zenon, <2>1, <2>3 DEF CallInv, Settled
    <3>2. disk'[tree'[call'[c].key].ptr] = disk[tree[call[c].key].ptr]
      BY Zenon, <2>1, <3>1 DEF SameCall, SameFor
    <3>3. /\ "ENOMEM" \notin Faults /\ call'[c].ready /\ call'[c].ok
          => call'[c].val = disk[tree[call[c].key].ptr]
      BY Zenon, <2>1, <2>3 DEF CallInv, RightAnswer
    <3>4. /\ call'[c].key \in Keys /\ call'[c].r \in Rqsts /\ call'[c].pc = "wait"
          /\ tree'[call'[c].key].loc = "DISK"
      BY Zenon, <2>1, <2>3, <3>1 DEF CallInv, SameCall, SameFor
    <3>5. QED
      BY Zenon, <3>2, <3>3, <3>4 DEF CallInv
  <2>4. CASE call[c].pc = "wait" /\ call[c].op # "GET"
    BY Zenon, <2>1, <2>4 DEF CallInv, SameCall
  <2>5. CASE call[c].pc \notin {"put", "copy", "wait"}
    BY Zenon, <2>1, <2>5 DEF CallInv, SameCall
  <2>6. QED
    BY Zenon, <2>2, <2>3, <2>4, <2>5
<1>5. ASSUME NEW s \in Rqsts, s # r PROVE PlaceInv(s)' /\ ReadInv(s)'
  <2>1. PlaceInv(s) /\ ReadInv(s) /\ rq'[s] = rq[s]
    BY Zenon, <1>5 DEF DataInv, Aside
  <2>2. PlaceInv(s)'
    BY Zenon, <1>5, <2>1 DEF PlaceInv, Near
  <2>3. ASSUME "ENOMEM" \notin Faults, NEW c \in Clients, Waits(c, s)',
               rq'[s].op = "GET"
        PROVE  /\ (r # s /\ s \in Held(ioRing)' \cup inDev' \cup ioWait' \cup Held(finRing)')
                  => rq'[s].addr = tree'[rq'[s].key].ptr
               /\ rq'[s].result => rq'[s].buf = disk'[tree'[rq'[s].key].ptr]
    <3>1. Waits(c, s) /\ rq[s].op = "GET"
      BY Zenon, <1>2, <2>1, <2>3
    <3>2. call[c].op = "GET" /\ call[c].key = rq[s].key /\ call[c].pc = "wait"
      <4>1. call[c].op = rq[s].op /\ call[c].key = rq[s].asked /\ rq[s].key = rq[s].asked
        BY Zenon, <3>1 DEF DataInv, UseInv
      <4>2. QED
        BY Zenon, <3>1, <4>1 DEF Waits
    <3>3. rq[s].key \in Keys /\ tree[rq[s].key].loc = "DISK"
      BY Zenon, <3>2 DEF DataInv, CallInv
    <3>4. SameFor(rq[s].key)
      BY Zenon, <3>3 DEF Settled
    <3>5. QED
      BY Zenon, <2>1, <2>3, <3>1, <3>3, <3>4 DEF ReadInv, SameFor, Near
  <2>4. QED
    BY Zenon, <1>5, <2>2, <2>3 DEF ReadInv
<1>6. QED
  BY Zenon, <1>3, <1>4, <1>5 DEF DataInv

-----------------------------------------------------------------------------
(***************************************************************************)
(* Requests that are answered and put back.                                *)
(***************************************************************************)
\* The records that stand for no request and no call have their types.
LEMMA NothingTypes == NoRqst \in Request /\ IdleCall \in Call
BY Zenon, LbaTypes DEF NoRqst, Request, IdleCall, Call, Ptrs, Data, Locations

\* A callback changes the answer of the caller that waits for r, and no other.
LEMMA ReplyCalls ==
  ASSUME DataTypes, NEW r \in Rqsts, NEW ok \in BOOLEAN, NEW val \in Data,
         Reply(r, ok, val)
  PROVE  /\ call' \in [Clients -> Call]
         /\ \A c \in Clients :
              /\ SameCall(c)
              /\ \/ call'[c] = call[c]
                 \/ Waits(c, r) /\ call'[c].ok = ok /\ call'[c].val = val
<1>1. PICK c : c = rq[r].clb
  BY Zenon
<1>2. CASE c # Async /\ call[c].pc = "wait" /\ call[c].r = r
  <2>1. c \in Clients
    BY Zenon, <1>1, <1>2 DEF DataTypes, Request
  <2>2. call[c] \in Call
    BY Zenon, <2>1 DEF DataTypes
  <2>3. PICK w : w = [call[c] EXCEPT !.ready = TRUE, !.ok = ok, !.val = val]
    BY Zenon
  <2>4. /\ w \in Call /\ w.pc = call[c].pc /\ w.key = call[c].key
        /\ w.ptr = call[c].ptr /\ w.op = call[c].op /\ w.r = call[c].r
        /\ w.ok = ok /\ w.val = val
    BY Zenon, <2>2, <2>3 DEF Call
  <2>5. call' = [call EXCEPT ![c] = w]
    BY Zenon, <1>1, <1>2, <2>3 DEF Reply
  <2>6. call' \in [Clients -> Call] /\ call'[c] = w
        /\ \A d \in Clients : d # c => call'[d] = call[d]
    BY Zenon, <2>1, <2>4, <2>5 DEF DataTypes
  <2>7. Waits(c, r)
    BY Zenon, <1>1, <1>2 DEF Waits
  <2>8. QED
    BY Zenon, <2>4, <2>6, <2>7 DEF SameCall
<1>3. CASE ~(c # Async /\ call[c].pc = "wait" /\ call[c].r = r)
  <2>1. call' = call
    BY Zenon, <1>1, <1>3 DEF Reply
  <2>2. QED
    BY Zenon, <2>1 DEF DataTypes, SameCall
<1>4. QED
  BY Zenon, <1>2, <1>3

\* Putting a request back keeps DataInv.
LEMMA PutBack ==
  ASSUME DataInv, PipelineInv, PipelineInv', UNCHANGED dataVars, NEW r \in Rqsts,
         pool[r] = 0, ~Moving(r), SameMoves, Near(r), PoolPut(r, 1),
         call' \in [Clients -> Call],
         \A c \in Clients : SameCall(c) /\ (call'[c] = call[c] \/ RightAnswer(c))
  PROVE  DataInv'
<1>1. /\ rq' \in [Rqsts -> Request] /\ rq'[r] = NoRqst /\ pool'[r] = 1 /\ Aside(r)
  BY NothingTypes
     DEF DataInv, StoreInv, DataTypes, PoolPut, Aside, PipelineInv, TypeInv, TypeOK
<1>2. DataTypes' /\ UNCHANGED <<tree, disk>>
  BY Zenon, <1>1 DEF DataInv, StoreInv, DataTypes, dataVars
<1>3. RqInv(r)'
  <2>1. ~Moving(r)'
    BY Zenon DEF SameMoves
  <2>2. pool'[r] # 0
    BY <1>1
  <2>3. QED
    BY Zenon, <1>1, <2>1, <2>2, NoRqstFields DEF RqInv, Offloads
<1>4. SamePuts
  BY Zenon DEF SameCall, SamePuts
<1>5. StoreInv'
  <2>1. StoreInv /\ rq'[r].freeLba = 0
    BY Zenon, <1>1, NoRqstFields DEF DataInv
  <2>2. QED
    BY Zenon, <1>1, <1>2, <1>3, <1>4, <2>1, QuietStore
<1>6. PlaceInv(r)'
  <2>1. r \notin inDev' /\ r \notin ioWait'
    BY Zenon, <1>1 DEF PipelineInv, OwnInv, OwnAt
  <2>2. QED
    BY Zenon, <1>1, <2>1, NoRqstFields DEF PlaceInv
<1>7. ReadInv(r)'
  BY Zenon, <1>1, NoRqstFields DEF ReadInv
<1>8. \A k \in Keys : SameFor(k)
  BY Zenon, <1>2 DEF SameFor
<1>9. QED
  BY Zenon, <1>1, <1>5, <1>6, <1>7, <1>8, ThreadKeeps

-----------------------------------------------------------------------------
(***************************************************************************)
(* Requests that go on.                                                    *)
(***************************************************************************)
\* A step that moves a request on, and changes no data and none of what an UPDATE
\* request carries, keeps DataInv.
LEMMA GoesOn ==
  ASSUME DataInv, UNCHANGED <<dataVars, pool>>, NEW r \in Rqsts, pool[r] = 0,
         ~Moving(r), SameMoves, Near(r),
         rq' \in [Rqsts -> Request], \A s \in Rqsts : s # r => rq'[s] = rq[s],
         \/ rq'[r] = rq[r]
         \/ /\ rq[r].op # "UPDATE" /\ SameRqst(r)
            /\ rq'[r].freeLba = rq[r].freeLba,
         call' \in [Clients -> Call],
         \A c \in Clients : SameCall(c) /\ (call'[c] = call[c] \/ RightAnswer(c)),
         PlaceInv(r)', ReadInv(r)'
  PROVE  DataInv'
<1>1. Aside(r) /\ DataTypes' /\ UNCHANGED <<tree, disk>>
  BY Zenon DEF Aside, DataInv, StoreInv, DataTypes, dataVars
<1>2. RqInv(r)'
  <2>1. RqInv(r) /\ ~Moving(r)' /\ UNCHANGED <<tree, cells, disk, lbas>>
    BY Zenon DEF DataInv, StoreInv, SameMoves, dataVars
  <2>2. CASE rq'[r] = rq[r]
    BY Zenon, <2>1, <2>2 DEF RqInv, Offloads
  <2>3. CASE /\ rq[r].op # "UPDATE" /\ SameRqst(r)
             /\ rq'[r].freeLba = rq[r].freeLba
    BY Zenon, <2>1, <2>3 DEF RqInv, Offloads, SameRqst
  <2>4. QED
    BY Zenon, <2>2, <2>3
<1>3. SamePuts
  BY Zenon DEF SameCall, SamePuts
<1>4. StoreInv'
  BY Zenon, <1>1, <1>2, <1>3, QuietStore DEF DataInv
<1>5. \A k \in Keys : SameFor(k)
  BY Zenon, <1>1 DEF SameFor
<1>6. SameRqst(r)
  BY Zenon DEF SameRqst
<1>7. QED
  BY Zenon, <1>1, <1>4, <1>5, <1>6, ThreadKeeps

\* Rings only lose requests, or get the one that moves.
LEMMA RingMoves ==
  ASSUME NEW s \in Seq(Rqsts), NoDuplicate(s)
  PROVE  /\ s # <<>> => Held(Tail(s)) \subseteq Held(s) /\ Head(s) \in Rqsts
         /\ \A r \in Rqsts : Held(Append(s, r)) \subseteq Held(s) \cup {r}
BY HeldTail, HeldAppend

\* The offload poller keeps DataInv.
LEMMA PollerData ==
  ASSUME PipelineInv, PipelineInv', DataInv, Poller
  PROVE  DataInv'
<1> USE DEF bdevVars
<1>1. PICK r : r = Head(offRing)
  BY Zenon
<1>2. /\ offRing \in Seq(Rqsts) /\ offRing # <<>> /\ ioRing \in Seq(Rqsts)
      /\ NoDuplicate(offRing) /\ NoDuplicate(ioRing)
  BY Zenon DEF Poller, PipelineInv, TypeInv, TypeOK, OwnInv
<1>3. /\ r \in Rqsts /\ r \in Held(offRing) /\ offRing' = Tail(offRing)
      /\ Held(offRing') = Held(offRing) \ {r}
  BY Zenon, <1>1, <1>2, HeldTail DEF Poller
<1>4. OwnAt(r) /\ pool[r] = 0 /\ (fin.pc # "idle" => fin.r # r)
  BY Zenon, <1>3, InPlace DEF PipelineInv
<1>5. ~Moving(r) /\ SameMoves /\ UNCHANGED <<dataVars, finRing, inDev, ioWait>>
  BY Zenon, <1>4 DEF Moving, SameMoves, Poller
<1>6. DataTypes /\ rq[r] \in Request /\ PlaceInv(r) /\ ReadInv(r) /\ RqInv(r)
  BY Zenon, <1>3 DEF DataInv, StoreInv, DataTypes
<1>7. CASE PollerAnswer(r)
  <2>1. PICK ok \in BOOLEAN : ok = (rq[r].op = "UPDATE" /\ rq[r].loc = "DISK" /\ PollerRefuses(r))
    BY Zenon
  <2>2. Reply(r, ok, Nil) /\ PoolPut(r, 1) /\ UNCHANGED ioRing
    BY Zenon, <1>7, <2>1 DEF PollerAnswer
  <2>3. /\ call' \in [Clients -> Call]
        /\ \A c \in Clients :
              /\ SameCall(c)
              /\ \/ call'[c] = call[c]
                 \/ Waits(c, r) /\ call'[c].ok = ok /\ call'[c].val = Nil
    BY <1>3, <1>6, <2>2, ReplyCalls DEF Data
  <2>4. ASSUME NEW c \in Clients, Waits(c, r), call'[c].ok = ok
        PROVE  RightAnswer(c)
    <3>1. call[c].op = rq[r].op
      BY Zenon, <1>3, <2>4 DEF DataInv, UseInv
    <3>2. QED
      BY Zenon, <2>1, <2>4, <3>1 DEF RightAnswer
  <2>5. Near(r)
    BY Zenon, <1>3, <1>5, <2>2 DEF Near
  <2>6. QED
    BY Zenon, <1>3, <1>4, <1>5, <2>2, <2>3, <2>4, <2>5, PutBack
<1>8. CASE PollerForward(r)
  <2>1. ioRing' = Append(ioRing, r) /\ UNCHANGED <<pool, call>>
    BY Zenon, <1>8 DEF PollerForward
  <2>2. Near(r)
    BY Zenon, <1>2, <1>3, <1>5, <2>1, RingMoves DEF Near
  <2>3. /\ call' \in [Clients -> Call]
        /\ \A c \in Clients : SameCall(c) /\ call'[c] = call[c]
    BY Zenon, <1>6, <2>1 DEF DataTypes, SameCall
  <2>4. ~rq[r].result /\ r \notin inDev' /\ r \notin ioWait'
    BY Zenon, <1>3, <1>4, <1>5, <1>6 DEF PlaceInv, OwnAt
  <2>5. CASE rq[r].op = "UPDATE"
    <3>1. rq' = rq
      BY Zenon, <1>8, <2>5 DEF PollerForward
    <3>2. PlaceInv(r)'
      BY Zenon, <1>6, <2>4, <3>1 DEF PlaceInv
    <3>3. ReadInv(r)'
      BY <2>5, <3>1 DEF ReadInv
    <3>4. QED
      BY Zenon, <1>3, <1>4, <1>5, <1>6, <2>1, <2>2, <2>3, <3>1, <3>2, <3>3, GoesOn
         DEF DataTypes
  <2>6. CASE rq[r].op # "UPDATE"
    <3>1. PICK lba \in LbaThrough(tree[rq[r].key].ptr) :
            rq' = [rq EXCEPT ![r].addr = lba]
      BY Zenon, <1>8, <2>6 DEF PollerForward
    <3>2. PICK w : w = [rq[r] EXCEPT !.addr = lba]
      BY Zenon
    <3>3. lba \in DiskLbas
      BY Zenon, <3>1, LbaTypes
    <3>4. /\ w \in Request /\ w.op = rq[r].op /\ w.key = rq[r].key
          /\ w.asked = rq[r].asked /\ w.clb = rq[r].clb /\ w.io = rq[r].io
          /\ w.freeLba = rq[r].freeLba /\ w.result = rq[r].result /\ w.addr = lba
      BY Zenon, <1>6, <3>2, <3>3 DEF Request
    <3>5. rq' = [rq EXCEPT ![r] = w]
      BY Zenon, <3>1, <3>2
    <3>6. /\ rq' \in [Rqsts -> Request] /\ rq'[r] = w
          /\ \A s \in Rqsts : s # r => rq'[s] = rq[s]
      BY Zenon, <1>3, <1>6, <3>4, <3>5 DEF DataTypes
    <3>7. tree[rq[r].key].ptr = lba
      <4>1. tree[rq[r].key].loc = "DISK" /\ rq[r].key \in Keys
        BY Zenon, <1>4, <1>6, <1>8, <2>6 DEF PollerForward, PollerRefuses, RqInv
      <4>2. tree[rq[r].key].ptr \in DiskLbas
        <5>1. Spent(lbas, tree[rq[r].key].ptr) /\ BucketInv(lbas)
          BY Zenon, <4>1 DEF DataInv, StoreInv, KeyInv
        <5>2. QED
          BY Zenon, <5>1, SpentLba
      <4>3. QED
        BY Zenon, <3>1, <4>2 DEF LbaThrough
    <3>8. PlaceInv(r)'
      BY Zenon, <1>6, <2>4, <3>4, <3>6 DEF PlaceInv
    <3>9. ReadInv(r)'
      BY Zenon, <1>5, <2>4, <3>4, <3>6, <3>7 DEF ReadInv, dataVars
    <3>10. SameRqst(r) /\ rq'[r].freeLba = rq[r].freeLba
      BY Zenon, <3>4, <3>6 DEF SameRqst
    <3>11. QED
      BY Zenon, <1>3, <1>4, <1>5, <2>1, <2>2, <2>3, <2>6, <3>6, <3>8, <3>9, <3>10, GoesOn
  <2>7. QED
    BY Zenon, <2>5, <2>6
<1>9. QED
  BY Zenon, <1>1, <1>7, <1>8 DEF Poller

\* A step that changes nothing that DataInv is about keeps it.
LEMMA StillData ==
  ASSUME DataInv, UNCHANGED <<dataVars, pool, rq, ringVars, call>>, SameMoves
  PROVE  DataInv'
<1> USE DEF dataVars, ringVars
<1>1. StoreInv'
  <2>1. DataTypes' /\ SamePuts
    BY Zenon DEF DataInv, StoreInv, DataTypes, SamePuts
  <2>2. QED
    BY Zenon, <2>1, StillStore DEF DataInv
<1>2. UseInv'
  BY DEF DataInv, UseInv, Busy, Waits
<1>3. ASSUME NEW c \in Clients PROVE CallInv(c)'
  BY Zenon DEF DataInv, CallInv
<1>4. ASSUME NEW r \in Rqsts PROVE PlaceInv(r)' /\ ReadInv(r)'
  <2>1. PlaceInv(r) /\ ReadInv(r)
    BY Zenon DEF DataInv
  <2>2. PlaceInv(r)'
    BY Zenon, <2>1 DEF PlaceInv
  <2>3. ReadInv(r)'
    BY Zenon, <2>1 DEF ReadInv, Waits
  <2>4. QED
    BY Zenon, <2>2, <2>3
<1>5. QED
  BY Zenon, <1>1, <1>2, <1>3, <1>4 DEF DataInv

\* doWrite: the value that r offloads gets an LBA that nobody has, and its copy.
LEMMA IoWriteStore ==
  ASSUME PipelineInv, DataInv, NEW r \in Rqsts, pool[r] = 0, ~Moving(r), SameMoves,
         r \in Held(ioRing), rq[r].op = "UPDATE", ~IoLbaAborts(r), IoWrite(r)
  PROVE  /\ StoreInv' /\ Aside(r) /\ SameRqst(r) /\ UNCHANGED <<tree, disk, call>>
         /\ rq'[r].io = "write" /\ rq'[r].result = FALSE
<1>1. UNCHANGED <<tree, cells, disk, pool, call>>
  BY Zenon DEF IoWrite, IoSubmit
<1>2. /\ DataTypes /\ rq[r] \in Request /\ RqInv(r) /\ rq[r].result = FALSE
      /\ BucketInv(lbas) /\ \A k \in Keys : KeyInv(k)
  BY Zenon DEF DataInv, StoreInv, DataTypes, PlaceInv, Request
<1>3. PICK g \in IF rq[r].loc = "PMEM" THEN GetLba(lbas, 0)
                  ELSE {[lba |-> 0, bucket |-> lbas]} :
        /\ lbas' = g.bucket
        /\ rq' = [rq EXCEPT ![r].io = "write", ![r].freeLba = g.lba,
                            ![r].buf = IF rq[r].value = Nil THEN Nil
                                       ELSE Deref(rq[r].value)]
  BY Zenon DEF IoWrite
<1>4. /\ rq[r].loc = "PMEM" => /\ BucketInv(g.bucket) /\ ~Spent(lbas, g.lba)
                               /\ \A l : Spent(g.bucket, l) <=> Spent(lbas, l) \/ l = g.lba
      /\ rq[r].loc # "PMEM" => g.lba = 0 /\ g.bucket = lbas
  BY <1>2, <1>3, GetLbaFresh DEF IoLbaAborts
<1>5. /\ BucketInv(lbas') /\ g.lba \in DiskLbas
      /\ \A l : Spent(lbas, l) => Spent(lbas', l)
  BY Zenon, <1>2, <1>3, <1>4, SpentLba, LbaTypes
<1>6. PICK buf : buf = IF rq[r].value = Nil THEN Nil ELSE Deref(rq[r].value)
  BY Zenon
<1>7. buf \in Data
  BY Zenon, <1>2, <1>6 DEF Deref, Data, DataTypes
<1>8. PICK w : w = [rq[r] EXCEPT !.io = "write", !.freeLba = g.lba, !.buf = buf]
  BY Zenon
<1>9. /\ w \in Request /\ w.op = rq[r].op /\ w.key = rq[r].key
      /\ w.asked = rq[r].asked /\ w.clb = rq[r].clb /\ w.value = rq[r].value
      /\ w.loc = rq[r].loc /\ w.result = rq[r].result
      /\ w.io = "write" /\ w.freeLba = g.lba /\ w.buf = buf
  BY Zenon, <1>2, <1>5, <1>7, <1>8 DEF Request
<1>10. rq' = [rq EXCEPT ![r] = w]
  BY Zenon, <1>3, <1>6, <1>8
<1>11. /\ rq' \in [Rqsts -> Request] /\ rq'[r] = w
       /\ \A s \in Rqsts : s # r => rq'[s] = rq[s]
  BY Zenon, <1>2, <1>9, <1>10 DEF DataTypes
<1>12. Aside(r) /\ SameRqst(r) /\ DataTypes'
  BY Zenon, <1>1, <1>2, <1>9, <1>11 DEF Aside, SameRqst, DataTypes
<1>13. RqInv(r)'
  <2>1. ~Moving(r)' /\ w.result = FALSE
    BY Zenon, <1>2, <1>9 DEF SameMoves
  <2>2. CASE rq[r].loc # "PMEM"
    BY Zenon, <1>1, <1>2, <1>4, <1>9, <1>11, <2>1, <2>2 DEF RqInv, Offloads
  <2>3. CASE rq[r].loc = "PMEM"
    <3>1. Spent(lbas', w.freeLba)
      BY Zenon, <1>3, <1>4, <1>9, <2>3
    <3>2. rq[r].value # Nil => buf = cells[rq[r].value]
      <4>1. SUFFICES ASSUME rq[r].value # Nil PROVE buf = cells[rq[r].value]
        BY Zenon
      <4>2. /\ rq[r].value = tree[rq[r].key].act /\ rq[r].value \in Cells
            /\ rq[r].key \in Keys
        BY Zenon, <1>2, <2>3, <4>1 DEF RqInv, Offloads
      <4>3. cells[rq[r].value] \in Values
        BY Zenon, <1>2, <4>2 DEF KeyInv
      <4>4. QED
        BY Zenon, <1>6, <4>1, <4>2, <4>3, PipelineAssumption DEF Deref
    <3>3. QED
      BY Zenon, <1>1, <1>2, <1>9, <1>11, <2>1, <2>3, <3>1, <3>2 DEF RqInv, Offloads
  <2>4. QED
    BY Zenon, <2>2, <2>3
<1>14. ASSUME NEW s \in Rqsts, s # r PROVE RqInv(s)'
  <2>1. RqInv(s) /\ (Moving(s)' <=> Moving(s)) /\ rq'[s] = rq[s]
    BY Zenon, <1>11, <1>14 DEF DataInv, StoreInv, SameMoves
  <2>2. QED
    BY Zenon, <1>1, <1>5, <2>1 DEF RqInv, Offloads
<1>15. ASSUME NEW k \in Keys PROVE KeyInv(k)'
  <2>1. \A s \in Rqsts : rq'[s].key = rq[s].key /\ (Moving(s)' <=> Moving(s))
    BY Zenon, <1>9, <1>11 DEF SameMoves
  <2>2. KeyInv(k)
    BY Zenon, <1>2
  <2>3. QED
    BY Zenon, <1>1, <1>5, <2>1, <2>2 DEF KeyInv
<1>16. LbaInv'
  <2>1. CASE rq[r].loc # "PMEM"
    <3>1. \A j \in Keys : tree[j].loc = "DISK" => tree[j].ptr # 0
      BY Zenon, <1>2, SpentLba DEF KeyInv
    <3>2. \A s \in Rqsts : rq'[s].freeLba = rq[s].freeLba \/ rq'[s].freeLba = 0
      BY Zenon, <1>4, <1>9, <1>11, <2>1
    <3>3. QED
      BY Zenon, <1>1, <3>1, <3>2 DEF DataInv, StoreInv, LbaInv
  <2>2. CASE rq[r].loc = "PMEM"
    <3>1. ~Spent(lbas, g.lba) /\ g.lba # 0
      BY Zenon, <1>3, <1>4, <1>5, <2>2, SpentLba
    <3>2. \A j \in Keys : tree[j].loc = "DISK" => tree[j].ptr # g.lba
      BY Zenon, <1>2, <3>1 DEF KeyInv
    <3>3. \A s \in Rqsts : rq[s].freeLba # g.lba
      BY Zenon, <3>1 DEF DataInv, StoreInv, RqInv
    <3>4. \A s \in Rqsts : rq'[s].freeLba = rq[s].freeLba \/ (s = r /\ rq'[s].freeLba = g.lba)
      BY Zenon, <1>9, <1>11
    <3>5. LbaInv
      BY Zenon DEF DataInv, StoreInv
    <3>6. QED
      BY Zenon, <1>1, <3>2, <3>3, <3>4, <3>5 DEF LbaInv
  <2>3. QED
    BY Zenon, <2>1, <2>2
<1>17. CellInv'
  BY Zenon, <1>1 DEF DataInv, StoreInv, CellInv
<1>18. QED
  BY Zenon, <1>1, <1>2, <1>5, <1>9, <1>11, <1>12, <1>13, <1>14, <1>15, <1>16, <1>17
     DEF StoreInv

\* The I/O engine keeps DataInv.
LEMMA IoEngineData ==
  ASSUME PipelineInv, PipelineInv', DataInv, IoEngine
  PROVE  DataInv'
<1> USE DEF bdevVars
<1>a. CASE Crash
  BY Zenon, <1>a, StillData DEF Crash, rqstVars, SameMoves, Moving
<1>1. PICK r : r = Head(ioRing)
  BY Zenon
<1>2. SUFFICES ASSUME ioRing' = Tail(ioRing), UNCHANGED offRing,
                      \/ IoHang \/ IoRefuse(r) \/ IoRead(r)
                      \/ IoWrite(r) /\ (~IoLbaAborts(r))
                      \/ IoRemove(r)
               PROVE  DataInv'
  BY Zenon, <1>a, <1>1 DEF IoEngine
<1>3. ioRing \in Seq(Rqsts) /\ ioRing # <<>> /\ NoDuplicate(ioRing)
  BY Zenon DEF IoEngine, PipelineInv, TypeInv, TypeOK, OwnInv
<1>4. r \in Rqsts /\ r \in Held(ioRing) /\ Held(ioRing') = Held(ioRing) \ {r}
  BY Zenon, <1>1, <1>2, <1>3, HeldTail
<1>5. /\ OwnAt(r) /\ pool[r] = 0 /\ (fin.pc # "idle" => fin.r # r)
      /\ r \notin Held(offRing) /\ r \notin inDev /\ r \notin ioWait
  <2>1. OwnAt(r) /\ pool[r] = 0 /\ (fin.pc # "idle" => fin.r # r)
    BY Zenon, <1>4, InPlace DEF PipelineInv
  <2>2. QED
    BY Zenon, <1>4, <2>1 DEF OwnAt
<1>6. /\ DataTypes /\ rq[r] \in Request /\ rq[r].result = FALSE
      /\ PlaceInv(r) /\ ReadInv(r) /\ rq[r].op # "REMOVE"
  BY Zenon, <1>4 DEF DataInv, StoreInv, DataTypes, PlaceInv, Request
<1>7. ~Moving(r) /\ SameMoves
  <2>1. UNCHANGED fin
    BY Zenon, <1>2 DEF IoHang, IoRefuse, IoRead, IoWrite, IoSubmit, IoRemove
  <2>2. QED
    BY Zenon, <1>5, <2>1 DEF Moving, SameMoves
<1>8. CASE IoHang
  <2>1. UNCHANGED <<dataVars, pool, rq, call, finRing, inDev, ioWait>>
    BY Zenon, <1>8 DEF IoHang, rqstVars
  <2>2. Near(r)
    BY Zenon, <1>2, <1>4, <2>1 DEF Near
  <2>3. PlaceInv(r)'
    BY Zenon, <1>5, <1>6, <2>1 DEF PlaceInv
  <2>4. ReadInv(r)'
    BY Zenon, <1>4, <1>6, <2>1 DEF ReadInv, Waits, dataVars
  <2>5. /\ call' \in [Clients -> Call]
        /\ \A c \in Clients : SameCall(c) /\ call'[c] = call[c]
    BY Zenon, <1>6, <2>1 DEF DataTypes, SameCall
  <2>6. QED
    BY Zenon, <1>4, <1>5, <1>6, <1>7, <2>1, <2>2, <2>3, <2>4, <2>5, GoesOn DEF DataTypes
<1>9. CASE IoRefuse(r)
  <2>1. /\ Reply(r, FALSE, Nil) /\ PoolPut(r, 1)
        /\ UNCHANGED <<dataVars, finRing, inDev, ioWait>>
    BY Zenon, <1>6, <1>9 DEF IoRefuse
  <2>2. Near(r)
    BY Zenon, <1>2, <1>4, <2>1 DEF Near
  <2>3. /\ call' \in [Clients -> Call]
        /\ \A c \in Clients :
              /\ SameCall(c)
              /\ \/ call'[c] = call[c]
                 \/ Waits(c, r) /\ call'[c].ok = FALSE /\ call'[c].val = Nil
    BY Zenon, <1>4, <1>6, <2>1, ReplyCalls DEF Data
  <2>4. \A c \in Clients : SameCall(c) /\ (call'[c] = call[c] \/ RightAnswer(c))
    BY Zenon, <2>3 DEF RightAnswer
  <2>5. QED
    BY Zenon, <1>4, <1>5, <1>7, <2>1, <2>2, <2>3, <2>4, PutBack
<1>10. ASSUME IoSubmit(r), UNCHANGED offRing
       PROVE  /\ Near(r) /\ UNCHANGED <<pool, call>> /\ r \notin Held(offRing')
              /\ r \in ioWait' => "ENOMEM" \in Faults
  BY Zenon, <1>2, <1>4, <1>5, <1>10 DEF Near, IoSubmit
<1>11. CASE IoRead(r)
  <2>1. /\ rq[r].op = "GET" /\ IoSubmit(r) /\ UNCHANGED dataVars
        /\ rq' = [rq EXCEPT ![r].io = "read", ![r].buf = Garbage]
    BY Zenon, <1>11 DEF IoRead
  <2>2. PICK w : w = [rq[r] EXCEPT !.io = "read", !.buf = Garbage]
    BY Zenon
  <2>3. /\ w \in Request /\ w.op = rq[r].op /\ w.key = rq[r].key
        /\ w.asked = rq[r].asked /\ w.clb = rq[r].clb /\ w.io = "read"
        /\ w.freeLba = rq[r].freeLba /\ w.result = rq[r].result
        /\ w.addr = rq[r].addr
    BY Zenon, <1>6, <2>2 DEF Request, Data
  <2>4. rq' = [rq EXCEPT ![r] = w]
    BY Zenon, <2>1, <2>2
  <2>5. /\ rq' \in [Rqsts -> Request] /\ rq'[r] = w
        /\ \A s \in Rqsts : s # r => rq'[s] = rq[s]
    BY Zenon, <1>4, <1>6, <2>3, <2>4 DEF DataTypes
  <2>6. /\ Near(r) /\ UNCHANGED <<pool, call>> /\ r \notin Held(offRing')
        /\ r \in ioWait' => "ENOMEM" \in Faults
    BY Zenon, <1>2, <1>10, <2>1
  <2>7. PlaceInv(r)'
    BY Zenon, <1>6, <2>1, <2>3, <2>5, <2>6 DEF PlaceInv
  <2>8. ReadInv(r)'
    BY <1>4, <1>6, <2>1, <2>3, <2>5, <2>6 DEF ReadInv, Waits, dataVars
  <2>9. SameRqst(r) /\ rq'[r].freeLba = rq[r].freeLba /\ rq[r].op # "UPDATE"
    BY Zenon, <2>1, <2>3, <2>5 DEF SameRqst
  <2>10. /\ call' \in [Clients -> Call]
         /\ \A c \in Clients : SameCall(c) /\ call'[c] = call[c]
    BY Zenon, <1>6, <2>6 DEF DataTypes, SameCall
  <2>11. QED
    BY Zenon, <1>4, <1>5, <1>7, <2>1, <2>5, <2>6, <2>7, <2>8, <2>9, <2>10, GoesOn
<1>12. CASE IoWrite(r) /\ ~IoLbaAborts(r)
  <2>1. rq[r].op = "UPDATE" /\ IoSubmit(r)
    BY Zenon, <1>12 DEF IoWrite
  <2>2. /\ StoreInv' /\ Aside(r) /\ SameRqst(r) /\ UNCHANGED <<tree, disk, call>>
        /\ rq'[r].io = "write" /\ rq'[r].result = FALSE
    BY Zenon, <1>4, <1>5, <1>7, <1>12, <2>1, IoWriteStore
  <2>3. Near(r) /\ (r \in ioWait' => "ENOMEM" \in Faults)
    BY Zenon, <1>2, <1>10, <2>1
  <2>4. PlaceInv(r)'
    BY Zenon, <2>1, <2>2, <2>3 DEF PlaceInv, SameRqst
  <2>5. ReadInv(r)'
    BY Zenon, <2>1, <2>2 DEF ReadInv, SameRqst
  <2>6. /\ \A k \in Keys : SameFor(k)
        /\ \A c \in Clients : SameCall(c) /\ call'[c] = call[c]
    BY Zenon, <2>2 DEF SameFor, SameCall
  <2>7. QED
    BY Zenon, <1>4, <2>2, <2>3, <2>4, <2>5, <2>6, ThreadKeeps
<1>13. ~IoRemove(r)
  BY Zenon, <1>6 DEF IoRemove
<1>14. QED
  BY Zenon, <1>2, <1>8, <1>9, <1>11, <1>12, <1>13

\* A request that the device has completed goes on to the finalizer.
LEMMA ToFinalizerMoves ==
  ASSUME PipelineInv, NEW r \in Rqsts, r \in inDev, NEW n, ToFinalizer(r, n)
  PROVE  /\ Near(r) /\ OwnAt(r) /\ pool[r] = 0 /\ ~Moving(r) /\ SameMoves
         /\ UNCHANGED <<tree, cells, lbas, pool, call>>
         /\ r \notin Held(offRing)' /\ r \notin Held(ioRing)'
         /\ r \notin inDev' /\ r \notin ioWait'
<1>1. /\ OwnAt(r) /\ pool[r] = 0 /\ (fin.pc # "idle" => fin.r # r)
  BY Zenon, InPlace DEF PipelineInv
<1>2. /\ inDev' = inDev \ {r}
      /\ finRing' = finRing \/ finRing' = Append(finRing, r)
      /\ UNCHANGED <<tree, cells, lbas, pool, call, offRing, ioRing, ioWait, fin>>
  BY Zenon DEF ToFinalizer
<1>3. finRing \in Seq(Rqsts) /\ NoDuplicate(finRing)
  BY Zenon DEF PipelineInv, TypeInv, TypeOK, OwnInv
<1>4. Held(finRing)' \subseteq Held(finRing) \cup {r}
  <2>1. CASE finRing' = finRing
    BY Zenon, <2>1
  <2>2. CASE finRing' = Append(finRing, r)
    BY Zenon, <1>3, <2>2, RingMoves
  <2>3. QED
    BY Zenon, <1>2, <2>1, <2>2
<1>5. ~Moving(r) /\ SameMoves
  BY Zenon, <1>1, <1>2 DEF Moving, SameMoves
<1>6. QED
  BY Zenon, <1>1, <1>2, <1>4, <1>5 DEF Near, OwnAt

\* writeComplete: the value is on the device at the LBA of its request, which no
\* key and no other request has.
LEMMA WriteCompleteData ==
  ASSUME PipelineInv, DataInv, NEW r \in Rqsts, r \in inDev,
         NEW success \in BOOLEAN, WriteComplete(r, success)
  PROVE  DataInv'
<1>1. /\ Near(r) /\ OwnAt(r) /\ pool[r] = 0 /\ ~Moving(r) /\ SameMoves
      /\ UNCHANGED <<tree, cells, lbas, pool, call>>
      /\ r \notin Held(offRing)' /\ r \notin Held(ioRing)'
      /\ r \notin inDev' /\ r \notin ioWait'
  BY Zenon, ToFinalizerMoves DEF WriteComplete
<1>2. /\ DataTypes /\ rq[r] \in Request /\ RqInv(r) /\ PlaceInv(r)
      /\ rq[r].io = "write"
  BY Zenon DEF DataInv, StoreInv, DataTypes, WriteComplete
<1>3. PICK w : w = [rq[r] EXCEPT !.result = success]
  BY Zenon
<1>4. /\ w \in Request /\ w.op = rq[r].op /\ w.key = rq[r].key
      /\ w.asked = rq[r].asked /\ w.clb = rq[r].clb /\ w.value = rq[r].value
      /\ w.loc = rq[r].loc /\ w.io = rq[r].io /\ w.freeLba = rq[r].freeLba
      /\ w.buf = rq[r].buf /\ w.result = success
  BY Zenon, <1>2, <1>3 DEF Request
<1>5. rq' = [rq EXCEPT ![r] = w]
  BY Zenon, <1>3 DEF WriteComplete
<1>6. /\ rq' \in [Rqsts -> Request] /\ rq'[r] = w
      /\ \A s \in Rqsts : s # r => rq'[s] = rq[s]
  BY Zenon, <1>2, <1>4, <1>5 DEF DataTypes
<1>7. rq[r].freeLba \in DiskLbas /\ rq[r].buf \in Data
  BY Zenon, <1>2 DEF Request
<1>8. /\ disk' \in [DiskLbas -> Data]
      /\ \A l \in DiskLbas : l # rq[r].freeLba => disk'[l] = disk[l]
      /\ success /\ rq[r].buf # Nil => disk'[rq[r].freeLba] = rq[r].buf
  BY Zenon, <1>2, <1>7 DEF WriteComplete, DataTypes
<1>9. Aside(r) /\ SameRqst(r) /\ DataTypes'
  BY Zenon, <1>1, <1>2, <1>4, <1>6, <1>8 DEF Aside, SameRqst, DataTypes
<1>10. RqInv(r)'
  <2>1. ~Moving(r)'
    BY Zenon, <1>1 DEF SameMoves
  <2>2. Offloads(r) /\ rq[r].value # Nil
        => rq[r].buf = cells[rq[r].value] /\ rq[r].buf \in Values
    <3>1. SUFFICES ASSUME Offloads(r), rq[r].value # Nil
                   PROVE  rq[r].buf = cells[rq[r].value] /\ rq[r].buf \in Values
      BY Zenon
    <3>2. /\ rq[r].value = tree[rq[r].key].act /\ rq[r].value \in Cells
          /\ rq[r].key \in Keys /\ rq[r].buf = cells[rq[r].value]
      BY Zenon, <1>1, <1>2, <3>1 DEF RqInv
    <3>3. QED
      <4>1. KeyInv(rq[r].key)
        BY Zenon, <3>2 DEF DataInv, StoreInv
      <4>2. QED
        BY Zenon, <3>2, <4>1 DEF KeyInv
  <2>3. Offloads(r) /\ rq[r].value # Nil /\ success
        => rq[r].buf \in Values /\ disk'[rq[r].freeLba] = rq[r].buf
    BY Zenon, <1>8, <2>2, PipelineAssumption
  <2>4. QED
    BY Zenon, <1>1, <1>2, <1>4, <1>6, <2>1, <2>3 DEF RqInv, Offloads
<1>11. ASSUME NEW s \in Rqsts, s # r PROVE RqInv(s)'
  <2>1. /\ RqInv(s) /\ (Moving(s)' <=> Moving(s)) /\ rq'[s] = rq[s]
        /\ rq[s].freeLba \in DiskLbas
    BY Zenon, <1>1, <1>2, <1>6, <1>11 DEF DataInv, StoreInv, SameMoves, DataTypes, Request
  <2>2. Offloads(s) /\ rq[s].io = "write" => disk'[rq[s].freeLba] = disk[rq[s].freeLba]
    <3>1. SUFFICES ASSUME Offloads(s), rq[s].io = "write"
                   PROVE  rq[s].freeLba # rq[r].freeLba
      BY Zenon, <1>8, <2>1
    <3>2. rq[s].freeLba # 0
      BY Zenon, <2>1, <3>1, SpentLba DEF RqInv, DataInv, StoreInv
    <3>3. QED
      BY Zenon, <1>11, <3>2 DEF DataInv, StoreInv, LbaInv
  <2>3. QED
    BY Zenon, <1>1, <2>1, <2>2 DEF RqInv, Offloads
<1>12. ASSUME NEW k \in Keys PROVE SameFor(k)
  <2>1. tree[k].loc = "DISK" => tree[k].ptr \in DiskLbas /\ tree[k].ptr # rq[r].freeLba
    BY SpentLba DEF DataInv, StoreInv, KeyInv, LbaInv
  <2>2. QED
    BY Zenon, <1>1, <1>8, <2>1 DEF SameFor
<1>13. ASSUME NEW k \in Keys PROVE KeyInv(k)'
  <2>1. \A s \in Rqsts : rq'[s].key = rq[s].key /\ (Moving(s)' <=> Moving(s))
    BY Zenon, <1>1, <1>4, <1>6 DEF SameMoves
  <2>2. KeyInv(k) /\ SameFor(k)
    BY Zenon, <1>12 DEF DataInv, StoreInv
  <2>3. QED
    BY Zenon, <1>1, <2>1, <2>2 DEF KeyInv, SameFor
<1>14. LbaInv' /\ CellInv' /\ BucketInv(lbas')
  <2>1. \A s \in Rqsts : rq'[s].freeLba = rq[s].freeLba
    BY Zenon, <1>4, <1>6
  <2>2. QED
    BY <1>1, <2>1 DEF DataInv, StoreInv, LbaInv, CellInv
<1>15. StoreInv'
  BY Zenon, <1>9, <1>10, <1>11, <1>13, <1>14 DEF StoreInv
<1>16. PlaceInv(r)'
  BY Zenon, <1>1, <1>2, <1>4, <1>6 DEF PlaceInv
<1>17. ReadInv(r)'
  BY Zenon, <1>2, <1>4, <1>6 DEF ReadInv, PlaceInv
<1>18. \A c \in Clients : SameCall(c) /\ call'[c] = call[c]
  BY Zenon, <1>1 DEF SameCall
<1>19. QED
  BY Zenon, <1>1, <1>9, <1>12, <1>15, <1>16, <1>17, <1>18, ThreadKeeps

\* readComplete: what was read is the value of the key, if its LBA was read.
LEMMA ReadCompleteData ==
  ASSUME PipelineInv, DataInv, NEW r \in Rqsts, r \in inDev,
         NEW success \in BOOLEAN, ReadComplete(r, success)
  PROVE  DataInv'
<1>1. /\ Near(r) /\ OwnAt(r) /\ pool[r] = 0 /\ ~Moving(r) /\ SameMoves
      /\ UNCHANGED <<dataVars, pool, call>>
      /\ r \notin Held(offRing)' /\ r \notin Held(ioRing)'
      /\ r \notin inDev' /\ r \notin ioWait'
  BY Zenon, ToFinalizerMoves DEF ReadComplete, dataVars
<1>2. /\ DataTypes /\ rq[r] \in Request /\ PlaceInv(r) /\ ReadInv(r)
      /\ rq[r].io = "read" /\ rq[r].op # "UPDATE"
  BY Zenon DEF DataInv, StoreInv, DataTypes, ReadComplete, PlaceInv
<1>3. PICK buf : buf = IF success THEN disk[rq[r].addr] ELSE rq[r].buf
  BY Zenon
<1>4. PICK w : w = [rq[r] EXCEPT !.result = success, !.buf = buf]
  BY Zenon
<1>5. buf \in Data
  BY Zenon, <1>2, <1>3 DEF DataTypes, Request
<1>6. /\ w \in Request /\ w.op = rq[r].op /\ w.key = rq[r].key
      /\ w.asked = rq[r].asked /\ w.clb = rq[r].clb /\ w.io = rq[r].io
      /\ w.freeLba = rq[r].freeLba /\ w.addr = rq[r].addr
      /\ w.buf = buf /\ w.result = success
  BY Zenon, <1>2, <1>4, <1>5 DEF Request
<1>7. rq' = [rq EXCEPT ![r] = w]
  BY Zenon, <1>3, <1>4 DEF ReadComplete
<1>8. /\ rq' \in [Rqsts -> Request] /\ rq'[r] = w
      /\ \A s \in Rqsts : s # r => rq'[s] = rq[s]
  BY Zenon, <1>2, <1>6, <1>7 DEF DataTypes
<1>9. PlaceInv(r)'
  BY Zenon, <1>1, <1>2, <1>6, <1>8 DEF PlaceInv
<1>10. ReadInv(r)'
  <2>1. ASSUME "ENOMEM" \notin Faults, NEW c \in Clients, Waits(c, r)',
               rq'[r].op = "GET"
        PROVE  /\ rq'[r].addr = tree'[rq'[r].key].ptr
               /\ rq'[r].result => rq'[r].buf = disk'[tree'[rq'[r].key].ptr]
    <3>1. Waits(c, r) /\ rq[r].op = "GET"
      BY Zenon, <1>1, <1>6, <1>8, <2>1 DEF Waits
    <3>2. rq[r].addr = tree[rq[r].key].ptr
      BY Zenon, <1>2, <2>1, <3>1 DEF ReadInv
    <3>3. QED
      BY <1>1, <1>3, <1>6, <1>8, <3>2 DEF dataVars
  <2>2. QED
    BY Zenon, <2>1 DEF ReadInv
<1>11. SameRqst(r) /\ rq'[r].freeLba = rq[r].freeLba
  BY Zenon, <1>6, <1>8 DEF SameRqst
<1>12. /\ call' \in [Clients -> Call]
       /\ \A c \in Clients : SameCall(c) /\ call'[c] = call[c]
  BY Zenon, <1>1, <1>2 DEF DataTypes, SameCall
<1>13. QED
  BY Zenon, <1>1, <1>2, <1>8, <1>9, <1>10, <1>11, <1>12, GoesOn

\* writeQueueIoWait submits again what waited for buffers.
LEMMA QueueIoWaitData ==
  ASSUME PipelineInv, DataInv, NEW r \in Rqsts, QueueIoWait(r)
  PROVE  DataInv'
<1>1. /\ r \in ioWait /\ ioWait' = ioWait \ {r} /\ inDev' = inDev \cup {r}
      /\ UNCHANGED <<dataVars, pool, offRing, ioRing, finRing, fin, call>>
  BY Zenon DEF QueueIoWait
<1>2. /\ OwnAt(r) /\ pool[r] = 0 /\ (fin.pc # "idle" => fin.r # r)
  BY Zenon, <1>1, InPlace DEF PipelineInv
<1>3. Near(r) /\ ~Moving(r) /\ SameMoves
  BY Zenon, <1>1, <1>2 DEF Near, Moving, SameMoves
<1>4. /\ DataTypes /\ rq[r] \in Request /\ PlaceInv(r) /\ ReadInv(r)
      /\ "ENOMEM" \in Faults /\ ~rq[r].result
  BY Zenon, <1>1 DEF DataInv, StoreInv, DataTypes, PlaceInv
<1>5. PICK w : w = [rq[r] EXCEPT !.io = "write"]
  BY Zenon
<1>6. /\ w \in Request /\ w.op = rq[r].op /\ w.key = rq[r].key
      /\ w.asked = rq[r].asked /\ w.clb = rq[r].clb /\ w.io = "write"
      /\ w.freeLba = rq[r].freeLba /\ w.result = rq[r].result
      /\ rq[r].io = "write" => w = rq[r]
  BY Zenon, <1>4, <1>5 DEF Request
<1>7. rq' = [rq EXCEPT ![r] = w]
  BY Zenon, <1>5 DEF QueueIoWait
<1>8. /\ rq' \in [Rqsts -> Request] /\ rq'[r] = w
      /\ \A s \in Rqsts : s # r => rq'[s] = rq[s]
  BY Zenon, <1>4, <1>6, <1>7 DEF DataTypes
<1>9. PlaceInv(r)'
  BY Zenon, <1>1, <1>2, <1>4, <1>6, <1>8 DEF PlaceInv, OwnAt
<1>10. ReadInv(r)'
  BY Zenon, <1>4 DEF ReadInv
<1>11. \/ rq'[r] = rq[r]
       \/ rq[r].op # "UPDATE" /\ SameRqst(r) /\ rq'[r].freeLba = rq[r].freeLba
  <2>1. CASE rq[r].op = "UPDATE"
    <3>1. rq[r].io = "write"
      BY Zenon, <1>1, <1>4, <2>1 DEF PlaceInv, Request
    <3>2. QED
      BY Zenon, <1>6, <1>8, <3>1
  <2>2. CASE rq[r].op # "UPDATE"
    BY Zenon, <1>6, <1>8, <2>2 DEF SameRqst
  <2>3. QED
    BY Zenon, <2>1, <2>2
<1>12. /\ call' \in [Clients -> Call]
       /\ \A c \in Clients : SameCall(c) /\ call'[c] = call[c]
  BY Zenon, <1>1, <1>4 DEF DataTypes, SameCall
<1>13. QED
  BY Zenon, <1>1, <1>2, <1>3, <1>8, <1>9, <1>10, <1>11, <1>12, GoesOn
=============================================================================
