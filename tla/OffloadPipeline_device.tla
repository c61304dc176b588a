----------------------- MODULE OffloadPipeline_device -----------------------
(***************************************************************************)
(* The device of the offload pipeline, for all constants: it reports that  *)
(* it is quiescent only when it has no I/O left, and, without reads and    *)
(* quiescing, the buffers counted are those in use.                        *)
(***************************************************************************)
EXTENDS OffloadPipeline_proofs, FiniteSetTheorems

\* Every I/O that is in the device or waits for it is counted by outstanding, and
\* a device that is quiescent has none.
DrainInv ==
  /\ IsFiniteSet(inDev) /\ IsFiniteSet(ioWait)
  /\ Cardinality(inDev) + Cardinality(ioWait) <= outstanding
  /\ ioState = "QUIESCENT" => inDev = {} /\ ioWait = {}

\* A step that submits and completes no I/O keeps DrainInv, also when the device
\* starts to quiesce, is aborted, or finds nothing outstanding.
LEMMA IdleDrain ==
  ASSUME TypeInv, DrainInv, UNCHANGED <<inDev, ioWait, outstanding>>,
         ioState' \in {ioState, "QUIESCING", "ABORTED", stateAfter(outstanding)}
  PROVE  DrainInv'
<1>1. /\ Cardinality(inDev) \in Nat /\ Cardinality(ioWait) \in Nat
      /\ outstanding \in Nat
  BY Zenon, FS_CardinalityType DEF DrainInv, TypeInv, TypeOK
<1>2. CASE outstanding = 0
  <2>1. Cardinality(inDev) = 0 /\ Cardinality(ioWait) = 0
    BY <1>1, <1>2 DEF DrainInv
  <2>2. inDev = {} /\ ioWait = {}
    BY Zenon, <2>1, FS_EmptySet DEF DrainInv
  <2>3. QED
    BY Zenon, <2>2 DEF DrainInv
<1>3. CASE outstanding # 0
  BY Zenon, <1>3 DEF DrainInv, stateAfter
<1>4. QED
  BY Zenon, <1>2, <1>3

\* Submitting an I/O to a device that is not quiescent keeps DrainInv.
LEMMA SubmitDrain ==
  ASSUME TypeInv, DrainInv, NEW r, ioState # "QUIESCENT", IoSubmit(r)
  PROVE  DrainInv'
<1>1. /\ Cardinality(inDev) \in Nat /\ Cardinality(ioWait) \in Nat
      /\ outstanding \in Nat /\ IsFiniteSet(inDev) /\ IsFiniteSet(ioWait)
      /\ Cardinality(inDev) + Cardinality(ioWait) <= outstanding
  BY Zenon, FS_CardinalityType DEF DrainInv, TypeInv, TypeOK
<1>2. ASSUME NEW S, IsFiniteSet(S), Cardinality(S) \in Nat
      PROVE  /\ IsFiniteSet(S \cup {r}) /\ Cardinality(S \cup {r}) \in Nat
             /\ Cardinality(S \cup {r}) <= Cardinality(S) + 1
  BY <1>2, FS_AddElement
<1>3. /\ outstanding' = outstanding + 1 /\ ioState' = ioState
      /\ \/ inDev' = inDev \cup {r} /\ ioWait' = ioWait
         \/ inDev' = inDev /\ ioWait' = ioWait \cup {r}
         \/ inDev' = inDev /\ ioWait' = ioWait
  BY Zenon DEF IoSubmit
<1>4. CASE inDev' = inDev \cup {r} /\ ioWait' = ioWait
  BY <1>1, <1>2, <1>3, <1>4 DEF DrainInv
<1>5. CASE inDev' = inDev /\ ioWait' = ioWait \cup {r}
  BY <1>1, <1>2, <1>3, <1>5 DEF DrainInv
<1>6. CASE inDev' = inDev /\ ioWait' = ioWait
  BY <1>1, <1>3, <1>6 DEF DrainInv
<1>7. QED
  BY Zenon, <1>3, <1>4, <1>5, <1>6

\* The completions keep DrainInv.
LEMMA DeviceDrain ==
  ASSUME TypeInv, DrainInv, NEW r \in Rqsts, Device(r) \/ QueueIoWait(r)
  PROVE  DrainInv'
<1>1. /\ Cardinality(inDev) \in Nat /\ Cardinality(ioWait) \in Nat
      /\ outstanding \in Nat /\ IsFiniteSet(inDev) /\ IsFiniteSet(ioWait)
      /\ Cardinality(inDev) + Cardinality(ioWait) <= outstanding
  BY Zenon, FS_CardinalityType DEF DrainInv, TypeInv, TypeOK
<1>2. CASE QueueIoWait(r)
  <2>1. /\ r \in ioWait /\ ioWait' = ioWait \ {r} /\ inDev' = inDev \cup {r}
        /\ outstanding' = outstanding /\ ioState' = ioState
    BY Zenon, <1>2 DEF QueueIoWait, bdevVars
  <2>2. /\ IsFiniteSet(inDev \cup {r}) /\ IsFiniteSet(ioWait \ {r})
        /\ Cardinality(ioWait \ {r}) = Cardinality(ioWait) - 1
        /\ Cardinality(inDev \cup {r}) <= Cardinality(inDev) + 1
        /\ Cardinality(inDev \cup {r}) \in Nat
    <3>1. /\ IsFiniteSet(ioWait \ {r})
          /\ Cardinality(ioWait \ {r}) = Cardinality(ioWait) - 1
      BY Zenon, <1>1, <2>1, FS_RemoveElement
    <3>2. /\ IsFiniteSet(inDev \cup {r})
          /\ \/ Cardinality(inDev \cup {r}) = Cardinality(inDev)
             \/ Cardinality(inDev \cup {r}) = Cardinality(inDev) + 1
      BY Zenon, <1>1, FS_AddElement
    <3>3. QED
      BY <1>1, <3>1, <3>2
  <2>3. QED
    BY <1>1, <2>1, <2>2 DEF DrainInv
<1>3. CASE Device(r)
  <2>1. r \in inDev /\ ToFinalizer(r, Completed)
    BY Zenon, <1>3 DEF Device, WriteComplete, ReadComplete
  <2>2. /\ inDev' = inDev \ {r} /\ ioWait' = ioWait /\ outstanding' = Completed
        /\ ioState' = ioState \/ ioState' = stateAfter(Completed)
    BY Zenon, <2>1 DEF ToFinalizer
  <2>3. /\ IsFiniteSet(inDev \ {r})
        /\ Cardinality(inDev \ {r}) = Cardinality(inDev) - 1
        /\ Cardinality(inDev \ {r}) \in Nat
    BY Zenon, <1>1, <2>1, FS_RemoveElement, FS_CardinalityType
  <2>4. /\ Completed \in Nat
        /\ Cardinality(inDev \ {r}) + Cardinality(ioWait) <= Completed
    BY <1>1, <2>3 DEF Completed
  <2>5. ioState # "QUIESCENT"
    BY Zenon, <2>1 DEF DrainInv
  <2>6. ioState' = "QUIESCENT" => Completed = 0
    BY Zenon, <2>2, <2>5 DEF stateAfter
  <2>7. Completed = 0 => inDev \ {r} = {} /\ ioWait = {}
    <3>1. ASSUME Completed = 0
          PROVE  Cardinality(inDev \ {r}) = 0 /\ Cardinality(ioWait) = 0
      BY <1>1, <2>3, <2>4, <3>1
    <3>2. QED
      BY Zenon, <1>1, <2>3, <3>1, FS_EmptySet
  <2>8. QED
    BY Zenon, <1>1, <2>2, <2>3, <2>4, <2>6, <2>7 DEF DrainInv
<1>4. QED
  BY Zenon, <1>2, <1>3

\* Every step keeps DrainInv.
LEMMA NextDrain ==
  ASSUME TypeInv, DrainInv, [Next]_vars
  PROVE  DrainInv'
<1> USE DEF vars, ringVars, bdevVars
<1>1. CASE UNCHANGED vars
  BY Zenon, <1>1, IdleDrain
<1>2. CASE Running
  <2>1. ASSUME NEW c \in Clients, ClientCall(c) \/ ClientStep(c) \/ Quiesce(c)
        PROVE  DrainInv'
    <3>1. /\ UNCHANGED <<inDev, ioWait, outstanding>>
          /\ ioState' \in {ioState, "QUIESCING", "ABORTED"}
      BY Zenon, <2>1
         DEF ClientCall, ClientStep, Alloc, Update, UpdateAsync,
             UpdateAsyncMissing, Get, GetAsync, RemoveOffloaded, Submit, Put,
             GetCopy, Return, TimeOut, Quiesce, QuiesceEnd
    <3>2. QED
      BY Zenon, <3>1, IdleDrain
  <2>2. CASE Poller \/ Finalizer \/ FinGetEnd \/ FinUpdateEnd
    <3>1. UNCHANGED <<inDev, ioWait, outstanding, ioState>>
      BY Zenon, <2>2 DEF Poller, Finalizer, FinGetEnd, FinUpdateEnd
    <3>2. QED
      BY Zenon, <3>1, IdleDrain
  <2>3. CASE IoEngine
    <3>0. PICK r : r = Head(ioRing)
      BY Zenon
    <3>1. CASE Crash \/ IoHang \/ IoRefuse(r) \/ IoRemove(r)
      <4>1. /\ UNCHANGED <<inDev, ioWait, outstanding>>
            /\ ioState' \in {ioState, stateAfter(outstanding)}
        BY Zenon, <3>1 DEF Crash, IoHang, IoRefuse, IoRemove
      <4>2. QED
        BY Zenon, <4>1, IdleDrain
    <3>2. CASE ~stops(outstanding) /\ (IoRead(r) \/ IoWrite(r))
      <4>1. ioState # "QUIESCENT"
        BY Zenon, <3>2 DEF stops, stateAfter
      <4>2. IoSubmit(r)
        BY Zenon, <3>2 DEF IoRead, IoWrite
      <4>3. QED
        BY Zenon, <4>1, <4>2, SubmitDrain
    <3>3. QED
      BY Zenon, <2>3, <3>0, <3>1, <3>2 DEF IoEngine
  <2>4. QED
    BY Zenon, <1>2, <2>1, <2>2, <2>3, DeviceDrain DEF Running
<1>3. QED
  BY Zenon, <1>1, <1>2 DEF Next

\* A device that reports quiescence (SpdkBdev::stateMachine) has no I/O left in it
\* or waiting for it, whatever clients do and however the device fails, also when
\* the offload is quiesced again or aborted.
THEOREM PipelineDrained == Spec => []DrainedWhenQuiescent
<1>1. Init => TypeInv /\ DrainInv
  <2>1. Init => DrainInv
    BY FS_EmptySet DEF Init, DrainInv
  <2>2. QED
    BY Zenon, <2>1, InitType
<1>2. (TypeInv /\ DrainInv) /\ [Next]_vars => (TypeInv /\ DrainInv)'
  BY Zenon, NextType, NextDrain
<1>3. TypeInv /\ DrainInv => DrainedWhenQuiescent
  BY Zenon DEF DrainInv, DrainedWhenQuiescent
<1>4. QED
  BY <1>1, <1>2, <1>3, PTL DEF Spec

\* Without reads and without quiescing, each I/O in the device or waiting for it
\* has one buffer and there are no others.
BufInv ==
  /\ fin.pc # "get"
  /\ IsFiniteSet(inDev \cup ioWait)
  /\ BuffersAccounted

\* Every step keeps BufInv: IoSubmit counts a request that is in neither set, a
\* completion takes one that is in the device only.
LEMMA NextBuf ==
  ASSUME ~Reads, "QUIESCE" \notin Ops, "EIO" \notin Faults,
         PipelineInv, BufInv, [Next]_vars
  PROVE  BufInv'
<1> USE DEF vars, ringVars, bdevVars, BufInv, BuffersAccounted
<1>1. /\ ioState = "INIT"
      /\ \A r \in Rqsts : rq[r].op # "GET" /\ rq[r].io # "read"
      /\ \A r \in Rqsts : OwnAt(r)
      /\ \A c \in Clients : call[c].pc # "quiesce"
  BY Zenon DEF PipelineInv, ModeInv, StateOK, OpOK, CallOK, OwnInv
<1>2. CASE UNCHANGED vars
  BY Zenon, <1>2
<1>3. CASE Running
  <2>1. ASSUME NEW c \in Clients, ClientCall(c) \/ ClientStep(c) \/ Quiesce(c)
        PROVE  BufInv'
    <3>1. UNCHANGED <<inDev, ioWait, ioBufsInUse, fin>>
      BY Zenon, <2>1
         DEF ClientCall, ClientStep, Alloc, Update, UpdateAsync,
             UpdateAsyncMissing, Get, GetAsync, RemoveOffloaded, Submit, Put,
             GetCopy, Return, TimeOut, Quiesce, QuiesceEnd
    <3>2. QED
      BY Zenon, <3>1
  <2>2. CASE Poller
    BY Zenon, <2>2 DEF Poller
  <2>3. CASE Finalizer
    <3>0. PICK r : r = Head(finRing)
      BY Zenon
    <3>1. r \in Rqsts
      BY Zenon, <2>3, <3>0, HeldTail DEF Finalizer, PipelineInv, TypeInv, TypeOK
    <3>2. ~FinGet(r)
      BY Zenon, <1>1, <3>1 DEF FinGet
    <3>3. UNCHANGED fin \/ fin' = [pc |-> "update", r |-> r, bufs |-> 0]
      BY Zenon, <2>3, <3>0, <3>2
         DEF Finalizer, FinDrop, FinUpdate, FinAnswer, FinRemove
    <3>4. UNCHANGED <<inDev, ioWait, ioBufsInUse>>
      BY Zenon, <2>3 DEF Finalizer
    <3>5. fin'.pc # "get"
      BY <3>3
    <3>6. QED
      BY Zenon, <3>4, <3>5
  <2>4. CASE FinGetEnd \/ FinUpdateEnd
    <3>1. UNCHANGED <<inDev, ioWait, ioBufsInUse>> /\ fin' = IdleFin
      BY Zenon, <2>4 DEF FinGetEnd, FinUpdateEnd
    <3>2. QED
      BY Zenon, <3>1 DEF IdleFin
  <2>5. CASE IoEngine
    <3>0. PICK r : r = Head(ioRing)
      BY Zenon
    <3>1. r \in Rqsts /\ r \in Held(ioRing)
      BY Zenon, <2>5, <3>0, HeldTail DEF IoEngine, PipelineInv, TypeInv, TypeOK
    <3>2. r \notin inDev \cup ioWait
      BY Zenon, <1>1, <3>1 DEF OwnAt
    <3>3. ~stops(outstanding) /\ ~IoRead(r)
      BY Zenon, <1>1, <3>1 DEF stops, stateAfter, IoRead
    <3>4. CASE Crash
      BY Zenon, <3>4 DEF Crash
    <3>5. CASE IoRemove(r)
      BY Zenon, <3>5 DEF IoRemove
    <3>6. CASE IoWrite(r)
      <4>1. /\ inDev' \cup ioWait' = (inDev \cup ioWait) \cup {r}
            /\ ioBufsInUse' = Inc(ioBufsInUse) /\ fin' = fin
        <5>1. IoSubmit(r) /\ ioBufsInUse' = Inc(ioBufsInUse)
          BY Zenon, <3>6 DEF IoWrite
        <5>2. QED
          BY Zenon, <5>1 DEF IoSubmit
      <4>2. Inc(ioBufsInUse) = ioBufsInUse + 1
        <5>1. ioBufsInUse \in 0 .. UintMod - 1 /\ ioBufsInUse < MaxIoBufs
          BY <2>5, PipelineAssumption
             DEF IoEngine, canQueue, PipelineInv, TypeInv, TypeOK
        <5>2. ioBufsInUse + 1 \in 0 .. UintMod - 1
          BY <5>1, PipelineAssumption
        <5>3. QED
          BY <5>2, PipelineAssumption DEF Inc
      <4>3. /\ IsFiniteSet(inDev' \cup ioWait')
            /\ Cardinality(inDev' \cup ioWait') = ioBufsInUse + 1
        BY Zenon, <3>2, <4>1, FS_AddElement
      <4>4. QED
        BY Zenon, <4>1, <4>2, <4>3
    <3>7. QED
      BY Zenon, <1>1, <2>5, <3>0, <3>3, <3>4, <3>5, <3>6 DEF IoEngine
  <2>6. ASSUME NEW r \in Rqsts, QueueIoWait(r)
        PROVE  BufInv'
    <3>1. /\ inDev' \cup ioWait' = inDev \cup ioWait
          /\ UNCHANGED <<ioBufsInUse, fin>>
      BY Zenon, <2>6 DEF QueueIoWait
    <3>2. QED
      BY Zenon, <3>1
  <2>7. ASSUME NEW r \in Rqsts, Device(r)
        PROVE  BufInv'
    <3>1. PICK success : WriteComplete(r, success)
      BY Zenon, <1>1, <2>7 DEF Device, ReadComplete
    <3>2. /\ r \in inDev /\ r \notin ioWait
          /\ inDev' = inDev \ {r} /\ ioWait' = ioWait
          /\ ioBufsInUse' = Dec(ioBufsInUse) /\ fin' = fin
      BY Zenon, <1>1, <2>7, <3>1 DEF Device, WriteComplete, ToFinalizer, OwnAt
    <3>3. inDev' \cup ioWait' = (inDev \cup ioWait) \ {r}
      BY Zenon, <3>2
    <3>4. /\ IsFiniteSet(inDev' \cup ioWait')
          /\ Cardinality(inDev' \cup ioWait') = ioBufsInUse - 1
          /\ Cardinality(inDev' \cup ioWait') \in Nat
      BY <3>2, <3>3, FS_RemoveElement, FS_CardinalityType
    <3>5. Dec(ioBufsInUse) = ioBufsInUse - 1
      <4>1. ioBufsInUse \in 0 .. UintMod - 1 /\ UintMod \in Nat
        BY Zenon, PipelineAssumption DEF PipelineInv, TypeInv, TypeOK
      <4>2. ioBufsInUse - 1 \in 0 .. UintMod - 1
        BY <3>4, <4>1
      <4>3. (ioBufsInUse - 1 + UintMod) % UintMod = ioBufsInUse - 1
        BY <4>1, <4>2
      <4>4. QED
        BY <4>1, <4>3 DEF Dec
    <3>6. QED
      BY Zenon, <3>2, <3>4, <3>5
  <2>8. QED
    BY Zenon, <1>3, <2>1, <2>2, <2>3, <2>4, <2>5, <2>6, <2>7 DEF Running
<1>4. QED
  BY Zenon, <1>2, <1>3 DEF Next

\* The buffers that SpdkBdev counts are exactly those of the I/Os it has in the
\* device or waiting for it, so canQueue never lets it take more than it has nor
\* stops it for ever.  The hypotheses are the code's three leaks: reads give
\* their buffer back from another thread, a refused request gives back one it
\* did not take, and a failed submission keeps its own.
THEOREM PipelineBuffersAccounted ==
  ASSUME ~Reads, "QUIESCE" \notin Ops, "EIO" \notin Faults
  PROVE  Spec => []BuffersAccounted
<1>1. Init => BufInv
  <2> SUFFICES ASSUME Init PROVE BufInv
    BY Zenon
  <2>1. inDev \cup ioWait = {} /\ ioBufsInUse = 0 /\ fin.pc # "get"
    BY Zenon DEF Init, IdleFin
  <2>2. QED
    BY Zenon, <2>1, FS_EmptySet DEF BufInv, BuffersAccounted
<1>2. PipelineInv /\ BufInv /\ [Next]_vars => BufInv'
  BY Zenon, NextBuf
<1>3. BufInv => BuffersAccounted
  BY Zenon DEF BufInv
<1>4. Spec => []PipelineInv
  BY Zenon, PipelineInvariant
<1>5. QED
  BY <1>1, <1>2, <1>3, <1>4, PTL DEF Spec
=============================================================================
