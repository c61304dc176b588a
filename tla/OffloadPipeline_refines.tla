---------------------- MODULE OffloadPipeline_refines -----------------------
(***************************************************************************)
(* The pipeline implements a map (KVMap), when the clients use a key one   *)
(* at a time and remove nothing, whatever the device does, whoever times   *)
(* out and whenever the offload is quiesced.                               *)
(*                                                                         *)
(* The invariant is DataInv of OffloadPipeline_proofs, which the poller,   *)
(* the I/O engine and the device keep (there), and the finalizer and the   *)
(* clients (here): the finalizer frees the memory of a value and publishes *)
(* its LBA in two steps; the clients call Alloc, Put, Update, UpdateAsync, *)
(* Get and GetAsync, give up waiting, and quiesce the offload.             *)
(*                                                                         *)
(* DataInv says where the value of each key is (LogicalIs); a step changes *)
(* no value, except that Put gives one to a key that has none.             *)
(***************************************************************************)
EXTENDS OffloadPipeline_proofs

-----------------------------------------------------------------------------
(***************************************************************************)
(* The finalizer.                                                          *)
(***************************************************************************)
\* While a request offloads a key, no other request does and no client is storing
\* or copying its value.
LEMMA OffloadAlone ==
  ASSUME DataInv, NEW r \in Rqsts, pool[r] = 0, Offloads(r)
  PROVE  /\ rq[r].key \in Keys /\ rq[r].asked = rq[r].key
         /\ \A s \in Rqsts : s # r /\ Offloads(s) => rq[s].key # rq[r].key
         /\ \A c \in Clients : call[c].pc \in {"put", "copy"} => call[c].key # rq[r].key
<1>1. /\ rq[r].key \in Keys /\ rq[r].asked = rq[r].key /\ rq[r].asked # Nil
  BY Zenon, PipelineAssumption DEF DataInv, StoreInv, RqInv, Offloads
<1>2. ASSUME NEW s \in Rqsts, s # r, Offloads(s), rq[s].key = rq[r].key
      PROVE  FALSE
  <2>1. rq[s].asked = rq[r].asked
    BY Zenon, <1>1, <1>2 DEF DataInv, StoreInv, RqInv, Offloads
  <2>2. QED
    BY Zenon, <1>1, <1>2, <2>1 DEF DataInv, UseInv
<1>3. ASSUME NEW c \in Clients, call[c].pc \in {"put", "copy"}, call[c].key = rq[r].key
      PROVE  FALSE
  <2>1. Busy(c, rq[r].asked)
    BY Zenon, <1>1, <1>3 DEF Busy
  <2>2. Waits(c, r)
    BY Zenon, <1>1, <2>1 DEF DataInv, UseInv
  <2>3. QED
    BY Zenon, <1>3, <2>2 DEF Waits
<1>4. QED
  BY Zenon, <1>1, <1>2, <1>3

\* AllocateAndUpdateValueWrapper frees the memory of a value that is on the device,
\* and of no other; it never frees what was not reserved.
LEMMA FinUpdateData ==
  ASSUME PipelineInv, DataInv, NEW r \in Rqsts, pool[r] = 0, fin.pc = "idle",
         FinUpdate(r), UNCHANGED <<disk, lbas>>, Near(r),
         r \notin Held(offRing)', r \notin Held(ioRing)', r \notin inDev', r \notin ioWait'
  PROVE  DataInv' /\ UNCHANGED crashed
<1>1. PICK k : k = rq[r].key
  BY Zenon
<1>2. /\ Offloads(r) /\ rq[r].result /\ tree[k].ptr # Nil
      /\ UNCHANGED <<pool, rq, call, disk, lbas>>
  BY Zenon, <1>1 DEF FinUpdate, Moves, Offloads
<1>3. /\ k \in Keys /\ rq[r].asked = k
      /\ \A s \in Rqsts : s # r /\ Offloads(s) => rq[s].key # k
      /\ \A c \in Clients : call[c].pc \in {"put", "copy"} => call[c].key # k
  BY Zenon, <1>1, <1>2, OffloadAlone
<1>4. /\ DataTypes /\ tree[k] \in Wrapper /\ RqInv(r) /\ KeyInv(k) /\ PlaceInv(r)
  BY Zenon, <1>3 DEF DataInv, StoreInv, DataTypes
<1>5. rq[r].value # Nil
  BY Zenon, <1>1, <1>2, <1>3, <1>4, PipelineAssumption DEF RqInv, KeyInv
<1>6. ~Moving(r) /\ tree[k].loc = "PMEM" /\ tree[k].act \in Cells
  BY Zenon, <1>1, <1>2, <1>4, <1>5 DEF RqInv, Moving
<1>7. PICK m : m = tree[k].act
  BY Zenon
<1>8. PICK w : w = [tree[k] EXCEPT !.act = Nil, !.ptr = Garbage]
  BY Zenon
<1>9. /\ w \in Wrapper /\ w.loc = tree[k].loc /\ w.vol = tree[k].vol
      /\ w.act = Nil
  BY Zenon, <1>4, <1>8 DEF Wrapper, Ptrs
<1>10. /\ tree' = [tree EXCEPT ![k].act = Nil, ![k].ptr = Garbage]
       /\ cells' = [cells EXCEPT ![m] = Nil]
       /\ fin' = [pc |-> "update", r |-> r, bufs |-> 0] /\ UNCHANGED crashed
  BY Zenon, <1>1, <1>6, <1>7 DEF FinUpdate, CancelFaults
<1>11. tree' = [tree EXCEPT ![k] = w]
  BY Zenon, <1>8, <1>10
<1>12. /\ tree' \in [Keys -> Wrapper] /\ tree'[k] = w
       /\ \A j \in Keys : j # k => tree'[j] = tree[j]
  BY Zenon, <1>3, <1>4, <1>9, <1>11 DEF DataTypes
<1>13. /\ cells' \in [Cells -> Values \cup {Nil}]
       /\ \A n \in Cells : n # m => cells'[n] = cells[n]
  BY Zenon, <1>4, <1>6, <1>7, <1>10 DEF DataTypes
<1>14. Moving(r)' /\ \A s \in Rqsts : (s # r => ~Moving(s)') /\ ~Moving(s)
  BY Zenon, <1>10 DEF Moving
<1>15. ASSUME NEW j \in Keys, j # k
       PROVE  /\ tree'[j] = tree[j]
              /\ tree[j].act \in Cells => cells'[tree[j].act] = cells[tree[j].act]
  BY Zenon, <1>3, <1>6, <1>7, <1>12, <1>13, <1>15 DEF DataInv, StoreInv, CellInv
<1>16. ASSUME NEW j \in Keys PROVE KeyInv(j)'
  <2>1. CASE j = k
    BY Zenon, <1>1, <1>2, <1>4, <1>6, <1>9, <1>12, <1>14, <2>1, PipelineAssumption DEF KeyInv
  <2>2. CASE j # k
    <3>1. KeyInv(j) /\ \A s \in Rqsts : ~Moving(s)
      BY Zenon, <1>14 DEF DataInv, StoreInv
    <3>2. QED
      BY Zenon, <1>2, <1>15, <2>2, <3>1 DEF KeyInv
  <2>3. QED
    BY Zenon, <2>1, <2>2
<1>17. ASSUME NEW s \in Rqsts PROVE RqInv(s)'
  <2>1. RqInv(s) /\ ~Moving(s)
    BY Zenon, <1>14 DEF DataInv, StoreInv
  <2>2. CASE s = r
    BY Zenon, <1>1, <1>2, <1>4, <1>5, <1>6, <1>9, <1>12, <1>14, <2>1, <2>2 DEF RqInv, Offloads
  <2>3. CASE s # r /\ ~Offloads(s)
    BY Zenon, <1>2, <1>14, <2>1, <2>3 DEF RqInv, Offloads
  <2>4. CASE s # r /\ Offloads(s)
    <3>1. rq[s].key # k /\ rq[s].key \in Keys
      <4>1. rq[s].key # k
        BY Zenon, <1>3, <2>4
      <4>2. pool[s] = 0
        <5>1. pool[s] # 0 => rq[s] = NoRqst
          BY Zenon, <2>1 DEF RqInv
        <5>2. QED
          BY <2>4, <5>1 DEF Offloads, NoRqst
      <4>3. QED
        BY Zenon, <2>1, <4>1, <4>2 DEF RqInv
    <3>2. /\ tree'[rq[s].key] = tree[rq[s].key] /\ ~Moving(s)'
          /\ rq[s].value # Nil => cells'[rq[s].value] = cells[rq[s].value]
      BY Zenon, <1>14, <1>15, <2>1, <2>4, <3>1 DEF RqInv
    <3>3. QED
      BY Zenon, <1>2, <2>1, <2>4, <3>2 DEF RqInv, Offloads
  <2>5. QED
    BY Zenon, <2>2, <2>3, <2>4
<1>18. LbaInv' /\ CellInv' /\ BucketInv(lbas') /\ DataTypes'
  <2>1. \A j \in Keys : tree'[j].loc = tree[j].loc
                        /\ (tree[j].loc = "DISK" => tree'[j] = tree[j])
    BY Zenon, <1>6, <1>9, <1>12
  <2>2. LbaInv'
    BY <1>2, <2>1 DEF DataInv, StoreInv, LbaInv
  <2>3. CellInv'
    BY Zenon, <1>9, <1>12, PipelineAssumption DEF DataInv, StoreInv, CellInv
  <2>4. QED
    BY Zenon, <1>2, <1>4, <1>12, <1>13, <2>2, <2>3 DEF DataInv, StoreInv, DataTypes
<1>19. StoreInv'
  BY Zenon, <1>16, <1>17, <1>18 DEF StoreInv
<1>20. Aside(r) /\ SameRqst(r) /\ \A c \in Clients : SameCall(c) /\ call'[c] = call[c]
  BY Zenon, <1>2 DEF Aside, SameRqst, SameCall
<1>21. ASSUME NEW j \in Keys, Settled(j) PROVE SameFor(j)
  <2>1. j # k
    BY Zenon, <1>3, <1>6, <1>21 DEF Settled
  <2>2. QED
    BY Zenon, <1>2, <1>15, <2>1 DEF SameFor
<1>22. PlaceInv(r)' /\ ReadInv(r)'
  BY Zenon, <1>2, <1>4 DEF PlaceInv, ReadInv, Offloads
<1>23. QED
  BY Zenon, <1>10, <1>19, <1>20, <1>21, <1>22, ThreadKeeps

\* The finalizer keeps DataInv.
LEMMA FinalizerData ==
  ASSUME PipelineInv, PipelineInv', DataInv, Finalizer
  PROVE  DataInv'
<1> USE DEF bdevVars
<1>1. PICK r : r = Head(finRing)
  BY Zenon
<1>2. /\ finRing \in Seq(Rqsts) /\ finRing # <<>> /\ NoDuplicate(finRing)
  BY Zenon DEF Finalizer, PipelineInv, TypeInv, TypeOK, OwnInv
<1>3. /\ r \in Rqsts /\ r \in Held(finRing) /\ finRing' = Tail(finRing)
      /\ Held(finRing') = Held(finRing) \ {r}
  BY Zenon, <1>1, <1>2, HeldTail DEF Finalizer
<1>4. OwnAt(r) /\ pool[r] = 0
  BY Zenon, <1>3, InPlace DEF PipelineInv
<1>5. /\ fin.pc = "idle" /\ ~Moving(r)
      /\ UNCHANGED <<disk, lbas, offRing, ioRing, inDev, ioWait>>
  BY Zenon DEF Moving, Finalizer
<1>6. /\ r \notin Held(offRing)' /\ r \notin Held(ioRing)' /\ r \notin inDev'
      /\ r \notin ioWait' /\ r \notin Held(finRing)'
  BY Zenon, <1>3, <1>4, <1>5 DEF OwnAt
<1>7. Near(r)
  BY Zenon, <1>3, <1>5 DEF Near
<1>8. DataTypes /\ rq[r] \in Request /\ PlaceInv(r) /\ ReadInv(r)
  BY Zenon, <1>3 DEF DataInv, StoreInv, DataTypes
<1>9. ASSUME UNCHANGED fin PROVE SameMoves
  BY Zenon, <1>9 DEF SameMoves, Moving
<1>10. CASE FinDrop(r)
  <2>1. PoolPut(r, 1) /\ UNCHANGED <<dataVars, call, fin>>
    BY Zenon, <1>5, <1>10 DEF FinDrop, dataVars
  <2>2. /\ call' \in [Clients -> Call]
        /\ \A c \in Clients : SameCall(c) /\ call'[c] = call[c]
    BY Zenon, <1>8, <2>1 DEF DataTypes, SameCall
  <2>3. QED
    BY Zenon, <1>3, <1>4, <1>5, <1>7, <1>9, <2>1, <2>2, PutBack
<1>11. CASE FinGet(r)
  <2>1. /\ rq[r].op = "GET" /\ UNCHANGED <<dataVars, pool, rq>> /\ fin'.pc = "get"
    BY Zenon, <1>5, <1>11 DEF FinGet, dataVars
  <2>2. PICK val : val = IF rq[r].result THEN rq[r].buf ELSE Nil
    BY Zenon
  <2>3. PICK ok \in BOOLEAN : ok = rq[r].result
    BY Zenon, <1>8 DEF Request
  <2>4. Reply(r, ok, val) /\ val \in Data
    BY Zenon, <1>8, <1>11, <2>2, <2>3 DEF FinGet, Request, Data
  <2>5. /\ call' \in [Clients -> Call]
        /\ \A c \in Clients :
              /\ SameCall(c)
              /\ \/ call'[c] = call[c]
                 \/ Waits(c, r) /\ call'[c].ok = ok /\ call'[c].val = val
    BY <1>3, <1>8, <2>3, <2>4, ReplyCalls
  <2>6. ASSUME NEW c \in Clients, Waits(c, r), call'[c].ok = ok, call'[c].val = val
        PROVE  RightAnswer(c)
    <3>1. call[c].key = rq[r].key
      BY Zenon, <1>3, <2>6 DEF DataInv, UseInv
    <3>2. "ENOMEM" \notin Faults /\ rq[r].result
          => rq[r].buf = disk[tree[rq[r].key].ptr]
      BY Zenon, <1>8, <2>1, <2>6 DEF ReadInv
    <3>3. QED
      BY Zenon, <2>2, <2>3, <2>6, <3>1, <3>2 DEF RightAnswer
  <2>7. SameMoves
    BY Zenon, <1>5, <2>1 DEF SameMoves, Moving
  <2>8. PlaceInv(r)'
    BY Zenon, <1>6, <1>8, <2>1 DEF PlaceInv
  <2>9. ReadInv(r)'
    BY <1>6, <1>8, <2>1, <2>5 DEF ReadInv, Waits, SameCall, dataVars
  <2>10. QED
    BY Zenon, <1>3, <1>4, <1>5, <1>7, <1>8, <2>1, <2>5, <2>6, <2>7, <2>8, <2>9, GoesOn
       DEF DataTypes
<1>12. CASE FinUpdate(r)
  BY Zenon, <1>3, <1>4, <1>5, <1>6, <1>7, <1>12, FinUpdateData
<1>13. CASE FinAnswer(r)
  <2>1. PICK ok \in BOOLEAN : ok = (rq[r].result /\ ~Moves(r))
    BY Zenon
  <2>2. /\ Reply(r, ok, Nil) /\ PoolPut(r, 1) /\ rq[r].op = "UPDATE"
        /\ UNCHANGED <<dataVars, fin>>
    BY Zenon, <1>5, <1>13, <2>1 DEF FinAnswer, dataVars
  <2>3. /\ call' \in [Clients -> Call]
        /\ \A c \in Clients :
              /\ SameCall(c)
              /\ \/ call'[c] = call[c]
                 \/ Waits(c, r) /\ call'[c].ok = ok /\ call'[c].val = Nil
    BY Zenon, <1>3, <1>8, <2>1, <2>2, ReplyCalls DEF Data
  <2>4. ASSUME NEW c \in Clients, Waits(c, r) PROVE RightAnswer(c)
    <3>1. call[c].op = rq[r].op
      BY Zenon, <1>3, <2>4 DEF DataInv, UseInv
    <3>2. QED
      BY Zenon, <2>2, <3>1 DEF RightAnswer
  <2>5. QED
    BY Zenon, <1>3, <1>4, <1>5, <1>7, <1>9, <2>2, <2>3, <2>4, PutBack
<1>14. ~FinRemove(r)
  BY Zenon, <1>8 DEF FinRemove, Request
<1>15. QED
  BY Zenon, <1>1, <1>10, <1>11, <1>12, <1>13, <1>14 DEF Finalizer

\* The request that the finalizer has taken from its ring is its own.
LEMMA FinOwns ==
  ASSUME PipelineInv, fin.pc # "idle"
  PROVE  /\ fin.r \in Rqsts /\ pool[fin.r] = 0
         /\ fin.r \notin Held(offRing) /\ fin.r \notin Held(ioRing)
         /\ fin.r \notin inDev /\ fin.r \notin ioWait
<1>1. fin.r \in Rqsts /\ fin.r \in InFin
  BY Zenon DEF PipelineInv, TypeInv, FinOK, InFin
<1>2. OwnAt(fin.r) /\ pool[fin.r] \in Nat
  BY Zenon, <1>1 DEF PipelineInv, TypeInv, TypeOK, OwnInv
<1>3. QED
  BY <1>1, <1>2 DEF OwnAt

\* The finalizer gives a read's buffer and its request back.
LEMMA FinGetEndData ==
  ASSUME PipelineInv, PipelineInv', DataInv, FinGetEnd
  PROVE  DataInv'
<1>1. PICK r : r = fin.r
  BY Zenon
<1>2. /\ fin.pc = "get" /\ PoolPut(r, 1) /\ UNCHANGED <<dataVars, ringVars, call>>
      /\ fin'.pc = "idle"
  BY Zenon, <1>1 DEF FinGetEnd, IdleFin
<1>3. r \in Rqsts /\ pool[r] = 0
  BY Zenon, <1>1, <1>2, FinOwns
<1>4. ~Moving(r) /\ SameMoves /\ Near(r)
  BY Zenon, <1>2 DEF Moving, SameMoves, Near, ringVars
<1>5. /\ call' \in [Clients -> Call]
      /\ \A c \in Clients : SameCall(c) /\ call'[c] = call[c]
  BY Zenon, <1>2 DEF DataInv, StoreInv, DataTypes, SameCall
<1>6. QED
  BY Zenon, <1>2, <1>3, <1>4, <1>5, PutBack

\* The finalizer publishes the LBA, which is the key's own and holds its value.
LEMMA FinUpdateEndData ==
  ASSUME PipelineInv, PipelineInv', DataInv, FinUpdateEnd
  PROVE  DataInv'
<1>1. PICK r : r = fin.r
  BY Zenon
<1>2. PICK k : k = rq[r].key
  BY Zenon
<1>3. PICK l : l = rq[r].freeLba
  BY Zenon
<1>4. /\ fin.pc = "update" /\ fin'.pc = "idle" /\ Reply(r, TRUE, Nil) /\ PoolPut(r, 1)
      /\ UNCHANGED <<cells, disk, lbas, ringVars>>
      /\ tree' = [tree EXCEPT ![k].ptr = l, ![k].loc = "DISK"]
  BY Zenon, <1>1, <1>2, <1>3 DEF FinUpdateEnd, IdleFin
<1>5. /\ r \in Rqsts /\ pool[r] = 0 /\ Moving(r)
      /\ r \notin Held(offRing) /\ r \notin Held(ioRing)
      /\ r \notin inDev /\ r \notin ioWait
  BY Zenon, <1>1, <1>4, FinOwns DEF Moving
<1>6. \A s \in Rqsts : (s # r => ~Moving(s)) /\ ~Moving(s)'
  BY Zenon, <1>1, <1>4 DEF Moving
<1>7. DataTypes /\ rq[r] \in Request /\ RqInv(r) /\ BucketInv(lbas)
  BY Zenon, <1>5 DEF DataInv, StoreInv, DataTypes
<1>8. /\ Offloads(r) /\ rq[r].value # Nil /\ rq[r].result /\ tree[k].act = Nil
      /\ tree[k].loc = "PMEM"
  BY Zenon, <1>2, <1>5, <1>7 DEF RqInv
<1>9. Spent(lbas, l) /\ disk[l] \in Values
  BY Zenon, <1>3, <1>7, <1>8 DEF RqInv
<1>10. l \in DiskLbas /\ l # 0
  BY Zenon, <1>7, <1>9, SpentLba
<1>11. /\ k \in Keys /\ rq[r].asked = k
       /\ \A s \in Rqsts : s # r /\ Offloads(s) => rq[s].key # k
       /\ \A c \in Clients : call[c].pc \in {"put", "copy"} => call[c].key # k
  BY Zenon, <1>2, <1>5, <1>8, OffloadAlone
<1>12. tree[k] \in Wrapper
  BY Zenon, <1>7, <1>11 DEF DataTypes
<1>13. PICK w : w = [tree[k] EXCEPT !.ptr = l, !.loc = "DISK"]
  BY Zenon
<1>14. w \in Wrapper /\ w.loc = "DISK" /\ w.ptr = l /\ w.act = tree[k].act
  BY Zenon, <1>10, <1>12, <1>13 DEF Wrapper, Ptrs, Locations
<1>15. tree' = [tree EXCEPT ![k] = w]
  BY Zenon, <1>4, <1>13
<1>16. /\ tree' \in [Keys -> Wrapper] /\ tree'[k] = w
       /\ \A j \in Keys : j # k => tree'[j] = tree[j]
  BY Zenon, <1>7, <1>11, <1>14, <1>15 DEF DataTypes
<1>17. /\ rq' \in [Rqsts -> Request] /\ rq'[r] = NoRqst /\ pool'[r] = 1 /\ Aside(r)
  BY <1>4, <1>5, <1>7, NothingTypes DEF DataTypes, PoolPut, Aside, PipelineInv, TypeInv, TypeOK
<1>18. /\ call' \in [Clients -> Call]
       /\ \A c \in Clients :
             /\ SameCall(c)
             /\ \/ call'[c] = call[c]
                \/ Waits(c, r) /\ call'[c].ok = TRUE /\ call'[c].val = Nil
  BY Zenon, <1>4, <1>5, <1>7, ReplyCalls DEF Data
<1>19. \A c \in Clients : SameCall(c) /\ (call'[c] = call[c] \/ RightAnswer(c))
  <2>1. ASSUME NEW c \in Clients, Waits(c, r) PROVE RightAnswer(c)
    <3>1. call[c].op = rq[r].op
      BY Zenon, <1>5, <2>1 DEF DataInv, UseInv
    <3>2. QED
      BY Zenon, <1>8, <3>1 DEF RightAnswer, Offloads
  <2>2. QED
    BY Zenon, <1>18, <2>1
<1>20. ASSUME NEW j \in Keys PROVE KeyInv(j)'
  <2>1. CASE j = k
    BY Zenon, <1>4, <1>8, <1>9, <1>14, <1>16, <2>1, PipelineAssumption DEF KeyInv
  <2>2. CASE j # k
    <3>1. KeyInv(j) /\ tree'[j] = tree[j] /\ \A s \in Rqsts : ~(Moving(s) /\ rq[s].key = j)
      BY Zenon, <1>2, <1>6, <1>16, <2>2 DEF DataInv, StoreInv
    <3>2. ASSUME NEW c \in Clients, call[c].pc = "put", call[c].key = j
          PROVE  call'[c].pc = "put" /\ call'[c].key = j
      BY Zenon, <1>18, <3>2 DEF SameCall
    <3>3. QED
      BY Zenon, <1>4, <3>1, <3>2 DEF KeyInv
  <2>3. QED
    BY Zenon, <2>1, <2>2
<1>21. ASSUME NEW s \in Rqsts PROVE RqInv(s)'
  <2>1. CASE s = r
    BY <1>6, <1>17, <2>1 DEF RqInv, NoRqst, Offloads
  <2>2. CASE s # r
    <3>1. RqInv(s) /\ rq'[s] = rq[s] /\ pool'[s] = pool[s] /\ ~Moving(s) /\ ~Moving(s)'
      BY Zenon, <1>6, <1>17, <2>2 DEF DataInv, StoreInv, Aside
    <3>2. CASE ~Offloads(s)
      BY Zenon, <3>1, <3>2 DEF RqInv, Offloads
    <3>3. CASE Offloads(s)
      <4>1. pool[s] # 0 => rq[s] = NoRqst
        BY Zenon, <3>1 DEF RqInv
      <4>2. pool[s] = 0
        BY <3>3, <4>1 DEF Offloads, NoRqst
      <4>3. rq[s].key \in Keys /\ rq[s].key # k
        BY Zenon, <1>11, <2>2, <3>1, <3>3, <4>2 DEF RqInv
      <4>4. tree'[rq[s].key] = tree[rq[s].key]
        BY Zenon, <1>16, <4>3
      <4>5. QED
        BY Zenon, <1>4, <3>1, <3>3, <4>4 DEF RqInv, Offloads
    <3>4. QED
      BY Zenon, <3>2, <3>3
  <2>3. QED
    BY Zenon, <2>1, <2>2
<1>22. LbaInv'
  <2>1. \A s \in Rqsts : rq'[s].freeLba = IF s = r THEN 0 ELSE rq[s].freeLba
    BY <1>17 DEF Aside, NoRqst
  <2>2. \A j \in Keys : j # k /\ tree'[j].loc = "DISK"
          => tree'[j].ptr = tree[j].ptr /\ tree[j].loc = "DISK"
             /\ tree[j].ptr # l /\ tree[j].ptr # 0
    BY <1>3, <1>5, <1>7, <1>16, SpentLba DEF DataInv, StoreInv, LbaInv, KeyInv
  <2>3. \A s \in Rqsts : rq'[s].freeLba # l
    BY Zenon, <1>3, <1>5, <1>10, <2>1 DEF DataInv, StoreInv, LbaInv
  <2>4. ASSUME NEW i \in Keys, NEW j \in Keys, tree'[i].loc = "DISK",
               tree'[j].loc = "DISK", tree'[i].ptr = tree'[j].ptr
        PROVE  i = j
    BY Zenon, <1>14, <1>16, <2>2, <2>4 DEF DataInv, StoreInv, LbaInv
  <2>5. ASSUME NEW j \in Keys, NEW s \in Rqsts, tree'[j].loc = "DISK"
        PROVE  tree'[j].ptr # rq'[s].freeLba
    BY <1>14, <1>16, <2>1, <2>2, <2>3, <2>5 DEF DataInv, StoreInv, LbaInv
  <2>6. ASSUME NEW s \in Rqsts, NEW t \in Rqsts, rq'[s].freeLba = rq'[t].freeLba
        PROVE  s = t \/ rq'[s].freeLba = 0
    BY Zenon, <2>1, <2>6 DEF DataInv, StoreInv, LbaInv
  <2>7. QED
    BY Zenon, <2>4, <2>5, <2>6 DEF LbaInv
<1>23. CellInv' /\ DataTypes' /\ BucketInv(lbas')
  BY <1>4, <1>7, <1>14, <1>16, <1>17, <1>18 DEF DataInv, StoreInv, CellInv, DataTypes
<1>24. StoreInv'
  BY Zenon, <1>20, <1>21, <1>22, <1>23 DEF StoreInv
<1>25. ASSUME NEW j \in Keys, Settled(j) PROVE SameFor(j)
  <2>1. j # k
    BY Zenon, <1>8, <1>11, <1>25 DEF Settled
  <2>2. QED
    BY Zenon, <1>4, <1>16, <2>1 DEF SameFor
<1>26. PlaceInv(r)' /\ ReadInv(r)' /\ Near(r)
  <2>1. PlaceInv(r)'
    BY <1>4, <1>5, <1>17 DEF PlaceInv, NoRqst, ringVars
  <2>2. ReadInv(r)'
    BY <1>17 DEF ReadInv, NoRqst
  <2>3. QED
    BY Zenon, <1>4, <2>1, <2>2 DEF Near, ringVars
<1>27. QED
  BY Zenon, <1>5, <1>17, <1>19, <1>24, <1>25, <1>26, ThreadKeeps

-----------------------------------------------------------------------------
(***************************************************************************)
(* Clients.                                                                *)
(***************************************************************************)
\* No call and no request is about key k.
Free(k) ==
  /\ \A c \in Clients : ~Busy(c, k)
  /\ \A s \in Rqsts : rq[s].asked # k

\* Clients that use a key one at a time start with a key that is free.
LEMMA MayCallFree ==
  ASSUME PipelineInv, DataInv, Exclusive, NEW c \in Clients, NEW op, NEW k \in Keys,
         MayCall(c, op, k)
  PROVE  Free(k) /\ call[c].pc = "idle" /\ op \in Ops
<1>1. ASSUME NEW s \in Rqsts PROVE rq[s].asked # k
  <2>1. CASE rq[s].asked # k
    BY Zenon, <2>1
  <2>2. CASE pool[s] > 0
    <3>1. rq[s] = NoRqst
      BY <2>2 DEF DataInv, StoreInv, RqInv
    <3>2. QED
      BY <3>1, PipelineAssumption DEF NoRqst
  <2>3. QED
    BY Zenon, <2>1, <2>2 DEF MayCall, InPool
<1>2. QED
  BY Zenon, <1>1 DEF Free, Busy, MayCall

\* What the tree says of a free key.
LEMMA FreeKey ==
  ASSUME PipelineInv, DataInv, NEW k \in Keys, Free(k)
  PROVE  /\ tree[k].loc = "PMEM"  => /\ tree[k].vol = "PMEM" /\ tree[k].act \in Cells
                                     /\ tree[k].ptr = tree[k].act
         /\ tree[k].loc = "EMPTY" => tree[k].act = Nil
<1>1. KeyInv(k) /\ tree[k] \in Wrapper
  BY Zenon DEF DataInv, StoreInv, DataTypes
<1>2. ASSUME NEW s \in Rqsts, Moving(s), rq[s].key = k PROVE FALSE
  <2>1. RqInv(s)
    BY Zenon DEF DataInv, StoreInv
  <2>2. rq[s].key = rq[s].asked
    BY Zenon, <1>2, <2>1 DEF RqInv, Offloads
  <2>3. QED
    BY Zenon, <1>2, <2>2 DEF Free
<1>3. ~\E c \in Clients : call[c].pc = "put" /\ call[c].key = k
  BY Zenon DEF Free, Busy
<1>4. QED
  BY Zenon, <1>1, <1>2, <1>3 DEF KeyInv, Wrapper

\* A step of client c that submits no request keeps DataInv if it keeps what
\* DataInv says of the store and of c, and changes no key of another client.
LEMMA ClientKeeps ==
  ASSUME DataInv, StoreInv', NEW c \in Clients, UNCHANGED <<disk, ringVars>>,
         \A d \in Clients : d # c => call'[d] = call[d],
         call'[c].pc # "wait", CallInv(c)',
         \A k \in Keys : Busy(c, k)' => Free(k),
         \A s \in Rqsts : /\ rq'[s].asked = rq[s].asked /\ rq'[s].op = rq[s].op
                          /\ rq'[s].clb = rq[s].clb /\ rq'[s].io = rq[s].io
                          /\ rq'[s].addr = rq[s].addr /\ rq'[s].buf = rq[s].buf
                          /\ rq'[s].result = rq[s].result
                          /\ rq[s].clb # c => rq'[s].key = rq[s].key,
         \A k \in Keys : tree'[k] = tree[k] \/ \A d \in Clients : d # c => ~Busy(d, k)
  PROVE  DataInv'
<1>1. ASSUME NEW d \in Clients, NEW s \in Rqsts, Waits(d, s)'
      PROVE  d # c /\ Waits(d, s) /\ rq'[s].key = rq[s].key /\ call'[d] = call[d]
  BY <1>1 DEF Waits
<1>2. ASSUME NEW d \in Clients, d # c, NEW k PROVE Busy(d, k)' <=> Busy(d, k)
  BY Zenon, <1>2 DEF Busy
<1>3. UseInv'
  <2>1. ASSUME NEW s \in Rqsts, NEW t \in Rqsts,
               rq'[s].asked = rq'[t].asked, rq'[s].asked # Nil
        PROVE  s = t
    BY <2>1 DEF DataInv, UseInv
  <2>2. ASSUME NEW d \in Clients, NEW e \in Clients, NEW k \in Keys,
               Busy(d, k)', Busy(e, k)'
        PROVE  d = e
    BY <1>2, <2>2 DEF DataInv, UseInv, Free
  <2>3. ASSUME NEW d \in Clients, NEW s \in Rqsts,
               Busy(d, rq[s].asked)', rq'[s].asked # Nil
        PROVE  Waits(d, s)'
    <3>1. rq[s].asked \in Keys /\ Busy(d, rq[s].asked)'
      BY <2>3 DEF DataInv, StoreInv, DataTypes, Request
    <3>2. d # c
      BY Zenon, <3>1 DEF Free
    <3>3. Busy(d, rq[s].asked) /\ rq[s].asked # Nil
      BY Zenon, <2>3, <3>2 DEF Busy
    <3>4. Waits(d, s)
      BY Zenon, <3>3 DEF DataInv, UseInv
    <3>5. QED
      BY Zenon, <3>2, <3>4 DEF Waits
  <2>4. ASSUME NEW d \in Clients, NEW s \in Rqsts, Waits(d, s)'
        PROVE  /\ call'[d].op = rq'[s].op /\ call'[d].key = rq'[s].asked
               /\ rq'[s].key = rq'[s].asked
    BY <1>1, <2>4 DEF DataInv, UseInv
  <2>5. QED
    BY Zenon, <2>1, <2>2, <2>3, <2>4 DEF UseInv
<1>4. ASSUME NEW d \in Clients PROVE CallInv(d)'
  <2>1. CASE d = c
    BY Zenon, <2>1
  <2>2. CASE d # c
    <3>1. CallInv(d) /\ call'[d] = call[d]
      BY Zenon, <2>2 DEF DataInv
    <3>2. call[d].pc \in {"put", "wait", "copy"}
          => call[d].key \in Keys /\ tree'[call[d].key] = tree[call[d].key]
      BY Zenon, <2>2, <3>1 DEF CallInv, Busy
    <3>3. QED
      BY Zenon, <3>1, <3>2 DEF CallInv
  <2>3. QED
    BY Zenon, <2>1, <2>2
<1>5. ASSUME NEW s \in Rqsts PROVE PlaceInv(s)' /\ ReadInv(s)'
  <2>1. PlaceInv(s) /\ ReadInv(s)
    BY Zenon DEF DataInv
  <2>2. PlaceInv(s)'
    BY Zenon, <2>1 DEF PlaceInv, ringVars
  <2>3. ASSUME NEW d \in Clients, Waits(d, s)'
        PROVE  Waits(d, s) /\ rq'[s].key = rq[s].key /\ tree'[rq[s].key] = tree[rq[s].key]
    <3>1. d # c /\ Waits(d, s) /\ rq'[s].key = rq[s].key
      BY Zenon, <1>1, <2>3
    <3>2. call[d].pc = "wait" /\ call[d].key = rq[s].key
      BY <3>1 DEF DataInv, UseInv, Waits
    <3>3. rq[s].key \in Keys /\ Busy(d, rq[s].key)
      BY Zenon, <3>2 DEF DataInv, CallInv, Busy
    <3>4. QED
      BY Zenon, <3>1, <3>3
  <2>4. ReadInv(s)'
    BY Zenon, <2>1, <2>3 DEF ReadInv, ringVars
  <2>5. QED
    BY Zenon, <2>2, <2>4
<1>6. QED
  BY Zenon, <1>3, <1>4, <1>5 DEF DataInv

\* A client that leaves its operation, or starts one that is about no key, changes
\* nothing that DataInv relies on.
LEMMA ClientLeaves ==
  ASSUME PipelineInv, DataInv, NEW c \in Clients,
         UNCHANGED <<dataVars, pool, rq, ringVars, fin>>,
         call[c].pc # "put", NEW w \in Call, call' = [call EXCEPT ![c] = w],
         w.pc \notin {"put", "wait"},
         w.pc # "idle" /\ w.key \in Keys => Free(w.key),
         w.pc = "copy" => /\ w.key \in Keys /\ tree[w.key].loc = "PMEM"
                          /\ w.ptr = tree[w.key].act /\ w.ptr \in Cells
  PROVE  DataInv'
<1>1. /\ call' \in [Clients -> Call] /\ call'[c] = w
      /\ \A d \in Clients : d # c => call'[d] = call[d]
  BY Zenon DEF DataInv, StoreInv, DataTypes
<1>2. StoreInv'
  <2>1. SameMoves /\ SamePuts /\ DataTypes'
    BY Zenon, <1>1 DEF SameMoves, Moving, SamePuts, DataInv, StoreInv, DataTypes, dataVars
  <2>2. QED
    BY Zenon, <2>1, StillStore DEF DataInv
<1>3. CallInv(c)'
  BY Zenon, <1>1 DEF CallInv, dataVars
<1>4. \A k \in Keys : Busy(c, k)' => Free(k)
  BY Zenon, <1>1 DEF Busy
<1>5. QED
  BY Zenon, <1>1, <1>2, <1>3, <1>4, ClientKeeps DEF dataVars

\* AllocValueForKey gives a key without a value memory that nobody has.
LEMMA AllocData ==
  ASSUME PipelineInv, DataInv, Exclusive, NEW c \in Clients, NEW k \in Keys,
         NEW v \in Values, Alloc(c, k, v)
  PROVE  DataInv'
<1>1. /\ Free(k) /\ call[c].pc = "idle" /\ tree[k].loc = "EMPTY"
      /\ UNCHANGED <<disk, lbas, pool, rq, ringVars, fin>>
  BY Zenon, MayCallFree DEF Alloc, AllocValueForKey, rqstVars
<1>2. PICK m \in Cells : /\ cells[m] = Nil
                         /\ cells' = [cells EXCEPT ![m] = v]
                         /\ tree' = [tree EXCEPT ![k].ptr = m, ![k].act = m]
  BY Zenon DEF Alloc, AllocValueForKey
<1>3. DataTypes /\ tree[k] \in Wrapper
  BY Zenon DEF DataInv, StoreInv, DataTypes
<1>4. PICK w : w = [tree[k] EXCEPT !.ptr = m, !.act = m]
  BY Zenon
<1>5. w \in Wrapper /\ w.loc = tree[k].loc /\ w.ptr = m /\ w.act = m
  BY Zenon, <1>2, <1>3, <1>4 DEF Wrapper, Ptrs
<1>6. tree' = [tree EXCEPT ![k] = w]
  BY Zenon, <1>2, <1>4
<1>7. /\ tree' \in [Keys -> Wrapper] /\ tree'[k] = w
      /\ \A j \in Keys : j # k => tree'[j] = tree[j]
  BY Zenon, <1>3, <1>5, <1>6 DEF DataTypes
<1>8. /\ cells' \in [Cells -> Values \cup {Nil}] /\ cells'[m] = v
      /\ \A n \in Cells : n # m => cells'[n] = cells[n]
  BY Zenon, <1>2, <1>3 DEF DataTypes
<1>9. PICK u : u = [IdleCall EXCEPT !.pc = "put", !.op = "PUT", !.key = k,
                                    !.ptr = Nil, !.r = Nil]
  BY Zenon
<1>10. u \in Call /\ u.pc = "put" /\ u.key = k
  BY Zenon, <1>9, NothingTypes DEF IdleCall, Call, Ptrs, Data
<1>11. call' = [call EXCEPT ![c] = u]
  BY Zenon, <1>9 DEF Alloc, Enter
<1>12. /\ call' \in [Clients -> Call] /\ call'[c] = u
       /\ \A d \in Clients : d # c => call'[d] = call[d]
  BY Zenon, <1>3, <1>10, <1>11 DEF DataTypes
<1>13. ASSUME NEW j \in Keys, tree[j].act \in Cells
       PROVE  tree[j].act # m /\ cells'[tree[j].act] = cells[tree[j].act]
  BY Zenon, <1>2, <1>8, <1>13, PipelineAssumption DEF DataInv, StoreInv, KeyInv
<1>14. /\ SameMoves /\ SamePuts
  BY Zenon, <1>1, <1>12 DEF SameMoves, Moving, SamePuts
<1>15. ASSUME NEW j \in Keys PROVE KeyInv(j)'
  <2>1. CASE j = k
    BY <1>1, <1>5, <1>7, <1>8, <1>10, <1>12, <2>1 DEF KeyInv
  <2>2. CASE j # k
    <3>1. KeyInv(j) /\ tree'[j] = tree[j]
      BY Zenon, <1>7, <2>2 DEF DataInv, StoreInv
    <3>2. ASSUME NEW d \in Clients, call[d].pc = "put", call[d].key = j
          PROVE  call'[d].pc = "put" /\ call'[d].key = j
      BY Zenon, <1>14, <3>2 DEF SamePuts
    <3>3. QED
      BY Zenon, <1>1, <1>13, <1>14, <3>1, <3>2 DEF KeyInv, SameMoves
  <2>3. QED
    BY Zenon, <2>1, <2>2
<1>16. ASSUME NEW s \in Rqsts PROVE RqInv(s)'
  <2>1. RqInv(s) /\ (Moving(s)' <=> Moving(s)) /\ rq[s].asked # k
    BY Zenon, <1>1, <1>14 DEF DataInv, StoreInv, SameMoves, Free
  <2>2. CASE ~Offloads(s)
    BY Zenon, <1>1, <2>1, <2>2 DEF RqInv, Offloads
  <2>3. CASE Offloads(s)
    <3>1. pool[s] # 0 => rq[s] = NoRqst
      BY Zenon, <2>1 DEF RqInv
    <3>2. pool[s] = 0
      BY <2>3, <3>1 DEF Offloads, NoRqst
    <3>3. rq[s].key \in Keys /\ rq[s].key # k
      BY Zenon, <2>1, <2>3, <3>2 DEF RqInv, Offloads
    <3>4. tree'[rq[s].key] = tree[rq[s].key]
      BY Zenon, <1>7, <3>3
    <3>5. rq[s].value # Nil /\ ~Moving(s) => cells'[rq[s].value] = cells[rq[s].value]
      BY Zenon, <1>13, <2>1, <2>3, <3>3 DEF RqInv
    <3>6. QED
      BY Zenon, <1>1, <2>1, <2>3, <3>4, <3>5 DEF RqInv, Offloads
  <2>4. QED
    BY Zenon, <2>2, <2>3
<1>17. LbaInv' /\ BucketInv(lbas') /\ DataTypes'
  BY <1>1, <1>3, <1>5, <1>7, <1>8, <1>12 DEF DataInv, StoreInv, LbaInv, DataTypes
<1>18. CellInv'
  BY <1>5, <1>7, <1>13 DEF DataInv, StoreInv, CellInv
<1>19. StoreInv'
  BY Zenon, <1>15, <1>16, <1>17, <1>18 DEF StoreInv
<1>20. CallInv(c)'
  BY Zenon, <1>1, <1>2, <1>5, <1>7, <1>10, <1>12 DEF CallInv
<1>21. \A j \in Keys : Busy(c, j)' => Free(j)
  BY Zenon, <1>1, <1>10, <1>12 DEF Busy
<1>22. \A j \in Keys : tree'[j] = tree[j] \/ \A d \in Clients : d # c => ~Busy(d, j)
  BY Zenon, <1>1, <1>7 DEF Free
<1>23. QED
  BY Zenon, <1>1, <1>10, <1>12, <1>19, <1>20, <1>21, <1>22, ClientKeeps

\* ARTree::Put publishes the value that the client allocated.
LEMMA PutData ==
  ASSUME PipelineInv, DataInv, NEW c \in Clients, Put(c)
  PROVE  DataInv'
<1>1. PICK k : k = call[c].key
  BY Zenon
<1>2. /\ call[c].pc = "put" /\ call' = [call EXCEPT ![c] = IdleCall]
      /\ tree' = [tree EXCEPT ![k].vol = "PMEM", ![k].loc = "PMEM"]
      /\ UNCHANGED <<cells, disk, lbas, pool, rq, ringVars, fin>>
  BY Zenon, <1>1 DEF Put, TreePut, Leave, rqstVars
<1>3. DataTypes /\ k \in Keys /\ tree[k].loc = "EMPTY" /\ tree[k].act \in Cells
  BY Zenon, <1>1, <1>2 DEF DataInv, StoreInv, CallInv
<1>4. KeyInv(k) /\ tree[k] \in Wrapper
  BY Zenon, <1>3 DEF DataInv, StoreInv, DataTypes
<1>5. PICK w : w = [tree[k] EXCEPT !.vol = "PMEM", !.loc = "PMEM"]
  BY Zenon
<1>6. /\ w \in Wrapper /\ w.loc = "PMEM" /\ w.vol = "PMEM"
      /\ w.ptr = tree[k].ptr /\ w.act = tree[k].act
  BY Zenon, <1>4, <1>5 DEF Wrapper, Locations
<1>7. tree' = [tree EXCEPT ![k] = w]
  BY Zenon, <1>2, <1>5
<1>8. /\ tree' \in [Keys -> Wrapper] /\ tree'[k] = w
      /\ \A j \in Keys : j # k => tree'[j] = tree[j]
  BY Zenon, <1>3, <1>6, <1>7 DEF DataTypes
<1>9. /\ call' \in [Clients -> Call] /\ call'[c].pc = "idle" /\ call'[c].key = Nil
      /\ \A d \in Clients : d # c => call'[d] = call[d]
  BY Zenon, <1>2, <1>3, NothingTypes DEF DataTypes, IdleCall
<1>10. Busy(c, k)
  BY Zenon, <1>1, <1>2 DEF Busy
<1>11. ASSUME NEW s \in Rqsts PROVE rq[s].asked # k
  BY <1>2, <1>3, <1>10, PipelineAssumption DEF DataInv, UseInv, Waits
<1>12. SameMoves
  BY Zenon, <1>2 DEF SameMoves, Moving
<1>13. ASSUME NEW j \in Keys PROVE KeyInv(j)'
  <2>1. CASE j = k
    BY Zenon, <1>2, <1>3, <1>4, <1>6, <1>8, <2>1 DEF KeyInv
  <2>2. CASE j # k
    <3>1. KeyInv(j) /\ tree'[j] = tree[j]
      BY Zenon, <1>8, <2>2 DEF DataInv, StoreInv
    <3>2. ASSUME NEW d \in Clients, call[d].pc = "put", call[d].key = j
          PROVE  call'[d].pc = "put" /\ call'[d].key = j
      BY Zenon, <1>1, <1>9, <2>2, <3>2
    <3>3. QED
      BY Zenon, <1>2, <1>12, <3>1, <3>2 DEF KeyInv, SameMoves
  <2>3. QED
    BY Zenon, <2>1, <2>2
<1>14. ASSUME NEW s \in Rqsts PROVE RqInv(s)'
  <2>1. RqInv(s) /\ (Moving(s)' <=> Moving(s)) /\ rq[s].asked # k
    BY Zenon, <1>11, <1>12 DEF DataInv, StoreInv, SameMoves
  <2>2. CASE ~Offloads(s)
    BY Zenon, <1>2, <2>1, <2>2 DEF RqInv, Offloads
  <2>3. CASE Offloads(s)
    <3>1. pool[s] # 0 => rq[s] = NoRqst
      BY Zenon, <2>1 DEF RqInv
    <3>2. pool[s] = 0
      BY <2>3, <3>1 DEF Offloads, NoRqst
    <3>3. rq[s].key \in Keys /\ rq[s].key # k
      BY Zenon, <2>1, <2>3, <3>2 DEF RqInv, Offloads
    <3>4. tree'[rq[s].key] = tree[rq[s].key]
      BY Zenon, <1>8, <3>3
    <3>5. QED
      BY Zenon, <1>2, <2>1, <2>3, <3>4 DEF RqInv, Offloads
  <2>4. QED
    BY Zenon, <2>2, <2>3
<1>15. LbaInv' /\ BucketInv(lbas') /\ DataTypes' /\ CellInv'
  BY <1>2, <1>3, <1>6, <1>8, <1>9 DEF DataInv, StoreInv, LbaInv, DataTypes, CellInv
<1>16. StoreInv'
  BY Zenon, <1>13, <1>14, <1>15 DEF StoreInv
<1>17. CallInv(c)' /\ \A j \in Keys : ~Busy(c, j)'
  BY Zenon, <1>9 DEF CallInv, Busy
<1>18. \A j \in Keys : tree'[j] = tree[j] \/ \A d \in Clients : d # c => ~Busy(d, j)
  BY Zenon, <1>3, <1>8, <1>10 DEF DataInv, UseInv
<1>19. QED
  BY Zenon, <1>2, <1>9, <1>16, <1>17, <1>18, ClientKeeps

\* A caller that gives up may leave a read with the wrong key, never an UPDATE.
LEMMA TimeOutData ==
  ASSUME PipelineInv, DataInv, NEW c \in Clients, TimeOut(c)
  PROVE  DataInv'
<1>1. PICK r : r = call[c].r
  BY Zenon
<1>2. /\ call[c].pc = "wait" /\ call' = [call EXCEPT ![c] = IdleCall]
      /\ UNCHANGED <<dataVars, pool, ringVars, fin>> /\ r \in Rqsts
  BY Zenon, <1>1 DEF TimeOut, Leave, DataInv, CallInv
<1>3. /\ call' \in [Clients -> Call] /\ call'[c].pc = "idle" /\ call'[c].key = Nil
      /\ \A d \in Clients : d # c => call'[d] = call[d]
  BY Zenon, <1>2, NothingTypes DEF DataInv, StoreInv, DataTypes, IdleCall
<1>4. CASE rq' = rq
  BY Zenon, <1>2, <1>4, NothingTypes, ClientLeaves DEF IdleCall
<1>5. ASSUME rq[r].clb = c, call[c].op # "UPDATE", NEW k \in Keys,
             rq' = [rq EXCEPT ![r].key = k]
      PROVE  DataInv'
  <2>1. Waits(c, r) /\ rq[r] \in Request /\ RqInv(r) /\ DataTypes
    BY Zenon, <1>1, <1>2, <1>5 DEF Waits, DataInv, StoreInv, DataTypes
  <2>2. rq[r].op # "UPDATE"
    BY Zenon, <1>2, <1>5, <2>1 DEF DataInv, UseInv
  <2>3. PICK w : w = [rq[r] EXCEPT !.key = k]
    BY Zenon
  <2>4. /\ w \in Request /\ w.op = rq[r].op /\ w.key = k /\ w.asked = rq[r].asked
        /\ w.clb = rq[r].clb /\ w.io = rq[r].io /\ w.freeLba = rq[r].freeLba
        /\ w.result = rq[r].result /\ w.addr = rq[r].addr /\ w.buf = rq[r].buf
    BY Zenon, <1>5, <2>1, <2>3 DEF Request
  <2>5. rq' = [rq EXCEPT ![r] = w]
    BY Zenon, <1>5, <2>3
  <2>6. /\ rq' \in [Rqsts -> Request] /\ rq'[r] = w
        /\ \A s \in Rqsts : s # r => rq'[s] = rq[s]
    BY Zenon, <1>2, <2>1, <2>4, <2>5 DEF DataTypes
  <2>7. ~Moving(r) /\ ~Moving(r)' /\ SameMoves /\ SamePuts /\ Aside(r) /\ DataTypes'
    <3>1. ~Moving(r)
      BY Zenon, <2>1, <2>2 DEF RqInv, Offloads
    <3>2. SameMoves /\ ~Moving(r)'
      BY Zenon, <1>2, <3>1 DEF Moving, SameMoves
    <3>3. SamePuts /\ Aside(r) /\ DataTypes'
      BY Zenon, <1>2, <1>3, <2>1, <2>6 DEF SamePuts, Aside, DataTypes, dataVars
    <3>4. QED
      BY Zenon, <3>1, <3>2, <3>3
  <2>8. RqInv(r)'
    <3>1. pool[r] = 0
      <4>1. pool[r] # 0 => rq[r] = NoRqst
        BY Zenon, <2>1 DEF RqInv
      <4>2. QED
        BY <1>5, <4>1, PipelineAssumption DEF NoRqst
    <3>2. QED
      BY Zenon, <1>2, <2>1, <2>2, <2>4, <2>6, <2>7, <3>1 DEF RqInv, Offloads
  <2>9. StoreInv'
    BY Zenon, <1>2, <2>4, <2>6, <2>7, <2>8, QuietStore DEF DataInv
  <2>10. CallInv(c)' /\ \A j \in Keys : ~Busy(c, j)'
    BY Zenon, <1>3, PipelineAssumption DEF CallInv, Busy
  <2>11. \A s \in Rqsts : /\ rq'[s].asked = rq[s].asked /\ rq'[s].op = rq[s].op
                          /\ rq'[s].clb = rq[s].clb /\ rq'[s].io = rq[s].io
                          /\ rq'[s].addr = rq[s].addr /\ rq'[s].buf = rq[s].buf
                          /\ rq'[s].result = rq[s].result
                          /\ rq[s].clb # c => rq'[s].key = rq[s].key
    BY Zenon, <1>5, <2>4, <2>6
  <2>12. QED
    BY Zenon, <1>2, <1>3, <2>9, <2>10, <2>11, ClientKeeps DEF dataVars
<1>6. QED
  BY Zenon, <1>1, <1>4, <1>5 DEF TimeOut

\* A client submits a request about a free key and waits for it, or does not.
LEMMA SubmitData ==
  ASSUME PipelineInv, PipelineInv', DataInv, NEW c \in Clients, NEW r \in Rqsts,
         NEW op \in {"UPDATE", "GET"}, NEW k \in Keys, NEW v \in Ptrs,
         NEW loc \in Locations, NEW clb \in {c, Async}, NEW n,
         Submit(r, op, k, v, loc, clb, n), Free(k), UNCHANGED <<dataVars, fin>>,
         call' \in [Clients -> Call],
         \A d \in Clients : d # c => call'[d] = call[d],
         \/ clb = Async /\ call'[c] = call[c]
         \/ /\ clb = c /\ call[c].pc = "idle"
            /\ call'[c].pc = "wait" /\ call'[c].key = k /\ call'[c].op = op
            /\ call'[c].r = r /\ call'[c].ready = FALSE
            /\ op = "GET" => tree[k].loc = "DISK",
         op = "UPDATE" /\ loc = "PMEM" =>
           \/ v = Nil /\ tree[k].loc = "EMPTY" /\ tree[k].act = Nil
           \/ v = tree[k].act /\ v \in Cells /\ tree[k].loc = "PMEM"
  PROVE  DataInv'
<1>1. /\ pool[r] > 0 /\ pool' = [pool EXCEPT ![r] = @ - 1]
      /\ offRing' = Append(offRing, r)
      /\ UNCHANGED <<ioRing, finRing, inDev, ioWait>>
  BY Zenon DEF Submit, InPool
<1>2. OwnAt(r) /\ pool \in [Rqsts -> Nat]
  BY Zenon DEF PipelineInv, OwnInv, TypeInv, TypeOK
<1>3. pool[r] = 1 /\ pool'[r] = 0 /\ \A s \in Rqsts : s # r => pool'[s] = pool[s]
  BY <1>1, <1>2 DEF OwnAt
<1>4. /\ r \notin Held(offRing) /\ r \notin Held(ioRing) /\ r \notin inDev
      /\ r \notin ioWait /\ r \notin Held(finRing) /\ r \notin InFin
  BY Zenon, <1>2, <1>3 DEF OwnAt
<1>5. offRing \in Seq(Rqsts) /\ NoDuplicate(offRing)
  BY Zenon DEF PipelineInv, OwnInv, TypeInv, TypeOK
<1>6. Held(offRing)' \subseteq Held(offRing) \cup {r}
  BY Zenon, <1>1, <1>5, RingMoves
<1>7. DataTypes /\ RqInv(r)
  BY Zenon DEF DataInv, StoreInv
<1>8. PICK w : w = [NoRqst EXCEPT !.op = op, !.key = k, !.asked = k,
                                  !.value = v, !.loc = loc, !.clb = clb]
  BY Zenon
<1>9. /\ w \in Request /\ w.op = op /\ w.key = k /\ w.asked = k /\ w.value = v
      /\ w.loc = loc /\ w.clb = clb /\ w.freeLba = 0 /\ w.io = "none"
      /\ w.result = FALSE
  <2>1. /\ NoRqst \in Request /\ NoRqst.freeLba = 0 /\ NoRqst.io = "none"
        /\ NoRqst.result = FALSE
    BY Zenon, NothingTypes DEF NoRqst
  <2>2. /\ op \in {"NONE", "UPDATE", "GET"} /\ k \in Keys \cup {Nil}
        /\ clb \in Clients \cup {Async}
    BY Zenon
  <2>3. QED
    BY Zenon, <1>8, <2>1, <2>2 DEF Request
<1>10. rq' = [rq EXCEPT ![r] = w]
  BY Zenon, <1>8 DEF Submit
<1>11. /\ rq' \in [Rqsts -> Request] /\ rq'[r] = w
       /\ \A s \in Rqsts : s # r => rq'[s] = rq[s]
  BY Zenon, <1>7, <1>9, <1>10 DEF DataTypes
<1>12. ~Moving(r) /\ ~Moving(r)' /\ SameMoves
  BY Zenon, <1>4 DEF Moving, SameMoves, InFin
<1>13. Aside(r) /\ DataTypes' /\ SamePuts
  BY Zenon, <1>3, <1>7, <1>11 DEF Aside, DataTypes, SamePuts, dataVars
<1>14. RqInv(r)'
  BY Zenon, <1>3, <1>9, <1>11, <1>12, PipelineAssumption DEF RqInv, Offloads, dataVars
<1>15. StoreInv'
  BY Zenon, <1>9, <1>11, <1>12, <1>13, <1>14, QuietStore DEF DataInv
<1>16. /\ \A d \in Clients : ~Busy(d, k)
       /\ \A s \in Rqsts : rq[s].asked # k
  BY Zenon DEF Free
<1>17. ASSUME NEW d \in Clients, NEW s \in Rqsts, Waits(d, s)'
       PROVE  \/ d = c /\ s = r /\ clb = c
              \/ s # r /\ Waits(d, s) /\ call'[d] = call[d]
  <2>1. CASE s = r
    BY <1>9, <1>11, <1>17, <2>1, PipelineAssumption DEF Waits
  <2>2. CASE s # r
    BY Zenon, <1>11, <1>17, <2>2 DEF Waits
  <2>3. QED
    BY Zenon, <2>1, <2>2
<1>18. UseInv'
  <2>1. ASSUME NEW s \in Rqsts, NEW t \in Rqsts,
               rq'[s].asked = rq'[t].asked, rq'[s].asked # Nil
        PROVE  s = t
    BY <1>9, <1>11, <1>16, <2>1 DEF DataInv, UseInv
  <2>2. ASSUME NEW d \in Clients, NEW e \in Clients, NEW j \in Keys,
               Busy(d, j)', Busy(e, j)'
        PROVE  d = e
    BY <1>16, <2>2 DEF DataInv, UseInv, Busy
  <2>3. ASSUME NEW d \in Clients, NEW s \in Rqsts,
               Busy(d, rq[s].asked)', rq'[s].asked # Nil
        PROVE  Waits(d, s)'
    <3>1. CASE s = r
      <4>1. call'[d].pc # "idle" /\ call'[d].key = k
        BY Zenon, <1>9, <1>11, <2>3, <3>1 DEF Busy
      <4>2. d = c /\ clb = c
        BY Zenon, <1>16, <4>1 DEF Busy
      <4>3. QED
        BY Zenon, <1>9, <1>11, <3>1, <4>2, PipelineAssumption DEF Waits
    <3>2. CASE s # r
      <4>1. rq'[s] = rq[s] /\ rq[s].asked # k
        BY Zenon, <1>11, <1>16, <3>2
      <4>2. call'[d].pc # "idle" /\ call'[d].key = rq[s].asked
        BY Zenon, <2>3, <4>1 DEF Busy
      <4>3. call'[d] = call[d]
        BY Zenon, <4>1, <4>2
      <4>4. Waits(d, s)
        BY <2>3, <4>1, <4>2, <4>3 DEF DataInv, UseInv, Busy
      <4>5. QED
        BY Zenon, <4>1, <4>3, <4>4 DEF Waits
    <3>3. QED
      BY Zenon, <3>1, <3>2
  <2>4. ASSUME NEW d \in Clients, NEW s \in Rqsts, Waits(d, s)'
        PROVE  /\ call'[d].op = rq'[s].op /\ call'[d].key = rq'[s].asked
               /\ rq'[s].key = rq'[s].asked
    <3>1. CASE d = c /\ s = r /\ clb = c
      BY Zenon, <1>9, <1>11, <3>1, PipelineAssumption
    <3>2. CASE s # r /\ Waits(d, s) /\ call'[d] = call[d]
      BY <1>11, <3>2 DEF DataInv, UseInv
    <3>3. QED
      BY Zenon, <1>17, <2>4, <3>1, <3>2
  <2>5. QED
    BY Zenon, <2>1, <2>2, <2>3, <2>4 DEF UseInv
<1>19. ASSUME NEW d \in Clients PROVE CallInv(d)'
  <2>1. CallInv(d) /\ UNCHANGED <<tree, disk>>
    BY Zenon DEF DataInv, dataVars
  <2>2. CASE call'[d] = call[d]
    BY Zenon, <2>1, <2>2 DEF CallInv
  <2>3. CASE call'[d] # call[d]
    BY <2>1, <2>3 DEF CallInv
  <2>4. QED
    BY Zenon, <2>2, <2>3
<1>20. ASSUME NEW s \in Rqsts PROVE PlaceInv(s)' /\ ReadInv(s)'
  <2>1. PlaceInv(s) /\ ReadInv(s) /\ UNCHANGED <<tree, disk>>
    BY Zenon DEF DataInv, dataVars
  <2>2. CASE s = r
    <3>1. PlaceInv(s)'
      BY Zenon, <1>1, <1>4, <1>9, <1>11, <2>2 DEF PlaceInv
    <3>2. ReadInv(s)'
      BY Zenon, <1>1, <1>4, <1>9, <1>11, <2>2 DEF ReadInv
    <3>3. QED
      BY Zenon, <3>1, <3>2
  <2>3. CASE s # r
    <3>1. PlaceInv(s)'
      BY Zenon, <1>1, <1>6, <1>11, <2>1, <2>3 DEF PlaceInv
    <3>2. \A d \in Clients : Waits(d, s)' => Waits(d, s)
      BY Zenon, <1>17, <2>3
    <3>3. ReadInv(s)'
      BY Zenon, <1>1, <1>11, <2>1, <2>3, <3>2 DEF ReadInv
    <3>4. QED
      BY Zenon, <3>1, <3>3
  <2>4. QED
    BY Zenon, <2>2, <2>3
<1>21. QED
  BY Zenon, <1>15, <1>18, <1>19, <1>20 DEF DataInv

\* The call of a client that waits for request r.
LEMMA EnterWait ==
  ASSUME DataTypes, NEW c \in Clients, NEW op \in {"UPDATE", "GET"}, NEW k \in Keys,
         NEW r \in Rqsts, Enter(c, "wait", op, k, Nil, r)
  PROVE  /\ call' \in [Clients -> Call]
         /\ \A d \in Clients : d # c => call'[d] = call[d]
         /\ call'[c].pc = "wait" /\ call'[c].key = k /\ call'[c].op = op
         /\ call'[c].r = r /\ call'[c].ready = FALSE
<1>1. PICK w : w = [IdleCall EXCEPT !.pc = "wait", !.op = op, !.key = k,
                                    !.ptr = Nil, !.r = r]
  BY Zenon
<1>2. /\ w \in Call /\ w.pc = "wait" /\ w.key = k /\ w.op = op /\ w.r = r
      /\ w.ready = FALSE
  BY Zenon, <1>1 DEF IdleCall, Call, Ptrs, Data
<1>3. call' = [call EXCEPT ![c] = w]
  BY Zenon, <1>1 DEF Enter
<1>4. QED
  BY Zenon, <1>2, <1>3 DEF DataTypes

\* The steps of a client keep DataInv.
LEMMA ClientData ==
  ASSUME PipelineInv, PipelineInv', DataInv, Exclusive, "REMOVE_DISK" \notin Ops,
         NEW c \in Clients, ClientCall(c) \/ ClientStep(c) \/ Quiesce(c)
  PROVE  DataInv'
<1> USE DEF rqstVars, bdevVars
<1>a. DataTypes /\ Nil \in Ptrs
  BY Zenon DEF DataInv, StoreInv, Ptrs
<1>b. ASSUME NEW k \in Keys
      PROVE  tree[k].ptr \in Ptrs /\ tree[k].loc \in Locations /\ tree[k].act \in Cells \cup {Nil}
  BY Zenon, <1>a DEF DataTypes, Wrapper
<1>1. ASSUME NEW k \in Keys, NEW v \in Values, Alloc(c, k, v) PROVE DataInv'
  BY Zenon, <1>1, AllocData
<1>2. ASSUME NEW k \in Keys, Update(c, k) PROVE DataInv'
  <2>1. Free(k) /\ call[c].pc = "idle" /\ UNCHANGED <<dataVars, fin>>
    BY Zenon, <1>2, MayCallFree DEF Update
  <2>2. PICK r \in Rqsts : /\ Submit(r, "UPDATE", k, tree[k].ptr, tree[k].loc, c, 0)
                           /\ Enter(c, "wait", "UPDATE", k, Nil, r)
    BY Zenon, <1>2 DEF Update
  <2>3. PICK v, loc : v = tree[k].ptr /\ loc = tree[k].loc
    BY Zenon
  <2>4. v \in Ptrs /\ loc \in Locations /\ Submit(r, "UPDATE", k, v, loc, c, 0)
    BY Zenon, <1>b, <2>2, <2>3
  <2>5. loc = "PMEM" => v = tree[k].act /\ v \in Cells /\ tree[k].loc = "PMEM"
    BY Zenon, <2>1, <2>3, FreeKey
  <2>6. /\ call' \in [Clients -> Call]
        /\ \A d \in Clients : d # c => call'[d] = call[d]
        /\ call'[c].pc = "wait" /\ call'[c].key = k /\ call'[c].op = "UPDATE"
        /\ call'[c].r = r /\ call'[c].ready = FALSE
    BY Zenon, <1>a, <2>2, EnterWait
  <2>7. QED
    BY Zenon, <2>1, <2>4, <2>5, <2>6, SubmitData
<1>3. ASSUME NEW k \in Keys, UpdateAsync(c, k) PROVE DataInv'
  <2>1. Free(k) /\ UNCHANGED <<dataVars, fin, call>>
    BY Zenon, <1>3, MayCallFree DEF UpdateAsync
  <2>2. PICK r \in Rqsts : Submit(r, "UPDATE", k, tree[k].ptr, tree[k].loc, Async, 0)
    BY Zenon, <1>3 DEF UpdateAsync
  <2>3. PICK v, loc : v = tree[k].ptr /\ loc = tree[k].loc
    BY Zenon
  <2>4. v \in Ptrs /\ loc \in Locations /\ Submit(r, "UPDATE", k, v, loc, Async, 0)
    BY Zenon, <1>b, <2>2, <2>3
  <2>5. loc = "PMEM" => v = tree[k].act /\ v \in Cells /\ tree[k].loc = "PMEM"
    BY Zenon, <2>1, <2>3, FreeKey
  <2>6. QED
    BY Zenon, <1>a, <2>1, <2>4, <2>5, SubmitData DEF DataTypes
<1>4. ASSUME NEW k \in Keys, UpdateAsyncMissing(c, k) PROVE DataInv'
  <2>1. Free(k) /\ ~Found(k) /\ UNCHANGED <<dataVars, fin, call>>
    BY Zenon, <1>4, MayCallFree DEF UpdateAsyncMissing
  <2>2. PICK r \in Rqsts, loc \in Locations : Submit(r, "UPDATE", k, Nil, loc, Async, 1)
    BY Zenon, <1>4 DEF UpdateAsyncMissing
  <2>3. tree[k].loc = "EMPTY" /\ tree[k].act = Nil
    BY Zenon, <1>b, <2>1, FreeKey DEF Found, Locations
  <2>4. QED
    BY Zenon, <1>a, <2>1, <2>2, <2>3, SubmitData DEF DataTypes
<1>5. ASSUME NEW k \in Keys, Get(c, k) PROVE DataInv'
  <2>1. Free(k) /\ call[c].pc = "idle" /\ Found(k) /\ UNCHANGED <<dataVars, fin>>
    BY Zenon, <1>5, MayCallFree DEF Get
  <2>2. CASE tree[k].loc = "PMEM"
    <3>1. PICK w : w = [IdleCall EXCEPT !.pc = "copy", !.op = "GET", !.key = k,
                                        !.ptr = tree[k].ptr, !.r = Nil]
      BY Zenon
    <3>2. w \in Call /\ w.pc = "copy" /\ w.key = k /\ w.ptr = tree[k].ptr
      BY Zenon, <1>b, <3>1 DEF IdleCall, Call, Data
    <3>3. call' = [call EXCEPT ![c] = w] /\ UNCHANGED <<pool, rq, ringVars>>
      BY Zenon, <1>5, <2>2, <3>1 DEF Get, Enter
    <3>4. w.ptr = tree[k].act /\ w.ptr \in Cells
      BY Zenon, <2>1, <2>2, <3>2, FreeKey
    <3>5. QED
      BY Zenon, <2>1, <2>2, <3>2, <3>3, <3>4, ClientLeaves
  <2>3. CASE tree[k].loc # "PMEM"
    <3>1. tree[k].loc = "DISK"
      BY Zenon, <2>1, <2>3 DEF Found
    <3>2. PICK r \in Rqsts : /\ Submit(r, "GET", k, Nil, "EMPTY", c, 0)
                             /\ Enter(c, "wait", "GET", k, Nil, r)
      BY Zenon, <1>5, <2>3 DEF Get
    <3>3. /\ call' \in [Clients -> Call]
          /\ \A d \in Clients : d # c => call'[d] = call[d]
          /\ call'[c].pc = "wait" /\ call'[c].key = k /\ call'[c].op = "GET"
          /\ call'[c].r = r /\ call'[c].ready = FALSE
      BY Zenon, <1>a, <3>2, EnterWait
    <3>4. QED
      BY Zenon, <1>a, <2>1, <3>1, <3>2, <3>3, SubmitData DEF Locations
  <2>4. QED
    BY Zenon, <2>2, <2>3
<1>6. ASSUME NEW k \in Keys, GetAsync(c, k) PROVE DataInv'
  <2>1. Free(k) /\ UNCHANGED <<dataVars, fin, call>>
    BY Zenon, <1>6, MayCallFree DEF GetAsync
  <2>2. PICK r \in Rqsts : Submit(r, "GET", k, Nil, "EMPTY", Async, 0)
    BY Zenon, <1>6 DEF GetAsync
  <2>3. QED
    BY Zenon, <1>a, <2>1, <2>2, SubmitData DEF DataTypes, Locations
<1>7. ASSUME NEW k \in Keys, RemoveOffloaded(c, k) PROVE DataInv'
  BY Zenon, <1>7 DEF RemoveOffloaded, MayCall
<1>8. CASE Put(c)
  BY Zenon, <1>8, PutData
<1>9. CASE GetCopy(c) \/ Return(c) \/ QuiesceEnd(c)
  <2>1. /\ call[c].pc # "put" /\ call' = [call EXCEPT ![c] = IdleCall]
        /\ UNCHANGED <<dataVars, pool, rq, ringVars, fin>>
    BY Zenon, <1>9 DEF GetCopy, Return, QuiesceEnd, Leave
  <2>2. IdleCall \in Call /\ IdleCall.pc = "idle"
    BY Zenon, NothingTypes DEF IdleCall
  <2>3. QED
    BY Zenon, <2>1, <2>2, ClientLeaves
<1>10. CASE TimeOut(c)
  BY Zenon, <1>10, TimeOutData
<1>11. CASE Quiesce(c)
  <2>1. PICK w : w = [IdleCall EXCEPT !.pc = "quiesce", !.op = "QUIESCE", !.key = Nil,
                                      !.ptr = Nil, !.r = Nil]
    BY Zenon
  <2>2. w \in Call /\ w.pc = "quiesce" /\ w.key = Nil
    BY Zenon, <2>1 DEF IdleCall, Call, Ptrs, Data
  <2>3. /\ call' = [call EXCEPT ![c] = w] /\ call[c].pc # "put"
        /\ UNCHANGED <<dataVars, pool, rq, ringVars, fin>>
    BY Zenon, <1>11, <2>1 DEF Quiesce, Enter
  <2>4. QED
    BY Zenon, <2>2, <2>3, ClientLeaves, PipelineAssumption
<1>12. QED
  BY Zenon, <1>1, <1>2, <1>3, <1>4, <1>5, <1>6, <1>7, <1>8, <1>9, <1>10, <1>11
     DEF ClientCall, ClientStep

-----------------------------------------------------------------------------
(***************************************************************************)
(* The refinement.                                                         *)
(***************************************************************************)
\* An empty store has the invariant of the data.
LEMMA InitData == Init => DataInv
<1> SUFFICES ASSUME Init PROVE DataInv
  BY Zenon
<1>1. /\ \A k \in Keys : /\ tree[k].loc = "EMPTY" /\ tree[k].act = Nil
                         /\ tree[k].ptr = Nil
      /\ \A r \in Rqsts : rq[r] = NoRqst /\ pool[r] = 1
      /\ \A c \in Clients : call[c] = IdleCall
      /\ lbas = NewBucket
  BY Zenon DEF Init
<1>2. \A r \in Rqsts : ~Moving(r)
  BY Zenon DEF Init, IdleFin, Moving
<1>3. /\ NoRqst.op = "NONE" /\ NoRqst.io = "none" /\ NoRqst.freeLba = 0
      /\ NoRqst.asked = Nil /\ NoRqst.result = FALSE /\ NoRqst.clb = Async
  BY Zenon DEF NoRqst
<1>4. IdleCall.pc = "idle" /\ Nil \notin Cells
  BY Zenon, PipelineAssumption DEF IdleCall
<1>5. DataTypes
  <2>1. rq \in [Rqsts -> Request] /\ call \in [Clients -> Call]
    BY Zenon, NothingTypes DEF Init
  <2>2. tree \in [Keys -> Wrapper]
    BY Zenon DEF Init, Wrapper, Locations, Ptrs
  <2>3. cells \in [Cells -> Values \cup {Nil}] /\ disk \in [DiskLbas -> Data]
    BY Zenon DEF Init, Data
  <2>4. QED
    BY Zenon, <2>1, <2>2, <2>3 DEF DataTypes
<1>6. BucketInv(lbas)
  <2>1. LbasSize \in Nat \ {0} /\ MaxLba \in Nat
    BY Zenon, LbaBucketAssumption
  <2>2. /\ lbas.list = <<-1>> /\ lbas.level = 0
        /\ lbas.lbas = [i \in 0 .. LbasSize - 1 |-> Unset]
    BY <1>1 DEF NewBucket
  <2>3. CountsAtHead(lbas)
    BY <1>1, <2>1 DEF NewBucket, CountsAtHead, Bucket, Unset
  <2>4. Counter(lbas) = 1
    <3>1. PICK h \in Int : h = Head(lbas.list) /\ h + 1 = 0
      BY <2>2
    <3>2. -h = 1
      BY <3>1
    <3>3. QED
      BY Zenon, <3>1, <3>2 DEF Counter
  <2>5. QED
    BY <2>1, <2>2, <2>3, <2>4 DEF BucketInv
<1>7. CellInv /\ LbaInv /\ \A k \in Keys : KeyInv(k)
  BY Zenon, <1>1, <1>3, <1>4 DEF CellInv, LbaInv, KeyInv
<1>8. ASSUME NEW r \in Rqsts PROVE RqInv(r) /\ PlaceInv(r) /\ ReadInv(r)
  <2>1. rq[r] = NoRqst /\ ~Moving(r) /\ pool[r] = 1
    BY Zenon, <1>1, <1>2
  <2>2. r \notin inDev \cup ioWait
    BY Zenon DEF Init
  <2>3. pool[r] # 0
    BY <2>1
  <2>4. QED
    BY Zenon, <1>3, <2>1, <2>2, <2>3 DEF RqInv, Offloads, PlaceInv, ReadInv
<1>9. UseInv /\ \A c \in Clients : CallInv(c)
  BY Zenon, <1>1, <1>3, <1>4 DEF UseInv, Busy, Waits, CallInv
<1>10. QED
  BY Zenon, <1>5, <1>6, <1>7, <1>8, <1>9 DEF DataInv, StoreInv

\* Every step keeps the invariant of the data.
LEMMA NextData ==
  ASSUME PipelineInv, PipelineInv', DataInv, Exclusive, "REMOVE_DISK" \notin Ops,
         [Next]_vars
  PROVE  DataInv'
<1>1. CASE UNCHANGED vars
  BY Zenon, <1>1, StillData DEF vars, rqstVars, SameMoves, Moving
<1>2. ASSUME NEW c \in Clients, ClientCall(c) \/ ClientStep(c) \/ Quiesce(c)
      PROVE  DataInv'
  BY Zenon, <1>2, ClientData
<1>3. ASSUME NEW r \in Rqsts, Device(r) PROVE DataInv'
  BY Zenon, <1>3, WriteCompleteData, ReadCompleteData DEF Device, Outcomes
<1>4. ASSUME NEW r \in Rqsts, QueueIoWait(r) PROVE DataInv'
  BY Zenon, <1>4, QueueIoWaitData
<1>5. CASE Poller \/ IoEngine \/ Finalizer \/ FinGetEnd \/ FinUpdateEnd
  BY Zenon, <1>5, PollerData, IoEngineData, FinalizerData, FinGetEndData, FinUpdateEndData
<1>6. QED
  BY Zenon, <1>1, <1>2, <1>3, <1>4, <1>5 DEF Next, Running

\* The invariant of the data.
LEMMA DataInvariant ==
  ASSUME Exclusive, "REMOVE_DISK" \notin Ops
  PROVE  Spec => [](PipelineInv /\ DataInv)
<1>1. Spec => []PipelineInv
  BY Zenon, PipelineInvariant
<1>2. PipelineInv /\ PipelineInv' /\ DataInv /\ [Next]_vars => DataInv'
  BY Zenon, NextData
<1>3. QED
  BY <1>1, <1>2, InitData, PTL DEF Spec

\* Two values on the device never share an LBA: OffloadLbaAlloc::getLba hands out
\* each LBA once, and the finalizer publishes it for the key it was written for.
\* For any number of keys, clients and requests and any device failure, when the
\* clients use a key one at a time and remove nothing.
THEOREM PipelineLbaExclusive ==
  ASSUME Exclusive, "REMOVE_DISK" \notin Ops
  PROVE  Spec => []LbaExclusive
<1>1. PipelineInv /\ DataInv => LbaExclusive
  BY Zenon DEF DataInv, StoreInv, LbaInv, LbaExclusive
<1>2. Spec => [](PipelineInv /\ DataInv)
  BY Zenon, DataInvariant
<1>3. QED
  BY <1>1, <1>2, PTL

-----------------------------------------------------------------------------
(***************************************************************************)
(* What ends the process.                                                  *)
(***************************************************************************)
\* The process ends only when getFreeLba has no LBA left to give.
EndsOnlyWhenFull == NoCrash \/ GetLbaAborts(lbas, 0)

\* The finalizer never ends the process: the reservation that it cancels is still
\* there, and it removes nothing.
LEMMA FinalizerSafe ==
  ASSUME PipelineInv, DataInv, Finalizer
  PROVE  UNCHANGED crashed
<1>1. PICK r : r = Head(finRing)
  BY Zenon
<1>2. /\ finRing \in Seq(Rqsts) /\ finRing # <<>> /\ NoDuplicate(finRing)
  BY Zenon DEF Finalizer, PipelineInv, TypeInv, TypeOK, OwnInv
<1>3. r \in Rqsts /\ r \in Held(finRing)
  BY Zenon, <1>1, <1>2, HeldTail
<1>4. OwnAt(r) /\ pool[r] = 0
  BY Zenon, <1>3, InPlace DEF PipelineInv
<1>5. DataTypes /\ rq[r] \in Request /\ RqInv(r) /\ fin.pc = "idle"
  BY Zenon, <1>3 DEF DataInv, StoreInv, DataTypes, Finalizer
<1>6. ~FinRemove(r)
  BY Zenon, <1>5 DEF FinRemove, Request
<1>7. CASE FinUpdate(r)
  <2>1. Offloads(r) /\ rq[r].result /\ tree[rq[r].key].ptr # Nil
    BY Zenon, <1>7 DEF FinUpdate, Moves, Offloads
  <2>2. /\ rq[r].key \in Keys
        /\ \A c \in Clients : call[c].pc \in {"put", "copy"} => call[c].key # rq[r].key
    BY Zenon, <1>3, <1>4, <2>1, OffloadAlone
  <2>3. KeyInv(rq[r].key)
    BY Zenon, <2>2 DEF DataInv, StoreInv
  <2>4. rq[r].value # Nil
    BY Zenon, <1>5, <2>1, <2>2, <2>3, PipelineAssumption DEF RqInv, KeyInv
  <2>5. tree[rq[r].key].act \in Cells
    BY Zenon, <1>5, <2>1, <2>4 DEF RqInv, Moving
  <2>6. QED
    BY Zenon, <1>7, <2>5 DEF FinUpdate, CancelFaults
<1>8. CASE FinDrop(r) \/ FinGet(r) \/ FinAnswer(r)
  BY Zenon, <1>8 DEF FinDrop, FinGet, FinAnswer
<1>9. QED
  BY Zenon, <1>1, <1>6, <1>7, <1>8 DEF Finalizer

\* The I/O engine ends the process only when the allocator is out of LBAs.
LEMMA IoEngineEnds ==
  ASSUME IoEngine
  PROVE  UNCHANGED crashed \/ GetLbaAborts(lbas, 0)'
<1>1. PICK r : r = Head(ioRing)
  BY Zenon
<1>2. CASE ioState # "ABORTED" /\ ~stops(outstanding) /\ IoLbaAborts(r)
  <2>1. Crash /\ GetLbaAborts(lbas, 0)
    BY Zenon, <1>1, <1>2 DEF IoEngine, IoLbaAborts
  <2>2. UNCHANGED lbas
    BY Zenon, <2>1 DEF Crash, dataVars
  <2>3. QED
    BY Zenon, <2>1, <2>2 DEF GetLbaAborts, GetBlockAborts
<1>3. CASE ~(ioState # "ABORTED" /\ ~stops(outstanding) /\ IoLbaAborts(r))
  <2>1. IoHang \/ IoRefuse(r) \/ IoRead(r) \/ IoWrite(r) \/ IoRemove(r)
    BY Zenon, <1>1, <1>3 DEF IoEngine
  <2>2. ASSUME IoSubmit(r) PROVE UNCHANGED crashed
    BY Zenon, <2>2 DEF IoSubmit
  <2>3. QED
    BY Zenon, <2>1, <2>2 DEF IoHang, IoRefuse, IoRead, IoWrite, IoRemove
<1>4. QED
  BY Zenon, <1>2, <1>3

\* No client, no completion and no poller ends the process.
LEMMA OthersNeverEnd ==
  /\ \A c \in Clients : ClientCall(c) \/ ClientStep(c) \/ Quiesce(c) => UNCHANGED crashed
  /\ \A r \in Rqsts : Device(r) \/ QueueIoWait(r) => UNCHANGED crashed
  /\ Poller \/ FinGetEnd \/ FinUpdateEnd => UNCHANGED crashed
<1>1. ASSUME NEW c \in Clients, ClientCall(c) PROVE UNCHANGED crashed
  BY Zenon, <1>1 DEF ClientCall, Alloc, Update, UpdateAsync, UpdateAsyncMissing, Get, GetAsync,
     RemoveOffloaded
<1>2. ASSUME NEW c \in Clients, ClientStep(c) \/ Quiesce(c) PROVE UNCHANGED crashed
  BY Zenon, <1>2 DEF ClientStep, Put, GetCopy, Return, TimeOut, QuiesceEnd, Quiesce
<1>3. ASSUME NEW r \in Rqsts, Device(r) \/ QueueIoWait(r) PROVE UNCHANGED crashed
  BY Zenon, <1>3 DEF Device, QueueIoWait, WriteComplete, ReadComplete, ToFinalizer
<1>4. Poller \/ FinGetEnd \/ FinUpdateEnd => UNCHANGED crashed
  BY Zenon DEF Poller, FinGetEnd, FinUpdateEnd
<1>5. QED
  BY Zenon, <1>1, <1>2, <1>3, <1>4

\* The pipeline ends the process only when the device is full: no reservation is
\* cancelled twice and nothing is removed twice (FinalizePoller::_processUpdate,
\* _processRemove), for any number of keys, clients and requests and any device
\* failure, when the clients use a key one at a time and remove nothing.
THEOREM PipelineEndsOnlyWhenFull ==
  ASSUME Exclusive, "REMOVE_DISK" \notin Ops
  PROVE  Spec => [](NoCrash \/ GetLbaAborts(lbas, 0))
<1>1. Init => EndsOnlyWhenFull
  BY Zenon DEF Init, EndsOnlyWhenFull, NoCrash
<1>2. ASSUME PipelineInv, DataInv, EndsOnlyWhenFull, [Next]_vars
      PROVE  EndsOnlyWhenFull'
  <2>1. CASE UNCHANGED vars
    <3>1. UNCHANGED <<crashed, lbas>>
      BY Zenon, <2>1 DEF vars, dataVars
    <3>2. QED
      BY Zenon, <1>2, <3>1 DEF EndsOnlyWhenFull, NoCrash, GetLbaAborts, GetBlockAborts
  <2>2. CASE ~crashed /\ Running
    <3>1. UNCHANGED crashed \/ GetLbaAborts(lbas, 0)'
      BY Zenon, <1>2, <2>2, FinalizerSafe, IoEngineEnds, OthersNeverEnd DEF Running
    <3>2. QED
      BY Zenon, <2>2, <3>1 DEF EndsOnlyWhenFull, NoCrash
  <2>3. QED
    BY Zenon, <1>2, <2>1, <2>2 DEF Next
<1>3. Spec => [](PipelineInv /\ DataInv)
  BY Zenon, DataInvariant
<1>4. QED
  BY <1>1, <1>2, <1>3, PTL DEF Spec, EndsOnlyWhenFull

-----------------------------------------------------------------------------
(***************************************************************************)
(* Where the value of a key is.                                            *)
(***************************************************************************)
LogicalAt(k) ==
  /\ \A r \in Rqsts : Moving(r) /\ rq[r].key = k => Logical(k) = disk[rq[r].freeLba]
  /\ tree[k].loc = "PMEM" /\ tree[k].act \in Cells
       => Logical(k) = cells[tree[k].act] /\ Logical(k) = Deref(tree[k].ptr)
  /\ tree[k].loc = "EMPTY" => Logical(k) = Nil
  /\ tree[k].loc = "DISK" => Logical(k) = disk[tree[k].ptr]

LogicalInv == \A k \in Keys : LogicalAt(k)

\* The value of a key is in its memory; on the device, at the LBA of the request
\* that has freed its memory; or on the device, at the LBA in the tree.
LEMMA LogicalIs == PipelineInv /\ DataInv => LogicalInv
<1> SUFFICES ASSUME PipelineInv, DataInv, NEW k \in Keys PROVE LogicalAt(k)
  BY Zenon DEF LogicalInv
<1>1. KeyInv(k) /\ Nil \notin Values
  BY Zenon, PipelineAssumption DEF DataInv, StoreInv
<1>2. CASE fin.pc = "update" /\ rq[fin.r].key = k
  <2>1. PICK r \in Rqsts : r = fin.r
    BY Zenon, <1>2, FinOwns
  <2>2. Moving(r) /\ RqInv(r) /\ \A s \in Rqsts : Moving(s) => s = r
    BY Zenon, <1>2, <2>1 DEF Moving, DataInv, StoreInv
  <2>3. tree[k].loc = "PMEM" /\ tree[k].act = Nil
    BY Zenon, <1>2, <2>1, <2>2 DEF RqInv
  <2>4. tree[k].act \notin Cells
    BY Zenon, <2>3, PipelineAssumption
  <2>5. Logical(k) = disk[rq[r].freeLba]
    BY Zenon, <1>2, <2>1 DEF Logical
  <2>6. QED
    BY Zenon, <2>2, <2>3, <2>4, <2>5 DEF LogicalAt
<1>3. CASE ~(fin.pc = "update" /\ rq[fin.r].key = k)
  <2>1. ASSUME NEW r \in Rqsts, Moving(r), rq[r].key = k PROVE FALSE
    BY Zenon, <1>3, <2>1 DEF Moving
  <2>2. CASE tree[k].loc = "PMEM"
    <3>1. /\ tree[k].vol = "PMEM" /\ tree[k].ptr = tree[k].act
          /\ tree[k].act \in Cells /\ cells[tree[k].act] \in Values
      BY Zenon, <1>1, <2>1, <2>2 DEF KeyInv
    <3>2. Deref(tree[k].ptr) = cells[tree[k].act]
      BY Zenon, <1>1, <3>1 DEF Deref
    <3>3. Logical(k) = Deref(tree[k].ptr)
      BY Zenon, <1>3, <2>2, <3>1 DEF Logical, Found
    <3>4. QED
      BY Zenon, <2>1, <2>2, <3>2, <3>3 DEF LogicalAt
  <2>3. CASE tree[k].loc # "PMEM"
    BY Zenon, <1>3, <2>1, <2>3 DEF LogicalAt, Logical, Found
  <2>4. QED
    BY Zenon, <2>2, <2>3
<1>4. QED
  BY Zenon, <1>2, <1>3

\* A Get returns the value that its key has at that moment, from persistent memory
\* or from the device: the location that KVStore::Get saw is still right, and the
\* block that was read is the key's.  The hypothesis on the faults is needed:
\* SpdkBdev::reschedule repeats a read that found no buffer as a write.
THEOREM PipelineGetReturnsStored ==
  ASSUME Exclusive, "REMOVE_DISK" \notin Ops, "ENOMEM" \notin Faults
  PROVE  Spec => []GetReturnsStored
<1>1. PipelineInv /\ DataInv => GetReturnsStored
  <2> SUFFICES ASSUME PipelineInv, DataInv, NEW c \in Clients
               PROVE  /\ call[c].pc = "copy" => Deref(call[c].ptr) = Logical(call[c].key)
                      /\ /\ call[c].pc = "wait" /\ call[c].op = "GET"
                         /\ call[c].ready /\ call[c].ok
                         => call[c].val = Logical(call[c].key)
    BY Zenon DEF GetReturnsStored
  <2>1. CallInv(c)
    BY Zenon DEF DataInv
  <2>2. ASSUME call[c].pc = "copy"
        PROVE  Deref(call[c].ptr) = Logical(call[c].key)
    <3>1. PICK k \in Keys : k = call[c].key
      BY Zenon, <2>1, <2>2 DEF CallInv
    <3>2. /\ tree[k].loc = "PMEM" /\ tree[k].act \in Cells
          /\ call[c].ptr = tree[k].act
      BY Zenon, <2>1, <2>2, <3>1 DEF CallInv
    <3>3. tree[k].ptr = tree[k].act /\ LogicalAt(k)
      BY Zenon, <3>2, LogicalIs DEF LogicalInv, DataInv, StoreInv, KeyInv
    <3>4. QED
      BY Zenon, <3>1, <3>2, <3>3 DEF LogicalAt
  <2>3. ASSUME call[c].pc = "wait", call[c].op = "GET", call[c].ready, call[c].ok
        PROVE  call[c].val = Logical(call[c].key)
    <3>1. PICK k \in Keys : k = call[c].key
      BY Zenon, <2>1, <2>3 DEF CallInv
    <3>2. tree[k].loc = "DISK" /\ call[c].val = disk[tree[k].ptr]
      BY Zenon, <2>1, <2>3, <3>1 DEF CallInv
    <3>3. LogicalAt(k)
      BY Zenon, LogicalIs DEF LogicalInv
    <3>4. QED
      BY Zenon, <3>1, <3>2, <3>3 DEF LogicalAt
  <2>4. QED
    BY Zenon, <2>2, <2>3
<1>2. Spec => [](PipelineInv /\ DataInv)
  BY Zenon, DataInvariant
<1>3. QED
  BY <1>1, <1>2, PTL

-----------------------------------------------------------------------------
(***************************************************************************)
(* Refinement.                                                             *)
(***************************************************************************)
\* The request whose value the finalizer is moving is changed by the finalizer
\* alone: no thread finds it in a ring or in a pool, and the caller that times
\* out leaves an UPDATE request its key.
LEMMA MovingKept ==
  ASSUME PipelineInv, DataInv, Running, ~FinUpdateEnd, NEW r \in Rqsts, Moving(r)
  PROVE  Moving(r)' /\ rq'[r] = rq[r]
<1> USE DEF rqstVars, bdevVars, dataVars
<1>1. /\ fin.pc = "update" /\ fin.r = r /\ pool[r] = 0
      /\ r \notin Held(offRing) /\ r \notin Held(ioRing)
      /\ r \notin inDev /\ r \notin ioWait
  BY Zenon, FinOwns DEF Moving
<1>2. RqInv(r) /\ rq[r].op = "UPDATE" /\ DOMAIN rq = Rqsts
  BY Zenon DEF DataInv, StoreInv, RqInv, Offloads, DataTypes
<1>3. SUFFICES fin' = fin /\ rq'[r] = rq[r]
  BY Zenon, <1>1 DEF Moving
<1>4. ASSUME NEW s \in Rqsts, NEW op, NEW k, NEW value, NEW loc, NEW clb, NEW n,
             Submit(s, op, k, value, loc, clb, n)
      PROVE  rq'[r] = rq[r]
  <2>1. s # r
    BY <1>1, <1>4 DEF Submit, InPool
  <2>2. QED
    BY Zenon, <1>2, <1>4, <2>1 DEF Submit
<1>5. ASSUME NEW c \in Clients, ClientCall(c) PROVE fin' = fin /\ rq'[r] = rq[r]
  <2>1. PICK k \in Keys : \/ \E v \in Values : Alloc(c, k, v)
                          \/ Update(c, k) \/ UpdateAsync(c, k) \/ UpdateAsyncMissing(c, k)
                          \/ Get(c, k) \/ GetAsync(c, k) \/ RemoveOffloaded(c, k)
    BY Zenon, <1>5 DEF ClientCall
  <2>2. fin' = fin
    BY Zenon, <2>1 DEF Alloc, Update, UpdateAsync, UpdateAsyncMissing, Get, GetAsync,
                       RemoveOffloaded
  <2>3. CASE \E v \in Values : Alloc(c, k, v)
    BY Zenon, <2>2, <2>3 DEF Alloc
  <2>4. CASE Update(c, k)
    <3>1. PICK v, loc : v = tree[k].ptr /\ loc = tree[k].loc
      BY Zenon
    <3>2. QED
      BY Zenon, <1>4, <2>2, <2>4, <3>1 DEF Update
  <2>5. CASE UpdateAsync(c, k)
    <3>1. PICK v, loc : v = tree[k].ptr /\ loc = tree[k].loc
      BY Zenon
    <3>2. QED
      BY Zenon, <1>4, <2>2, <2>5, <3>1 DEF UpdateAsync
  <2>6. CASE UpdateAsyncMissing(c, k)
    BY Zenon, <1>4, <2>2, <2>6 DEF UpdateAsyncMissing
  <2>7. CASE Get(c, k)
    BY Zenon, <1>4, <2>2, <2>7 DEF Get
  <2>8. CASE GetAsync(c, k)
    BY Zenon, <1>4, <2>2, <2>8 DEF GetAsync
  <2>9. CASE RemoveOffloaded(c, k)
    BY Zenon, <1>4, <2>2, <2>9 DEF RemoveOffloaded
  <2>10. QED
    BY Zenon, <2>1, <2>3, <2>4, <2>5, <2>6, <2>7, <2>8, <2>9
<1>6. ASSUME NEW c \in Clients, TimeOut(c) PROVE fin' = fin /\ rq'[r] = rq[r]
  <2>1. CASE UNCHANGED rq
    BY Zenon, <1>6, <2>1 DEF TimeOut
  <2>2. CASE rq' # rq
    <3>1. PICK s \in Rqsts : s = call[c].r
      BY Zenon, <1>6 DEF TimeOut, DataInv, CallInv
    <3>2. Waits(c, s) /\ call[c].op # "UPDATE"
      BY Zenon, <1>6, <2>2, <3>1 DEF TimeOut, Waits
    <3>3. s # r
      BY Zenon, <1>2, <3>2 DEF DataInv, UseInv
    <3>4. PICK k \in Keys : rq' = [rq EXCEPT ![s].key = k]
      BY Zenon, <1>6, <2>2, <3>1 DEF TimeOut
    <3>5. QED
      BY Zenon, <1>2, <1>6, <3>3, <3>4 DEF TimeOut
  <2>3. QED
    BY Zenon, <2>1, <2>2
<1>7. ASSUME NEW c \in Clients, ClientStep(c) \/ Quiesce(c)
      PROVE  fin' = fin /\ rq'[r] = rq[r]
  BY Zenon, <1>6, <1>7 DEF ClientStep, Put, GetCopy, Return, QuiesceEnd, Quiesce
<1>8. CASE Poller
  <2>1. PICK s : s = Head(offRing)
    BY Zenon
  <2>2. s # r
    <3>1. offRing \in Seq(Rqsts) /\ offRing # <<>>
      BY Zenon, <1>8 DEF Poller, PipelineInv, TypeInv, TypeOK
    <3>2. QED
      BY Zenon, <1>1, <2>1, <3>1, HeldTail
  <2>3. QED
    BY Zenon, <1>2, <1>8, <2>1, <2>2 DEF Poller, PollerAnswer, PollerForward, PoolPut
<1>9. CASE IoEngine
  <2>1. PICK s : s = Head(ioRing)
    BY Zenon
  <2>2. s # r
    <3>1. ioRing \in Seq(Rqsts) /\ ioRing # <<>>
      BY Zenon, <1>9 DEF IoEngine, PipelineInv, TypeInv, TypeOK
    <3>2. QED
      BY Zenon, <1>1, <2>1, <3>1, HeldTail
  <2>3. CASE UNCHANGED <<rq, fin>>
    BY Zenon, <2>3
  <2>4. CASE IoRefuse(s) \/ IoRead(s) \/ IoRemove(s)
    BY Zenon, <1>2, <2>2, <2>4 DEF IoRefuse, IoRead, IoRemove, IoSubmit, PoolPut
  <2>5. CASE IoWrite(s)
    BY Zenon, <1>2, <2>2, <2>5 DEF IoWrite, IoSubmit
  <2>6. QED
    BY Zenon, <1>9, <2>1, <2>3, <2>4, <2>5 DEF IoEngine, Crash, IoHang
<1>10. ASSUME NEW s \in Rqsts, Device(s) \/ QueueIoWait(s)
       PROVE  fin' = fin /\ rq'[r] = rq[r]
  <2>1. s # r
    BY Zenon, <1>1, <1>10 DEF Device, QueueIoWait
  <2>2. QED
    BY Zenon, <1>2, <1>10, <2>1
       DEF Device, QueueIoWait, WriteComplete, ReadComplete, ToFinalizer
<1>11. ~Finalizer /\ ~FinGetEnd
  BY Zenon, <1>1 DEF Finalizer, FinGetEnd
<1>12. QED
  BY Zenon, <1>5, <1>7, <1>8, <1>9, <1>10, <1>11 DEF Running

\* A step that changes nothing about key k, in the tier its value is in, leaves it
\* its value.
LEMMA SameLogical ==
  ASSUME PipelineInv, DataInv, PipelineInv', DataInv', NEW k \in Keys,
         tree'[k] = tree[k],
         tree[k].loc = "PMEM" /\ tree[k].act \in Cells
           => cells'[tree[k].act] = cells[tree[k].act],
         tree[k].loc = "DISK" => disk'[tree[k].ptr] = disk[tree[k].ptr],
         \A r \in Rqsts : Moving(r) /\ rq[r].key = k
           => /\ Moving(r)' /\ rq'[r] = rq[r]
              /\ disk'[rq[r].freeLba] = disk[rq[r].freeLba]
  PROVE  Logical(k)' = Logical(k)
<1>1. LogicalAt(k)
  BY Zenon, LogicalIs DEF LogicalInv
<1>2. LogicalAt(k)'
  <2>1. (PipelineInv /\ DataInv => LogicalInv)'
    BY LogicalIs, PTL
  <2>2. QED
    BY Zenon, <2>1 DEF LogicalInv
<1>3. KeyInv(k) /\ tree[k] \in Wrapper
  BY Zenon DEF DataInv, StoreInv, DataTypes
<1>4. CASE \E r \in Rqsts : Moving(r) /\ rq[r].key = k
  <2>1. PICK r \in Rqsts : Moving(r) /\ rq[r].key = k
    BY Zenon, <1>4
  <2>2. /\ Moving(r)' /\ rq'[r] = rq[r]
        /\ disk'[rq[r].freeLba] = disk[rq[r].freeLba]
    BY Zenon, <2>1
  <2>3. Logical(k)' = disk'[rq'[r].freeLba]
    BY Zenon, <1>2, <2>1, <2>2 DEF LogicalAt
  <2>4. QED
    BY Zenon, <1>1, <2>1, <2>2, <2>3 DEF LogicalAt
<1>5. CASE tree[k].loc = "PMEM" /\ tree[k].act \in Cells
  BY Zenon, <1>1, <1>2, <1>5 DEF LogicalAt
<1>6. CASE tree[k].loc = "DISK"
  BY Zenon, <1>1, <1>2, <1>6 DEF LogicalAt
<1>7. CASE tree[k].loc = "EMPTY"
  BY Zenon, <1>1, <1>2, <1>7 DEF LogicalAt
<1>8. tree[k].loc \in {"PMEM", "DISK", "EMPTY"}
  BY Zenon, <1>3 DEF Wrapper, Locations
<1>9. QED
  BY Zenon, <1>3, <1>4, <1>5, <1>6, <1>7, <1>8 DEF KeyInv

\* A write that completes changes the LBA of its request only, where no key and no
\* other request has its value.
LEMMA WriteLogical ==
  ASSUME PipelineInv, DataInv, PipelineInv', DataInv', NEW s \in Rqsts, s \in inDev,
         NEW success, WriteComplete(s, success),
         \A r \in Rqsts : Moving(r) => Moving(r)' /\ rq'[r] = rq[r],
         NEW k \in Keys
  PROVE  Logical(k)' = Logical(k)
<1>1. UNCHANGED <<tree, cells>> /\ disk \in [DiskLbas -> Data] /\ LbaInv /\ BucketInv(lbas)
  BY Zenon DEF WriteComplete, ToFinalizer, DataInv, StoreInv, DataTypes
<1>2. PICK a : a = rq[s].freeLba
  BY Zenon
<1>3. \A l \in DiskLbas : l # a => disk'[l] = disk[l]
  BY Zenon, <1>1, <1>2 DEF WriteComplete
<1>4. ASSUME tree[k].loc = "DISK" PROVE disk'[tree[k].ptr] = disk[tree[k].ptr]
  <2>1. Spent(lbas, tree[k].ptr)
    BY Zenon, <1>4 DEF DataInv, StoreInv, KeyInv
  <2>2. tree[k].ptr \in DiskLbas
    BY Zenon, <1>1, <2>1, SpentLba
  <2>3. QED
    BY Zenon, <1>1, <1>2, <1>3, <1>4, <2>2 DEF LbaInv
<1>5. ASSUME NEW r \in Rqsts, Moving(r)
      PROVE  disk'[rq[r].freeLba] = disk[rq[r].freeLba]
  <2>1. Spent(lbas, rq[r].freeLba)
    BY Zenon, <1>5 DEF DataInv, StoreInv, RqInv
  <2>2. rq[r].freeLba \in DiskLbas /\ rq[r].freeLba # 0
    BY Zenon, <1>1, <2>1, SpentLba
  <2>3. r # s
    BY Zenon, <1>5, FinOwns DEF Moving
  <2>4. QED
    BY Zenon, <1>1, <1>2, <1>3, <2>2, <2>3 DEF LbaInv
<1>6. QED
  BY Zenon, <1>1, <1>4, <1>5, SameLogical

\* Alloc reserves memory that no key has, for a key that still has no value.
LEMMA AllocLogical ==
  ASSUME PipelineInv, DataInv, PipelineInv', DataInv', NEW c \in Clients,
         NEW j \in Keys, NEW v \in Values, Alloc(c, j, v),
         \A r \in Rqsts : Moving(r) => Moving(r)' /\ rq'[r] = rq[r],
         NEW k \in Keys
  PROVE  Logical(k)' = Logical(k)
<1>1. /\ DataTypes /\ UNCHANGED disk
      /\ tree[j].loc = "EMPTY" /\ Nil \notin Values
  BY Zenon, PipelineAssumption DEF Alloc, AllocValueForKey, DataInv, StoreInv
<1>2. PICK m \in Cells : /\ cells[m] = Nil /\ cells' = [cells EXCEPT ![m] = v]
                         /\ tree' = [tree EXCEPT ![j].ptr = m, ![j].act = m]
  BY Zenon DEF Alloc, AllocValueForKey
<1>3. CASE k = j
  <2>1. PICK w : w = [tree[j] EXCEPT !.ptr = m, !.act = m]
    BY Zenon
  <2>2. tree[j] \in Wrapper
    BY Zenon, <1>1 DEF DataTypes
  <2>3. w.loc = "EMPTY"
    BY Zenon, <1>1, <2>1, <2>2 DEF Wrapper
  <2>4. tree'[j] = w
    BY Zenon, <1>1, <1>2, <2>1 DEF DataTypes
  <2>5. (PipelineInv /\ DataInv => LogicalInv)'
    BY LogicalIs, PTL
  <2>6. LogicalAt(k) /\ LogicalAt(k)'
    BY Zenon, <2>5, LogicalIs DEF LogicalInv
  <2>7. QED
    BY Zenon, <1>1, <1>3, <2>3, <2>4, <2>6 DEF LogicalAt
<1>4. CASE k # j
  <2>1. tree'[k] = tree[k]
    BY Zenon, <1>1, <1>2, <1>4 DEF DataTypes
  <2>2. ASSUME tree[k].act \in Cells
        PROVE  cells'[tree[k].act] = cells[tree[k].act]
    <3>1. cells[tree[k].act] \in Values
      BY Zenon, <2>2 DEF DataInv, StoreInv, KeyInv
    <3>2. tree[k].act # m
      BY Zenon, <1>1, <1>2, <3>1
    <3>3. QED
      BY Zenon, <1>1, <1>2, <2>2, <3>2 DEF DataTypes
  <2>3. QED
    BY Zenon, <1>1, <2>1, <2>2, SameLogical
<1>5. QED
  BY Zenon, <1>3, <1>4

\* AllocateAndUpdateValueWrapper frees the memory of a value that is the same on
\* the device.
LEMMA FinUpdateLogical ==
  ASSUME PipelineInv, DataInv, PipelineInv', DataInv', ~crashed, ~crashed',
         fin.pc = "idle", NEW r \in Rqsts, pool[r] = 0, FinUpdate(r),
         UNCHANGED disk, NEW k \in Keys
  PROVE  Logical(k)' = Logical(k)
<1>1. PICK j : j = rq[r].key
  BY Zenon
<1>2. /\ rq[r].result /\ Offloads(r) /\ tree[j].act \in Cells
      /\ cells' = [cells EXCEPT ![tree[j].act] = Nil]
      /\ tree' = [tree EXCEPT ![j].act = Nil, ![j].ptr = Garbage]
      /\ fin' = [pc |-> "update", r |-> r, bufs |-> 0] /\ UNCHANGED rq
  BY Zenon, <1>1 DEF FinUpdate, CancelFaults, Moves, Offloads
<1>3. RqInv(r) /\ ~Moving(r) /\ Moving(r)' /\ Nil \notin Cells
  BY Zenon, <1>2, PipelineAssumption DEF DataInv, StoreInv, Moving
<1>4. /\ rq[r].value # Nil /\ tree[j].loc = "PMEM" /\ rq[r].value = tree[j].act
      /\ rq[r].io = "write" /\ rq[r].buf = cells[rq[r].value]
      /\ disk[rq[r].freeLba] = rq[r].buf
  BY Zenon, <1>1, <1>2, <1>3 DEF RqInv
<1>5. CASE k = j
  <2>1. (PipelineInv /\ DataInv => LogicalInv)'
    BY LogicalIs, PTL
  <2>2. LogicalAt(k) /\ LogicalAt(k)'
    BY Zenon, <2>1, LogicalIs DEF LogicalInv
  <2>3. Logical(k) = disk[rq[r].freeLba]
    BY Zenon, <1>2, <1>4, <1>5, <2>2 DEF LogicalAt
  <2>4. Logical(k)' = disk'[rq'[r].freeLba]
    BY Zenon, <1>1, <1>2, <1>3, <1>5, <2>2 DEF LogicalAt
  <2>5. QED
    BY Zenon, <1>2, <2>3, <2>4
<1>6. CASE k # j
  <2>1. DataTypes /\ CellInv
    BY Zenon DEF DataInv, StoreInv
  <2>2. tree'[k] = tree[k]
    BY Zenon, <1>2, <1>6, <2>1 DEF DataTypes
  <2>3. j \in Keys
    BY Zenon, <1>1, <1>2, OffloadAlone
  <2>4. ASSUME tree[k].act \in Cells
        PROVE  cells'[tree[k].act] = cells[tree[k].act]
    BY Zenon, <1>2, <1>6, <2>1, <2>3, <2>4 DEF DataTypes, CellInv
  <2>5. \A s \in Rqsts : ~Moving(s)
    BY Zenon DEF Moving
  <2>6. QED
    BY Zenon, <2>2, <2>4, <2>5, SameLogical
<1>7. QED
  BY Zenon, <1>5, <1>6

\* The finalizer publishes the LBA of the value.
LEMMA FinUpdateEndLogical ==
  ASSUME PipelineInv, DataInv, PipelineInv', DataInv', FinUpdateEnd, NEW k \in Keys
  PROVE  Logical(k)' = Logical(k)
<1>1. PICK r \in Rqsts : r = fin.r
  BY Zenon, FinOwns DEF FinUpdateEnd
<1>2. PICK j : j = rq[r].key
  BY Zenon
<1>3. Moving(r) /\ \A s \in Rqsts : Moving(s) => s = r
  BY Zenon, <1>1 DEF FinUpdateEnd, Moving
<1>4. /\ UNCHANGED <<cells, disk>> /\ DataTypes
      /\ tree' = [tree EXCEPT ![j].ptr = rq[r].freeLba, ![j].loc = "DISK"]
  BY Zenon, <1>1, <1>2 DEF FinUpdateEnd, DataInv, StoreInv
<1>5. CASE k = j
  <2>1. PICK w : w = [tree[j] EXCEPT !.ptr = rq[r].freeLba, !.loc = "DISK"]
    BY Zenon
  <2>2. tree[j] \in Wrapper
    BY Zenon, <1>4, <1>5 DEF DataTypes
  <2>3. w.loc = "DISK" /\ w.ptr = rq[r].freeLba
    BY Zenon, <2>1, <2>2 DEF Wrapper
  <2>4. tree'[j] = w
    BY Zenon, <1>4, <1>5, <2>1 DEF DataTypes
  <2>5. (PipelineInv /\ DataInv => LogicalInv)'
    BY LogicalIs, PTL
  <2>6. LogicalAt(k) /\ LogicalAt(k)'
    BY Zenon, <2>5, LogicalIs DEF LogicalInv
  <2>7. Logical(k) = disk[rq[r].freeLba]
    BY Zenon, <1>2, <1>3, <1>5, <2>6 DEF LogicalAt
  <2>8. Logical(k)' = disk'[rq[r].freeLba]
    BY Zenon, <1>5, <2>3, <2>4, <2>6 DEF LogicalAt
  <2>9. QED
    BY Zenon, <1>4, <2>7, <2>8
<1>6. CASE k # j
  <2>1. tree'[k] = tree[k]
    BY Zenon, <1>4, <1>6 DEF DataTypes
  <2>2. QED
    BY Zenon, <1>2, <1>3, <1>4, <1>6, <2>1, SameLogical
<1>7. QED
  BY Zenon, <1>5, <1>6

\* Put gives its key, which had none, the value that its client wrote to the
\* memory, and changes no other key.
LEMMA PutLogical ==
  ASSUME PipelineInv, DataInv, PipelineInv', DataInv', NEW c \in Clients, Put(c),
         \A r \in Rqsts : Moving(r) => Moving(r)' /\ rq'[r] = rq[r]
  PROVE  \E j \in Keys, v \in Values :
           /\ Logical(j) = Nil /\ Logical(j)' = v
           /\ \A k \in Keys : k # j => Logical(k)' = Logical(k)
<1>1. PICK j \in Keys : j = call[c].key
  BY Zenon DEF Put, DataInv, CallInv
<1>2. PICK m : m = tree[j].act
  BY Zenon
<1>3. /\ DataTypes /\ UNCHANGED <<cells, disk>>
      /\ tree' = [tree EXCEPT ![j].vol = "PMEM", ![j].loc = "PMEM"]
      /\ tree[j].loc = "EMPTY" /\ m \in Cells /\ cells[m] \in Values
  BY Zenon, <1>1, <1>2 DEF Put, TreePut, DataInv, StoreInv, CallInv, KeyInv
<1>4. (PipelineInv /\ DataInv => LogicalInv)'
  BY LogicalIs, PTL
<1>5. LogicalAt(j) /\ LogicalAt(j)'
  BY Zenon, <1>4, LogicalIs DEF LogicalInv
<1>6. PICK w : w = [tree[j] EXCEPT !.vol = "PMEM", !.loc = "PMEM"]
  BY Zenon
<1>7. tree[j] \in Wrapper
  BY Zenon, <1>3 DEF DataTypes
<1>8. w.loc = "PMEM" /\ w.act = m
  BY Zenon, <1>2, <1>6, <1>7 DEF Wrapper
<1>9. tree'[j] = w
  BY Zenon, <1>3, <1>6 DEF DataTypes
<1>10. Logical(j) = Nil /\ Logical(j)' = cells[m]
  BY Zenon, <1>3, <1>5, <1>8, <1>9 DEF LogicalAt
<1>11. ASSUME NEW k \in Keys, k # j PROVE Logical(k)' = Logical(k)
  <2>1. tree'[k] = tree[k]
    BY Zenon, <1>3, <1>11 DEF DataTypes
  <2>2. QED
    BY Zenon, <1>3, <2>1, SameLogical
<1>12. QED
  BY Zenon, <1>3, <1>10, <1>11

\* The other steps change no value and no place of one.
LEMMA OtherSteps ==
  ASSUME PipelineInv, PipelineInv', DataInv, "REMOVE_DISK" \notin Ops, Running
  PROVE  \/ \E c \in Clients : Put(c)
         \/ \E c \in Clients, k \in Keys, v \in Values : Alloc(c, k, v)
         \/ \E s \in Rqsts, success \in BOOLEAN : s \in inDev /\ WriteComplete(s, success)
         \/ Finalizer /\ \E r \in Rqsts : pool[r] = 0 /\ FinUpdate(r)
         \/ FinUpdateEnd
         \/ UNCHANGED <<tree, cells, disk>>
<1> USE DEF dataVars
<1>1. ASSUME NEW c \in Clients, ClientCall(c) \/ ClientStep(c) \/ Quiesce(c)
      PROVE  \/ Put(c)
             \/ \E k \in Keys, v \in Values : Alloc(c, k, v)
             \/ UNCHANGED <<tree, cells, disk>>
  BY Zenon, <1>1
     DEF ClientCall, ClientStep, Update, UpdateAsync, UpdateAsyncMissing, Get, GetAsync,
         RemoveOffloaded, GetCopy, Return, TimeOut, Quiesce, QuiesceEnd
<1>2. CASE Poller
  BY Zenon, <1>2 DEF Poller
<1>3. CASE IoEngine
  BY Zenon, <1>3 DEF IoEngine, Crash, IoHang, IoRefuse, IoRead, IoWrite, IoRemove
<1>4. ASSUME NEW s \in Rqsts, Device(s)
      PROVE  \/ \E success \in BOOLEAN : s \in inDev /\ WriteComplete(s, success)
             \/ UNCHANGED <<tree, cells, disk>>
  BY Zenon, <1>4 DEF Device, Outcomes, ReadComplete, ToFinalizer
<1>5. ASSUME NEW s \in Rqsts, QueueIoWait(s) PROVE UNCHANGED <<tree, cells, disk>>
  BY Zenon, <1>5 DEF QueueIoWait
<1>6. CASE Finalizer
  <2>1. PICK r : r = Head(finRing)
    BY Zenon
  <2>2. finRing \in Seq(Rqsts) /\ finRing # <<>>
    BY Zenon, <1>6 DEF Finalizer, PipelineInv, TypeInv, TypeOK
  <2>3. r \in Rqsts /\ r \in Held(finRing)
    BY Zenon, <2>1, <2>2, HeldTail
  <2>4. pool[r] = 0 /\ rq[r].op # "REMOVE"
    <3>1. OwnAt(r) /\ pool[r] \in Nat /\ rq[r].op # "REMOVE"
      BY Zenon, <2>3 DEF PipelineInv, OwnInv, TypeInv, TypeOK, ModeInv, OpOK
    <3>2. pool[r] # 1 /\ pool[r] <= 1
      BY Zenon, <2>3, <3>1 DEF OwnAt
    <3>3. QED
      BY <3>1, <3>2
  <2>5. FinDrop(r) \/ FinGet(r) \/ FinUpdate(r) \/ FinAnswer(r) \/ FinRemove(r)
    BY Zenon, <1>6, <2>1 DEF Finalizer
  <2>6. UNCHANGED disk
    BY Zenon, <1>6 DEF Finalizer
  <2>7. QED
    BY Zenon, <1>6, <2>3, <2>4, <2>5, <2>6 DEF FinDrop, FinGet, FinAnswer, FinRemove
<1>7. CASE FinGetEnd
  BY Zenon, <1>7 DEF FinGetEnd
<1>8. QED
  BY Zenon, <1>1, <1>2, <1>3, <1>4, <1>5, <1>6, <1>7 DEF Running

\* Every step is one of the map, or leaves the map as it is.
LEMMA StepMaps ==
  ASSUME PipelineInv, DataInv, PipelineInv', DataInv', "REMOVE_DISK" \notin Ops,
         [Next]_vars
  PROVE  \/ \E j \in Keys, v \in Values :
              /\ Logical(j) = Nil /\ Logical(j)' = v
              /\ \A k \in Keys : k # j => Logical(k)' = Logical(k)
         \/ \A k \in Keys : Logical(k)' = Logical(k)
<1>1. CASE UNCHANGED vars
  <2>1. UNCHANGED <<tree, cells, disk, rq, fin>>
    BY Zenon, <1>1 DEF vars, dataVars, rqstVars
  <2>2. QED
    BY Zenon, <2>1 DEF Logical, Found, Deref
<1>2. CASE FinUpdateEnd
  BY Zenon, <1>2, FinUpdateEndLogical
<1>3. CASE ~crashed /\ Running /\ ~FinUpdateEnd
  <2>1. \A r \in Rqsts : Moving(r) => Moving(r)' /\ rq'[r] = rq[r]
    BY Zenon, <1>3, MovingKept
  <2>2. ASSUME NEW c \in Clients, Put(c)
        PROVE  \E j \in Keys, v \in Values :
                 /\ Logical(j) = Nil /\ Logical(j)' = v
                 /\ \A k \in Keys : k # j => Logical(k)' = Logical(k)
    BY Zenon, <2>1, <2>2, PutLogical
  <2>3. ASSUME NEW c \in Clients, NEW j \in Keys, NEW v \in Values, Alloc(c, j, v),
               NEW k \in Keys
        PROVE  Logical(k)' = Logical(k)
    BY Zenon, <2>1, <2>3, AllocLogical
  <2>4. ASSUME NEW s \in Rqsts, NEW success \in BOOLEAN, s \in inDev,
               WriteComplete(s, success), NEW k \in Keys
        PROVE  Logical(k)' = Logical(k)
    BY Zenon, <2>1, <2>4, WriteLogical
  <2>5. ASSUME NEW r \in Rqsts, pool[r] = 0, Finalizer, FinUpdate(r), NEW k \in Keys
        PROVE  Logical(k)' = Logical(k)
    <3>1. fin.pc = "idle" /\ UNCHANGED disk
      BY Zenon, <2>5 DEF Finalizer
    <3>2. CASE crashed'
      <4>1. UNCHANGED <<tree, cells, disk, rq, fin>>
        BY Zenon, <1>3, <2>5, <3>1, <3>2 DEF FinUpdate
      <4>2. QED
        BY Zenon, <4>1 DEF Logical, Found, Deref
    <3>3. QED
      BY Zenon, <1>3, <2>5, <3>1, <3>2, FinUpdateLogical
  <2>6. ASSUME UNCHANGED <<tree, cells, disk>>, NEW k \in Keys
        PROVE  Logical(k)' = Logical(k)
    BY Zenon, <2>1, <2>6, SameLogical
  <2>7. QED
    BY Zenon, <1>3, <2>2, <2>3, <2>4, <2>5, <2>6, OtherSteps
<1>4. QED
  BY Zenon, <1>1, <1>2, <1>3 DEF Next

\* The store is a map, whatever tier a value is in: offloading a value, reading it
\* and failing at either never changes the value of a key, and the only step that
\* does is the Put of a key that has none.  For any number of keys, values,
\* clients and requests, any ring size and any device failure, with callers that
\* time out and an offload that is quiesced or aborted at any moment, when the
\* clients use a key one at a time and remove nothing (KVStore::Alloc, Put, Update,
\* Get; OffloadPoller, SpdkIoEngine, SpdkBdev and FinalizePoller).
THEOREM PipelineRefinesMap ==
  ASSUME Exclusive, "REMOVE_DISK" \notin Ops
  PROVE  Spec => RefinesMap
<1>1. Init => Map!Init
  <2> SUFFICES ASSUME Init PROVE \A k \in Keys : Logical(k) = Nil
    BY Zenon DEF Map!Init
  <2>1. ASSUME NEW k \in Keys PROVE Logical(k) = Nil
    <3>1. tree[k].loc = "EMPTY" /\ fin.pc = "idle"
      BY Zenon DEF Init, IdleFin
    <3>2. QED
      BY Zenon, <3>1 DEF Logical, Found
  <2>2. QED
    BY Zenon, <2>1
<1>2. ASSUME PipelineInv, DataInv, PipelineInv', DataInv', [Next]_vars
      PROVE  [Map!Next]_([k \in Keys |-> Logical(k)])
  <2>1. CASE \A k \in Keys : Logical(k)' = Logical(k)
    BY Zenon, <2>1
  <2>2. ASSUME NEW j \in Keys, NEW v \in Values, Logical(j) = Nil, Logical(j)' = v,
               \A k \in Keys : k # j => Logical(k)' = Logical(k)
        PROVE  Map!Next
    <3>1. Map!Insert(j, v)
      BY Zenon, <2>2 DEF Map!Insert
    <3>2. QED
      BY Zenon, <3>1 DEF Map!Next
  <2>3. QED
    BY Zenon, <1>2, <2>1, <2>2, StepMaps
<1>3. Spec => [](PipelineInv /\ DataInv)
  BY Zenon, DataInvariant
<1>4. QED
  BY <1>1, <1>2, <1>3, PTL DEF Spec, RefinesMap, Map!Spec
=============================================================================
