------------------------------ MODULE Minidaq ------------------------------
(***************************************************************************)
(* The benchmark apps/minidaq on one node: a readout node whose executors  *)
(* store events, with Put or with PutAsync, and a filter node whose        *)
(* executors fetch them, by GetAny or by counting, and then remove them or *)
(* send them to the disk with UpdateAsync.                                 *)
(*                                                                         *)
(* Executors share the store: the tree, the ring of ready keys, the ring   *)
(* of a PmemPoller and the queue of the offload.  Completions are counted  *)
(* by callbacks, on the threads of the pollers, in two counters on the     *)
(* stack of the executor.  Timers may expire at any time.                  *)
(***************************************************************************)
EXTENDS Integers, Sequences, FiniteSets

CONSTANTS NRo, NFf,      \* executors of the two nodes: n-ro or n-aro, and n-ff
          NSub,          \* fragments of an event that the filter asks for
          MaxIterations, \* max-iters
          MaxRetries,    \* MinidaqFfNode::_maxRetries
          MaxReady, MaxRing, MaxOffload,   \* capacities of the three rings
          Modes          \* the ways to run: async, seq, parallel, stopOnError, offload

ASSUME MinidaqAssumption ==
    NRo \in Nat /\ NFf \in Nat /\ NSub \in Nat /\ MaxIterations \in Nat

VARIABLES mode,     \* how this benchmark was started
          ex,       \* the executors
          stopped,  \* MinidaqNode::_stopped of each node
          waited,   \* Wait has returned for the node
          tree,     \* where the value of a key is: none, pmem or disk
          ready,    \* PrimaryKeyNextQueue::_readyKeys
          ring,     \* PmemPoller::rqstRing
          offload,  \* updates that were accepted and not yet completed
          quiesced, \* some executor called QuiesceOffload
          hung,     \* QuiesceOffload gave up: the I/O thread waits for itself
          taken     \* history: how often an event was removed or sent to the disk

vars == <<mode, ex, stopped, waited, tree, ready, ring, offload, quiesced, hung, taken>>

Nodes == {"ro", "ff"}
Count == [ro |-> NRo, ff |-> NFf]
Executors == {e \in Nodes \X (0 .. NRo + NFf) : e[2] < Count[e[1]]}
Events == 0 .. MaxIterations * (NRo + NFf)
KeysOf == Events \X (0 .. NSub - 1)

(* The locals of _Execute and of _Task.  c and cErr are not initialized in  *)
(* the ramp-up, and not read; due is a history: the completions since the   *)
(* ramp-up that no sample has.                                              *)
NewExecutor(id) ==
    [pc |-> "idle", phase |-> "ramp", i |-> 0, next |-> id, ev |-> 0, frag |-> 0,
     accept |-> FALSE, tries |-> 0, c |-> 0, cErr |-> 0, due |-> 0]

Init ==
    /\ mode \in Modes
    /\ ex = [e \in Executors |-> NewExecutor(e[2])]
    /\ stopped = [n \in Nodes |-> FALSE]
    /\ waited = [n \in Nodes |-> FALSE]
    /\ tree = [k \in KeysOf |-> "none"]
    /\ ready = <<>> /\ ring = <<>> /\ offload = {}
    /\ quiesced = FALSE /\ hung = FALSE
    /\ taken = [v \in Events |-> 0]

storeVars == <<tree, ready, ring, offload>>

At(e, pc) == ex[e].pc = pc

-----------------------------------------------------------------------------
\* Mutated form of Run: a node waits for its own end, not for the readout's.
MutRunAwaitsItself(n) ==
    /\ \A e \in Executors : e[1] = n => At(e, "idle")
    /\ n = "ro" \/ waited[n]
    /\ ex' = [e \in Executors |-> IF e[1] = n THEN [ex[e] EXCEPT !.pc = "after"] ELSE ex[e]]
    /\ UNCHANGED <<mode, stopped, waited, storeVars, quiesced, hung, taken>>

(* MinidaqNode::Run, for all the nodes of runBenchmark: both at once, or    *)
(* the filter after the readout.                                            *)
Run(n) ==
    /\ \A e \in Executors : e[1] = n => At(e, "idle")
    /\ mode.parallel \/ n = "ro" \/ waited["ro"]
    /\ ex' = [e \in Executors |-> IF e[1] = n THEN [ex[e] EXCEPT !.pc = "after"] ELSE ex[e]]
    /\ UNCHANGED <<mode, stopped, waited, storeVars, quiesced, hung, taken>>

(* MinidaqNode::Wait: all the executors of the node have returned.          *)
Wait(n) ==
    /\ ~waited[n]
    /\ \A e \in Executors : e[1] = n => At(e, "done")
    /\ waited' = [waited EXCEPT ![n] = TRUE]
    /\ UNCHANGED <<mode, ex, stopped, storeVars, quiesced, hung, taken>>

(* _Execute: an iteration begins, or the last one was the last; the timer   *)
(* of the test may also have expired.                                       *)
Iteration(x) ==
    IF x.i = MaxIterations THEN [x EXCEPT !.pc = "quiesce"]
    ELSE [x EXCEPT !.i = @ + 1, !.pc = "key", !.tries = 0]

TestLoop(x) == {Iteration(x), [x EXCEPT !.pc = "quiesce"]}

(* The end of the ramp-up, and of a sample.                                 *)
Ramped(x) == [x EXCEPT !.phase = "test", !.c = 0, !.cErr = 0]

\* Mutated form of RecordSample: the counters are read and not cleared.
MutRecordSampleKeeps(x) == [x EXCEPT !.due = @ - (x.c + x.cErr)]

RecordSample(x) == [x EXCEPT !.due = @ - (x.c + x.cErr), !.c = 0, !.cErr = 0]

(* What follows an iteration.  In the ramp-up: another one, unless stopped, *)
(* or the test; in the test: the end, if stopped, another one in the same   *)
(* sample, or the record of the sample and the next one.                    *)
Following(x, stop) ==
    IF x.phase = "ramp"
    THEN TestLoop(Ramped(x)) \cup (IF stop \/ x.i = MaxIterations THEN {} ELSE {Iteration(x)})
    ELSE IF stop THEN {[x EXCEPT !.pc = "quiesce"]}
         ELSE {Iteration(x)} \cup TestLoop(RecordSample(x))

Loop(e) ==
    /\ At(e, "after")
    /\ \E x \in Following(ex[e], stopped[e[1]]) :
         /\ ex' = [ex EXCEPT ![e] = x]
         /\ stopped' = [stopped EXCEPT ![e[1]] = @ \/ x.pc = "quiesce"]
    /\ UNCHANGED <<mode, waited, storeVars, quiesced, hung, taken>>

(* A counter goes up, by the task itself or by its callback.                *)
Counted(x, ok) ==
    IF x.phase = "ramp" THEN x
    ELSE [x EXCEPT !.c = @ + (IF ok THEN 1 ELSE 0), !.cErr = @ + (IF ok THEN 0 ELSE 1),
                   !.due = @ + 1]

(* The task is over: its locals are gone.                                   *)
Over(x) == [x EXCEPT !.pc = "after", !.ev = 0, !.frag = 0, !.accept = FALSE, !.tries = 0]

(* catch (...) of both loops: x is the executor after what the task did.    *)
Throw(e, x) ==
    /\ ex' = [ex EXCEPT ![e] = Over(x)]
    /\ stopped' = [stopped EXCEPT ![e[1]] = @ \/ mode.stopOnError]

(* QuiesceOffload(true): for both nodes at once, as they share the store.   *)
(* It gives up when updates are still on their way.                         *)
Quiesce(e) ==
    /\ At(e, "quiesce")
    /\ ex' = [ex EXCEPT ![e] = [@ EXCEPT !.pc = "asleep", !.c = 0, !.cErr = 0, !.due = 0]]
    /\ quiesced' = mode.offload
    /\ hung' \in {hung, hung \/ offload # {}}
    /\ UNCHANGED <<mode, stopped, waited, storeVars, taken>>

(* The loop that waits for the completions: both counters were zeroed, the  *)
(* executor slept, and leaves when nothing came.                            *)
Return(e) ==
    /\ At(e, "asleep")
    /\ ex' = [ex EXCEPT ![e] =
         IF @.c > 0 \/ @.cErr > 0 THEN [@ EXCEPT !.c = 0, !.cErr = 0, !.due = 0]
         ELSE [NewExecutor(0) EXCEPT !.pc = "done"]]
    /\ UNCHANGED <<mode, stopped, waited, storeVars, quiesced, hung, taken>>

-----------------------------------------------------------------------------
\* Mutated form of Fresh: the executors of a node do not skip the numbers of
\* one another.
MutFreshByOne(x, n) == [x EXCEPT !.ev = x.next, !.next = @ + 1, !.frag = 0]

(* _NextKey of the nodes that count: a key of the executor's next event.    *)
Fresh(x, n) == [x EXCEPT !.ev = x.next, !.next = @ + n, !.frag = 0]

(* The readout: Alloc takes a value, or throws.  What Put does is visible   *)
(* to the filter in two steps.                                              *)
AllocFails(e) ==
    /\ At(e, "key") /\ e[1] = "ro"
    /\ Throw(e, Fresh(ex[e], NRo))
    /\ UNCHANGED <<mode, waited, storeVars, quiesced, hung, taken>>

Put(e) ==
    /\ At(e, "key") /\ e[1] = "ro" /\ ~mode.async
    /\ ex' = [ex EXCEPT ![e] = [Fresh(@, NRo) EXCEPT !.pc = "announce"]]
    /\ tree' = [tree EXCEPT ![<<ex[e].next, 0>>] = "pmem"]
    /\ UNCHANGED <<mode, stopped, waited, ready, ring, offload, quiesced, hung, taken>>

(* enqueueNext: without ready keys it does nothing; the ring takes the key, *)
(* or is full and the value is removed.                                     *)
Announce(e) ==
    /\ At(e, "announce")
    /\ mode.seq \/ Len(ready) < MaxReady
    /\ ready' = IF mode.seq THEN ready ELSE Append(ready, ex[e].ev)
    /\ ex' = [ex EXCEPT ![e] = Counted(Over(@), TRUE)]
    /\ UNCHANGED <<mode, stopped, waited, tree, ring, offload, quiesced, hung, taken>>

ReadyFull(e) ==
    /\ At(e, "announce") /\ ~mode.seq /\ Len(ready) = MaxReady
    /\ tree' = [tree EXCEPT ![<<ex[e].ev, 0>>] = "none"]
    /\ Throw(e, ex[e])
    /\ UNCHANGED <<mode, waited, ready, ring, offload, quiesced, hung, taken>>

(* PutAsync: the ring of the poller takes the request, or is full.          *)
PutAsync(e) ==
    /\ At(e, "key") /\ e[1] = "ro" /\ mode.async
    /\ LET x == Fresh(ex[e], NRo) IN
       IF Len(ring) < MaxRing
       THEN /\ ring' = Append(ring, <<e, ex[e].next>>)
            /\ ex' = [ex EXCEPT ![e] = Over(x)]
            /\ UNCHANGED stopped
       ELSE Throw(e, x) /\ UNCHANGED ring
    /\ UNCHANGED <<mode, waited, tree, ready, offload, quiesced, hung, taken>>

(* A callback increments a counter of the executor.  One that comes after   *)
(* the executor has returned writes to a frame that is gone.                *)
Called(e, ok) ==
    ex' = [ex EXCEPT ![e] = IF @.pc = "done" THEN @ ELSE Counted(@, ok)]

(* PmemPoller: the value is stored, the key is not announced.               *)
_processPut ==
    /\ ring # <<>>
    /\ tree' = [tree EXCEPT ![<<Head(ring)[2], 0>>] = "pmem"]
    /\ ring' = Tail(ring)
    /\ Called(Head(ring)[1], TRUE)
    /\ UNCHANGED <<mode, stopped, waited, ready, offload, quiesced, hung, taken>>

-----------------------------------------------------------------------------
(* The filter: _NextKey waits for a key of the ready ring, or counts.       *)
GetAny(e) ==
    /\ At(e, "key") /\ e[1] = "ff" /\ ~mode.seq
    /\ \/ /\ ready # <<>>
          /\ ready' = Tail(ready)
          /\ \E a \in BOOLEAN :
               ex' = [ex EXCEPT ![e] = [@ EXCEPT !.ev = Head(ready), !.frag = 0,
                        !.accept = a, !.pc = "get"]]
          /\ UNCHANGED stopped
       \/ /\ ready = <<>> /\ ex[e].tries + 1 < MaxRetries
          /\ ex' = [ex EXCEPT ![e].tries = @ + 1]
          /\ UNCHANGED <<ready, stopped>>
       \/ /\ ready = <<>> /\ ex[e].tries + 1 = MaxRetries
          /\ Throw(e, ex[e])
          /\ UNCHANGED ready
    /\ UNCHANGED <<mode, waited, tree, ring, offload, quiesced, hung, taken>>

NextSeq(e) ==
    /\ At(e, "key") /\ e[1] = "ff" /\ mode.seq
    /\ \E a \in BOOLEAN :
         ex' = [ex EXCEPT ![e] = [Fresh(@, NFf) EXCEPT !.accept = a, !.pc = "get"]]
    /\ UNCHANGED <<mode, stopped, waited, storeVars, quiesced, hung, taken>>

KeyOf(e) == <<ex[e].ev, ex[e].frag>>

(* Get of the next fragment; MinidaqFfNodeSeq waits for it.                 *)
Get(e) ==
    /\ At(e, "get")
    /\ \/ /\ ex[e].frag = NSub
          /\ ex' = [ex EXCEPT ![e] = Over(@)]
          /\ UNCHANGED stopped
       \/ /\ ex[e].frag < NSub /\ tree[KeyOf(e)] # "none"
          /\ ex' = [ex EXCEPT ![e] = [@ EXCEPT !.pc = "filter"]]
          /\ UNCHANGED stopped
       \/ /\ ex[e].frag < NSub /\ tree[KeyOf(e)] = "none"
          /\ mode.seq /\ ex[e].tries + 1 < MaxRetries
          /\ ex' = [ex EXCEPT ![e].tries = @ + 1]
          /\ UNCHANGED stopped
       \/ /\ ex[e].frag < NSub /\ tree[KeyOf(e)] = "none"
          /\ mode.seq => ex[e].tries + 1 >= MaxRetries
          /\ Throw(e, ex[e])
    /\ UNCHANGED <<mode, waited, storeVars, quiesced, hung, taken>>

NextFragment(x) == [x EXCEPT !.frag = @ + 1, !.tries = 0, !.pc = "get"]

(* UpdateAsync of an accepted event: retried while the queue is full.       *)
UpdateAsync(e) ==
    /\ At(e, "filter") /\ ex[e].accept
    /\ mode.offload /\ Cardinality(offload) < MaxOffload
    /\ offload' = offload \cup {<<e, KeyOf(e)>>}
    /\ taken' = [taken EXCEPT ![ex[e].ev] = @ + 1]
    /\ ex' = [ex EXCEPT ![e] = NextFragment(@)]
    /\ UNCHANGED <<mode, stopped, waited, tree, ready, ring, quiesced, hung>>

(* UpdateAsync throws anything but QueueFullException.                      *)
UpdateDisabled(e) ==
    /\ At(e, "filter") /\ ex[e].accept /\ ~mode.offload
    /\ Throw(e, ex[e])
    /\ UNCHANGED <<mode, waited, storeVars, quiesced, hung, taken>>

(* Remove of another one, which may throw.                                  *)
Remove(e) ==
    /\ At(e, "filter") /\ ~ex[e].accept
    /\ IF tree[KeyOf(e)] = "pmem"
       THEN /\ tree' = [tree EXCEPT ![KeyOf(e)] = "none"]
            /\ taken' = [taken EXCEPT ![ex[e].ev] = @ + 1]
            /\ ex' = [ex EXCEPT ![e] = Counted(NextFragment(@), TRUE)]
            /\ UNCHANGED stopped
       ELSE Throw(e, ex[e]) /\ UNCHANGED <<tree, taken>>
    /\ UNCHANGED <<mode, waited, ready, ring, offload, quiesced, hung>>

(* The device completes an update, or refuses it once it is quiescent.      *)
Offloaded(u) ==
    /\ u \in offload /\ ~hung
    /\ offload' = offload \ {u}
    /\ \/ tree' = [tree EXCEPT ![u[2]] = "disk"] /\ Called(u[1], TRUE)
       \/ quiesced /\ Called(u[1], FALSE) /\ UNCHANGED tree
    /\ UNCHANGED <<mode, stopped, waited, ready, ring, quiesced, hung, taken>>

Finished == \A n \in Nodes : waited[n]

Next ==
    \/ \E n \in Nodes : Run(n) \/ Wait(n)
    \/ \E e \in Executors :
          \/ Loop(e)
          \/ AllocFails(e) \/ Put(e) \/ Announce(e) \/ ReadyFull(e) \/ PutAsync(e)
          \/ GetAny(e) \/ NextSeq(e) \/ Get(e) \/ UpdateAsync(e) \/ UpdateDisabled(e)
          \/ Remove(e)
          \/ Quiesce(e) \/ Return(e)
    \/ _processPut
    \/ \E u \in offload : Offloaded(u)

Step(e) ==
    \/ Loop(e)
    \/ AllocFails(e) \/ Put(e) \/ Announce(e) \/ ReadyFull(e) \/ PutAsync(e)
    \/ GetAny(e) \/ NextSeq(e) \/ Get(e) \/ UpdateAsync(e) \/ UpdateDisabled(e)
          \/ Remove(e)
    \/ Quiesce(e) \/ Return(e)

Spec ==
    /\ Init /\ [][Next]_vars
    /\ WF_vars(\E n \in Nodes : Run(n) \/ Wait(n))
    /\ \A e \in Executors : WF_vars(Step(e))
    /\ WF_vars(_processPut)
    /\ WF_vars(\E u \in offload : Offloaded(u))

-----------------------------------------------------------------------------
(* An event is removed or sent to the disk at most once for each of its     *)
(* fragments, whatever filters share the ready keys or the numbers, and a   *)
(* filter that has fetched a fragment finds it in the memory when it acts.  *)
OneFilterPerEvent ==
    /\ \A v \in Events : taken[v] <= NSub
    /\ \A e \in Executors : At(e, "filter") => tree[KeyOf(e)] = "pmem"

(* Every completion that comes after the ramp-up is in the samples or in    *)
(* the counters, once: fetch_and takes what the callbacks have counted.     *)
CompletionsCounted ==
    \A e \in Executors :
        ex[e].phase = "test" => ex[e].c + ex[e].cErr = ex[e].due

(* An executor that runs returns, and the benchmark with it, unless a       *)
(* QuiesceOffload of any executor has given up.                             *)
BenchmarkEnds == <>(Finished \/ hung)
=============================================================================
