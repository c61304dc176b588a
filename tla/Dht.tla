-------------------------------- MODULE Dht --------------------------------
(***************************************************************************)
(* The distributed part of the store: threads of an application call       *)
(* KVStore or KVStoreThin (lib/core, lib/thin), whose DhtClient sends what *)
(* is not local to the DhtServer of another node over eRPC.                *)
(*                                                                         *)
(* A thread has one call at a time and its client one request buffer.  The *)
(* eRPC library delivers a request once and in its own time, and never     *)
(* gives up, so a request is the record call[t] of its thread: "queued"    *)
(* while it travels, then the pc of its handler.  A put takes several      *)
(* steps of a worker, the other handlers one.                              *)
(*                                                                         *)
(* The store of a node is the map that OffloadPipeline implements.         *)
(***************************************************************************)
EXTENDS DhtCore

CONSTANTS Threads, NoThread,
          Home,        \* the node each thread runs on
          Openers,     \* the threads that opened the stores: their clients are ready
          Seed,        \* DhtCore::randomSeed of each node
          Values, None,
          RpcThreads,  \* options.dht.numOfDhtThreads
          MaxReady,    \* capacity of the ready ring; 0: no PrimaryKeyNextQueue
          MayEscape,   \* the nodes where Alloc may fail or the offload queue be full
          MayRefuse,   \* may a session stay unconnected for all the retries
          Mixes,       \* do threads use unbuffered keys while they hold a buffered one
          Does,        \* the operations each thread calls
          MaxCalls     \* bound: how many calls each thread makes

ASSUME DhtAssumption ==
    /\ Home \in [Threads -> Hosts] /\ Openers \subseteq Threads
    /\ None \notin Values /\ NoThread \notin Threads
    /\ Mixes \in BOOLEAN

VARIABLES cl,     \* DhtClient of each thread
          sid,    \* sid[h][n]: the session id in the DhtNode for n, shared by the threads of h
          call,   \* the call of each thread
          hold,   \* the buffered key a thread holds, or None
          busy,   \* busy[h][w]: the thread whose request worker w of h handles
          alive,  \* alive[h][w]: the worker runs; worker 0 takes the process with it
          store,  \* the map of each node
          ready,  \* PrimaryKeyNextQueue::_readyKeys of each node
          seen,   \* history: what the key of a call was mapped to since its begin
          puts,   \* history: keys that were put
          gone,   \* history: keys that a remove was called for
          calls   \* history: how many calls a thread made

dhtVars == <<cl, sid, call, hold, busy, alive, store, ready, seen, puts, gone, calls>>

Workers == 0 .. RpcThreads - 1
NotSet == -1
AnyKeys == Keys \cup {dequeuedKey(_createPKeyBuff(k)) : k \in Keys}

ASSUME AnyKeysAssumption == None \notin AnyKeys

NoCall == [op |-> "none", key |-> None, val |-> None, buffered |-> FALSE, pc |-> "idle",
           host |-> NotSet, msg |-> None, status |-> "OK", res |-> None]

Up(h) == alive[h][0]
Local(t, k) == Home[t] \notin Thin /\ isLocalKey(Home[t], k)
Owner(k) == CHOOSE h \in Servers : isLocalKey(h, k)
Pending(t) == call[t].pc # "idle"

(* The server thread a client talks to: the clients of a process take them  *)
(* in turn, i is numberOfClientThreads.                                     *)
remoteRpcId(h, i) == (Seed[h] + i) % RpcThreads

NewClient == [st |-> "none", rpc |-> NotSet, sess |-> <<>>, idx |-> 0,
              keyUse |-> FALSE, valUse |-> FALSE, buf |-> None]

(* KVStore::init and KVStoreThin::init end with initClient for the thread   *)
(* that opens the store.                                                    *)
Init ==
    /\ cl = [t \in Threads |->
               IF t \in Openers
               THEN [NewClient EXCEPT !.st = "ready", !.rpc = remoteRpcId(Home[t], 0),
                                      !.sess = _neighbors[Home[t]]]
               ELSE NewClient]
    /\ sid = [h \in Hosts |-> [n \in Hosts |->
                IF h \in {Home[t] : t \in Openers} /\ n \in Servers \ {h}
                THEN CHOOSE i \in 0 .. Len(_neighbors[h]) - 1 : _neighbors[h][i + 1] = n
                ELSE NotSet]]
    /\ call = [t \in Threads |-> NoCall]
    /\ hold = [t \in Threads |-> None]
    /\ busy = [h \in Servers |-> [w \in Workers |-> NoThread]]
    /\ alive = [h \in Hosts |-> [w \in Workers |-> TRUE]]
    /\ store = [h \in Servers |-> [k \in Keys |-> None]]
    /\ ready = [h \in Servers |-> <<>>]
    /\ seen = [t \in Threads |-> {}]
    /\ puts = {}
    /\ gone = {}
    /\ calls = [t \in Threads |-> 0]

------------------------------------------------------------------------------
(* The calls of the application. *)

Goto(t, pc) == call' = [call EXCEPT ![t].pc = pc]

Begin(t, op, k, v, b, pc) ==
    /\ ~Pending(t) /\ Up(Home[t]) /\ op \in Does[t] /\ calls[t] < MaxCalls[t]
    /\ call' = [call EXCEPT ![t] = [NoCall EXCEPT !.op = op, !.key = k, !.val = v,
                                                  !.buffered = b, !.pc = pc]]
    /\ calls' = [calls EXCEPT ![t] = @ + 1]

(* A key of the caller's own, or the one in the request buffer it holds.    *)
KeyArg(t, k, b) == IF b THEN hold[t] = k
                        ELSE k \in Keys /\ (hold[t] = None \/ Mixes)

Get(t) == \E k \in AnyKeys, b \in BOOLEAN :
    /\ KeyArg(t, k, b)
    /\ Begin(t, "get", k, None, b, IF Local(t, k) THEN "serve" ELSE "client")
    /\ seen' = [seen EXCEPT ![t] = IF k \in Keys THEN {store[Owner(k)][k]} ELSE {}]
    /\ UNCHANGED <<cl, sid, hold, busy, alive, store, ready, puts, gone>>

Remove(t) == \E k \in AnyKeys, b \in BOOLEAN :
    /\ KeyArg(t, k, b)
    /\ Begin(t, "remove", k, None, b, IF Local(t, k) THEN "serve" ELSE "client")
    /\ gone' = gone \cup {k}
    /\ UNCHANGED <<cl, sid, hold, busy, alive, store, ready, seen, puts>>

(* A key is put once, as readout does: event numbers are not reused.        *)
Put(t) == \E k \in Keys \ puts, v \in Values, b \in BOOLEAN :
    /\ KeyArg(t, k, b)
    /\ Begin(t, "put", k, v, b, IF Local(t, k) THEN "serve" ELSE "client")
    /\ puts' = puts \cup {k}
    /\ UNCHANGED <<cl, sid, hold, busy, alive, store, ready, seen, gone>>

(* KVStore::GetAny asks its own queue, KVStoreThin::GetAny another node; the *)
(* key of the former is in the request buffer.                              *)
GetAny(t) ==
    /\ hold[t] = None
    /\ Begin(t, "getany", None, None, FALSE, "client")
    /\ UNCHANGED <<cl, sid, hold, busy, alive, store, ready, seen, puts, gone>>

AllocKey(t) == \E k \in Keys :
    /\ Begin(t, "allockey", k, None, TRUE, "client")
    /\ UNCHANGED <<cl, sid, hold, busy, alive, store, ready, seen, puts, gone>>

FreeKey(t) ==
    /\ ~Pending(t) /\ Up(Home[t]) /\ hold[t] # None
    /\ hold' = [hold EXCEPT ![t] = None]
    /\ cl' = [cl EXCEPT ![t].keyUse = FALSE]
    /\ UNCHANGED <<sid, call, busy, alive, store, ready, seen, puts, gone, calls>>

(* A put gives its buffers back however it ends: KVStore::Put frees those   *)
(* that are buffered, KVStoreThin::Put both.                                *)
Freed(t, c) ==
    LET k == call[t] IN
    IF k.op # "put" THEN c
    ELSE [c EXCEPT !.keyUse = IF k.buffered \/ Home[t] \in Thin THEN FALSE ELSE @,
                   !.valUse = IF Local(t, k.key) THEN @ ELSE FALSE]

KeepsKey(t) == call[t].op # "put" \/ ~call[t].buffered

(* The call returns or throws.                                              *)
Return(t) ==
    /\ call' = [call EXCEPT ![t] = NoCall]
    /\ seen' = [seen EXCEPT ![t] = {}]
    /\ hold' = [hold EXCEPT ![t] = IF KeepsKey(t) THEN @ ELSE None]

------------------------------------------------------------------------------
(* DhtCore::getClient, DhtClient::initialize: the first use by a thread.    *)

Dies(h) == alive' = [alive EXCEPT ![h][0] = FALSE]

Clients(h) == {t \in Threads : Home[t] = h /\ cl[t].st # "none"}

ClientNew(t) ==
    /\ call[t].pc = "client" /\ cl[t].st = "none" /\ Up(Home[t])
    /\ cl' = [cl EXCEPT ![t].st = IF _neighbors[Home[t]] = <<>> THEN "ready" ELSE "init",
                        ![t].rpc = remoteRpcId(Home[t], Cardinality(Clients(Home[t])))]
    /\ UNCHANGED <<sid, call, hold, busy, alive, store, ready, seen, puts, gone, calls>>

(* _initializeNode, for the neighbours in turn.  The session id goes to the *)
(* DhtNode that all threads of the process share.                           *)
Sid(t) == Len(cl[t].sess)

Connected(t) == {cl[t].sess[i] : i \in 1 .. Len(cl[t].sess)}

Neighbor(t) ==
    LET all == _neighbors[Home[t]]
    IN  all[CHOOSE i \in 1 .. Len(all) : /\ all[i] \notin Connected(t)
                                         /\ \A j \in 1 .. i - 1 : all[j] \in Connected(t)]

(* The client is ready when the last neighbour is connected.                *)
After(t) == IF Connected(t) \cup {Neighbor(t)} = Servers \ {Home[t]} THEN "ready" ELSE "init"

(* Mutant: every client connects to the neighbours in an order of its own.  *)
MutInitializeNodeAnyOrder(t) ==
    \E n \in Servers \ (Connected(t) \cup {Home[t]}) :
        /\ cl' = [cl EXCEPT ![t].sess = Append(@, n),
                            ![t].st = IF Connected(t) \cup {n} = Servers \ {Home[t]}
                                      THEN "ready" ELSE "init"]
        /\ sid' = [sid EXCEPT ![Home[t]][n] = Sid(t)]

_initializeNode(t) ==
    /\ cl' = [cl EXCEPT ![t].sess = Append(@, Neighbor(t)), ![t].st = After(t)]
    /\ sid' = [sid EXCEPT ![Home[t]][Neighbor(t)] = Sid(t)]

Connecting(t) == call[t].pc = "client" /\ cl[t].st = "init" /\ Up(Home[t])

Connect(t) ==
    /\ Connecting(t) /\ Up(Neighbor(t)) /\ alive[Neighbor(t)][cl[t].rpc]
    /\ _initializeNode(t)
    /\ UNCHANGED <<call, hold, busy, alive, store, ready, seen, puts, gone, calls>>

ConnectFails(t) ==
    /\ Connecting(t)
    /\ MayRefuse \/ ~Up(Neighbor(t)) \/ ~alive[Neighbor(t)][cl[t].rpc]
    /\ cl' = [cl EXCEPT ![t] = Freed(t, [@ EXCEPT !.st = "error"])]
    /\ Return(t)
    /\ UNCHANGED <<sid, busy, alive, store, ready, puts, gone, calls>>

(* A client whose initialisation failed stays the client of its thread, and *)
(* has no message buffers.                                                  *)
ClientUnusable(t) ==
    /\ call[t].pc = "client" /\ cl[t].st = "error" /\ Up(Home[t])
    /\ Dies(Home[t])
    /\ UNCHANGED <<cl, sid, call, hold, busy, store, ready, seen, puts, gone, calls>>

------------------------------------------------------------------------------
(* DhtClient: the operations. *)

InClient(t) == call[t].pc = "client" /\ cl[t].st = "ready" /\ Up(Home[t])

(* allocKey: throws while the buffer is in use; else the caller writes its  *)
(* key in the buffer.                                                       *)
ClientAllocKey(t) ==
    /\ InClient(t) /\ call[t].op = "allockey"
    /\ IF cl[t].keyUse
       THEN Return(t) /\ UNCHANGED cl
       ELSE /\ cl' = [cl EXCEPT ![t].keyUse = TRUE, ![t].buf = call[t].key]
            /\ call' = [call EXCEPT ![t] = NoCall]
            /\ hold' = [hold EXCEPT ![t] = call[t].key]
            /\ UNCHANGED seen
    /\ UNCHANGED <<sid, busy, alive, store, ready, puts, gone, calls>>

(* KVStore::GetAny: AllocKey, dequeueNext, and Free when that throws.       *)
MutLocalGetAnyKeepsKey(t) ==
    LET h == Home[t]
        k == IF ready[h] = <<>> THEN None ELSE dequeuedKey(Head(ready[h]))
    IN
    /\ InClient(t) /\ call[t].op = "getany" /\ h \notin Thin
    /\ cl' = [cl EXCEPT ![t].keyUse = TRUE, ![t].buf = k]
    /\ ready' = [ready EXCEPT ![h] = IF @ = <<>> THEN @ ELSE Tail(@)]
    /\ call' = [call EXCEPT ![t] = NoCall]
    /\ hold' = [hold EXCEPT ![t] = k]
    /\ UNCHANGED <<sid, busy, alive, store, seen, puts, gone, calls>>

LocalGetAny(t) ==
    LET h == Home[t] IN
    /\ InClient(t) /\ call[t].op = "getany" /\ h \notin Thin
    /\ IF cl[t].keyUse \/ MaxReady = 0 \/ ready[h] = <<>>
       THEN Return(t) /\ UNCHANGED <<cl, ready>>
       ELSE LET k == dequeuedKey(Head(ready[h])) IN
            /\ cl' = [cl EXCEPT ![t].keyUse = TRUE, ![t].buf = k]
            /\ ready' = [ready EXCEPT ![h] = Tail(@)]
            /\ call' = [call EXCEPT ![t] = NoCall]
            /\ hold' = [hold EXCEPT ![t] = k]
            /\ UNCHANGED seen
    /\ UNCHANGED <<sid, busy, alive, store, puts, gone, calls>>

(* fillReqMsg: a buffered key is in the buffer already.                     *)
fillReqMsg(t) == IF call[t].op = "getany" \/ call[t].buffered THEN cl[t].buf
                 ELSE call[t].key

Targets(t) == IF call[t].op = "getany" THEN Servers \ {Home[t]}
              ELSE Matches(Home[t], call[t].key)

Target(t) == IF call[t].op = "getany" THEN getHostAny(Home[t], nextIdx(Home[t], cl[t].idx))
             ELSE getHostForKey(Home[t], call[t].key)

(* get, getAny, put, remove: fill the buffer, find the host, enqueueAndWait; *)
(* the value of a put was allocated in the same buffer.                     *)
enqueueAndWait(t) ==
    /\ InClient(t)
    /\ call[t].op \in {"get", "remove", "put"} \/ (call[t].op = "getany" /\ Home[t] \in Thin)
    /\ IF Targets(t) = {}
       THEN /\ cl' = [cl EXCEPT ![t] = Freed(t, [@ EXCEPT !.buf = fillReqMsg(t)])]
            /\ Return(t)
       ELSE /\ cl' = [cl EXCEPT ![t].buf = fillReqMsg(t),
                                ![t].valUse = call[t].op = "put",
                                ![t].idx = IF call[t].op = "getany"
                                           THEN nextIdx(Home[t], @) ELSE @]
            /\ call' = [call EXCEPT
                          ![t].pc = "queued",
                          ![t].host = cl[t].sess[sid[Home[t]][Target(t)] + 1],
                          ![t].msg = fillReqMsg(t)]
            /\ UNCHANGED <<hold, seen>>
    /\ UNCHANGED <<sid, busy, alive, store, ready, puts, gone, calls>>

(* _runToResponse: the callback took the response; a status that is not OK  *)
(* becomes an exception.  A local call returns here as well.                *)
RunToResponse(t) ==
    /\ call[t].pc = "resp" /\ Up(Home[t])
    /\ cl' = [cl EXCEPT ![t] = Freed(t, @)]
    /\ Return(t)
    /\ UNCHANGED <<sid, busy, alive, store, ready, puts, gone, calls>>

------------------------------------------------------------------------------
(* DhtServer: the handlers; a local call of KVStore runs the same code in   *)
(* its own thread, with no worker.                                          *)

Remote(t) == call[t].host # NotSet
At(t) == IF Remote(t) THEN call[t].host ELSE Home[t]
Asked(t) == IF Remote(t) THEN call[t].msg ELSE call[t].key

(* The store of node h changes at key k: the gets of k that are under way   *)
(* see the new value.                                                       *)
StoreSet(h, k, v) ==
    /\ store' = [store EXCEPT ![h][k] = v]
    /\ seen' = [t \in Threads |->
                  IF call[t].op = "get" /\ call[t].key = k /\ h = Owner(k)
                  THEN seen[t] \cup {v} ELSE seen[t]]

Mapped(h, k) == IF k \in Keys THEN store[h][k] ELSE None

WorkerOf(t) == cl[t].rpc

Serving(t, op, pc) ==
    /\ call[t].pc = pc /\ call[t].op = op
    /\ Up(At(t)) /\ (Remote(t) => alive[At(t)][WorkerOf(t)])

(* _serveWorker, _serve: run_event_loop_once of an idle worker.             *)
Take(t) ==
    /\ call[t].pc = "queued"
    /\ LET h == call[t].host  w == WorkerOf(t) IN
       /\ Up(h) /\ alive[h][w] /\ busy[h][w] = NoThread
       /\ busy' = [busy EXCEPT ![h][w] = t]
    /\ Goto(t, "serve")
    /\ UNCHANGED <<cl, sid, hold, alive, store, ready, seen, puts, gone, calls>>

(* enqueue_response.                                                        *)
Respond(t, status, res) ==
    /\ call' = [call EXCEPT ![t].pc = "resp", ![t].status = status, ![t].res = res]
    /\ busy' = IF Remote(t) THEN [busy EXCEPT ![At(t)][WorkerOf(t)] = NoThread] ELSE busy
    /\ UNCHANGED <<cl, sid, hold, alive, puts, gone, calls>>

(* Mutant: the answer of a get is not addressed to its request.             *)
MutGetHandlerOtherKey(t) ==
    LET h == At(t) IN \E k \in Keys :
    /\ Serving(t, "get", "serve")
    /\ Respond(t, IF store[h][k] = None THEN "KEY_NOT_FOUND" ELSE "OK", store[h][k])
    /\ UNCHANGED <<store, ready, seen>>

erpcReqGetHandler(t) ==
    LET v == Mapped(At(t), Asked(t)) IN
    /\ Serving(t, "get", "serve")
    /\ Respond(t, IF v = None THEN "KEY_NOT_FOUND" ELSE "OK", v)
    /\ UNCHANGED <<store, ready, seen>>

erpcReqRemoveHandler(t) ==
    LET h == At(t)  k == Asked(t) IN
    /\ Serving(t, "remove", "serve")
    /\ Respond(t, IF Mapped(h, k) = None THEN "KEY_NOT_FOUND" ELSE "OK", None)
    /\ IF k \in Keys THEN StoreSet(h, k, None) ELSE UNCHANGED <<store, seen>>
    /\ UNCHANGED ready

erpcReqGetAnyHandler(t) ==
    LET h == At(t) IN
    /\ Serving(t, "getany", "serve") /\ MaxReady > 0
    /\ IF ready[h] = <<>>
       THEN Respond(t, "KEY_NOT_FOUND", None) /\ UNCHANGED ready
       ELSE /\ Respond(t, "OK", dequeuedKey(Head(ready[h])))
            /\ ready' = [ready EXCEPT ![h] = Tail(@)]
    /\ UNCHANGED <<store, seen>>

(* erpcReqPutHandler: Alloc, which is outside the try block, and the first  *)
(* half of KVStore::Put, which stores the value.                            *)
erpcReqPutHandler(t) ==
    /\ Serving(t, "put", "serve")
    /\ StoreSet(At(t), Asked(t), call[t].val)
    /\ Goto(t, "announce")
    /\ UNCHANGED <<cl, sid, hold, busy, alive, ready, puts, gone, calls>>

(* enqueueNext of PrimaryKeyNextQueue, or of PrimaryKeyBase.                *)
Announces(t) == MaxReady > 0 /\ isLocalPKey(At(t), Asked(t))

RingFull(h) == Len(ready[h]) >= MaxReady

PutAnnounce(t) ==
    LET h == At(t) IN
    /\ Serving(t, "put", "announce")
    /\ ~(Announces(t) /\ RingFull(h))
    /\ ready' = IF Announces(t)
                THEN [ready EXCEPT ![h] = Append(@, _createPKeyBuff(Asked(t)))] ELSE ready
    /\ Respond(t, "OK", None)
    /\ UNCHANGED <<store, seen>>

(* Mutant: the value is taken out although the key was announced.           *)
MutPutUndoAnnounced(t) ==
    LET h == At(t) IN
    /\ Serving(t, "put", "announce")
    /\ Announces(t)
    /\ ready' = [ready EXCEPT ![h] = Append(@, _createPKeyBuff(Asked(t)))]
    /\ StoreSet(h, Asked(t), None)
    /\ Respond(t, "QUEUE_FULL_ERROR", None)

(* Mutant: no response is sent when the put is undone.                      *)
MutPutUndoSilent(t) ==
    LET h == At(t) IN
    /\ Serving(t, "put", "announce")
    /\ Announces(t) /\ RingFull(h)
    /\ StoreSet(h, Asked(t), None)
    /\ Goto(t, "lost")
    /\ busy' = IF Remote(t) THEN [busy EXCEPT ![h][WorkerOf(t)] = NoThread] ELSE busy
    /\ UNCHANGED <<cl, sid, hold, alive, ready, puts, gone, calls>>

(* The queue is full: KVStore::Put takes the value out again and rethrows.  *)
PutUndo(t) ==
    LET h == At(t) IN
    /\ Serving(t, "put", "announce")
    /\ Announces(t) /\ RingFull(h)
    /\ StoreSet(h, Asked(t), None)
    /\ Respond(t, "QUEUE_FULL_ERROR", None)
    /\ UNCHANGED ready

(* An exception that is no OperationFailedException: Alloc of a put fails,  *)
(* the offload queue is full in a get, or GetAny is not supported.  No      *)
(* response is sent; a worker ends, and worker 0 rethrows, which ends the   *)
(* process.  A local caller gets the exception.                             *)
Escapes(t) == \/ call[t].op \in {"put", "get"} /\ At(t) \in MayEscape
              \/ call[t].op = "getany" /\ MaxReady = 0

HandlerEscapes(t) ==
    /\ Serving(t, call[t].op, "serve") /\ Escapes(t)
    /\ IF Remote(t)
       THEN /\ alive' = [alive EXCEPT ![At(t)][WorkerOf(t)] = FALSE]
            /\ UNCHANGED <<call, busy, cl, hold, seen>>
       ELSE /\ Return(t)
            /\ cl' = [cl EXCEPT ![t] = Freed(t, @)]
            /\ UNCHANGED <<alive, busy>>
    /\ UNCHANGED <<sid, store, ready, puts, gone, calls>>

------------------------------------------------------------------------------
ClientStep(t) == \/ ClientNew(t) \/ Connect(t) \/ ConnectFails(t)
                 \/ ClientUnusable(t) \/ ClientAllocKey(t) \/ LocalGetAny(t)
                 \/ enqueueAndWait(t) \/ RunToResponse(t)

ServerStep(t) == \/ Take(t) \/ erpcReqGetHandler(t) \/ erpcReqRemoveHandler(t)
                 \/ erpcReqGetAnyHandler(t) \/ erpcReqPutHandler(t)
                 \/ PutAnnounce(t) \/ PutUndo(t) \/ HandlerEscapes(t)

Calls(t) == Get(t) \/ Remove(t) \/ Put(t) \/ GetAny(t) \/ AllocKey(t) \/ FreeKey(t)

Next == \E t \in Threads : Calls(t) \/ ClientStep(t) \/ ServerStep(t)

Spec == Init /\ [][Next]_dhtVars

(* Threads and event loops keep running.                                    *)
FairSpec == /\ Spec
            /\ \A t \in Threads : /\ WF_dhtVars(ClientStep(t))
                                   /\ WF_dhtVars(ServerStep(t))

------------------------------------------------------------------------------
(* A request travels to the node whose range holds the key the caller named, *)
(* and asks for that key: although the session ids are in DhtNode objects    *)
(* that all clients of the process overwrite, and the key in a buffer that   *)
(* calls share (_initializeNode, fillReqMsg, enqueueAndWait).                *)
RequestReachesOwner ==
    \A t \in Threads : (Pending(t) /\ Remote(t) /\ call[t].op # "getany") =>
        (isLocalKey(call[t].host, call[t].key) /\ call[t].msg = call[t].key)

(* What a get returns the key was mapped to, on its owner, at some moment    *)
(* between the call and the return; the same for a key that is not found     *)
(* (KVStore::Get, DhtClient::get, erpcReqGetHandler, clbGet).                *)
GetSeesStored ==
    \A t \in Threads : (call[t].pc = "resp" /\ call[t].op = "get" /\ call[t].key \in Keys)
        => call[t].res \in seen[t]

(* A key waits in the ready queue of a node only while the node stores a     *)
(* value for it, unless somebody called Remove: a put that fails does not    *)
(* leave its announcement behind (KVStore::Put, enqueueNext).                *)
AnnouncedAreStored ==
    \A h \in Servers : \A i \in 1 .. Len(ready[h]) :
        \E k \in puts : /\ _createPKeyBuff(k) = ready[h][i]
                        /\ store[h][k] # None \/ k \in gone

(* The flags of the request buffer agree with what the thread holds whenever *)
(* it is outside a call, on every path of errors (allocKey, alloc, free,     *)
(* KVStore::Put, KVStore::GetAny, KVStoreThin::Put).                         *)
ReqBufferAccounted ==
    \A t \in Threads : ~Pending(t) =>
        ((cl[t].keyUse <=> hold[t] # None) /\ ~cl[t].valUse)

(* Nobody is left to answer: the process of the caller, that of the server,  *)
(* or the worker the client is bound to has ended.                           *)
Abandoned(t) == \/ ~Up(Home[t])
                \/ \E h \in Servers : ~Up(h) \/ ~alive[h][WorkerOf(t)]

(* Every call returns or throws, unless a thread or process that it needs    *)
(* has ended: no request is dropped and no worker waits for another          *)
(* (_runToResponse has no time-out).                                         *)
EveryCallReturns ==
    \A t \in Threads : Pending(t) ~> (~Pending(t) \/ (cl[t].rpc # NotSet /\ Abandoned(t)))
=============================================================================
