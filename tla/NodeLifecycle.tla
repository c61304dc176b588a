--------------------------- MODULE NodeLifecycle ---------------------------
(***************************************************************************)
(* How a node comes up and goes down: KVStore::init and ~KVStore           *)
(* (lib/core/KVStore.cpp) on the application's thread, and the threads     *)
(* they start and stop: SPDK (lib/spdk/SpdkCore.cpp) with the threads of   *)
(* its devices, the DHT server and its workers (lib/dht/DhtServer.cpp) and *)
(* the pollers of the asynchronous calls (lib/pmem/PmemPoller.cpp).        *)
(*                                                                         *)
(* Threads share the objects in "live".  What a thread does with one that  *)
(* is not there ends the process; "death" says who found what missing and  *)
(* where the application was.                                              *)
(***************************************************************************)
EXTENDS SpdkDevices, PoolManager

CONSTANTS RqstPollers,  \* options.runtime.numOfPollers of them
          DhtWorkers,   \* the worker threads of the server besides its own
          MaxRequests   \* bound: requests of other nodes, and asynchronous calls, each

VARIABLES app,       \* where the application's thread is in init, use and close
          live,      \* the objects of the store that exist
          bdevFound, \* SpdkCore::isBdevFound
          enabled,   \* spBdevCtx.state is SPDK_BDEV_READY
          spdk,      \* where the SPDK thread is
          dev,       \* the device its loop is at
          ready,     \* SpdkCore::_ready
          offloadOn, \* OffloadPoller::isRunning
          srv,       \* where the DHT server thread is
          srvState,  \* DhtServer::state
          keepRunning, worker,
          rqstOn,    \* PmemPoller::isRunning
          poller,    \* is the thread of a poller running
          queued,    \* the request in its ring, or "none"
          work,      \* a request is in the ring of the OffloadPoller
          death,     \* why and when the process died
          requests   \* history: requests of other nodes, asynchronous calls

spdkVars == <<bdevFound, enabled, spdk, dev, ready>>
dhtSrvVars == <<srv, srvState, keepRunning, worker>>
rqstVars == <<rqstOn, poller, queued>>
vars == <<devVars, poolVars, app, live, spdkVars, offloadOn, dhtSrvVars, rqstVars,
          work, death, requests>>

NoDeath == [why |-> "none", at |-> "none"]
Alive == death = NoDeath
Die(why) == death' = [why |-> why, at |-> app]

Opening == app \in {"start", "rtree", "spdkCore", "dht", "serve", "offload", "waitReady",
                    "pollers", "pkey"}
Closing == app \in {"closePKey", "stopServer", "joinServer", "stopPollers",
                    "stopOffload", "freeOffload", "joinSpdk"}

(* SpdkCore::isOffloadEnabled, for a core that is ready.                    *)
isOffloadEnabled == enabled

Init ==
    /\ DevInit /\ PoolInit
    /\ app = "start" /\ live = {} /\ bdevFound = FALSE /\ enabled = FALSE
    /\ spdk = "none" /\ dev = 1 /\ ready = FALSE /\ offloadOn = FALSE
    /\ srv = "none" /\ srvState = "INIT" /\ keepRunning \in BOOLEAN
    /\ worker = [w \in DhtWorkers |-> "none"]
    /\ rqstOn = [p \in RqstPollers |-> FALSE]
    /\ poller = [p \in RqstPollers |-> "none"]
    /\ queued = [p \in RqstPollers |-> "none"]
    /\ work = FALSE /\ death = NoDeath
    /\ requests = [remote |-> 0, async |-> 0]

-----------------------------------------------------------------------------
(* The application's thread: KVStore::init.                                 *)

(* The caller reads its configuration file and goes on whatever was said of *)
(* it; only an exception stops it (config.cpp, openKVS).  The mode decides  *)
(* for KVStore (KVStoreBase::Open).  A RAID0 is a stub and is not followed. *)
ReadConfig ==
    /\ Alive /\ app = "start" /\ \A p \in Pools : part[p] = "full"
    /\ \E f \in Files :
         /\ conf' = readConfiguration(f)
         /\ conf'.mode = "STORAGE" /\ conf'.devType # "RAID0"
         /\ \/ conf'.ret # "throw" /\ app' = "rtree" /\ UNCHANGED failed
            \/ conf'.ret = "throw" /\ app' = "failed" /\ failed' = TRUE
    /\ UNCHANGED <<isRunning, ioInitDone, io, fin, opened, aborted, jbod, poolVars, live,
                   spdkVars, offloadOn, dhtSrvVars, rqstVars, work, death, requests>>

(* The tree is opened and the size of the keys compared; either throws.     *)
OpenRtree ==
    /\ Alive /\ app = "rtree"
    /\ \/ app' = "spdkCore" /\ live' = live \cup {"rtree"} /\ UNCHANGED failed
       \/ "rtree" \in Faults /\ app' = "failed" /\ failed' = TRUE /\ UNCHANGED live
    /\ UNCHANGED <<conf, isRunning, ioInitDone, io, fin, opened, aborted, jbod, poolVars,
                   spdkVars, offloadOn, dhtSrvVars, rqstVars, work, death, requests>>

(* createConfFile: written when there is none, the options name a device    *)
(* and the file can be made.                                                *)
createConfFile == conf.devs # <<>>

(* SpdkCore::SpdkCore: without the file of SPDK there is no device; for a   *)
(* JBOD the cast to SpdkBdev then fails and is dereferenced.                *)
NewSpdkCore ==
    /\ Alive /\ app = "spdkCore"
    /\ \/ /\ createConfFile
          /\ bdevFound' = TRUE /\ app' = "dht" /\ UNCHANGED <<death, failed>>
       \/ /\ ~createConfFile \/ "conf" \in Faults
          /\ failed' = (failed \/ createConfFile) /\ UNCHANGED bdevFound
          /\ \/ devType = "BDEV" /\ app' = "dht" /\ UNCHANGED death
             \/ devType = "JBOD" /\ Die("cast") /\ UNCHANGED app
    /\ UNCHANGED <<conf, isRunning, ioInitDone, io, fin, opened, aborted, jbod, poolVars,
                   live, enabled, spdk, dev, ready, offloadOn, dhtSrvVars, rqstVars, work,
                   requests>>

(* The DhtCore, its nexus and the thread of the server.                     *)
NewDhtServer ==
    /\ Alive /\ app = "dht"
    /\ \/ /\ app' = "serve" /\ srv' = "start" /\ live' = live \cup {"dht"}
          /\ UNCHANGED failed
       \/ "nexus" \in Faults /\ app' = "failed" /\ failed' = TRUE /\ UNCHANGED <<srv, live>>
    /\ UNCHANGED <<conf, isRunning, ioInitDone, io, fin, opened, aborted, jbod, poolVars,
                   spdkVars, offloadOn, srvState, keepRunning, worker, rqstVars, work, death,
                   requests>>

(* DhtServer::serve returns when the state is no longer the first one.      *)
serve ==
    /\ Alive /\ app = "serve" /\ srvState # "INIT"
    /\ app' = "offload"
    /\ UNCHANGED <<devVars, poolVars, live, spdkVars, offloadOn, dhtSrvVars, rqstVars, work,
                   death, requests>>

(* OffloadPoller and startSpdk, where a device was found.                   *)
startSpdk ==
    /\ Alive /\ app = "offload"
    /\ IF bdevFound
       THEN /\ app' = "waitReady" /\ spdk' = "start"
            /\ live' = live \cup {"offload"}
       ELSE app' = "pollers" /\ UNCHANGED <<spdk, live>>
    /\ UNCHANGED <<devVars, poolVars, bdevFound, enabled, dev, ready, offloadOn, dhtSrvVars,
                   rqstVars, work, death, requests>>

MutWaitReadyForever ==
    /\ Alive /\ app = "waitReady" /\ ready
    /\ app' = "pollers"
    /\ UNCHANGED <<devVars, poolVars, live, spdkVars, offloadOn, dhtSrvVars, rqstVars, work,
                   death, requests>>

(* waitReady: the signal or ten seconds, and the result is not looked at.   *)
waitReady ==
    /\ Alive /\ app = "waitReady"
    /\ app' = "pollers"
    /\ UNCHANGED <<devVars, poolVars, live, spdkVars, offloadOn, dhtSrvVars, rqstVars, work,
                   death, requests>>

(* PmemPoller::PmemPoller and startThread, for every poller.                *)
StartPollers ==
    /\ Alive /\ app = "pollers"
    /\ rqstOn' = [p \in RqstPollers |-> TRUE]
    /\ poller' = [p \in RqstPollers |-> "run"]
    /\ app' = "pkey"
    /\ UNCHANGED <<devVars, poolVars, live, spdkVars, offloadOn, dhtSrvVars, queued, work,
                   death, requests>>

MutOpenNoPKey ==
    /\ Alive /\ app = "pkey"
    /\ app' = "open"
    /\ UNCHANGED <<devVars, poolVars, live, spdkVars, offloadOn, dhtSrvVars, rqstVars, work,
                   death, requests>>

OpenPKey ==
    /\ Alive /\ app = "pkey"
    /\ live' = live \cup {"pkey"}
    /\ app' = "open"
    /\ UNCHANGED <<devVars, poolVars, spdkVars, offloadOn, dhtSrvVars, rqstVars, work,
                   death, requests>>

-----------------------------------------------------------------------------
(* The application's thread: the store in use.                              *)

(* PutAsync, or GetAsync of a value that an earlier run offloaded.          *)
AsyncCall(p) ==
    /\ Alive /\ app = "open" /\ queued[p] = "none" /\ requests.async < MaxRequests
    /\ \E r \in {"put", "getOffloaded"} : queued' = [queued EXCEPT ![p] = r]
    /\ requests' = [requests EXCEPT !.async = @ + 1]
    /\ UNCHANGED <<devVars, poolVars, app, live, spdkVars, offloadOn, dhtSrvVars, rqstOn,
                   poller, work, death>>

(* Update, UpdateAsync, Get and Remove of an offloaded value: all of them   *)
(* ask isOffloadEnabled first.                                              *)
OffloadCall ==
    /\ Alive /\ app = "open" /\ isOffloadEnabled /\ ~work
    /\ work' = TRUE
    /\ UNCHANGED <<devVars, poolVars, app, live, spdkVars, offloadOn, dhtSrvVars, rqstVars,
                   death, requests>>

(* QuiesceOffload(true): it asks whether a device was configured, not       *)
(* whether it was opened; the finalizer of a device that never began its    *)
(* init is a null pointer.                                                  *)
QuiesceOffload ==
    /\ Alive /\ app = "open" /\ bdevFound /\ "offload" \in live
    /\ IF devType = "BDEV" /\ fin[1] = "none"
       THEN Die("quiesce") /\ UNCHANGED aborted
       ELSE aborted' \in {aborted, TRUE} /\ UNCHANGED death
    /\ UNCHANGED <<conf, isRunning, ioInitDone, io, fin, opened, jbod, failed, poolVars,
                   app, live, spdkVars, offloadOn, dhtSrvVars, rqstVars, work, requests>>

-----------------------------------------------------------------------------
(* The application's thread: ~KVStore.                                      *)

CloseStep(from, to) ==
    /\ Alive /\ app = from /\ app' = to
    /\ UNCHANGED <<devVars, poolVars, spdkVars, dhtSrvVars, work, death, requests>>

CloseRtree ==
    /\ CloseStep("open", "closePKey")
    /\ live' = live \ {"rtree"}
    /\ UNCHANGED <<offloadOn, rqstVars>>

ClosePKey ==
    /\ CloseStep("closePKey", "stopServer")
    /\ live' = live \ {"pkey"}
    /\ UNCHANGED <<offloadOn, rqstVars>>

(* DhtServer::~DhtServer                                                    *)
StopServer ==
    /\ Alive /\ app = "stopServer" /\ app' = "joinServer"
    /\ keepRunning' = FALSE
    /\ UNCHANGED <<devVars, poolVars, live, spdkVars, offloadOn, srv, srvState, worker,
                   rqstVars, work, death, requests>>

JoinServer ==
    /\ srv = "ended"
    /\ CloseStep("joinServer", "stopPollers")
    /\ live' = live \ {"dht"}
    /\ UNCHANGED <<offloadOn, rqstVars>>

(* PmemPoller::~PmemPoller, one poller after the other: what is still in    *)
(* its ring is dropped.                                                     *)
StopPoller(p) ==
    /\ Alive /\ app = "stopPollers" /\ poller[p] = "run" /\ rqstOn[p]
    /\ \A q \in RqstPollers : rqstOn[q] \/ poller[q] = "ended"
    /\ rqstOn' = [rqstOn EXCEPT ![p] = FALSE]
    /\ UNCHANGED <<devVars, poolVars, app, live, spdkVars, offloadOn, dhtSrvVars, poller,
                   queued, work, death, requests>>

PollersStopped ==
    /\ \A p \in RqstPollers : poller[p] = "ended"
    /\ CloseStep("stopPollers", "stopOffload")
    /\ UNCHANGED <<live, offloadOn, rqstVars>>

(* OffloadPoller::~OffloadPoller and then ~Poller.                          *)
StopOffload ==
    /\ CloseStep("stopOffload", "freeOffload")
    /\ offloadOn' = FALSE
    /\ UNCHANGED <<live, rqstVars>>

FreeOffload ==
    /\ CloseStep("freeOffload", "joinSpdk")
    /\ live' = live \ {"offload", "ring"}
    /\ UNCHANGED <<offloadOn, rqstVars>>

(* SpdkCore::~SpdkCore                                                      *)
JoinSpdk ==
    /\ spdk \in {"none", "ended"}
    /\ CloseStep("joinSpdk", "closed")
    /\ UNCHANGED <<live, offloadOn, rqstVars>>

AppStep ==
    \/ ReadConfig \/ OpenRtree \/ NewSpdkCore \/ NewDhtServer \/ serve \/ startSpdk \/ waitReady
    \/ StartPollers \/ OpenPKey
    \/ ClosePKey \/ StopServer \/ JoinServer \/ (\E p \in RqstPollers : StopPoller(p))
    \/ PollersStopped \/ StopOffload \/ FreeOffload \/ JoinSpdk

-----------------------------------------------------------------------------
(* The SPDK thread: SpdkCore::spdkStart and spdkCoreMainLoop.               *)

SpdkStep(from, to) ==
    /\ Alive /\ spdk = from /\ spdk' = to
    /\ UNCHANGED <<poolVars, app, bdevFound, dhtSrvVars, rqstVars, requests>>

NextDevice(again, done) ==
    IF dev + 1 \in MyDevices
    THEN dev' = dev + 1 /\ spdk' = again
    ELSE dev' = 1 /\ spdk' = done

(* spdk_app_start; when it fails the thread ends and signals nobody.        *)
SpdkAppStart ==
    /\ \/ SpdkStep("start", "init") /\ UNCHANGED failed
       \/ "app" \in Faults /\ SpdkStep("start", "ended") /\ failed' = TRUE
    /\ UNCHANGED <<conf, isRunning, ioInitDone, io, fin, opened, aborted, jbod, live,
                   enabled, dev, ready, offloadOn, work, death>>

SpdkInitBegin ==
    /\ SpdkStep("init", "initWait")
    /\ BdevInitBegin(dev)
    /\ UNCHANGED <<live, enabled, dev, ready, offloadOn, work, death>>

SpdkInitEnd ==
    /\ Alive /\ spdk = "initWait"
    /\ BdevInitEnd(dev)
    /\ NextDevice("init", "lists")
    /\ UNCHANGED <<poolVars, app, live, bdevFound, enabled, ready, offloadOn, dhtSrvVars,
                   rqstVars, work, death, requests>>

MutSpdkListsReady ==
    /\ SpdkStep("lists", "ring")
    /\ live' = live \cup {"lists"} /\ enabled' = TRUE
    /\ UNCHANGED <<devVars, dev, ready, offloadOn, work, death>>

(* The free lists of the poller and of the devices, in files that pmem may  *)
(* refuse to open: the exception is nobody's.                               *)
SpdkLists ==
    /\ \/ /\ SpdkStep("lists", "ring")
          /\ live' = live \cup {"lists"} /\ UNCHANGED <<death, failed>>
       \/ /\ "lists" \in Faults /\ SpdkStep("lists", "ended")
          /\ Die("lists") /\ failed' = TRUE /\ UNCHANGED live
    /\ UNCHANGED <<conf, isRunning, ioInitDone, io, fin, opened, aborted, jbod, enabled,
                   dev, ready, offloadOn, work>>

(* Poller::init                                                             *)
SpdkRing ==
    /\ \/ /\ SpdkStep("ring", "running")
          /\ live' = live \cup {"ring"} /\ UNCHANGED <<ready, failed>>
       \/ /\ "ring" \in Faults /\ SpdkStep("ring", "ended")
          /\ ready' = TRUE /\ failed' = TRUE /\ UNCHANGED live
    /\ UNCHANGED <<conf, isRunning, ioInitDone, io, fin, opened, aborted, jbod, enabled,
                   dev, offloadOn, work, death>>

SpdkRunning ==
    /\ SpdkStep("running", "ready")
    /\ isRunning' = setRunning(1) /\ offloadOn' = TRUE
    /\ UNCHANGED <<conf, ioInitDone, io, fin, opened, aborted, jbod, failed, live,
                   enabled, dev, ready, work, death>>

(* setReady and signalReady                                                 *)
SpdkReady ==
    /\ SpdkStep("ready", "loop")
    /\ enabled' = TRUE /\ ready' = TRUE
    /\ UNCHANGED <<devVars, live, dev, offloadOn, work, death>>

(* spdkCoreMainLoop: dequeue and process, then look whether to stop.        *)
SpdkLoop ==
    /\ SpdkStep("loop", "check")
    /\ work' = FALSE
    /\ IF work /\ devType = "JBOD" THEN JbodWrite ELSE UNCHANGED devVars
    /\ UNCHANGED <<live, enabled, dev, ready, offloadOn, death>>

SpdkCheck ==
    /\ SpdkStep("check", IF offloadOn THEN "loop" ELSE "deinit")
    /\ UNCHANGED <<devVars, live, enabled, dev, ready, offloadOn, work, death>>

(* A step that uses the poller after the destructor freed it.               *)
SpdkDangling ==
    /\ Alive /\ spdk \in {"lists", "ring", "running", "loop", "check"} /\ "offload" \notin live
    /\ Die("poller")
    /\ UNCHANGED <<devVars, poolVars, app, live, spdkVars, offloadOn, dhtSrvVars, rqstVars,
                   work, requests>>

SpdkDeinit ==
    /\ SpdkStep("deinit", "deinitWait")
    /\ DeinitBegin(dev)
    /\ UNCHANGED <<live, enabled, dev, ready, offloadOn, work, death>>

SpdkDeinitEnd ==
    /\ Alive /\ spdk = "deinitWait"
    /\ DeinitEnd(dev)
    /\ NextDevice("deinit", "stop")
    /\ UNCHANGED <<poolVars, app, live, bdevFound, enabled, ready, offloadOn, dhtSrvVars,
                   rqstVars, work, death, requests>>

SpdkStop ==
    /\ SpdkStep("stop", "ended")
    /\ isRunning' = setRunning(0)
    /\ UNCHANGED <<conf, ioInitDone, io, fin, opened, aborted, jbod, failed, live,
                   enabled, dev, ready, offloadOn, work, death>>

SpdkThread ==
    \/ SpdkAppStart \/ SpdkInitBegin \/ SpdkInitEnd \/ SpdkLists \/ SpdkRing
    \/ SpdkRunning \/ SpdkReady \/ SpdkLoop \/ SpdkCheck \/ SpdkDangling
    \/ SpdkDeinit \/ SpdkDeinitEnd \/ SpdkStop

-----------------------------------------------------------------------------
(* The threads of the DHT server: DhtServer::_serve and _serveWorker.       *)

ServerStep ==
    UNCHANGED <<devVars, poolVars, app, live, spdkVars, offloadOn, rqstVars, work>>

(* The Rpc of the server and then the threads of the workers.  An exception *)
(* of this thread is rethrown and ends the process.                         *)
ServerStart ==
    /\ Alive /\ srv = "start"
    /\ \/ /\ srv' = "spawned" /\ worker' = [w \in DhtWorkers |-> "run"]
          /\ UNCHANGED <<srvState, death>>
       \/ /\ "rpc" \in Faults /\ srv' = "ended" /\ srvState' = "ERROR" /\ Die("server")
          /\ UNCHANGED worker
    /\ UNCHANGED <<keepRunning, requests>> /\ ServerStep

(* state and keepRunning are two assignments; ~DhtServer may fall between.  *)
ServerReady ==
    /\ Alive /\ srv = "spawned"
    /\ srv' = "ready" /\ srvState' = "READY"
    /\ UNCHANGED <<keepRunning, worker, death, requests>> /\ ServerStep

ServerRun ==
    /\ Alive /\ srv = "ready"
    /\ srv' = "serve" /\ keepRunning' = TRUE
    /\ UNCHANGED <<srvState, worker, death, requests>> /\ ServerStep

ServerStop ==
    /\ Alive /\ srv = "serve" /\ ~keepRunning
    /\ srv' = "join" /\ srvState' = "STOPPED"
    /\ UNCHANGED <<keepRunning, worker, death, requests>> /\ ServerStep

ServerJoin ==
    /\ Alive /\ srv = "join" /\ \A w \in DhtWorkers : worker[w] = "ended"
    /\ srv' = "ended"
    /\ UNCHANGED <<srvState, keepRunning, worker, death, requests>> /\ ServerStep

(* _serveWorker: the first look at keepRunning may come before the server   *)
(* thread wrote it.                                                         *)
WorkerStop(w) ==
    /\ Alive /\ worker[w] = "run" /\ ~keepRunning
    /\ worker' = [worker EXCEPT ![w] = "ended"]
    /\ UNCHANGED <<srv, srvState, keepRunning, death, requests>> /\ ServerStep

(* A request of another node: erpcReqPutHandler needs the tree and the      *)
(* queue of ready keys.                                                     *)
Handle ==
    /\ Alive /\ keepRunning /\ requests.remote < MaxRequests
    /\ srv = "serve" \/ \E w \in DhtWorkers : worker[w] = "run"
    /\ requests' = [requests EXCEPT !.remote = @ + 1]
    /\ IF {"rtree", "pkey"} \subseteq live THEN UNCHANGED death ELSE Die("missing")
    /\ UNCHANGED dhtSrvVars /\ ServerStep

ServerThread == ServerStart \/ ServerReady \/ ServerRun \/ ServerStop \/ ServerJoin

-----------------------------------------------------------------------------
(* The threads of the asynchronous calls: PmemPoller::_threadMain.          *)

(* process: a put needs the tree; the get of an offloaded value goes on to  *)
(* the OffloadPoller, which may have no ring or not be there.               *)
PollerProcess(p) ==
    /\ Alive /\ poller[p] = "run" /\ queued[p] # "none"
    /\ queued' = [queued EXCEPT ![p] = "none"]
    /\ \/ "rtree" \notin live /\ Die("missing") /\ UNCHANGED work
       \/ "rtree" \in live /\ queued[p] = "put" /\ UNCHANGED <<death, work>>
       \/ /\ "rtree" \in live /\ queued[p] = "getOffloaded"
          /\ IF "ring" \in live THEN work' = TRUE /\ UNCHANGED death
             ELSE Die("transfer") /\ UNCHANGED work
    /\ UNCHANGED <<devVars, poolVars, app, live, spdkVars, offloadOn, dhtSrvVars, rqstOn,
                   poller, requests>>

PollerEnd(p) ==
    /\ Alive /\ poller[p] = "run" /\ ~rqstOn[p]
    /\ poller' = [poller EXCEPT ![p] = "ended"]
    /\ UNCHANGED <<devVars, poolVars, app, live, spdkVars, offloadOn, dhtSrvVars, rqstOn,
                   queued, work, death, requests>>

-----------------------------------------------------------------------------
nodeVars == <<app, live, spdkVars, offloadOn, dhtSrvVars, rqstVars, work, requests>>

DeviceThreads ==
    /\ Alive
    /\ \E d \in Devices : IoThreadStep(d) \/ finilizerThreadMain(d)
    /\ UNCHANGED <<poolVars, nodeVars, death>>

(* The pools are built before main and destroyed when it has returned.      *)
StaticPools ==
    /\ Alive
    /\ \/ app = "start" /\ \E p \in Pools : NewPoolBase(p) \/ NewPool(p)
       \/ app \in {"closed", "failed"} /\ \E p \in Pools : DeletePool(p) \/ DeletePoolBase(p)
    /\ UNCHANGED <<devVars, nodeVars, death>>

(* manage() is pure virtual in a pool of which only the base exists, or is  *)
(* left.                                                                    *)
Collector ==
    /\ Alive /\ Collect
    /\ IF \E p \in pools : part[p] # "full" THEN Die("manage") ELSE UNCHANGED death
    /\ UNCHANGED <<devVars, nodeVars>>

Next ==
    \/ AppStep \/ OffloadCall \/ QuiesceOffload \/ CloseRtree
    \/ SpdkThread \/ DeviceThreads \/ ServerThread \/ Handle
    \/ \E p \in RqstPollers : AsyncCall(p) \/ PollerProcess(p) \/ PollerEnd(p)
    \/ \E w \in DhtWorkers : WorkerStop(w)
    \/ StaticPools \/ Collector

(* Every thread goes on while it can; the application need not close the    *)
(* store, nor other nodes send requests.                                    *)
Fairness ==
    /\ WF_vars(AppStep) /\ WF_vars(SpdkThread)
    /\ WF_vars(ServerThread) /\ WF_vars(StaticPools)
    /\ \A d \in Devices : WF_vars(Alive /\ IoThreadStep(d)
                                    /\ UNCHANGED <<poolVars, nodeVars, death>>)
    /\ \A w \in DhtWorkers : WF_vars(WorkerStop(w))
    /\ \A p \in RqstPollers : WF_vars(PollerProcess(p) \/ PollerEnd(p))

Spec == Init /\ [][Next]_vars /\ Fairness

-----------------------------------------------------------------------------
(* Offload calls are let through by isOffloadEnabled alone.  When it says   *)
(* yes, the SPDK thread has made what they use: the ring, the free lists    *)
(* and every device (KVStore.cpp:191, SpdkCore.cpp:182-221), also when the  *)
(* application went on after the ten seconds of waitReady.                  *)
EnabledMeansReady ==
    app = "open" /\ isOffloadEnabled =>
        {"offload", "ring", "lists"} \subseteq live /\ \A d \in MyDevices : ioInitDone[d]

(* No request of another node or of a poller finds the tree or the queue of *)
(* ready keys missing while the store is open: that happens only before     *)
(* init has returned and after the destructor was called                    *)
(* (KVStore.cpp:80-162, 48-59).  The collector finds half a pool only while *)
(* the static pools are built, never while they are destroyed               *)
(* (GeneralPool.h:196-202).                                                 *)
MissingOnlyOutside ==
    /\ death.why = "missing" => death.at # "open"
    /\ death.why = "manage" => death.at = "start"

(* When the store is closed and no library call failed, no I/O thread uses  *)
(* its device and every device was given back (SpdkBdev.cpp:373-379).       *)
ClosedDevices ==
    app = "closed" /\ ~failed =>
        \A d \in Devices : ~opened[d] /\ io[d] \in {"none", "ended"}

(* A read of a JBOD goes to the device whose address the write left in the  *)
(* tree, whatever the order the devices came up in (SpdkJBODBdev.cpp:54).   *)
JbodReadsWriter ==
    devType = "JBOD" /\ enabled =>
        /\ \A d \in MyDevices : JbodReadDevice(d) + 1 = d
        /\ jbod.curr < jbod.num /\ jbod.num * jbod.share <= IoPoolSize

(* The callers of readConfiguration go on when it says false.  One that it  *)
(* accepted does not end the node: a JBOD it accepted has a device, and a   *)
(* BDEV that is opened has the single device that createConfFile asserts    *)
(* (Configuration.cpp:99-149, SpdkCore.cpp:95-105, 64-74).                  *)
AcceptedConfigOpens ==
    conf.ret = "true" /\ ~failed =>
        /\ death.why # "cast"
        /\ bdevFound => conf.devs # <<>> /\ (devType = "BDEV" => Len(conf.devs) = 1)

(* KVStore::init returns, throws or ends the process, whatever fails in the *)
(* threads it waits for.                                                    *)
OpenReturns ==
    Opening ~> (app \in {"open", "failed"} \/ ~Alive)

(* A stop that its thread overwrites: keepRunning of the DHT server, which  *)
(* is set after the state that init waits for, and isRunning of the         *)
(* OffloadPoller, when the store is closed before SPDK came up.             *)
StopOverwritten ==
    \/ app = "joinServer" /\ keepRunning
    \/ app = "joinSpdk" /\ offloadOn

(* ~KVStore returns, unless a library call failed, an I/O thread waits for  *)
(* itself or a stop was overwritten.                                        *)
CloseReturns ==
    Closing ~> (app = "closed" \/ ~Alive \/ failed \/ StopOverwritten)
=============================================================================
