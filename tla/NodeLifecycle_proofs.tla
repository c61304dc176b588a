----------------------- MODULE NodeLifecycle_proofs -----------------------
(***************************************************************************)
(* What holds while a node comes up, is used and goes down (NodeLifecycle), *)
(* for any number of devices, files, pools, pollers and workers, and       *)
(* whatever fails.  The invariant follows the SPDK thread: at each place   *)
(* of its course it says which devices have been begun, opened and closed, *)
(* what the JBOD knows of them, and which objects exist.                   *)
(***************************************************************************)
EXTENDS NodeLifecycle, TLAPS

(* The stages of the SPDK thread after the init of the last device.         *)
AfterInit == {"lists", "ring", "running", "ready", "loop", "check", "deinit",
              "deinitWait", "stop"}

(* The options are those of a file that was read, or the default ones.      *)
ConfOk(c) ==
    /\ c.devs \in Seq(DOMAIN PciAddr) /\ Len(c.devs) <= NumDevices
    /\ c.devType = "BDEV" => (c.devs = <<>> \/ Len(c.devs) = 1)
    /\ (c.devType = "JBOD" /\ c.ret = "true") => c.devs # <<>>
    /\ c.devType \in {"BDEV", "JBOD"}

ConfInv ==
    /\ ConfOk(conf)
    /\ bdevFound => conf.devs # <<>>
    /\ spdk # "none" => bdevFound
    /\ app \in {"start", "rtree", "spdkCore"} => ~bdevFound
    /\ failed \in BOOLEAN

(* Where the SPDK thread is, and what it has made.                          *)
StageInv ==
    /\ dev \in Nat \ {0}
    /\ spdk # "none" => dev \in MyDevices
    /\ spdk \notin {"init", "initWait", "deinit", "deinitWait"} => dev = 1
    /\ spdk \in {"none", "start", "init", "initWait", "ended"} \cup AfterInit
    /\ app \in {"start", "rtree", "spdkCore", "dht", "serve", "offload", "failed"}
         => spdk = "none"
    /\ app = "closed" => spdk \in {"none", "ended"}
    /\ enabled => spdk \in {"loop", "check", "deinit", "deinitWait", "stop", "ended"}
    /\ (enabled \/ spdk \in AfterInit \ {"lists"}) => "lists" \in live
    /\ app \notin {"joinSpdk", "closed"} =>
         /\ spdk # "none" => "offload" \in live
         /\ (enabled \/ spdk \in AfterInit \ {"lists", "ring"}) => "ring" \in live

(* The devices whose init has returned.                                     *)
Inited(d) == \/ spdk \in {"init", "initWait"} /\ d < dev
             \/ spdk \in AfterInit
             \/ enabled

InitInv ==
    /\ ioInitDone \in [Devices -> BOOLEAN]
    /\ \A d \in MyDevices : Inited(d) => ioInitDone[d]

(* The JBOD has numbered the devices that came up, by their addresses.      *)
DevHash(d) == hashAddr(PciAddr[conf.devs[d]])

JbodInv == devType = "JBOD" =>
    /\ spdk \in {"none", "start"} => jbod.num = 0
    /\ spdk \in {"init", "initWait"} => jbod.num = dev - 1
    /\ (enabled \/ spdk \in AfterInit) => /\ jbod.num = Len(conf.devs)
                                          /\ jbod.share = IoPoolSize \div jbod.num
    /\ jbod.num \in 0 .. Len(conf.devs)
    /\ jbod.curr \in Nat /\ (jbod.num > 0 => jbod.curr < jbod.num)
    /\ jbod.num = 0 => jbod.curr = 0
    /\ \A d \in 1 .. jbod.num : DevHash(d) \in DOMAIN jbod.hash /\ jbod.hash[DevHash(d)] = d - 1

JbodFields ==
    /\ DOMAIN jbod = {"num", "curr", "hash", "share"}
    /\ spdk = "none" => (jbod.num = 0 /\ jbod.curr = 0)

(* The devices, while no library call has failed and no I/O thread waits    *)
(* for itself.                                                              *)
Begun(d) == /\ d \in MyDevices
            /\ \/ spdk = "init" /\ d < dev
               \/ spdk = "initWait" /\ d <= dev
               \/ spdk \in AfterInit \cup {"ended"}

Over(d) == /\ d \in MyDevices
           /\ \/ spdk \in {"deinit", "deinitWait"} /\ d < dev
              \/ spdk \in {"stop", "ended"}

DevOk(d) ==
    /\ ~Begun(d) => io[d] = "none" /\ ~opened[d] /\ ~ioInitDone[d]
    /\ (spdk = "initWait" /\ d = dev) =>
          /\ isRunning[d] = 3
          /\ (io[d] \in {"create", "bdevInit"} /\ ~ioInitDone[d]) \/ io[d] = "wait"
    /\ (spdk = "deinitWait" /\ d = dev) =>
          \/ isRunning[d] = 4 /\ io[d] \in {"wait", "poll", "left"}
          \/ isRunning[d] = 5 /\ io[d] = "ended"
    /\ (Begun(d) /\ ~Over(d) /\ ~(spdk \in {"initWait", "deinitWait"} /\ d = dev)) =>
          isRunning[d] = 1 /\ io[d] \in {"wait", "poll"}
    /\ Over(d) => io[d] = "ended" /\ ~opened[d]

DevInv ==
    /\ isRunning \in [Devices -> 0 .. 5] /\ DOMAIN io = Devices
    /\ opened \in [Devices -> BOOLEAN]
    /\ ~failed => \A d \in Devices : DevOk(d)

(* The pools, and the objects that an open store has.                       *)
PoolInv ==
    /\ pools \subseteq Pools /\ DOMAIN part = Pools
    /\ \A p \in pools : part[p] \in {"base", "full"}
    /\ app # "start" => \A p \in Pools : part[p] \notin {"none", "base"}
    /\ app \in {"spdkCore", "dht", "serve", "offload", "waitReady", "pollers", "pkey", "open"}
         => "rtree" \in live
    /\ app = "open" => "pkey" \in live

(* What a dead process died of.                                             *)
DeathInv ==
    /\ death.why = "cast" => (devType = "JBOD" /\ (conf.devs = <<>> \/ failed))
    /\ death.why = "missing" => death.at # "open"
    /\ death.why = "manage" => death.at = "start"

(* The inductive invariant.                                                 *)
LifeInv == ConfInv /\ StageInv /\ InitInv /\ DevInv /\ PoolInv /\ DeathInv

------------------------------------------------------------------------------
(* readConfiguration leaves options that a node can open: a single device   *)
(* or none, or a JBOD, which has a device when the file was accepted.       *)
LEMMA ConfRead ==
    ASSUME NEW f \in Files, readConfiguration(f).devType # "RAID0"
    PROVE  ConfOk(readConfiguration(f))
<1>0. /\ readConfiguration(f).devs \in Seq(DOMAIN PciAddr)
      /\ Len(readConfiguration(f).devs) <= NumDevices
  BY Zenon, DevicesAssumption
<1> DEFINE Good(c) == /\ c.devType = "BDEV" => (c.devs = <<>> \/ Len(c.devs) = 1)
                      /\ (c.devType = "JBOD" /\ c.ret = "true") => c.devs # <<>>
                      /\ c.devType \in {"BDEV", "JBOD", "RAID0"}
                      /\ DOMAIN c = DOMAIN DefaultOptions
<1>1. Good(Leave(DefaultOptions, "false"))
  BY DEF Leave, DefaultOptions
<1>2. PICK o : o = [DefaultOptions EXCEPT !.mode = Mode(f)]
  BY Zenon
<1>3. o.ret = "true" /\ o.devType = "BDEV" /\ o.devs = <<>> /\ DOMAIN o = DOMAIN DefaultOptions
  BY <1>2 DEF DefaultOptions
<1>4. Good(ReadOffload(f, o))
  <2>1. PICK y : y = CASE f.dev = "bdev" -> "BDEV" [] f.dev = "jbod" -> "JBOD"
                       [] f.dev = "raid0" -> "RAID0" [] OTHER -> o.devType
    OBVIOUS
  <2>2. PICK t : t = [o EXCEPT !.devType = y]
    BY Zenon
  <2>3. t.ret = "true" /\ t.devType = y /\ t.devs = <<>> /\ DOMAIN t = DOMAIN DefaultOptions
    BY <1>3, <2>2 DEF DefaultOptions
  <2>4. CASE o.mode = "SATELLITE" \/ f.dev \notin {"bdev", "jbod", "raid0"}
    <3>1. ReadOffload(f, o) = o
      BY Zenon, <2>4 DEF ReadOffload
    <3> QED
      BY <1>3, <3>1
  <2>5. CASE ~(o.mode = "SATELLITE" \/ f.dev \notin {"bdev", "jbod", "raid0"}) /\ f.dev = "bdev"
    <3>1. y = "BDEV"
      BY <2>1, <2>5
    <3>2. ReadOffload(f, o) = IF f.nvme THEN [t EXCEPT !.devs = <<1>>] ELSE Leave(t, "false")
      BY <2>1, <2>2, <2>5 DEF ReadOffload
    <3> QED
      BY <2>3, <3>1, <3>2 DEF Leave, DefaultOptions
  <2>6. CASE ~(o.mode = "SATELLITE" \/ f.dev \notin {"bdev", "jbod", "raid0"}) /\ f.dev # "bdev"
    <3>1. y \in {"JBOD", "RAID0"}
      BY <2>1, <2>6
    <3>2. PICK c : c = Complete(f.devices)
      OBVIOUS
    <3>3. ReadOffload(f, o) = IF f.devices = Missing THEN Leave(t, "throw")
                              ELSE IF c = <<>> THEN Leave(t, "false")
                              ELSE [t EXCEPT !.devs = c]
      BY <2>1, <2>2, <2>6, <3>2 DEF ReadOffload
    <3> QED
      BY <2>3, <3>1, <3>3 DEF Leave, DefaultOptions
  <2> QED
    BY <2>4, <2>5, <2>6
<1>5. PICK r : r = ReadOffload(f, o)
  OBVIOUS
<1>6. PICK c : c = ReadDht(f, r)
  OBVIOUS
<1>7. c.devs = r.devs /\ c.devType = r.devType /\ c.ret = r.ret
  BY <1>4, <1>5, <1>6 DEF ReadDht, DefaultOptions
<1>8. Good(readConfiguration(f))
  <2>1. CASE f.file # "ok"
    BY <1>1, <2>1 DEF readConfiguration
  <2>2. CASE f.file = "ok" /\ r.ret # "true"
    <3>1. readConfiguration(f) = r
      BY Zenon, <1>2, <1>5, <2>2 DEF readConfiguration
    <3> QED
      BY Zenon, <1>4, <1>5, <3>1
  <2>3. CASE f.file = "ok" /\ r.ret = "true"
    <3>1. readConfiguration(f) = c
      BY Zenon, <1>2, <1>5, <1>6, <2>3 DEF readConfiguration
    <3>2. DOMAIN c = DOMAIN r
      BY Zenon, <1>6 DEF ReadDht
    <3> QED
      BY Zenon, <1>4, <1>5, <1>7, <3>1, <3>2
  <2> QED
    BY <2>1, <2>2, <2>3
<1> QED
  BY <1>0, <1>8 DEF ConfOk

(* The invariant of the start.                                              *)
LEMMA LifeInit == Init => LifeInv /\ JbodInv /\ JbodFields /\ conf.devs = <<>>
<1> SUFFICES ASSUME Init
             PROVE  LifeInv /\ JbodInv /\ JbodFields /\ conf.devs = <<>>
  OBVIOUS
<1>1. /\ conf = DefaultOptions /\ failed = FALSE
      /\ isRunning = [d \in Devices |-> 0] /\ ioInitDone = [d \in Devices |-> FALSE]
      /\ io = [d \in Devices |-> "none"] /\ opened = [d \in Devices |-> FALSE]
      /\ jbod = [num |-> 0, curr |-> 0, hash |-> <<>>, share |-> 0]
      /\ pools = {} /\ part = [p \in Pools |-> "none"]
      /\ app = "start" /\ live = {} /\ bdevFound = FALSE /\ enabled = FALSE
      /\ spdk = "none" /\ dev = 1 /\ death = NoDeath
  BY Zenon DEF Init, DevInit, PoolInit
<1>2. /\ conf.devs = <<>> /\ conf.devType = "BDEV"
      /\ jbod.num = 0 /\ jbod.curr = 0 /\ DOMAIN jbod = {"num", "curr", "hash", "share"}
      /\ death.why = "none"
  BY <1>1 DEF DefaultOptions, NoDeath
<1>3. ConfInv
  <2>1. NumDevices \in Nat
    BY Zenon, DevicesAssumption
  <2>2. PICK S : S = DOMAIN PciAddr
    OBVIOUS
  <2>3. <<>> \in Seq(S) /\ Len(<<>>) <= NumDevices
    BY <2>1
  <2>4. ConfOk(conf)
    BY Zenon, <1>2, <2>2, <2>3 DEF ConfOk
  <2> QED
    BY Zenon, <1>1, <2>4 DEF ConfInv
<1>4. StageInv
  BY <1>1, <1>2 DEF StageInv, AfterInit
<1>5. InitInv
  BY <1>1, <1>2 DEF InitInv, Inited, AfterInit
<1>6. JbodFields
  BY <1>1, <1>2 DEF JbodFields
<1>7. JbodInv
  BY <1>2 DEF JbodInv, devType
<1>8. DevInv
  <2>1. \A d \in Devices : DevOk(d)
    BY <1>1 DEF DevOk, Begun, Over, AfterInit
  <2> QED
    BY <1>1, <2>1 DEF DevInv
<1>9. PoolInv
  BY <1>1 DEF PoolInv
<1>10. DeathInv
  BY <1>2 DEF DeathInv
<1> QED
  BY Zenon, <1>2, <1>3, <1>4, <1>5, <1>6, <1>7, <1>8, <1>9, <1>10 DEF LifeInv

------------------------------------------------------------------------------
(* What the steps of each thread leave alone.                               *)

(* KVStore::init and ~KVStore touch no device.                              *)
AppFrame == /\ UNCHANGED <<isRunning, ioInitDone, io, opened, jbod>>
            /\ UNCHANGED <<pools, part, enabled, dev>>
            /\ Alive /\ (failed' = failed \/ failed' = TRUE)

(* What a step of the application leaves alone.                             *)
LEMMA AppFrames == ASSUME ConfInv, AppStep \/ CloseRtree \/ QuiesceOffload PROVE AppFrame
<1>1. failed \in BOOLEAN
  BY Zenon DEF ConfInv
<1> USE <1>1 DEF AppFrame, devVars, poolVars, spdkVars
<1>2. CASE ReadConfig
  BY <1>2 DEF ReadConfig
<1>3. CASE OpenRtree
  BY <1>3 DEF OpenRtree
<1>4. CASE NewSpdkCore
  BY Zenon, <1>4 DEF NewSpdkCore
<1>5. CASE NewDhtServer \/ serve \/ startSpdk \/ waitReady \/ StartPollers \/ OpenPKey
  BY <1>5 DEF NewDhtServer, serve, startSpdk, waitReady, StartPollers, OpenPKey
<1>6. CASE CloseRtree \/ ClosePKey \/ JoinServer \/ PollersStopped \/ StopOffload
           \/ FreeOffload \/ JoinSpdk
  BY <1>6 DEF CloseRtree, ClosePKey, JoinServer, PollersStopped, StopOffload, FreeOffload,
              JoinSpdk, CloseStep
<1>7. CASE StopServer \/ \E p \in RqstPollers : StopPoller(p)
  BY <1>7 DEF StopServer, StopPoller
<1>8. CASE QuiesceOffload
  BY <1>8 DEF QuiesceOffload
<1> QED
  BY Zenon, <1>2, <1>3, <1>4, <1>5, <1>6, <1>7, <1>8 DEF AppStep

(* The SPDK thread does not move the application.                           *)
SpdkFrame == /\ UNCHANGED <<conf, bdevFound, app, pools, part>>
             /\ Alive /\ (failed' = failed \/ failed' = TRUE)
             /\ spdk # "none" /\ spdk' # "none"

(* What a step of the SPDK thread leaves alone.                             *)
LEMMA SpdkFrames == ASSUME SpdkThread PROVE SpdkFrame
<1> USE DEF SpdkFrame, devVars, poolVars, spdkVars
<1>1. CASE SpdkAppStart \/ SpdkInitBegin \/ SpdkLists \/ SpdkRing
  BY <1>1 DEF SpdkAppStart, SpdkInitBegin, SpdkLists, SpdkRing, SpdkStep, BdevInitBegin
<1>2. CASE SpdkInitEnd \/ SpdkDeinitEnd
  BY <1>2 DEF SpdkInitEnd, SpdkDeinitEnd, BdevInitEnd, DeinitEnd, NextDevice
<1>3. CASE SpdkRunning \/ SpdkReady \/ SpdkCheck \/ SpdkDangling
  BY <1>3 DEF SpdkRunning, SpdkReady, SpdkCheck, SpdkDangling, SpdkStep
<1>4. CASE SpdkLoop \/ SpdkDeinit \/ SpdkStop
  BY <1>4 DEF SpdkLoop, SpdkDeinit, SpdkStop, SpdkStep, JbodWrite, DeinitBegin
<1> QED
  BY <1>1, <1>2, <1>3, <1>4 DEF SpdkThread

(* The threads of the devices see nothing else.                             *)
DeviceFrame == /\ UNCHANGED <<conf, bdevFound, app, pools, part, live, spdk, dev, enabled, jbod>>
               /\ UNCHANGED death /\ Alive /\ (failed' = failed \/ failed' = TRUE)

(* What a step of a device's threads leaves alone.                          *)
LEMMA DeviceFrames == ASSUME DeviceThreads PROVE DeviceFrame
<1>1. PICK d \in Devices : IoThreadStep(d) \/ finilizerThreadMain(d)
  BY Zenon DEF DeviceThreads
<1>2. conf' = conf /\ jbod' = jbod /\ (failed' = failed \/ failed' = TRUE)
  BY <1>1 DEF IoThreadStep, IoThreadCreate, bdevInit, IoPollerRegister, IoPoll, IoLeft,
              IoDeinitEnd, SelfDeinit, finilizerThreadMain
<1> QED
  BY <1>2 DEF DeviceThreads, DeviceFrame, nodeVars, poolVars, spdkVars

(* The threads of the server, of the pollers and of the collector, and the  *)
(* calls of the application, leave the devices and the SPDK thread alone.   *)
Elsewhere == /\ UNCHANGED <<conf, isRunning, ioInitDone, io, opened, jbod, failed>>
             /\ UNCHANGED <<bdevFound, enabled, spdk, dev, app, live>>

(* What the other threads leave alone.                                      *)
LEMMA ElsewhereFrames ==
    ASSUME \/ OffloadCall \/ ServerThread \/ Handle \/ StaticPools \/ Collector
           \/ \E p \in RqstPollers : AsyncCall(p) \/ PollerProcess(p) \/ PollerEnd(p)
           \/ \E w \in DhtWorkers : WorkerStop(w)
    PROVE  Elsewhere
<1> USE DEF Elsewhere, devVars, spdkVars
<1>1. CASE OffloadCall
  BY <1>1 DEF OffloadCall
<1>2. CASE ServerThread
  BY <1>2 DEF ServerThread, ServerStart, ServerReady, ServerRun, ServerStop, ServerJoin,
              ServerStep
<1>3. CASE Handle
  BY <1>3 DEF Handle, ServerStep
<1>4. CASE StaticPools \/ Collector
  BY <1>4 DEF StaticPools, Collector, nodeVars
<1>5. CASE \E p \in RqstPollers : AsyncCall(p) \/ PollerProcess(p) \/ PollerEnd(p)
  BY <1>5 DEF AsyncCall, PollerProcess, PollerEnd
<1>6. CASE \E w \in DhtWorkers : WorkerStop(w)
  BY <1>6 DEF WorkerStop, ServerStep
<1> QED
  BY <1>1, <1>2, <1>3, <1>4, <1>5, <1>6

------------------------------------------------------------------------------
(* The options and the flag that says whether a device was found.           *)
LEMMA ConfKeeps == LifeInv /\ [Next]_vars => ConfInv'
<1> SUFFICES ASSUME LifeInv, [Next]_vars
             PROVE  ConfInv'
  OBVIOUS
<1>0. ConfInv /\ StageInv
  BY Zenon DEF LifeInv
<1>1. CASE ReadConfig
  <2>1. PICK f \in Files : conf' = readConfiguration(f) /\ conf'.devType # "RAID0"
    BY Zenon, <1>1 DEF ReadConfig
  <2>2. ConfOk(conf')
    BY Zenon, <2>1, ConfRead
  <2>3. ~bdevFound /\ spdk = "none" /\ failed' \in BOOLEAN
    BY Zenon, <1>0, <1>1 DEF ReadConfig, ConfInv, StageInv
  <2>4. bdevFound' = bdevFound /\ spdk' = spdk
    BY <1>1 DEF ReadConfig, spdkVars
  <2>5. ConfOk(conf)'
    BY Zenon, <2>2 DEF ConfOk
  <2> QED
    BY Zenon, <2>3, <2>4, <2>5 DEF ConfInv
<1>2. CASE NewSpdkCore
  <2>1. /\ conf' = conf /\ spdk' = spdk /\ (bdevFound' => createConfFile)
        /\ app' \notin {"start", "rtree"} /\ (app' = "spdkCore" => ~bdevFound')
    BY <1>0, <1>2 DEF NewSpdkCore, ConfInv, StageInv
  <2>2. failed' \in BOOLEAN /\ spdk = "none"
    BY Zenon, <1>0, <1>2, AppFrames DEF AppFrame, AppStep, ConfInv, NewSpdkCore, StageInv
  <2> QED
    BY Zenon, <1>0, <2>1, <2>2 DEF ConfInv, ConfOk, createConfFile
<1>3. ASSUME conf' = conf, bdevFound' = bdevFound, failed' \in BOOLEAN,
             spdk' # "none" => bdevFound,
             app' \in {"start", "rtree", "spdkCore"} => app \in {"start", "rtree", "spdkCore"}
      PROVE  ConfInv'
  BY Zenon, <1>0, <1>3 DEF ConfInv, ConfOk
<1>4. CASE QuiesceOffload \/ CloseRtree \/ (AppStep /\ ~ReadConfig /\ ~NewSpdkCore)
  <2>1. failed' \in BOOLEAN
    BY Zenon, <1>0, <1>4, AppFrames DEF AppFrame, ConfInv
  <2>2. CASE startSpdk
    BY <1>0, <1>3, <2>1, <2>2 DEF startSpdk, devVars, ConfInv
  <2>3. CASE QuiesceOffload \/ OpenRtree \/ NewDhtServer \/ serve \/ waitReady \/ StartPollers
             \/ OpenPKey
    BY Zenon, <1>0, <1>3, <2>1, <2>3 DEF QuiesceOffload, OpenRtree, NewDhtServer, serve, waitReady,
       StartPollers, OpenPKey, devVars, spdkVars, ConfInv
  <2>4. CASE \/ CloseRtree \/ ClosePKey \/ StopServer \/ JoinServer \/ PollersStopped
             \/ StopOffload \/ FreeOffload \/ JoinSpdk
             \/ \E p \in RqstPollers : StopPoller(p)
    BY <1>0, <1>3, <2>1, <2>4 DEF CloseRtree, ClosePKey, StopServer, JoinServer, StopPoller,
       PollersStopped, StopOffload, FreeOffload, JoinSpdk, CloseStep, devVars, spdkVars, ConfInv
  <2> QED
    BY <1>4, <2>2, <2>3, <2>4 DEF AppStep
<1>5. CASE SpdkThread
  BY Zenon, <1>0, <1>3, <1>5, SpdkFrames DEF SpdkFrame, ConfInv
<1>6. CASE DeviceThreads
  BY Zenon, <1>0, <1>3, <1>6, DeviceFrames DEF DeviceFrame, ConfInv
<1>7. CASE Elsewhere
  BY <1>0, <1>3, <1>7 DEF Elsewhere, ConfInv
<1>8. CASE UNCHANGED vars
  BY <1>0, <1>3, <1>8 DEF vars, devVars, spdkVars, ConfInv
<1> QED
  BY Zenon, <1>1, <1>2, <1>4, <1>5, <1>6, <1>7, <1>8, ElsewhereFrames DEF Next, AppStep

(* The devices the SPDK thread goes through have numbers from 1 on.         *)
LEMMA DeviceNumbers ==
    ASSUME ConfInv
    PROVE  /\ MyDevices \subseteq Devices /\ Devices \subseteq Nat \ {0}
           /\ conf.devs # <<>> => 1 \in MyDevices
           /\ devType = "JBOD" => MyDevices = 1 .. Len(conf.devs) /\ Len(conf.devs) \in Nat
           /\ devType = "BDEV" => MyDevices = {1}
           /\ devType \in {"JBOD", "BDEV"}
           /\ \A d \in MyDevices : \A e \in Nat \ {0} : e < d => e \in MyDevices
<1>1. conf.devs \in Seq(DOMAIN PciAddr) /\ Len(conf.devs) <= NumDevices
      /\ conf.devType \in {"BDEV", "JBOD"} /\ NumDevices \in Nat \ {0}
  BY Zenon, DevicesAssumption DEF ConfInv, ConfOk
<1>2. Len(conf.devs) \in Nat /\ (conf.devs # <<>> => Len(conf.devs) > 0)
  BY <1>1
<1>3. CASE conf.devType = "JBOD"
  BY <1>1, <1>2, <1>3 DEF MyDevices, Devices, devType
<1>4. CASE conf.devType = "BDEV"
  BY <1>1, <1>2, <1>4 DEF MyDevices, Devices, devType
<1> QED
  BY <1>1, <1>3, <1>4

(* The stages of the SPDK thread.                                           *)
LEMMA StageKeeps == LifeInv /\ [Next]_vars => StageInv'
<1> SUFFICES ASSUME LifeInv, [Next]_vars
             PROVE  StageInv'
  OBVIOUS
<1>0. ConfInv /\ StageInv
  BY Zenon DEF LifeInv
<1>1. CASE QuiesceOffload \/ CloseRtree \/ AppStep
  <2>0. dev' = dev /\ enabled' = enabled
    BY <1>0, <1>1, AppFrames DEF AppFrame
  <2>1. CASE ReadConfig
    BY <1>0, <2>0, <2>1 DEF ReadConfig, spdkVars, StageInv
  <2>2. CASE startSpdk
    <3>1. 1 \in MyDevices \/ ~bdevFound
      BY <1>0, DeviceNumbers DEF ConfInv
    <3>2. MyDevices' = MyDevices
      BY <2>2 DEF startSpdk, devVars, MyDevices, devType
    <3> QED
      BY <1>0, <2>0, <2>2, <3>1, <3>2 DEF startSpdk, StageInv, AfterInit
  <2>3. ASSUME MyDevices' = MyDevices, spdk' = spdk,
               app' \in {"start", "rtree", "spdkCore", "dht", "serve", "offload", "failed"}
                 => spdk = "none",
               app' = "closed" => spdk \in {"none", "ended"},
               \/ app' \in {"joinSpdk", "closed"} /\ live \ {"offload", "ring"} \subseteq live'
               \/ app \notin {"joinSpdk", "closed"} /\ live \ {"rtree", "pkey", "dht"} \subseteq live'
        PROVE  StageInv'
    BY <1>0, <2>0, <2>3 DEF StageInv
  <2>4. CASE QuiesceOffload \/ NewSpdkCore \/ serve \/ waitReady \/ StartPollers
    <3>1. MyDevices' = MyDevices /\ spdk' = spdk /\ live' = live
      BY Zenon, <2>4 DEF QuiesceOffload, NewSpdkCore, serve, waitReady, StartPollers, devVars,
                  spdkVars, MyDevices, devType
    <3>2. /\ app' \in {"start", "rtree", "spdkCore", "dht", "serve", "offload", "failed"}
                 => spdk = "none"
          /\ app' # "closed" /\ app \notin {"joinSpdk", "closed"}
      BY Zenon, <1>0, <2>4 DEF QuiesceOffload, NewSpdkCore, serve, waitReady, StartPollers, StageInv
    <3> QED
      BY Zenon, <2>3, <3>1, <3>2
  <2>5. CASE OpenRtree \/ NewDhtServer \/ OpenPKey
    <3>1. MyDevices' = MyDevices /\ spdk' = spdk /\ live \subseteq live'
      BY <2>5 DEF OpenRtree, NewDhtServer, OpenPKey, devVars, spdkVars, MyDevices, devType
    <3>2. /\ app' \in {"start", "rtree", "spdkCore", "dht", "serve", "offload", "failed"}
                 => spdk = "none"
          /\ app' # "closed" /\ app \notin {"joinSpdk", "closed"}
      BY <1>0, <2>5 DEF OpenRtree, NewDhtServer, OpenPKey, StageInv
    <3> QED
      BY Zenon, <2>3, <3>1, <3>2
  <2>6. CASE \/ CloseRtree \/ ClosePKey \/ StopServer \/ JoinServer \/ PollersStopped
             \/ StopOffload \/ FreeOffload \/ JoinSpdk
             \/ \E p \in RqstPollers : StopPoller(p)
    <3>1. MyDevices' = MyDevices /\ spdk' = spdk
      BY <2>6 DEF CloseRtree, ClosePKey, StopServer, JoinServer, StopPoller, PollersStopped,
         StopOffload, FreeOffload, JoinSpdk, CloseStep, devVars, spdkVars, MyDevices, devType
    <3>2. /\ app' \notin {"start", "rtree", "spdkCore", "dht", "serve", "offload", "failed"}
          /\ app' = "closed" => spdk \in {"none", "ended"}
          /\ \/ app' \in {"joinSpdk", "closed"} /\ live \ {"offload", "ring"} \subseteq live'
             \/ app \notin {"joinSpdk", "closed"} /\ live \ {"rtree", "pkey", "dht"} \subseteq live'
      BY <2>6 DEF CloseRtree, ClosePKey, StopServer, JoinServer, StopPoller, PollersStopped,
         StopOffload, FreeOffload, JoinSpdk, CloseStep
    <3> QED
      BY Zenon, <2>3, <3>1, <3>2
  <2> QED
    BY Zenon, <1>1, <2>1, <2>2, <2>4, <2>5, <2>6 DEF AppStep
<1>2. CASE SpdkThread
  <2>0. MyDevices' = MyDevices /\ app' = app /\ 1 \in MyDevices
    <3>1. SpdkFrame
      BY Zenon, <1>2, SpdkFrames
    <3> QED
      BY <1>0, <3>1, DeviceNumbers DEF SpdkFrame, MyDevices, devType, ConfInv
  <2>1. CASE SpdkAppStart \/ SpdkInitBegin
    BY <1>0, <2>0, <2>1 DEF SpdkAppStart, SpdkInitBegin, SpdkStep, StageInv, AfterInit
  <2>2. CASE SpdkInitEnd
    BY <1>0, <2>0, <2>2 DEF SpdkInitEnd, NextDevice, StageInv, AfterInit
  <2>3. CASE SpdkLists
    BY <1>0, <2>0, <2>3 DEF SpdkLists, SpdkStep, StageInv, AfterInit
  <2>4. CASE SpdkRing
    BY <1>0, <2>0, <2>4 DEF SpdkRing, SpdkStep, StageInv, AfterInit
  <2>5. CASE SpdkRunning \/ SpdkReady \/ SpdkLoop
    BY <1>0, <2>0, <2>5 DEF SpdkRunning, SpdkReady, SpdkLoop, SpdkStep, StageInv, AfterInit
  <2>6. CASE SpdkCheck \/ SpdkDeinit \/ SpdkStop
    BY <1>0, <2>0, <2>6 DEF SpdkCheck, SpdkDeinit, SpdkStop, SpdkStep, StageInv, AfterInit
  <2>7. CASE SpdkDeinitEnd
    BY <1>0, <2>0, <2>7 DEF SpdkDeinitEnd, NextDevice, StageInv, AfterInit
  <2>8. CASE SpdkDangling
    BY <1>0, <2>0, <2>8 DEF SpdkDangling, spdkVars, StageInv
  <2> QED
    BY Zenon, <1>2, <2>1, <2>2, <2>3, <2>4, <2>5, <2>6, <2>7, <2>8 DEF SpdkThread
<1>3. ASSUME conf' = conf, live' = live, spdk' = spdk, dev' = dev, enabled' = enabled, app' = app
      PROVE  StageInv'
  BY Zenon, <1>0, <1>3 DEF StageInv, MyDevices, devType
<1>4. CASE DeviceThreads
  BY <1>3, <1>4, DeviceFrames DEF DeviceFrame
<1>5. CASE Elsewhere
  BY <1>3, <1>5 DEF Elsewhere
<1>6. CASE UNCHANGED vars
  BY <1>3, <1>6 DEF vars, devVars, spdkVars
<1> QED
  BY Zenon, <1>1, <1>2, <1>4, <1>5, <1>6, ElsewhereFrames DEF Next

(* What the application does leaves the SPDK thread where it is, except     *)
(* that startSpdk starts it; and the options, except that ReadConfig reads  *)
(* them.                                                                    *)
LEMMA AppMoves ==
    ASSUME ConfInv, StageInv, QuiesceOffload \/ CloseRtree \/ AppStep
    PROVE  /\ spdk' = spdk \/ (spdk = "none" /\ spdk' = "start")
           /\ conf' = conf \/ (spdk = "none" /\ spdk' = "none")
<1>1. CASE ReadConfig
  BY <1>1 DEF ReadConfig, spdkVars, StageInv
<1>2. CASE startSpdk
  BY <1>2 DEF startSpdk, devVars, StageInv
<1>3. CASE QuiesceOffload \/ NewSpdkCore \/ serve \/ waitReady \/ StartPollers
           \/ OpenRtree \/ NewDhtServer \/ OpenPKey
  BY Zenon, <1>3 DEF QuiesceOffload, NewSpdkCore, serve, waitReady, StartPollers, OpenRtree,
     NewDhtServer, OpenPKey, devVars, spdkVars
<1>4. CASE \/ CloseRtree \/ ClosePKey \/ StopServer \/ JoinServer \/ PollersStopped
           \/ StopOffload \/ FreeOffload \/ JoinSpdk
           \/ \E p \in RqstPollers : StopPoller(p)
  BY <1>4 DEF CloseRtree, ClosePKey, StopServer, JoinServer, StopPoller, PollersStopped,
     StopOffload, FreeOffload, JoinSpdk, CloseStep, devVars, spdkVars
<1> QED
  BY Zenon, <1>1, <1>2, <1>3, <1>4 DEF AppStep

(* A device whose init has returned has an I/O engine.                      *)
LEMMA InitKeeps == LifeInv /\ [Next]_vars => InitInv'
<1> SUFFICES ASSUME LifeInv, [Next]_vars
             PROVE  InitInv'
  OBVIOUS
<1>0. ConfInv /\ StageInv /\ InitInv
  BY Zenon DEF LifeInv
<1>1. ASSUME ioInitDone' = ioInitDone, MyDevices' = MyDevices,
             \A d \in MyDevices : Inited(d)' => Inited(d)
      PROVE  InitInv'
  BY Zenon, <1>0, <1>1 DEF InitInv
<1>2. CASE QuiesceOffload \/ CloseRtree \/ AppStep
  <2>1. AppFrame /\ (spdk' = spdk \/ (spdk = "none" /\ spdk' = "start"))
    BY <1>0, <1>2, AppFrames, AppMoves
  <2>2. CASE conf' = conf
    BY <1>1, <2>1, <2>2 DEF AppFrame, MyDevices, devType, Inited, AfterInit
  <2>3. CASE spdk = "none" /\ spdk' = "none"
    BY <1>0, <2>1, <2>3 DEF AppFrame, Inited, AfterInit, StageInv, InitInv
  <2> QED
    BY <1>0, <1>2, <2>2, <2>3, AppMoves
<1>3. CASE SpdkThread
  <2>0. conf' = conf /\ MyDevices' = MyDevices
    BY <1>3, SpdkFrames DEF SpdkFrame, MyDevices, devType
  <2>a. \A d \in MyDevices : d \in Nat \ {0}
    BY Zenon, <1>0, DeviceNumbers
  <2>1. CASE SpdkAppStart
    <3>1. ioInitDone' = ioInitDone /\ dev' = dev /\ enabled' = enabled
          /\ spdk = "start" /\ spdk' \in {"init", "ended"}
      BY <2>1 DEF SpdkAppStart, SpdkStep
    <3> QED
      BY <1>0, <1>1, <2>0, <2>a, <3>1 DEF Inited, StageInv, AfterInit
  <2>2. CASE SpdkInitBegin
    <3>1. ioInitDone' = ioInitDone /\ dev' = dev /\ enabled' = enabled
          /\ spdk = "init" /\ spdk' = "initWait"
      BY <2>2 DEF SpdkInitBegin, SpdkStep, BdevInitBegin
    <3> QED
      BY <1>0, <1>1, <2>0, <2>a, <3>1 DEF Inited, StageInv, AfterInit
  <2>3. CASE SpdkInitEnd
    <3>1. /\ ioInitDone' = ioInitDone /\ ioInitDone[dev] /\ enabled' = enabled
          /\ spdk = "initWait"
          /\ \/ dev + 1 \in MyDevices /\ dev' = dev + 1 /\ spdk' = "init"
             \/ dev + 1 \notin MyDevices /\ dev' = 1 /\ spdk' = "lists"
      BY <2>3 DEF SpdkInitEnd, BdevInitEnd, NextDevice
    <3>2. dev \in MyDevices /\ dev \in Nat \ {0}
      BY <1>0, <3>1 DEF StageInv
    <3>3. \A d \in MyDevices : d <= dev \/ dev + 1 \in MyDevices
      <4>1. \A d \in MyDevices : \A e \in Nat \ {0} : e < d => e \in MyDevices
        BY Zenon, <1>0, DeviceNumbers
      <4>2. ASSUME NEW d \in MyDevices, dev < d
            PROVE  dev + 1 \in MyDevices
        <5>1. dev + 1 \in Nat \ {0} /\ (dev + 1 < d \/ dev + 1 = d)
          BY <2>a, <3>2, <4>2
        <5> QED
          BY Zenon, <4>1, <5>1
      <4> QED
        BY <2>a, <3>2, <4>2
    <3>4. \A d \in MyDevices : Inited(d)' => (d <= dev \/ Inited(d))
      BY <1>0, <2>a, <3>1, <3>2, <3>3 DEF Inited, AfterInit
    <3>5. \A d \in MyDevices : d <= dev => ioInitDone[d]
      <4>1. \A d \in MyDevices : d < dev => ioInitDone[d]
        BY <1>0, <3>1 DEF InitInv, Inited
      <4> QED
        BY <2>a, <3>1, <3>2, <4>1
    <3> QED
      BY <1>0, <2>0, <3>1, <3>4, <3>5 DEF InitInv
  <2>4. CASE SpdkDeinitEnd \/ SpdkDeinit \/ SpdkStop \/ SpdkCheck \/ SpdkDangling
    <3>1. /\ ioInitDone' = ioInitDone /\ enabled' = enabled
          /\ spdk \in AfterInit /\ spdk' \in AfterInit \cup {"ended"}
      BY <2>4 DEF SpdkDeinitEnd, DeinitEnd, NextDevice, SpdkDeinit, DeinitBegin, SpdkStop,
         SpdkCheck, SpdkDangling, SpdkStep, devVars, spdkVars, AfterInit
    <3> QED
      BY <1>1, <2>0, <3>1 DEF Inited, AfterInit
  <2>5. CASE SpdkLists \/ SpdkRing \/ SpdkRunning \/ SpdkReady \/ SpdkLoop
    <3>1. /\ ioInitDone' = ioInitDone
          /\ spdk \in AfterInit /\ spdk' \in AfterInit \cup {"ended"}
      BY <2>5 DEF SpdkLists, SpdkRing, SpdkRunning, SpdkReady, SpdkLoop, JbodWrite, SpdkStep,
         devVars, AfterInit
    <3> QED
      BY <1>1, <2>0, <3>1 DEF Inited, AfterInit
  <2> QED
    BY Zenon, <1>3, <2>1, <2>2, <2>3, <2>4, <2>5 DEF SpdkThread
<1>4. CASE DeviceThreads
  <2>1. PICK d \in Devices : IoThreadStep(d) \/ finilizerThreadMain(d)
    BY Zenon, <1>4 DEF DeviceThreads
  <2>2. ioInitDone' = ioInitDone \/ ioInitDone' = [ioInitDone EXCEPT ![d] = TRUE]
    BY <2>1 DEF IoThreadStep, IoThreadCreate, bdevInit, IoPollerRegister, IoPoll, IoLeft,
       IoDeinitEnd, finilizerThreadMain
  <2>3. /\ ioInitDone' \in [Devices -> BOOLEAN]
        /\ \A e \in Devices : ioInitDone[e] => ioInitDone'[e]
    BY Zenon, <1>0, <2>2 DEF InitInv
  <2>4. MyDevices' = MyDevices /\ \A e \in MyDevices : (Inited(e)' <=> Inited(e)) /\ e \in Devices
    <3>1. DeviceFrame
      BY Zenon, <1>4, DeviceFrames
    <3>2. conf' = conf /\ spdk' = spdk /\ dev' = dev /\ enabled' = enabled
      BY <3>1 DEF DeviceFrame
    <3>3. MyDevices \subseteq Devices
      BY Zenon, <1>0, DeviceNumbers
    <3> QED
      BY Zenon, <3>2, <3>3 DEF MyDevices, devType, Inited
  <2> QED
    BY Zenon, <1>0, <2>3, <2>4 DEF InitInv
<1>5. CASE Elsewhere
  BY <1>1, <1>5 DEF Elsewhere, MyDevices, devType, Inited
<1>6. CASE UNCHANGED vars
  BY <1>1, <1>6 DEF vars, devVars, spdkVars, MyDevices, devType, Inited
<1> QED
  BY Zenon, <1>2, <1>3, <1>4, <1>5, <1>6, ElsewhereFrames DEF Next

------------------------------------------------------------------------------
(* The JBOD finds a device by a hash of its PCI address (hashAddr).  The    *)
(* fields of an address that fit into the bits the hash has for them:       *)
Fits(a) == /\ a.domain \in 0 .. 3 /\ a.bus \in 0 .. 63
           /\ a.dev \in 0 .. 31 /\ a.func \in 0 .. 7

Differ(a, b) == a.domain # b.domain \/ a.bus # b.bus \/ a.dev # b.dev \/ a.func # b.func

(* The devices of a file have different addresses, which fit.               *)
OwnAddresses == \A f \in Files : \A i, j \in 1 .. Len(readConfiguration(f).devs) :
    LET a == PciAddr[readConfiguration(f).devs[i]]
        b == PciAddr[readConfiguration(f).devs[j]]
    IN  i # j => (Fits(a) /\ Fits(b) /\ Differ(a, b))

(* Addresses that fit and differ have different hashes.                     *)
LEMMA HashDiffers ==
    ASSUME NEW a, NEW b, Fits(a), Fits(b), Differ(a, b)
    PROVE  hashAddr(a) # hashAddr(b)
<1>1. /\ \A x \in 0 .. 3 : x % 4 = x /\ x \in Nat /\ x < 4
      /\ \A x \in 0 .. 63 : x % 64 = x /\ x \in Nat /\ x < 64
      /\ \A x \in 0 .. 31 : x % 32 = x /\ x \in Nat /\ x < 32
      /\ \A x \in 0 .. 7 : x % 8 = x /\ x \in Nat /\ x < 8
  BY SMT
<1>2. /\ hashAddr(a) = a.domain + 4 * a.bus + 256 * a.dev + 8192 * a.func
      /\ hashAddr(b) = b.domain + 4 * b.bus + 256 * b.dev + 8192 * b.func
  <2>1. ASSUME NEW c, Fits(c)
        PROVE  hashAddr(c) = c.domain + 4 * c.bus + 256 * c.dev + 8192 * c.func
    <3>1. c.domain % 4 = c.domain /\ c.bus % 64 = c.bus /\ c.dev % 32 = c.dev
          /\ c.func % 8 = c.func
      BY <1>1, <2>1 DEF Fits
    <3> QED
      BY <3>1, SMT DEF hashAddr
  <2> QED
    BY <2>1
<1>3. /\ a.domain \in Nat /\ a.bus \in Nat /\ a.dev \in Nat /\ a.func \in Nat
      /\ a.domain < 4 /\ a.bus < 64 /\ a.dev < 32 /\ a.func < 8
      /\ b.domain \in Nat /\ b.bus \in Nat /\ b.dev \in Nat /\ b.func \in Nat
      /\ b.domain < 4 /\ b.bus < 64 /\ b.dev < 32 /\ b.func < 8
  BY <1>1 DEF Fits
<1>4. PICK u, v, x, y : /\ u = a.bus + 64 * x /\ v = b.bus + 64 * y
                        /\ x = a.dev + 32 * a.func /\ y = b.dev + 32 * b.func
  OBVIOUS
<1>5. u \in Nat /\ v \in Nat /\ x \in Nat /\ y \in Nat
  BY <1>3, <1>4
<1>6. hashAddr(a) = a.domain + 4 * u /\ hashAddr(b) = b.domain + 4 * v
  BY <1>2, <1>3, <1>4, <1>5
<1>7. SUFFICES ASSUME a.domain + 4 * u = b.domain + 4 * v
               PROVE  FALSE
  BY <1>6
<1>8. a.domain = b.domain /\ u = v
  BY <1>3, <1>5, <1>7
<1>9. a.bus = b.bus /\ x = y
  <2>1. a.bus + 64 * x = b.bus + 64 * y
    BY Zenon, <1>4, <1>8
  <2> QED
    BY <1>3, <1>5, <2>1
<1>10. a.dev = b.dev /\ a.func = b.func
  BY <1>3, <1>4, <1>9
<1> QED
  BY <1>8, <1>9, <1>10 DEF Differ

(* The devices that the node has opened have different hashes.              *)
HashInv == \A i, j \in 1 .. Len(conf.devs) : i # j => DevHash(i) # DevHash(j)

(* Only readConfiguration changes the devices of the node.                  *)
LEMMA HashKeeps ==
    ASSUME OwnAddresses, LifeInv, HashInv, [Next]_vars
    PROVE  HashInv'
<1>1. CASE conf' = conf
  BY Zenon, <1>1 DEF HashInv, DevHash
<1>2. CASE ReadConfig
  <2>1. PICK f \in Files : conf' = readConfiguration(f)
    BY Zenon, <1>2 DEF ReadConfig
  <2> SUFFICES ASSUME NEW i \in 1 .. Len(conf'.devs), NEW j \in 1 .. Len(conf'.devs), i # j
               PROVE  hashAddr(PciAddr[conf'.devs[i]]) # hashAddr(PciAddr[conf'.devs[j]])
    BY Zenon DEF HashInv, DevHash
  <2>2. PICK a, b : a = PciAddr[conf'.devs[i]] /\ b = PciAddr[conf'.devs[j]]
    OBVIOUS
  <2>3. Fits(a) /\ Fits(b) /\ Differ(a, b)
    BY Zenon, <2>1, <2>2 DEF OwnAddresses
  <2> QED
    BY Zenon, <2>2, <2>3, HashDiffers
<1>3. conf' = conf \/ ReadConfig
  <2>1. CASE SpdkThread
    BY Zenon, <2>1, SpdkFrames DEF SpdkFrame
  <2>2. CASE DeviceThreads
    BY Zenon, <2>2, DeviceFrames DEF DeviceFrame
  <2>3. CASE Elsewhere
    BY Zenon, <2>3 DEF Elsewhere
  <2>4. CASE UNCHANGED vars
    BY <2>4 DEF vars, devVars
  <2>5. CASE QuiesceOffload \/ NewSpdkCore \/ serve \/ waitReady \/ StartPollers
             \/ OpenRtree \/ NewDhtServer \/ OpenPKey \/ startSpdk
    BY Zenon, <2>5 DEF QuiesceOffload, NewSpdkCore, serve, waitReady, StartPollers, OpenRtree,
       NewDhtServer, OpenPKey, startSpdk, devVars
  <2>6. CASE \/ CloseRtree \/ ClosePKey \/ StopServer \/ JoinServer \/ PollersStopped
             \/ StopOffload \/ FreeOffload \/ JoinSpdk
             \/ \E p \in RqstPollers : StopPoller(p)
    BY <2>6 DEF CloseRtree, ClosePKey, StopServer, JoinServer, StopPoller, PollersStopped,
       StopOffload, FreeOffload, JoinSpdk, CloseStep, devVars
  <2> QED
    BY Zenon, <2>1, <2>2, <2>3, <2>4, <2>5, <2>6, ElsewhereFrames DEF Next, AppStep
<1> QED
  BY <1>1, <1>2, <1>3

(* Where the stages of a step lead, as far as the JBOD is concerned, when   *)
(* it brings up no device.                                                  *)
JbodStill ==
    /\ conf' = conf
    /\ spdk' \in {"none", "start"} => spdk \in {"none", "start"}
    /\ spdk' \in {"init", "initWait"} => /\ spdk \in {"start", "init", "initWait"}
                                         /\ dev' = dev /\ (spdk = "start" => dev = 1)
    /\ (enabled' \/ spdk' \in AfterInit) => (enabled \/ spdk \in AfterInit)

(* Such a step leaves the JBOD's numbers as they are.                       *)
LEMMA StillJbod ==
    ASSUME LifeInv, JbodInv, JbodFields, JbodStill, spdk' = "none" => spdk = "none",
           jbod' = jbod
    PROVE  JbodInv' /\ JbodFields'
<1>1. JbodInv /\ JbodFields /\ ConfInv
  BY Zenon DEF LifeInv
<1>2. JbodFields'
  BY Zenon, <1>1 DEF JbodFields
<1>3. CASE devType # "JBOD"
  BY Zenon, <1>2, <1>3 DEF JbodInv, JbodStill, devType
<1>4. CASE devType = "JBOD"
  <2>1. PICK n, c, h, s : n = jbod.num /\ c = jbod.curr /\ h = jbod.hash /\ s = jbod.share
    OBVIOUS
  <2>2. spdk' \in {"none", "start"} => n = 0
    BY Zenon, <1>1, <1>4, <2>1 DEF JbodInv, JbodStill
  <2>3. spdk' \in {"init", "initWait"} => n = dev' - 1
    <3> SUFFICES ASSUME spdk' \in {"init", "initWait"}
                 PROVE  n = dev' - 1
      OBVIOUS
    <3>1. dev' = dev /\ (spdk = "start" => dev = 1) /\ spdk \in {"start", "init", "initWait"}
      BY Zenon DEF JbodStill
    <3>2. /\ spdk = "start" => n = 0
          /\ spdk \in {"init", "initWait"} => n = dev - 1
      BY Zenon, <1>1, <1>4, <2>1 DEF JbodInv
    <3> QED
      BY <3>1, <3>2
  <2> QED
    BY Zenon, <1>1, <1>2, <1>4, <2>1, <2>2, <2>3 DEF JbodInv, JbodStill, devType, DevHash
<1> QED
  BY <1>3, <1>4

(* SpdkJBODBdev::init after the init of its next device.                    *)
LEMMA JbodAdds ==
    ASSUME LifeInv, JbodInv, JbodFields, HashInv, SpdkInitEnd
    PROVE  JbodInv' /\ JbodFields'
<1>1. JbodInv /\ JbodFields /\ ConfInv /\ StageInv
  BY Zenon DEF LifeInv
<1>2. /\ spdk = "initWait" /\ conf' = conf /\ enabled' = enabled
      /\ \/ dev + 1 \in MyDevices /\ dev' = dev + 1 /\ spdk' = "init"
         \/ dev + 1 \notin MyDevices /\ dev' = 1 /\ spdk' = "lists"
      /\ jbod' = IF devType = "JBOD" THEN JbodAdd(dev) ELSE jbod
  BY Zenon DEF SpdkInitEnd, BdevInitEnd, NextDevice
<1>3. CASE devType # "JBOD"
  BY <1>1, <1>2, <1>3 DEF JbodInv, JbodFields, devType
<1>4. CASE devType = "JBOD"
  <2>1. /\ dev \in 1 .. Len(conf.devs) /\ Len(conf.devs) \in Nat /\ ~enabled
        /\ jbod.num = dev - 1 /\ jbod.curr \in Nat /\ (jbod.num = 0 => jbod.curr = 0)
        /\ MyDevices = 1 .. Len(conf.devs)
        /\ jbod.num > 0 => jbod.curr < jbod.num
    BY <1>1, <1>2, <1>4, DeviceNumbers DEF StageInv, JbodInv, AfterInit
  <2>2. PICK h, g : /\ h = DevHash(dev)
                    /\ g = [a \in DOMAIN jbod.hash \cup {h} |->
                              IF a = h THEN jbod.num ELSE jbod.hash[a]]
    BY Zenon
  <2>3. PICK w : w = IF dev = Len(conf.devs) THEN IoPoolSize \div (jbod.num + 1)
                     ELSE jbod.share
    OBVIOUS
  <2>4. jbod' = [num |-> jbod.num + 1, curr |-> jbod.curr, hash |-> g, share |-> w]
    BY Zenon, <1>2, <1>4, <2>2, <2>3 DEF JbodAdd, DevHash
  <2>5. /\ jbod'.num = jbod.num + 1 /\ jbod'.curr = jbod.curr /\ jbod'.hash = g
        /\ jbod'.share = w /\ DOMAIN jbod' = {"num", "curr", "hash", "share"}
    BY <2>4
  <2>6. JbodFields'
    BY <1>2, <2>5 DEF JbodFields
  <2>7. /\ spdk' \in {"init", "initWait"} => jbod'.num = dev' - 1
        /\ spdk' \notin {"none", "start"}
        /\ jbod'.num \in 0 .. Len(conf.devs) /\ jbod'.num > 0
        /\ jbod'.curr \in Nat /\ jbod'.curr < jbod'.num
    BY <1>2, <2>1, <2>5
  <2>8. (enabled' \/ spdk' \in AfterInit) => /\ jbod'.num = Len(conf.devs)
                                             /\ jbod'.share = IoPoolSize \div jbod'.num
    <3> SUFFICES ASSUME enabled' \/ spdk' \in AfterInit
                 PROVE  /\ jbod'.num = Len(conf.devs)
                        /\ jbod'.share = IoPoolSize \div jbod'.num
      OBVIOUS
    <3>1. dev + 1 \notin 1 .. Len(conf.devs)
      BY <1>2, <2>1 DEF AfterInit
    <3>2. dev = Len(conf.devs) /\ jbod.num + 1 = dev
      BY <2>1, <3>1
    <3> QED
      BY Zenon, <2>3, <2>5, <3>2
  <2>9. ASSUME NEW d \in 1 .. jbod'.num
        PROVE  DevHash(d) \in DOMAIN g /\ g[DevHash(d)] = d - 1
    <3>1. d \in 1 .. Len(conf.devs) /\ (d = dev \/ d \in 1 .. jbod.num)
      BY <2>1, <2>5
    <3>2. CASE d = dev
      BY <2>1, <2>2, <3>2
    <3>3. CASE d # dev
      <4>1. DevHash(d) # h
        BY Zenon, <2>1, <2>2, <3>1, <3>3 DEF HashInv
      <4>2. DevHash(d) \in DOMAIN jbod.hash /\ jbod.hash[DevHash(d)] = d - 1
        BY Zenon, <1>1, <1>4, <3>1, <3>3 DEF JbodInv
      <4> QED
        BY Zenon, <2>2, <4>1, <4>2
    <3> QED
      BY <3>2, <3>3
  <2>10. \A d \in 1 .. jbod'.num : DevHash(d)' = DevHash(d)
    BY Zenon, <1>2 DEF DevHash
  <2>11. jbod'.num # 0
    BY <2>7
  <2>12. \A d \in 1 .. jbod'.num : /\ DevHash(d)' \in DOMAIN jbod'.hash
                                   /\ jbod'.hash[DevHash(d)'] = d - 1
    BY Zenon, <2>5, <2>9, <2>10
  <2>13. JbodInv'
    BY Zenon, <1>2, <2>7, <2>8, <2>11, <2>12 DEF JbodInv
  <2> QED
    BY <2>6, <2>13
<1> QED
  BY <1>3, <1>4

(* SpdkJBODBdev::write takes the devices in turn.                           *)
LEMMA JbodTurns ==
    ASSUME LifeInv, JbodInv, JbodFields, SpdkLoop
    PROVE  JbodInv' /\ JbodFields'
<1>1. JbodInv /\ JbodFields /\ ConfInv /\ StageInv
  BY Zenon DEF LifeInv
<1>2. /\ spdk = "loop" /\ spdk' = "check" /\ enabled' = enabled /\ conf' = conf
      /\ jbod' = jbod \/ (devType = "JBOD" /\ jbod' = [jbod EXCEPT !.curr = (@ + 1) % jbod.num])
  BY DEF SpdkLoop, SpdkStep, JbodWrite, devVars
<1>3. CASE jbod' = jbod
  <2>1. JbodStill
    BY <1>2 DEF JbodStill, AfterInit
  <2> QED
    BY <1>2, <1>3, <2>1, StillJbod
<1>4. CASE devType = "JBOD" /\ jbod' = [jbod EXCEPT !.curr = (@ + 1) % jbod.num]
  <2>1. /\ jbod'.num = jbod.num /\ jbod'.curr = (jbod.curr + 1) % jbod.num
        /\ jbod'.hash = jbod.hash /\ jbod'.share = jbod.share /\ DOMAIN jbod' = DOMAIN jbod
    BY <1>1, <1>4 DEF JbodFields
  <2>2. jbod.num = Len(conf.devs) /\ jbod.curr \in Nat
    BY <1>1, <1>2, <1>4 DEF JbodInv, AfterInit
  <2>3. jbod.num \in Nat \ {0}
    BY <1>1, <1>2, <1>4, <2>2, DeviceNumbers DEF StageInv
  <2>4. jbod'.curr \in Nat /\ jbod'.curr < jbod'.num
    <3>1. \A x \in Nat, y \in Nat \ {0} : x % y \in Nat /\ x % y < y
      BY SMT
    <3>2. jbod.curr + 1 \in Nat
      BY <2>2
    <3> QED
      BY Zenon, <2>1, <2>3, <3>1, <3>2
  <2>5. JbodFields'
    BY <1>1, <1>2, <2>1 DEF JbodFields
  <2>6. JbodInv'
    <3>1. /\ spdk' \notin {"none", "start", "init", "initWait"} /\ jbod'.num # 0
          /\ enabled \/ spdk \in AfterInit
      BY <1>2, <2>1, <2>3 DEF AfterInit
    <3> QED
      BY Zenon, <1>1, <1>2, <1>4, <2>1, <2>4, <3>1 DEF JbodInv, DevHash, devType
  <2> QED
    BY <2>5, <2>6
<1> QED
  BY <1>2, <1>3, <1>4

(* Every step keeps what the JBOD knows of its devices.                     *)
LEMMA JbodKeeps ==
    ASSUME LifeInv, JbodInv, JbodFields, HashInv, [Next]_vars
    PROVE  JbodInv' /\ JbodFields'
<1>0. JbodInv /\ JbodFields /\ ConfInv /\ StageInv
  BY Zenon DEF LifeInv
<1>1. CASE QuiesceOffload \/ CloseRtree \/ AppStep
  <2>1. /\ jbod' = jbod /\ dev' = dev /\ enabled' = enabled
        /\ spdk' = spdk \/ (spdk = "none" /\ spdk' = "start")
        /\ conf' = conf \/ (spdk = "none" /\ spdk' = "none")
    BY <1>0, <1>1, AppFrames, AppMoves DEF AppFrame
  <2>2. CASE conf' = conf
    <3>1. JbodStill /\ (spdk' = "none" => spdk = "none")
      BY <2>1, <2>2 DEF JbodStill, AfterInit
    <3> QED
      BY Zenon, <2>1, <3>1, StillJbod
  <2>3. CASE spdk = "none" /\ spdk' = "none"
    <3>1. jbod.num = 0 /\ jbod.curr = 0 /\ ~enabled
      BY <1>0, <2>3 DEF JbodFields, StageInv
    <3>2. devType' = "JBOD" => Len(conf'.devs) \in Nat
      <4>1. conf'.devs \in Seq(DOMAIN PciAddr)
        BY Zenon, ConfKeeps DEF ConfInv, ConfOk
      <4> QED
        BY <4>1
    <3> QED
      BY <1>0, <2>1, <2>3, <3>1, <3>2 DEF JbodInv, JbodFields, AfterInit
  <2> QED
    BY <2>1, <2>2, <2>3
<1>2. CASE SpdkThread /\ ~SpdkInitEnd /\ ~SpdkLoop
  <2>0. conf' = conf /\ spdk' # "none"
    BY <1>2, SpdkFrames DEF SpdkFrame
  <2>1. CASE SpdkAppStart \/ SpdkInitBegin
    <3>1. jbod' = jbod /\ JbodStill
      BY <1>0, <2>0, <2>1 DEF SpdkAppStart, SpdkInitBegin, BdevInitBegin, SpdkStep, JbodStill,
         StageInv, AfterInit
    <3> QED
      BY Zenon, <2>0, <3>1, StillJbod
  <2>2. CASE SpdkDeinitEnd \/ SpdkDeinit \/ SpdkStop \/ SpdkCheck \/ SpdkDangling
    <3>1. /\ jbod' = jbod /\ enabled' = enabled
          /\ spdk \in AfterInit /\ spdk' \in AfterInit \cup {"ended"}
      BY <2>2 DEF SpdkDeinitEnd, DeinitEnd, NextDevice, SpdkDeinit, DeinitBegin, SpdkStop,
         SpdkCheck, SpdkDangling, SpdkStep, devVars, spdkVars, AfterInit
    <3>2. JbodStill
      BY <2>0, <3>1 DEF JbodStill, AfterInit
    <3> QED
      BY Zenon, <2>0, <3>1, <3>2, StillJbod
  <2>3. CASE SpdkLists \/ SpdkRing \/ SpdkRunning \/ SpdkReady
    <3>1. jbod' = jbod /\ spdk \in AfterInit /\ spdk' \in AfterInit \cup {"ended"}
      BY <2>3 DEF SpdkLists, SpdkRing, SpdkRunning, SpdkReady, SpdkStep, devVars, AfterInit
    <3>2. JbodStill
      BY <2>0, <3>1 DEF JbodStill, AfterInit
    <3> QED
      BY Zenon, <2>0, <3>1, <3>2, StillJbod
  <2> QED
    BY Zenon, <1>2, <2>1, <2>2, <2>3 DEF SpdkThread
<1>3. ASSUME conf' = conf, spdk' = spdk, dev' = dev, enabled' = enabled, jbod' = jbod
      PROVE  JbodInv' /\ JbodFields'
  <2>1. JbodStill
    BY <1>0, <1>3 DEF JbodStill, StageInv
  <2> QED
    BY Zenon, <1>3, <2>1, StillJbod
<1>4. CASE DeviceThreads
  BY <1>3, <1>4, DeviceFrames DEF DeviceFrame
<1>5. CASE Elsewhere
  BY <1>3, <1>5 DEF Elsewhere
<1>6. CASE UNCHANGED vars
  BY <1>3, <1>6 DEF vars, devVars, spdkVars
<1> QED
  BY Zenon, <1>1, <1>2, <1>4, <1>5, <1>6, JbodAdds, JbodTurns, ElsewhereFrames DEF Next

------------------------------------------------------------------------------
(* The devices, while nothing has failed.                                   *)

(* The threads of a device: its own step, and that of another.              *)
LEMMA DeviceStep ==
    ASSUME LifeInv, ~failed', NEW d \in Devices, NEW e \in Devices,
           IoThreadStep(e) \/ finilizerThreadMain(e), DeviceFrame
    PROVE  DevOk(d)'
<1>0. DevInv /\ InitInv /\ ~failed /\ StageInv
  BY DEF LifeInv, DeviceFrame
<1>1. DevOk(d)
  BY Zenon, <1>0 DEF DevInv
<1>2. UNCHANGED <<spdk, dev, MyDevices>>
  BY DEF DeviceFrame, MyDevices, devType
<1>3. (Begun(d)' <=> Begun(d)) /\ (Over(d)' <=> Over(d))
  BY Zenon, <1>2 DEF Begun, Over
<1>4. CASE finilizerThreadMain(e)
  BY <1>1, <1>2, <1>3, <1>4 DEF finilizerThreadMain, DevOk
<1>5. CASE d # e /\ IoThreadStep(e)
  <2>1. /\ isRunning'[d] = isRunning[d] /\ ioInitDone'[d] = ioInitDone[d]
        /\ io'[d] = io[d] /\ opened'[d] = opened[d]
    BY <1>0, <1>5 DEF IoThreadStep, IoThreadCreate, bdevInit, IoPollerRegister, IoPoll, IoLeft,
       IoDeinitEnd, SelfDeinit, DevInv, InitInv
  <2> QED
    BY Zenon, <1>1, <1>2, <1>3, <2>1 DEF DevOk
<1>6. CASE d = e /\ IoThreadStep(d)
  <2>1. failed' = failed
    BY <1>0 DEF DeviceFrame
  <2>2. CASE IoThreadCreate(d)
    <3>1. /\ io[d] = "create" /\ io'[d] = "bdevInit" /\ isRunning' = isRunning
          /\ ioInitDone' = ioInitDone /\ opened' = opened
      BY <1>0, <2>1, <2>2 DEF IoThreadCreate, SelfDeinit, DevInv
    <3> QED
      BY <1>1, <1>2, <1>3, <3>1 DEF DevOk, Begun, Over, AfterInit
  <2>3. CASE bdevInit(d)
    <3>1. /\ io[d] = "bdevInit" /\ io'[d] = "wait" /\ isRunning' = isRunning
          /\ ioInitDone'[d] = TRUE
      BY <1>0, <2>1, <2>3 DEF bdevInit, DevInv, InitInv
    <3> QED
      BY <1>1, <1>2, <1>3, <3>1 DEF DevOk, Begun, Over, AfterInit
  <2>4. CASE IoPollerRegister(d)
    <3>1. /\ io[d] = "wait" /\ isRunning[d] # 3 /\ io'[d] = "poll" /\ isRunning' = isRunning
          /\ ioInitDone' = ioInitDone /\ opened' = opened
      BY <1>0, <2>1, <2>4 DEF IoPollerRegister, SelfDeinit, DevInv
    <3> QED
      BY <1>1, <1>2, <1>3, <3>1 DEF DevOk, Begun, Over, AfterInit
  <2>5. CASE IoPoll(d)
    <3>1. /\ io[d] = "poll" /\ isRunning[d] = 4 /\ io'[d] = "left" /\ isRunning' = isRunning
          /\ ioInitDone' = ioInitDone /\ opened' = opened
      BY <1>0, <2>1, <2>5 DEF IoPoll, SelfDeinit, DevInv
    <3> QED
      BY <1>1, <1>2, <1>3, <3>1 DEF DevOk, Begun, Over, AfterInit
  <2>6. CASE IoLeft(d)
    <3>1. /\ io[d] = "left" /\ io'[d] = "ended" /\ isRunning'[d] = 5
          /\ ioInitDone' = ioInitDone /\ opened' = opened
      BY <1>0, <2>1, <2>6 DEF IoLeft, DevInv
    <3> QED
      BY <1>1, <1>2, <1>3, <3>1 DEF DevOk, Begun, Over, AfterInit
  <2>7. CASE IoDeinitEnd(d)
    <3>1. io[d] = "deinit"
      BY <2>7 DEF IoDeinitEnd
    <3> QED
      BY <1>1, <3>1 DEF DevOk
  <2> QED
    BY Zenon, <1>6, <2>2, <2>3, <2>4, <2>5, <2>6, <2>7 DEF IoThreadStep
<1> QED
  BY <1>4, <1>5, <1>6

(* The SPDK thread brings the devices up, one after the other, and down.    *)
LEMMA SpdkDevice ==
    ASSUME LifeInv, ~failed', NEW d \in Devices, SpdkThread
    PROVE  DevOk(d)'
<1>0. DevInv /\ InitInv /\ StageInv /\ ConfInv
  BY Zenon DEF LifeInv
<1>1. /\ ~failed /\ MyDevices' = MyDevices /\ spdk # "none"
      /\ dev \in MyDevices /\ dev \in Nat \ {0} /\ d \in Nat \ {0}
      /\ \A e \in MyDevices : e \in Nat \ {0}
      /\ \A e \in MyDevices : \A x \in Nat \ {0} : x < e => x \in MyDevices
  <2>1. SpdkFrame
    BY Zenon, SpdkFrames
  <2>2. /\ MyDevices \subseteq Devices /\ Devices \subseteq Nat \ {0}
        /\ \A e \in MyDevices : \A x \in Nat \ {0} : x < e => x \in MyDevices
    BY Zenon, <1>0, DeviceNumbers
  <2>3. ~failed /\ MyDevices' = MyDevices /\ spdk # "none"
    BY <2>1 DEF SpdkFrame, MyDevices, devType
  <2> QED
    BY <1>0, <2>2, <2>3 DEF StageInv
<1>2. DevOk(d)
  BY Zenon, <1>0, <1>1 DEF DevInv
<1>a. /\ DOMAIN isRunning = Devices /\ DOMAIN io = Devices /\ DOMAIN opened = Devices
      /\ dev \in Devices
  BY <1>0, <1>1, DeviceNumbers DEF DevInv
<1>3. CASE SpdkAppStart
  <2>1. /\ UNCHANGED <<isRunning, ioInitDone, io, opened, dev>>
        /\ spdk = "start" /\ spdk' = "init"
    BY <1>1, <1>3 DEF SpdkAppStart, SpdkStep
  <2>2. dev = 1
    BY <1>0, <2>1 DEF StageInv
  <2> QED
    BY <1>1, <1>2, <2>1, <2>2 DEF DevOk, Begun, Over, AfterInit
<1>4. CASE SpdkInitBegin
  <2>1. /\ isRunning' = [isRunning EXCEPT ![dev] = 3] /\ io' = [io EXCEPT ![dev] = "create"]
        /\ UNCHANGED <<ioInitDone, opened, dev>> /\ spdk = "init" /\ spdk' = "initWait"
    BY <1>4 DEF SpdkInitBegin, BdevInitBegin, SpdkStep
  <2>2. CASE d = dev
    <3>1. isRunning'[d] = 3 /\ io'[d] = "create" /\ ~Begun(d)
      BY <1>1, <1>a, <2>1, <2>2 DEF Begun, AfterInit
    <3> QED
      BY <1>1, <1>2, <2>1, <2>2, <3>1 DEF DevOk, Begun, Over, AfterInit
  <2>3. CASE d # dev
    <3>1. isRunning'[d] = isRunning[d] /\ io'[d] = io[d]
      BY <1>a, <2>1, <2>3
    <3> QED
      BY <1>1, <1>2, <2>1, <2>3, <3>1 DEF DevOk, Begun, Over, AfterInit
  <2> QED
    BY <2>2, <2>3
<1>5. CASE SpdkInitEnd
  <2>1. /\ isRunning' = [isRunning EXCEPT ![dev] = 1] /\ ioInitDone[dev]
        /\ UNCHANGED <<ioInitDone, io, opened>> /\ spdk = "initWait"
        /\ \/ dev + 1 \in MyDevices /\ dev' = dev + 1 /\ spdk' = "init"
           \/ dev + 1 \notin MyDevices /\ dev' = 1 /\ spdk' = "lists"
    BY <1>5 DEF SpdkInitEnd, BdevInitEnd, NextDevice
  <2>2. CASE d = dev
    <3>1. isRunning'[d] = 1 /\ io[d] = "wait" /\ Begun(d)
      BY <1>1, <1>2, <1>a, <2>1, <2>2 DEF Begun, DevOk
    <3> QED
      BY <1>1, <2>1, <2>2, <3>1 DEF DevOk, Begun, Over, AfterInit
  <2>3. CASE d # dev
    <3>1. isRunning'[d] = isRunning[d]
      BY <1>a, <2>1, <2>3
    <3>2. dev + 1 \notin MyDevices => (d \in MyDevices => d < dev)
      <4>1. ASSUME dev + 1 \notin MyDevices, d \in MyDevices, dev < d
            PROVE  FALSE
        <5>1. dev + 1 \in Nat \ {0} /\ (dev + 1 < d \/ dev + 1 = d)
          BY <1>1, <4>1
        <5> QED
          BY Zenon, <1>1, <4>1, <5>1
      <4> QED
        BY <1>1, <2>3, <4>1
    <3> QED
      BY <1>1, <1>2, <2>1, <2>3, <3>1, <3>2 DEF DevOk, Begun, Over, AfterInit
  <2> QED
    BY <2>2, <2>3
<1>6. CASE SpdkDeinit
  <2>1. /\ isRunning' = [isRunning EXCEPT ![dev] = 4]
        /\ UNCHANGED <<ioInitDone, io, opened, dev>> /\ spdk = "deinit" /\ spdk' = "deinitWait"
    BY <1>6 DEF SpdkDeinit, DeinitBegin, SpdkStep
  <2>2. CASE d = dev
    <3>1. isRunning'[d] = 4 /\ io[d] \in {"wait", "poll"}
      BY <1>1, <1>2, <1>a, <2>1, <2>2 DEF DevOk, Begun, Over, AfterInit
    <3> QED
      BY <1>1, <1>2, <2>1, <2>2, <3>1 DEF DevOk, Begun, Over, AfterInit
  <2>3. CASE d # dev
    <3>1. isRunning'[d] = isRunning[d]
      BY <1>a, <2>1, <2>3
    <3> QED
      BY <1>1, <1>2, <2>1, <2>3, <3>1 DEF DevOk, Begun, Over, AfterInit
  <2> QED
    BY <2>2, <2>3
<1>7. CASE SpdkDeinitEnd
  <2>1. /\ opened' = [opened EXCEPT ![dev] = FALSE] /\ isRunning[dev] # 4
        /\ UNCHANGED <<isRunning, ioInitDone, io>> /\ spdk = "deinitWait"
        /\ \/ dev + 1 \in MyDevices /\ dev' = dev + 1 /\ spdk' = "deinit"
           \/ dev + 1 \notin MyDevices /\ dev' = 1 /\ spdk' = "stop"
    BY <1>7 DEF SpdkDeinitEnd, DeinitEnd, NextDevice
  <2>2. CASE d = dev
    <3>1. ~opened'[d] /\ io[d] = "ended"
      BY <1>1, <1>2, <1>a, <2>1, <2>2 DEF DevOk
    <3> QED
      BY <1>1, <2>1, <2>2, <3>1 DEF DevOk, Begun, Over, AfterInit
  <2>3. CASE d # dev
    <3>1. opened'[d] = opened[d]
      BY <1>a, <2>1, <2>3
    <3>2. dev + 1 \notin MyDevices => (d \in MyDevices => d < dev)
      <4>1. ASSUME dev + 1 \notin MyDevices, d \in MyDevices, dev < d
            PROVE  FALSE
        <5>1. dev + 1 \in Nat \ {0} /\ (dev + 1 < d \/ dev + 1 = d)
          BY <1>1, <4>1
        <5> QED
          BY Zenon, <1>1, <4>1, <5>1
      <4> QED
        BY <1>1, <2>3, <4>1
    <3> QED
      BY <1>1, <1>2, <2>1, <2>3, <3>1, <3>2 DEF DevOk, Begun, Over, AfterInit
  <2> QED
    BY <2>2, <2>3
<1>8. CASE SpdkRunning \/ SpdkStop
  <2>1. /\ UNCHANGED <<ioInitDone, io, opened, dev>> /\ dev = 1
        /\ \/ spdk = "running" /\ spdk' = "ready" /\ isRunning' = setRunning(1)
           \/ spdk = "stop" /\ spdk' = "ended" /\ isRunning' = setRunning(0)
    BY <1>0, <1>8 DEF SpdkRunning, SpdkStop, SpdkStep, StageInv
  <2>2. spdk = "running" => (isRunning'[d] = 1 \/ isRunning'[d] = isRunning[d])
    BY <1>a, <2>1 DEF setRunning
  <2> QED
    BY <1>2, <1>1, <2>1, <2>2 DEF DevOk, Begun, Over, AfterInit
<1>9. CASE SpdkLists \/ SpdkRing \/ SpdkReady \/ SpdkLoop \/ SpdkCheck \/ SpdkDangling
  <2>1. /\ UNCHANGED <<isRunning, ioInitDone, io, opened, dev>>
        /\ spdk \in {"lists", "ring", "running", "ready", "loop", "check"}
        /\ spdk' \in {"lists", "ring", "running", "ready", "loop", "check", "deinit"}
    BY <1>1, <1>9 DEF SpdkLists, SpdkRing, SpdkReady, SpdkLoop, SpdkCheck, SpdkDangling,
       SpdkStep, JbodWrite, devVars, spdkVars
  <2>2. dev = 1
    BY <1>0, <2>1 DEF StageInv
  <2> QED
    BY <1>1, <1>2, <2>1, <2>2 DEF DevOk, Begun, Over, AfterInit
<1> QED
  BY Zenon, <1>3, <1>4, <1>5, <1>6, <1>7, <1>8, <1>9 DEF SpdkThread

(* The states a device and its threads can be in.                           *)
LEMMA DevTypes ==
    ASSUME LifeInv, [Next]_vars
    PROVE  /\ isRunning' \in [Devices -> 0 .. 5] /\ DOMAIN io' = Devices
           /\ opened' \in [Devices -> BOOLEAN]
<1>0. DevInv /\ ConfInv
  BY Zenon DEF LifeInv
<1>1. /\ isRunning \in [Devices -> 0 .. 5] /\ DOMAIN io = Devices
      /\ opened \in [Devices -> BOOLEAN]
  BY Zenon, <1>0 DEF DevInv
<1>a. /\ \A x, y : DOMAIN [io EXCEPT ![x] = y] = Devices
      /\ \A x : [opened EXCEPT ![x] = TRUE] \in [Devices -> BOOLEAN]
      /\ \A x : [opened EXCEPT ![x] = FALSE] \in [Devices -> BOOLEAN]
  BY Zenon, <1>1
<1>b. \A x, y : y \in 0 .. 5 => [isRunning EXCEPT ![x] = y] \in [Devices -> 0 .. 5]
  BY Zenon, <1>1
<1>c. 1 \in 0 .. 5 /\ 3 \in 0 .. 5 /\ 4 \in 0 .. 5 /\ 5 \in 0 .. 5
  OBVIOUS
<1>2. CASE UNCHANGED <<isRunning, io, opened>>
  BY <1>1, <1>2
<1>3. CASE QuiesceOffload \/ CloseRtree \/ AppStep
  BY Zenon, <1>0, <1>2, <1>3, AppFrames DEF AppFrame
<1>4. CASE SpdkThread
  <2>1. CASE SpdkRunning \/ SpdkStop
    <3>1. isRunning' = setRunning(1) \/ isRunning' = setRunning(0)
      BY <2>1 DEF SpdkRunning, SpdkStop
    <3>2. isRunning' \in [Devices -> 0 .. 5]
      BY <1>1, <3>1 DEF setRunning
    <3> QED
      BY <1>1, <2>1, <3>2 DEF SpdkRunning, SpdkStop
  <2>2. CASE SpdkInitBegin
    BY <1>1, <1>a, <1>b, <1>c, <2>2 DEF SpdkInitBegin, BdevInitBegin
  <2>3. CASE SpdkInitEnd
    BY <1>1, <1>a, <1>b, <1>c, <2>3 DEF SpdkInitEnd, BdevInitEnd
  <2>4. CASE SpdkDeinit \/ SpdkDeinitEnd
    BY Zenon, <1>1, <1>a, <1>b, <1>c, <2>4 DEF SpdkDeinit, SpdkDeinitEnd, DeinitBegin, DeinitEnd
  <2>5. CASE SpdkAppStart \/ SpdkLists \/ SpdkRing \/ SpdkReady \/ SpdkLoop \/ SpdkCheck
             \/ SpdkDangling
    BY <1>2, <2>5 DEF SpdkAppStart, SpdkLists, SpdkRing, SpdkReady, SpdkLoop, SpdkCheck,
       SpdkDangling, JbodWrite, devVars
  <2> QED
    BY Zenon, <1>4, <2>1, <2>2, <2>3, <2>4, <2>5 DEF SpdkThread
<1>5. CASE DeviceThreads
  <2>1. PICK d \in Devices : IoThreadStep(d) \/ finilizerThreadMain(d)
    BY Zenon, <1>5 DEF DeviceThreads
  <2>2. CASE finilizerThreadMain(d)
    BY <1>2, <2>2 DEF finilizerThreadMain
  <2>3. CASE IoThreadCreate(d) \/ bdevInit(d) \/ IoPollerRegister(d)
    BY Zenon, <1>1, <1>a, <1>b, <1>c, <2>3 DEF IoThreadCreate, bdevInit, IoPollerRegister, SelfDeinit
  <2>4. CASE IoPoll(d) \/ IoLeft(d) \/ IoDeinitEnd(d)
    BY Zenon, <1>1, <1>a, <1>b, <1>c, <2>4 DEF IoPoll, IoLeft, IoDeinitEnd, SelfDeinit
  <2> QED
    BY Zenon, <2>1, <2>2, <2>3, <2>4 DEF IoThreadStep
<1>6. CASE Elsewhere
  BY <1>2, <1>6 DEF Elsewhere
<1>7. CASE UNCHANGED vars
  BY <1>2, <1>7 DEF vars, devVars
<1> QED
  BY Zenon, <1>3, <1>4, <1>5, <1>6, <1>7, ElsewhereFrames DEF Next

(* The devices follow the SPDK thread.                                      *)
LEMMA DevKeeps == LifeInv /\ [Next]_vars => DevInv'
<1> SUFFICES ASSUME LifeInv, [Next]_vars
             PROVE  DevInv'
  OBVIOUS
<1>0. DevInv /\ StageInv /\ ConfInv
  BY Zenon DEF LifeInv
<1>1. SUFFICES ASSUME ~failed', NEW d \in Devices
               PROVE  DevOk(d)'
  BY Zenon, DevTypes DEF DevInv
<1>2. ASSUME UNCHANGED <<isRunning, ioInitDone, io, opened, spdk, dev>>, conf' = conf, ~failed
      PROVE  DevOk(d)'
  <2>1. DevOk(d)
    BY Zenon, <1>0, <1>2 DEF DevInv
  <2>2. MyDevices' = MyDevices
    BY Zenon, <1>2 DEF MyDevices, devType
  <2>3. (Begun(d)' <=> Begun(d)) /\ (Over(d)' <=> Over(d))
    BY <1>2, <2>2 DEF Begun, Over
  <2> QED
    BY Zenon, <1>2, <2>1, <2>3 DEF DevOk
<1>3. CASE QuiesceOffload \/ CloseRtree \/ AppStep
  <2>1. /\ AppFrame
        /\ spdk' = spdk \/ (spdk = "none" /\ spdk' = "start")
        /\ conf' = conf \/ (spdk = "none" /\ spdk' = "none")
    BY Zenon, <1>0, <1>3, AppFrames, AppMoves
  <2>2. UNCHANGED <<isRunning, ioInitDone, io, opened, dev>> /\ ~failed
    BY <1>1, <2>1 DEF AppFrame
  <2>3. CASE spdk = "none"
    <3>1. spdk' \in {"none", "start"} /\ DevOk(d)
      BY <1>0, <2>1, <2>2, <2>3 DEF DevInv
    <3> QED
      BY <2>2, <2>3, <3>1 DEF DevOk, Begun, Over, AfterInit
  <2>4. CASE spdk # "none"
    BY <1>2, <2>1, <2>2, <2>4
  <2> QED
    BY <2>3, <2>4
<1>4. CASE DeviceThreads
  BY Zenon, <1>1, <1>4, DeviceFrames, DeviceStep DEF DeviceThreads
<1>5. CASE Elsewhere
  BY <1>1, <1>2, <1>5 DEF Elsewhere
<1>6. CASE UNCHANGED vars
  BY <1>1, <1>2, <1>6 DEF vars, devVars, spdkVars
<1> QED
  BY Zenon, <1>1, <1>3, <1>4, <1>5, <1>6, SpdkDevice, ElsewhereFrames DEF Next

------------------------------------------------------------------------------
(* A pool in the registry has its base and, once main runs, all its parts;  *)
(* an open store has its tree and its queue.                                *)
LEMMA PoolKeeps == LifeInv /\ [Next]_vars => PoolInv'
<1> SUFFICES ASSUME LifeInv, [Next]_vars
             PROVE  PoolInv'
  OBVIOUS
<1>0. PoolInv /\ ConfInv
  BY Zenon DEF LifeInv
<1>1. ASSUME pools' = pools, part' = part, app # "start" \/ app' = "start",
             app' \in {"spdkCore", "dht", "serve", "offload", "waitReady", "pollers", "pkey",
                       "open"} => "rtree" \in live',
             app' = "open" => "pkey" \in live'
      PROVE  PoolInv'
  BY Zenon, <1>0, <1>1 DEF PoolInv
<1>2. CASE StaticPools
  <2>1. app' = app /\ live' = live
    BY <1>2 DEF StaticPools, nodeVars
  <2>2. PICK p \in Pools :
          \/ app = "start" /\ (NewPoolBase(p) \/ NewPool(p))
          \/ app \in {"closed", "failed"} /\ (DeletePool(p) \/ DeletePoolBase(p))
    BY Zenon, <1>2 DEF StaticPools
  <2>3. /\ pools' \subseteq Pools /\ DOMAIN part' = Pools
        /\ \A q \in pools' : part'[q] \in {"base", "full"}
    BY <1>0, <2>2 DEF PoolInv, NewPoolBase, NewPool, DeletePool, DeletePoolBase, registerPool,
       unregisterPool
  <2>4. app # "start" => \A q \in Pools : part'[q] \notin {"none", "base"}
    BY <1>0, <2>2 DEF PoolInv, DeletePool, DeletePoolBase
  <2> QED
    BY Zenon, <1>0, <2>1, <2>3, <2>4 DEF PoolInv
<1>3. CASE ReadConfig
  BY <1>0, <1>3 DEF ReadConfig, PoolInv, poolVars
<1>4. CASE AppStep \/ CloseRtree \/ QuiesceOffload
  <2>1. pools' = pools /\ part' = part
    <3>1. AppFrame
      BY Zenon, <1>0, <1>4, AppFrames
    <3> QED
      BY <3>1 DEF AppFrame
  <2>2. CASE OpenRtree \/ NewSpdkCore \/ NewDhtServer \/ serve \/ startSpdk \/ waitReady
             \/ StartPollers \/ OpenPKey
    BY <1>0, <1>1, <2>1, <2>2 DEF OpenRtree, NewSpdkCore, NewDhtServer, serve, startSpdk,
       waitReady, StartPollers, OpenPKey, PoolInv
  <2>3. CASE \/ CloseRtree \/ ClosePKey \/ StopServer \/ JoinServer \/ PollersStopped
             \/ StopOffload \/ FreeOffload \/ JoinSpdk
             \/ \E p \in RqstPollers : StopPoller(p)
    BY <1>1, <2>1, <2>3 DEF CloseRtree, ClosePKey, StopServer, JoinServer, StopPoller,
       PollersStopped, StopOffload, FreeOffload, JoinSpdk, CloseStep
  <2>4. CASE QuiesceOffload
    BY <1>0, <1>1, <2>1, <2>4 DEF QuiesceOffload, PoolInv
  <2> QED
    BY Zenon, <1>3, <1>4, <2>2, <2>3, <2>4 DEF AppStep
<1>5. ASSUME pools' = pools, part' = part, app' = app, live \subseteq live'
      PROVE  PoolInv'
  BY <1>0, <1>1, <1>5 DEF PoolInv
<1>6. CASE SpdkThread
  <2>1. pools' = pools /\ part' = part /\ app' = app
    BY <1>6, SpdkFrames DEF SpdkFrame
  <2>2. live \subseteq live'
    BY <1>6 DEF SpdkThread, SpdkAppStart, SpdkInitBegin, SpdkInitEnd, SpdkLists, SpdkRing,
       SpdkRunning, SpdkReady, SpdkLoop, SpdkCheck, SpdkDangling, SpdkDeinit, SpdkDeinitEnd,
       SpdkStop
  <2> QED
    BY Zenon, <1>5, <2>1, <2>2
<1>7. CASE DeviceThreads
  BY <1>5, <1>7, DeviceFrames DEF DeviceFrame
<1>8. CASE \/ OffloadCall \/ ServerThread \/ Handle \/ Collector
           \/ \E p \in RqstPollers : AsyncCall(p) \/ PollerProcess(p) \/ PollerEnd(p)
           \/ \E w \in DhtWorkers : WorkerStop(w)
  <2>1. app' = app /\ live' = live
    BY Zenon, <1>8, ElsewhereFrames DEF Elsewhere
  <2>2. poolVars' = poolVars
    BY <1>8 DEF OffloadCall, ServerThread, ServerStart, ServerReady, ServerRun, ServerStop,
       ServerJoin, Handle, Collector, Collect, AsyncCall, PollerProcess, PollerEnd, WorkerStop,
       ServerStep
  <2> QED
    BY <1>5, <2>1, <2>2 DEF poolVars
<1>9. CASE UNCHANGED vars
  BY <1>5, <1>9 DEF vars, poolVars
<1> QED
  BY Zenon, <1>2, <1>4, <1>6, <1>7, <1>8, <1>9 DEF Next

------------------------------------------------------------------------------
(* A dead process takes no step.                                            *)
LEMMA OnlyAlive == Next => Alive
<1> SUFFICES ASSUME Next
             PROVE  Alive
  OBVIOUS
<1>1. CASE AppStep \/ QuiesceOffload \/ CloseRtree
  <2>1. CASE ReadConfig \/ OpenRtree \/ NewSpdkCore \/ NewDhtServer \/ serve \/ startSpdk
             \/ waitReady \/ StartPollers \/ OpenPKey \/ QuiesceOffload
    BY Zenon, <2>1 DEF ReadConfig, OpenRtree, NewSpdkCore, NewDhtServer, serve, startSpdk,
       waitReady, StartPollers, OpenPKey, QuiesceOffload
  <2>2. CASE \/ CloseRtree \/ ClosePKey \/ StopServer \/ JoinServer \/ PollersStopped
             \/ StopOffload \/ FreeOffload \/ JoinSpdk
             \/ \E p \in RqstPollers : StopPoller(p)
    BY Zenon, <2>2 DEF CloseRtree, ClosePKey, StopServer, JoinServer, StopPoller,
       PollersStopped, StopOffload, FreeOffload, JoinSpdk, CloseStep
  <2> QED
    BY Zenon, <1>1, <2>1, <2>2 DEF AppStep
<1>2. CASE SpdkThread \/ DeviceThreads
  BY Zenon, <1>2, SpdkFrames DEF SpdkFrame, DeviceThreads
<1>3. CASE \/ OffloadCall \/ ServerThread \/ Handle \/ Collector \/ StaticPools
           \/ \E p \in RqstPollers : AsyncCall(p) \/ PollerProcess(p) \/ PollerEnd(p)
           \/ \E w \in DhtWorkers : WorkerStop(w)
  BY Zenon, <1>3 DEF OffloadCall, ServerThread, ServerStart, ServerReady, ServerRun, ServerStop,
     ServerJoin, Handle, Collector, StaticPools, AsyncCall, PollerProcess, PollerEnd, WorkerStop
<1> QED
  BY Zenon, <1>1, <1>2, <1>3 DEF Next

(* What a process that is ended by a step died of.                          *)
LEMMA DeathKeeps == LifeInv /\ [Next]_vars => DeathInv'
<1> SUFFICES ASSUME LifeInv, [Next]_vars
             PROVE  DeathInv'
  OBVIOUS
<1>0. PoolInv /\ ConfInv /\ DeathInv
  BY Zenon DEF LifeInv
<1>1. CASE UNCHANGED vars
  BY Zenon, <1>0, <1>1 DEF vars, devVars, DeathInv, devType
<1>2. SUFFICES ASSUME Next, Alive
               PROVE  DeathInv'
  BY Zenon, <1>1, OnlyAlive
<1>3. ASSUME death'.why \notin {"cast", "missing", "manage"}
      PROVE  DeathInv'
  BY Zenon, <1>3 DEF DeathInv
<1>4. death.why = "none"
  BY <1>2 DEF Alive, NoDeath
<1>5. CASE death' = death
  BY <1>3, <1>4, <1>5
<1>6. ASSUME NEW w, w \notin {"cast", "missing", "manage"}, Die(w)
      PROVE  DeathInv'
  <2>1. death'.why = w
    BY <1>6 DEF Die
  <2> QED
    BY Zenon, <1>3, <1>6, <2>1
<1>7. CASE NewSpdkCore /\ death' # death
  <2>1. /\ devType = "JBOD" /\ Die("cast") /\ conf' = conf
        /\ conf.devs = <<>> \/ failed'
    BY Zenon, <1>7 DEF NewSpdkCore, createConfFile
  <2>2. death'.why = "cast"
    BY <2>1 DEF Die
  <2> QED
    BY <2>1, <2>2 DEF DeathInv, devType
<1>8. CASE QuiesceOffload
  BY Zenon, <1>5, <1>6, <1>8 DEF QuiesceOffload
<1>9. CASE AppStep /\ ~NewSpdkCore
  <2>1. CASE ReadConfig \/ OpenRtree \/ NewDhtServer \/ serve \/ startSpdk
             \/ waitReady \/ StartPollers \/ OpenPKey
    BY <1>5, <2>1 DEF ReadConfig, OpenRtree, NewDhtServer, serve, startSpdk,
       waitReady, StartPollers, OpenPKey
  <2>2. CASE \/ ClosePKey \/ StopServer \/ JoinServer \/ PollersStopped
             \/ StopOffload \/ FreeOffload \/ JoinSpdk
             \/ \E p \in RqstPollers : StopPoller(p)
    BY <1>5, <2>2 DEF ClosePKey, StopServer, JoinServer, StopPoller,
       PollersStopped, StopOffload, FreeOffload, JoinSpdk, CloseStep
  <2> QED
    BY Zenon, <1>9, <2>1, <2>2 DEF AppStep
<1>10. CASE CloseRtree \/ OffloadCall \/ DeviceThreads \/ StaticPools
  BY <1>5, <1>10 DEF CloseRtree, CloseStep, OffloadCall, DeviceThreads, StaticPools
<1>11. CASE SpdkThread
  <2>1. CASE SpdkLists
    BY <1>5, <1>6, <2>1 DEF SpdkLists
  <2>2. CASE SpdkDangling
    BY <1>6, <2>2 DEF SpdkDangling
  <2>3. CASE SpdkThread /\ ~SpdkLists /\ ~SpdkDangling
    BY <1>5, <2>3 DEF SpdkThread, SpdkAppStart, SpdkInitBegin, SpdkInitEnd, SpdkRing,
       SpdkRunning, SpdkReady, SpdkLoop, SpdkCheck, SpdkDeinit, SpdkDeinitEnd, SpdkStop
  <2> QED
    BY <1>11, <2>1, <2>2, <2>3
<1>12. CASE ServerThread
  BY <1>5, <1>6, <1>12 DEF ServerThread, ServerStart, ServerReady, ServerRun, ServerStop,
     ServerJoin
<1>13. ASSUME ~({"rtree", "pkey"} \subseteq live), Die("missing")
       PROVE  DeathInv'
  <2>1. app # "open"
    BY <1>0, <1>13 DEF PoolInv
  <2>2. death'.why = "missing" /\ death'.at = app
    BY <1>13 DEF Die
  <2> QED
    BY <2>1, <2>2 DEF DeathInv
<1>14. CASE Handle
  BY Zenon, <1>5, <1>13, <1>14 DEF Handle
<1>15. CASE \E p \in RqstPollers : AsyncCall(p) \/ PollerProcess(p) \/ PollerEnd(p)
  <2>1. PICK p \in RqstPollers : AsyncCall(p) \/ PollerProcess(p) \/ PollerEnd(p)
    BY Zenon, <1>15
  <2>2. death' = death \/ ("rtree" \notin live /\ Die("missing")) \/ Die("transfer")
    BY <2>1 DEF AsyncCall, PollerProcess, PollerEnd
  <2> QED
    BY <1>5, <1>6, <1>13, <2>2
<1>16. CASE \E w \in DhtWorkers : WorkerStop(w)
  BY <1>5, <1>16 DEF WorkerStop
<1>17. CASE Collector
  <2>1. CASE \E p \in pools : part[p] # "full"
    <3>1. app = "start"
      BY <1>0, <2>1 DEF PoolInv
    <3>2. death'.why = "manage" /\ death'.at = app
      BY <1>17, <2>1 DEF Collector, Die
    <3> QED
      BY <3>1, <3>2 DEF DeathInv
  <2>2. CASE ~\E p \in pools : part[p] # "full"
    BY <1>5, <1>17, <2>2 DEF Collector
  <2> QED
    BY <2>1, <2>2
<1> QED
  BY Zenon, <1>2, <1>5, <1>7, <1>8, <1>9, <1>10, <1>11, <1>12, <1>14, <1>15, <1>16, <1>17
     DEF Next

(* Every step keeps the invariant.                                          *)
LEMMA LifeNext == LifeInv /\ [Next]_vars => LifeInv'
BY Zenon, ConfKeeps, StageKeeps, InitKeeps, DevKeeps, PoolKeeps, DeathKeeps DEF LifeInv

(* What the invariant says of the runs' properties.                         *)
LEMMA LifeMeans ==
    LifeInv => /\ EnabledMeansReady /\ MissingOnlyOutside
               /\ ClosedDevices /\ AcceptedConfigOpens
<1> SUFFICES ASSUME LifeInv
             PROVE  EnabledMeansReady /\ MissingOnlyOutside /\ ClosedDevices
                    /\ AcceptedConfigOpens
  OBVIOUS
<1>1. ConfInv /\ StageInv /\ InitInv /\ DevInv /\ DeathInv
  BY Zenon DEF LifeInv
<1>2. EnabledMeansReady
  BY <1>1 DEF EnabledMeansReady, isOffloadEnabled, StageInv, InitInv, Inited
<1>3. MissingOnlyOutside
  BY Zenon, <1>1 DEF MissingOnlyOutside, DeathInv
<1>4. ClosedDevices
  <2> SUFFICES ASSUME app = "closed", ~failed, NEW d \in Devices
               PROVE  ~opened[d] /\ io[d] \in {"none", "ended"}
    BY Zenon DEF ClosedDevices
  <2>1. DevOk(d) /\ spdk \in {"none", "ended"}
    BY Zenon, <1>1 DEF DevInv, StageInv
  <2> QED
    BY <2>1 DEF DevOk, Begun, Over, AfterInit
<1>5. AcceptedConfigOpens
  BY Zenon, <1>1 DEF AcceptedConfigOpens, DeathInv, ConfInv, ConfOk, devType
<1> QED
  BY <1>2, <1>3, <1>4, <1>5

------------------------------------------------------------------------------
(* The invariant holds of every run of a node, whatever fails: the devices  *)
(* follow the SPDK thread (SpdkCore::spdkStart, SpdkBdev::init and deinit), *)
(* the objects of the store the application's thread (KVStore::init and     *)
(* ~KVStore).                                                               *)
THEOREM NodeInvariant == Spec => []LifeInv
<1>1. Init => LifeInv
  BY Zenon, LifeInit
<1> QED
  BY <1>1, LifeNext, PTL DEF Spec

(* isOffloadEnabled says yes only when the ring, the free lists and every   *)
(* device are there, also after the ten seconds of waitReady                *)
(* (KVStore.cpp, SpdkCore.cpp).                                             *)
THEOREM NodeEnabledMeansReady == Spec => []EnabledMeansReady
<1>1. LifeInv => EnabledMeansReady
  BY Zenon, LifeMeans
<1> QED
  BY <1>1, NodeInvariant, PTL

(* An open store misses neither its tree nor its queue, and the collector   *)
(* finds half a pool only before main (KVStore.cpp, GeneralPool.h).         *)
THEOREM NodeMissingOnlyOutside == Spec => []MissingOnlyOutside
<1>1. LifeInv => MissingOnlyOutside
  BY Zenon, LifeMeans
<1> QED
  BY <1>1, NodeInvariant, PTL

(* A store that was closed has given back every device, and no I/O thread   *)
(* is left, unless a library call failed (SpdkBdev::deinit).                *)
THEOREM NodeClosedDevices == Spec => []ClosedDevices
<1>1. LifeInv => ClosedDevices
  BY Zenon, LifeMeans
<1> QED
  BY <1>1, NodeInvariant, PTL

(* A configuration that readConfiguration accepted does not end the node    *)
(* (Configuration.cpp, SpdkCore.cpp).                                       *)
THEOREM NodeAcceptedConfigOpens == Spec => []AcceptedConfigOpens
<1>1. LifeInv => AcceptedConfigOpens
  BY Zenon, LifeMeans
<1> QED
  BY <1>1, NodeInvariant, PTL

(* A JBOD reads from the device it wrote to, when the devices of a file     *)
(* have different addresses whose fields fit the bits of the hash           *)
(* (SpdkJBODBdev.cpp, hashAddr); the shares of the devices fit into the     *)
(* pool of I/O buffers.                                                     *)
THEOREM NodeJbodReadsWriter ==
    ASSUME OwnAddresses
    PROVE  Spec => []JbodReadsWriter
<1> DEFINE I == LifeInv /\ JbodInv /\ JbodFields /\ HashInv
<1>1. Init => I
  <2>1. ASSUME conf.devs = <<>>
        PROVE  HashInv
    BY <2>1 DEF HashInv
  <2> QED
    BY Zenon, <2>1, LifeInit
<1>2. I /\ [Next]_vars => I'
  BY Zenon, LifeNext, JbodKeeps, HashKeeps
<1>3. I => JbodReadsWriter
  <2> SUFFICES ASSUME I, devType = "JBOD", enabled
               PROVE  /\ \A d \in MyDevices : JbodReadDevice(d) + 1 = d
                      /\ jbod.curr < jbod.num /\ jbod.num * jbod.share <= IoPoolSize
    BY Zenon DEF JbodReadsWriter
  <2>1. ConfInv /\ StageInv /\ JbodInv
    BY Zenon DEF LifeInv
  <2>2. /\ MyDevices = 1 .. Len(conf.devs) /\ Len(conf.devs) \in Nat
        /\ dev \in MyDevices
    BY <2>1, DeviceNumbers DEF StageInv
  <2>3. /\ jbod.num = Len(conf.devs) /\ jbod.share = IoPoolSize \div jbod.num
        /\ jbod.num > 0 => jbod.curr < jbod.num
        /\ \A d \in 1 .. jbod.num : jbod.hash[DevHash(d)] = d - 1
    BY Zenon, <2>1 DEF JbodInv
  <2>4. jbod.num \in Nat \ {0} /\ jbod.num > 0
    BY <2>2, <2>3
  <2>5. ASSUME NEW d \in MyDevices
        PROVE  JbodReadDevice(d) + 1 = d
    <3>1. JbodReadDevice(d) = d - 1 /\ d \in Nat
      BY <2>2, <2>3, <2>5 DEF JbodReadDevice, DevHash
    <3> QED
      BY <3>1
  <2>6. jbod.num * jbod.share <= IoPoolSize
    <3>1. \A a \in Nat, b \in Nat \ {0} : b * (a \div b) <= a
      BY SMT
    <3>2. IoPoolSize \in Nat
      BY Zenon, DevicesAssumption
    <3> QED
      BY Zenon, <2>3, <2>4, <3>1, <3>2
  <2> QED
    BY Zenon, <2>3, <2>4, <2>5, <2>6
<1> QED
  BY <1>1, <1>2, <1>3, PTL DEF Spec
=============================================================================
