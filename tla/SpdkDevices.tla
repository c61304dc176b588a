---------------------------- MODULE SpdkDevices ----------------------------
(***************************************************************************)
(* Start and stop of the NVMe devices: SpdkBdev (lib/spdk/SpdkBdev.cpp),   *)
(* alone or as a member of SpdkJBODBdev.  Three threads meet at the        *)
(* isRunning of a device: the SPDK thread that calls init and deinit, the  *)
(* I/O thread and the finalizer thread of the device.  The values are the  *)
(* code's:                                                                 *)
(*   0 stopped, 1 running, 3 starting, 4 stop requested, 5 I/O thread left *)
(***************************************************************************)
EXTENDS Configuration

CONSTANTS NumDevices,   \* the most devices that a node opens
          PciAddr,      \* the PCI addresses of those that a file may name
          IoPoolSize,   \* bdev_io_pool_size
          Faults        \* library calls that may fail

(* The devices of a file have addresses.                                    *)
ASSUME DevicesAssumption ==
    /\ NumDevices \in Nat \ {0} /\ IoPoolSize \in Nat
    /\ \A f \in Files : /\ readConfiguration(f).devs \in Seq(DOMAIN PciAddr)
                         /\ Len(readConfiguration(f).devs) <= NumDevices

VARIABLES conf,         \* the options that readConfiguration left
          isRunning,    \* SpdkBdev::isRunning of each device
          ioInitDone,   \* SpdkBdev::ioEngineInitDone
          io,           \* where the I/O thread of a device is
          fin,          \* where its finalizer thread is
          opened,       \* it holds its descriptor and its channel
          aborted,      \* QuiesceOffload(true) gave up and called IOAbort
          jbod,         \* SpdkJBODBdev: num, curr, hash, share
          failed        \* history: a call of a library failed, or an I/O thread waits for itself

devVars == <<conf, isRunning, ioInitDone, io, fin, opened, aborted, jbod, failed>>

Devices == 1 .. NumDevices
devType == conf.devType
MyDevices == IF devType = "JBOD" THEN 1 .. Len(conf.devs) ELSE {1}

MutHashAddrNoBus(a) == (a.domain % 4) + 256 * (a.dev % 32) + 8192 * (a.func % 8)

(* hashAddr: the fields of the address in 2, 6, 5 and 3 bits.               *)
hashAddr(a) == (a.domain % 4) + 4 * (a.bus % 64) + 256 * (a.dev % 32) + 8192 * (a.func % 8)

DevInit ==
    /\ conf = DefaultOptions
    /\ isRunning = [d \in Devices |-> 0]
    /\ ioInitDone = [d \in Devices |-> FALSE]
    /\ io = [d \in Devices |-> "none"]
    /\ fin = [d \in Devices |-> "none"]
    /\ opened = [d \in Devices |-> FALSE]
    /\ aborted = FALSE
    /\ jbod = [num |-> 0, curr |-> 0, hash |-> <<>>, share |-> 0]
    /\ failed = FALSE

(* SpdkBdev::init up to the wait: starting, then the two threads.           *)
BdevInitBegin(d) ==
    /\ isRunning' = [isRunning EXCEPT ![d] = 3]
    /\ fin' = [fin EXCEPT ![d] = "wait"]
    /\ io' = [io EXCEPT ![d] = "create"]
    /\ UNCHANGED <<conf, ioInitDone, opened, aborted, jbod, failed>>

(* SpdkJBODBdev::init after the init of its next device: the address is     *)
(* hashed to the number of the device, and after the last one each device   *)
(* gets its share of the pool of the library.                               *)
JbodAdd(d) ==
    LET h == hashAddr(PciAddr[conf.devs[d]]) IN
    [num   |-> jbod.num + 1, curr |-> jbod.curr,
     hash  |-> [a \in DOMAIN jbod.hash \cup {h} |-> IF a = h THEN jbod.num ELSE jbod.hash[a]],
     share |-> IF d = Len(conf.devs) THEN IoPoolSize \div (jbod.num + 1) ELSE jbod.share]

(* SpdkBdev::init after the wait: while (!ioEngineInitDone).                *)
BdevInitEnd(d) ==
    /\ ioInitDone[d]
    /\ isRunning' = [isRunning EXCEPT ![d] = 1]
    /\ jbod' = IF devType = "JBOD" THEN JbodAdd(d) ELSE jbod
    /\ UNCHANGED <<conf, ioInitDone, io, fin, opened, aborted, failed>>

(* deinit on the I/O thread itself, which then waits for its own answer.    *)
SelfDeinit(d) ==
    /\ isRunning' = [isRunning EXCEPT ![d] = 4]
    /\ io' = [io EXCEPT ![d] = "deinit"]
    /\ failed' = TRUE

(* ioEngineThreadMain: spdk_thread_create.                                  *)
IoThreadCreate(d) ==
    /\ io[d] = "create"
    /\ \/ io' = [io EXCEPT ![d] = "bdevInit"] /\ UNCHANGED <<isRunning, failed>>
       \/ "thread" \in Faults /\ SelfDeinit(d)
    /\ UNCHANGED <<conf, ioInitDone, fin, opened, aborted, jbod>>

(* bdevInit: find and open the device and get a channel; without them the   *)
(* thread ends and nobody is told.                                          *)
bdevInit(d) ==
    /\ io[d] = "bdevInit"
    /\ \/ /\ ioInitDone' = [ioInitDone EXCEPT ![d] = TRUE]
          /\ opened' = [opened EXCEPT ![d] = TRUE]
          /\ io' = [io EXCEPT ![d] = "wait"]
          /\ UNCHANGED failed
       \/ /\ "open" \in Faults
          /\ io' = [io EXCEPT ![d] = "ended"]
          /\ failed' = TRUE
          /\ UNCHANGED <<ioInitDone, opened>>
    /\ UNCHANGED <<conf, isRunning, fin, aborted, jbod>>

(* while (isRunning == 3), then spdk_poller_register.                       *)
IoPollerRegister(d) ==
    /\ io[d] = "wait" /\ isRunning[d] # 3
    /\ \/ io' = [io EXCEPT ![d] = "poll"] /\ UNCHANGED <<isRunning, failed>>
       \/ "register" \in Faults /\ SelfDeinit(d)
    /\ UNCHANGED <<conf, ioInitDone, fin, opened, aborted, jbod>>

(* The poll loop leaves on 4.  An I/O after IOAbort reaches stateMachine,   *)
(* which calls deinit on this thread.                                       *)
IoPoll(d) ==
    /\ io[d] = "poll"
    /\ \/ isRunning[d] = 4 /\ io' = [io EXCEPT ![d] = "left"] /\ UNCHANGED <<isRunning, failed>>
       \/ isRunning[d] # 4 /\ aborted /\ SelfDeinit(d)
    /\ UNCHANGED <<conf, ioInitDone, fin, opened, aborted, jbod>>

MutIoLeftSilent(d) ==
    /\ io[d] = "left"
    /\ io' = [io EXCEPT ![d] = "ended"]
    /\ UNCHANGED <<conf, isRunning, ioInitDone, fin, opened, aborted, jbod, failed>>

(* After the loop: isRunning = 5.                                           *)
IoLeft(d) ==
    /\ io[d] = "left"
    /\ isRunning' = [isRunning EXCEPT ![d] = 5]
    /\ io' = [io EXCEPT ![d] = "ended"]
    /\ UNCHANGED <<conf, ioInitDone, fin, opened, aborted, jbod, failed>>

(* The end of a deinit of the I/O thread itself, should another thread have *)
(* written isRunning meanwhile.                                             *)
IoDeinitEnd(d) ==
    /\ io[d] = "deinit" /\ isRunning[d] # 4
    /\ opened' = [opened EXCEPT ![d] = FALSE]
    /\ io' = [io EXCEPT ![d] = "ended"]
    /\ UNCHANGED <<conf, isRunning, ioInitDone, fin, aborted, jbod, failed>>

(* finilizerThreadMain: it waits while 3 and runs while not 0.              *)
finilizerThreadMain(d) ==
    /\ \/ fin[d] = "wait" /\ isRunning[d] # 3 /\ fin' = [fin EXCEPT ![d] = "run"]
       \/ fin[d] = "run" /\ isRunning[d] = 0 /\ fin' = [fin EXCEPT ![d] = "ended"]
    /\ UNCHANGED <<conf, isRunning, ioInitDone, io, opened, aborted, jbod, failed>>

(* SpdkBdev::deinit called by the SPDK thread: request, wait, close.        *)
DeinitBegin(d) ==
    /\ isRunning' = [isRunning EXCEPT ![d] = 4]
    /\ UNCHANGED <<conf, ioInitDone, io, fin, opened, aborted, jbod, failed>>

MutDeinitEndNoWait(d) ==
    /\ opened' = [opened EXCEPT ![d] = FALSE]
    /\ UNCHANGED <<conf, isRunning, ioInitDone, io, fin, aborted, jbod, failed>>

DeinitEnd(d) ==
    /\ isRunning[d] # 4
    /\ opened' = [opened EXCEPT ![d] = FALSE]
    /\ UNCHANGED <<conf, isRunning, ioInitDone, io, fin, aborted, jbod, failed>>

(* setRunning of the device that SpdkCore holds: a JBOD keeps the value to  *)
(* itself, its devices keep theirs.                                         *)
setRunning(r) ==
    IF devType = "BDEV" THEN [isRunning EXCEPT ![1] = r] ELSE isRunning

(* SpdkJBODBdev::write takes the devices in turn, read looks the address    *)
(* up.                                                                      *)
JbodWrite ==
    /\ devType = "JBOD"
    /\ jbod' = [jbod EXCEPT !.curr = (@ + 1) % jbod.num]
    /\ UNCHANGED <<conf, isRunning, ioInitDone, io, fin, opened, aborted, failed>>

JbodReadDevice(d) == jbod.hash[hashAddr(PciAddr[conf.devs[d]])]

IoThreadStep(d) ==
    \/ IoThreadCreate(d) \/ bdevInit(d) \/ IoPollerRegister(d)
    \/ IoPoll(d) \/ IoLeft(d) \/ IoDeinitEnd(d)
=============================================================================
