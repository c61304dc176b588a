------------------------------ MODULE NodeCli ------------------------------
(***************************************************************************)
(* The shell of examples/clinode on one node: nodeCli's commands, run by   *)
(* the main thread one after the other, and the threads of the store that  *)
(* carry out their requests and run their callbacks: several PmemPollers,  *)
(* the OffloadPoller and the finalizer of the device.                      *)
(*                                                                         *)
(* A command has a number, which is also the name of its stack frame and   *)
(* of the key buffer that it allocates.  Callbacks refer to the frame: of  *)
(* the store's synchronous call, or (put and update) of the command.  What *)
(* happens once a dead frame or freed memory is used, or _statusMsgs used  *)
(* by two threads at a time, is undefined: behaviours end there, and fault *)
(* says why.  Values are left out, the location of a key's value is not.   *)
(***************************************************************************)
EXTENDS Naturals, Sequences, FiniteSets

CONSTANTS Keys,
          Lines,        \* the attributes that the user may type after a command
          MaxCommands,  \* bound: commands typed before quit
          MaxPmem, MaxOff   \* capacities of the rings of the pollers

ASSUME CliAssumption == MaxCommands \in Nat

VARIABLES enabled,  \* isOffloadEnabled
          asked,    \* history: commands whose request was accepted
          me,       \* the main thread: where it is and what it executes
          num,      \* number of the current command
          live,     \* key buffers that are allocated
          rq,       \* the request of each command: what, where it is
          late,     \* commands whose wait has timed out
          stored,   \* where the value of a key is: none, pmem or disk
          msgs,     \* _statusMsgs: the commands it has a message of
          printed,  \* history: how often status has shown a command
          ops,      \* history: what each command was
          fault     \* why the behaviour is undefined from here on, or "none"

cliVars == <<enabled, asked, me, num, live, rq, late, stored, msgs, printed, ops, fault>>

Cmds == 1 .. MaxCommands
NoRqst == [op |-> "none", key |-> "none", at |-> "none"]
Prompt == [pc |-> "prompt", op |-> "none", key |-> "none", attrs |-> {}]

CliInit ==
    /\ enabled \in BOOLEAN /\ asked = {}
    /\ me = Prompt /\ num = 0
    /\ live = {} /\ late = {}
    /\ rq = [i \in Cmds |-> NoRqst]
    /\ stored = [k \in Keys |-> "none"]
    /\ msgs = {} /\ printed = [i \in Cmds |-> 0]
    /\ ops = [i \in Cmds |-> "none"]
    /\ fault = "none"

-----------------------------------------------------------------------------
(***************************************************************************)
(* _getKeyAttr and _getKeyAttrs: groups of three words, -o <name> <0|1>.   *)
(* lexical_cast<bool> takes nothing but 0 and 1, its exception is not      *)
(* caught anywhere: the result is then the set {"bad_cast"}.               *)
(***************************************************************************)
AttrOf(name) == CASE name = "lock" -> {"LOCKED"}
                  [] name = "ready" -> {"READY"}
                  [] name = "long_term" -> {"LONG_TERM"}
                  [] OTHER -> {}

_getKeyAttr(words, start) ==
    IF Len(words) < start + 3 \/ words[start + 1] # "-o" THEN {}
    ELSE IF words[start + 3] \notin {"0", "1"} THEN {"bad_cast"}
    ELSE IF words[start + 3] = "1" THEN AttrOf(words[start + 2]) ELSE {}

_getKeyAttrs(words) ==
    LET parse[pos \in 0 .. Len(words) + 3] ==
          IF pos > Len(words) THEN {}
          ELSE _getKeyAttr(words, pos) \cup parse[pos + 3]
    IN  IF Len(words) < 3 \/ Len(words) % 3 # 0 THEN {}
        ELSE IF "bad_cast" \in parse[0] THEN {"bad_cast"} ELSE parse[0]

-----------------------------------------------------------------------------
Running == fault = "none" /\ me.pc \notin {"closed", "terminated"}
MainAt(pc) == Running /\ me.pc = pc

(* nodeCli::operator(): a command is read, its arguments are right, and its *)
(* key buffer is allocated.  Help, neighbors, and commands with wrong       *)
(* arguments change nothing.                                                *)
Command(op, k, words) ==
    /\ MainAt("prompt") /\ num < MaxCommands
    /\ op = "remove" => words = <<>>
    /\ me' = [pc |-> IF "bad_cast" \in _getKeyAttrs(words) THEN "terminated" ELSE "call",
              op |-> op, key |-> k, attrs |-> _getKeyAttrs(words)]
    /\ num' = num + 1
    /\ live' = live \cup {num + 1}
    /\ ops' = [ops EXCEPT ![num + 1] = op]
    /\ UNCHANGED <<enabled, asked, rq, late, stored, msgs, printed, fault>>

(* Back to the prompt: normally, or with an exception that was caught.      *)
Done == me' = Prompt

(* QueueFullException is no OperationFailedException: nothing catches it.   *)
Terminate == me' = [me EXCEPT !.pc = "terminated"]

Calling(op) == MainAt("call") /\ me.op = op
LongTerm == "LONG_TERM" \in me.attrs
Waiting(where) == {i \in Cmds : rq[i].at = where}
Room == [pmem |-> Cardinality(Waiting("pmem")) < MaxPmem,
         off  |-> Cardinality(Waiting("off")) < MaxOff]

(* A request goes to the ring of a poller, or the ring is full.             *)
Enqueue(op, where, next) ==
    IF Room[where]
    THEN /\ rq' = [rq EXCEPT ![num] = [op |-> op, key |-> me.key, at |-> where]]
         /\ asked' = asked \cup {num}
         /\ me' = [me EXCEPT !.pc = next]
    ELSE Terminate /\ UNCHANGED <<rq, asked>>

(* _cmdGet: a value in memory is copied at once, one on the disk waited for. *)
_cmdGet ==
    /\ Calling("get")
    /\ IF stored[me.key] = "disk" /\ enabled
       THEN Enqueue("GET", "off", "wait") /\ UNCHANGED live
       ELSE Done /\ live' = live \ {num} /\ UNCHANGED <<rq, asked>>
    /\ UNCHANGED <<enabled, num, late, stored, msgs, printed, ops, fault>>

\* Mutated form of _cmdGetAsync: the key is freed when the call has returned.
MutCmdGetAsyncFrees ==
    /\ Calling("aget")
    /\ IF LongTerm /\ ~enabled THEN Done /\ UNCHANGED <<rq, asked>>
       ELSE Enqueue("AGET", IF LongTerm THEN "off" ELSE "pmem", "return")
    /\ live' = live \ {num}
    /\ UNCHANGED <<enabled, num, late, stored, msgs, printed, ops, fault>>

(* _cmdGetAsync: the key is left allocated, the request points to it.       *)
_cmdGetAsync ==
    /\ Calling("aget")
    /\ IF LongTerm /\ ~enabled THEN Done /\ UNCHANGED <<rq, asked>>
       ELSE Enqueue("AGET", IF LongTerm THEN "off" ELSE "pmem", "return")
    /\ UNCHANGED <<enabled, num, live, late, stored, msgs, printed, ops, fault>>

(* _allocValue fails, at any time or because the key has a value.           *)
PutAllocFails ==
    /\ MainAt("call") /\ me.op \in {"put", "aput"}
    /\ Done /\ live' = live \ {num}
    /\ UNCHANGED <<enabled, asked, num, rq, late, stored, msgs, printed, ops, fault>>

(* _cmdPut: KVStore::Put frees the key whatever happens.  The attributes    *)
(* get lost on the way; a full queue of ready keys takes the value back.    *)
_cmdPut ==
    /\ Calling("put") /\ stored[me.key] = "none"
    /\ Done /\ live' = live \ {num}
    /\ \E loc \in {"pmem", "none"} : stored' = [stored EXCEPT ![me.key] = loc]
    /\ UNCHANGED <<enabled, asked, num, rq, late, msgs, printed, ops, fault>>

_cmdPutAsync ==
    /\ Calling("aput") /\ stored[me.key] = "none"
    /\ IF LongTerm THEN Done /\ live' = live \ {num} /\ UNCHANGED <<rq, asked>>
       ELSE Enqueue("APUT", "pmem", "return") /\ UNCHANGED live
    /\ UNCHANGED <<enabled, num, late, stored, msgs, printed, ops, fault>>

(* _cmdUpdate: only long_term is implemented; the key is left allocated.    *)
_cmdUpdate ==
    /\ Calling("update")
    /\ IF LongTerm /\ enabled /\ stored[me.key] # "none"
       THEN Enqueue("UPDATE", "off", "wait")
       ELSE Done /\ UNCHANGED <<rq, asked>>
    /\ UNCHANGED <<enabled, num, live, late, stored, msgs, printed, ops, fault>>

(* _cmdUpdateAsync.  When the key is not found the callback frees the key,  *)
(* and UpdateAsync goes on with it.                                         *)
_cmdUpdateAsync ==
    /\ Calling("aupdate")
    /\ IF ~LongTerm \/ ~enabled THEN Done /\ UNCHANGED <<rq, asked, fault>>
       ELSE IF stored[me.key] = "none" THEN fault' = "heap" /\ UNCHANGED <<me, rq, asked>>
       ELSE Enqueue("AUPDATE", "off", "return") /\ UNCHANGED fault
    /\ UNCHANGED <<enabled, num, live, late, stored, msgs, printed, ops>>

(* _cmdRemove: the key is left allocated.                                   *)
_cmdRemove ==
    /\ Calling("remove")
    /\ IF stored[me.key] = "disk" /\ enabled
       THEN Enqueue("REMOVE", "off", "wait") /\ UNCHANGED stored
       ELSE /\ Done /\ UNCHANGED <<rq, asked>>
            /\ stored' = IF stored[me.key] = "pmem" THEN [stored EXCEPT ![me.key] = "none"] ELSE stored
    /\ UNCHANGED <<enabled, num, live, late, msgs, printed, ops, fault>>

(* An asynchronous command returns; its frame is gone.                      *)
CmdReturn ==
    /\ MainAt("return") /\ Done
    /\ UNCHANGED <<enabled, asked, num, live, rq, late, stored, msgs, printed, ops, fault>>

(* The wait of a synchronous call ends: with the answer, or after a second. *)
(* Only get frees its key.                                                  *)
Freed == IF me.op = "get" THEN live \ {num} ELSE live

Answered ==
    /\ MainAt("wait") /\ rq[num].at = "ready"
    /\ Done /\ live' = Freed
    /\ rq' = [rq EXCEPT ![num] = NoRqst]
    /\ UNCHANGED <<enabled, asked, num, late, stored, msgs, printed, ops, fault>>

\* Mutated form of TimeOut: the wait has no limit.
MutTimeOutNever == FALSE /\ UNCHANGED cliVars

TimeOut ==
    /\ MainAt("wait") /\ rq[num].at # "ready"
    /\ Done /\ live' = Freed
    /\ late' = late \cup {num}
    /\ UNCHANGED <<enabled, asked, num, rq, stored, msgs, printed, ops, fault>>

(* _cmdStatus goes through the messages, and then clears them.              *)
InVector == Waiting("push") # {}

_cmdStatus ==
    /\ MainAt("prompt")
    /\ IF InVector THEN fault' = "vector" /\ UNCHANGED <<me, printed>>
       ELSE /\ me' = [me EXCEPT !.pc = "status"]
            /\ printed' = [i \in Cmds |-> printed[i] + (IF i \in msgs THEN 1 ELSE 0)]
            /\ UNCHANGED fault
    /\ msgs # {}
    /\ UNCHANGED <<enabled, asked, num, live, rq, late, stored, msgs, ops>>

\* Mutated form of StatusClear: what was shown is kept.
MutStatusClearKeeps ==
    /\ MainAt("status") /\ Done
    /\ UNCHANGED <<enabled, asked, num, live, rq, late, stored, msgs, printed, ops, fault>>

StatusClear ==
    /\ MainAt("status") /\ Done /\ msgs' = {}
    /\ UNCHANGED <<enabled, asked, num, live, rq, late, stored, printed, ops, fault>>

(* quit: main destroys the nodeCli, then the store and its threads.         *)
Quit ==
    /\ MainAt("prompt") /\ me' = [me EXCEPT !.pc = "closing"]
    /\ UNCHANGED <<enabled, asked, num, live, rq, late, stored, msgs, printed, ops, fault>>

Close ==
    /\ MainAt("closing") /\ me' = [me EXCEPT !.pc = "closed"]
    /\ UNCHANGED <<enabled, asked, num, live, rq, late, stored, msgs, printed, ops, fault>>

-----------------------------------------------------------------------------
(***************************************************************************)
(* The threads of the store.  Pollers read the key where the caller has    *)
(* it; a request for an update has a copy.                                 *)
(***************************************************************************)
Goes(i, where) == rq' = [rq EXCEPT ![i].at = where]

ReadsKey(i) == rq[i].op \notin {"UPDATE", "AUPDATE"}

UsesFreedKey(i) ==
    /\ Running /\ rq[i].at \in {"pmem", "off"} /\ ReadsKey(i) /\ i \notin live
    /\ fault' = "heap"
    /\ UNCHANGED <<enabled, asked, me, num, live, rq, late, stored, msgs, printed, ops>>

(* PmemPoller::_processPut and _processGet; a value on the disk is asked of *)
(* the OffloadPoller, whose ring may be full.                               *)
PmemProcess(i) ==
    /\ Running /\ rq[i].at = "pmem" /\ i \in live
    /\ IF rq[i].op = "APUT"
       THEN Goes(i, "clb") /\ stored' = [stored EXCEPT ![rq[i].key] = "pmem"]
       ELSE /\ Goes(i, IF stored[rq[i].key] = "disk" /\ Room["off"] THEN "off" ELSE "clb")
            /\ UNCHANGED stored
    /\ UNCHANGED <<enabled, asked, me, num, live, late, msgs, printed, ops, fault>>

(* OffloadPoller::process: a get or remove of what is not on the disk is    *)
(* answered at once, any other request goes to the device.                  *)
OffProcess(i) ==
    /\ Running /\ rq[i].at = "off" /\ (ReadsKey(i) => i \in live)
    /\ Goes(i, IF ReadsKey(i) /\ stored[rq[i].key] # "disk" THEN "clb" ELSE "dev")
    /\ UNCHANGED <<enabled, asked, me, num, live, late, stored, msgs, printed, ops, fault>>

(* The device has finished, and FinalizePoller moves or removes the value.  *)
Moved(i) ==
    LET k == rq[i].key IN
    IF rq[i].op \in {"UPDATE", "AUPDATE"} /\ stored[k] = "pmem" THEN [stored EXCEPT ![k] = "disk"]
    ELSE IF rq[i].op = "REMOVE" THEN [stored EXCEPT ![k] = "none"]
    ELSE stored

Finalize(i) ==
    /\ Running /\ rq[i].at = "dev"
    /\ Goes(i, "clb")
    /\ stored' \in {stored, Moved(i)}
    /\ UNCHANGED <<enabled, asked, me, num, live, late, msgs, printed, ops, fault>>

(* The callback of a synchronous call sets ready in the caller's frame.     *)
SyncCallback(i) ==
    /\ Running /\ rq[i].at = "clb" /\ rq[i].op \in {"GET", "UPDATE", "REMOVE"}
    /\ IF i = num /\ me.pc = "wait" THEN Goes(i, "ready") /\ UNCHANGED fault
       ELSE fault' = "frame" /\ UNCHANGED rq
    /\ UNCHANGED <<enabled, asked, me, num, live, late, stored, msgs, printed, ops>>

(* The callbacks of the shell first add a message to _statusMsgs...         *)
PushBegin(i) ==
    /\ Running /\ rq[i].at = "clb" /\ rq[i].op \in {"AGET", "APUT", "AUPDATE"}
    /\ IF me.pc = "closing" THEN fault' = "shell" /\ UNCHANGED rq
       ELSE IF InVector \/ me.pc = "status" THEN fault' = "vector" /\ UNCHANGED rq
       ELSE Goes(i, "push") /\ UNCHANGED fault
    /\ UNCHANGED <<enabled, asked, me, num, live, late, stored, msgs, printed, ops>>

(* ...and those of put and update then free the key of the frame.           *)
PushEnd(i) ==
    /\ Running /\ rq[i].at = "push"
    /\ IF me.pc = "closing" THEN fault' = "shell" /\ UNCHANGED <<rq, msgs, live>>
       ELSE IF rq[i].op # "AGET" /\ (i # num \/ me.pc # "return")
       THEN fault' = "frame" /\ UNCHANGED <<rq, msgs, live>>
       ELSE /\ msgs' = msgs \cup {i}
            /\ live' = IF rq[i].op = "AGET" THEN live ELSE live \ {i}
            /\ rq' = [rq EXCEPT ![i] = NoRqst]
            /\ UNCHANGED fault
    /\ UNCHANGED <<enabled, asked, me, num, late, stored, printed, ops>>

-----------------------------------------------------------------------------
CmdNames == {"get", "aget", "put", "aput", "update", "aupdate", "remove"}

MainStep ==
    \/ _cmdGet \/ _cmdGetAsync \/ PutAllocFails \/ _cmdPut \/ _cmdPutAsync
    \/ _cmdUpdate \/ _cmdUpdateAsync \/ _cmdRemove
    \/ CmdReturn \/ Answered \/ TimeOut \/ StatusClear \/ Close

CliNext ==
    \/ \E op \in CmdNames, k \in Keys, words \in Lines : Command(op, k, words)
    \/ _cmdStatus \/ Quit
    \/ _cmdGet \/ _cmdGetAsync \/ PutAllocFails \/ _cmdPut \/ _cmdPutAsync
    \/ _cmdUpdate \/ _cmdUpdateAsync \/ _cmdRemove
    \/ CmdReturn \/ Answered \/ TimeOut \/ StatusClear \/ Close
    \/ \E i \in Cmds :
          \/ UsesFreedKey(i) \/ PmemProcess(i) \/ OffProcess(i) \/ Finalize(i)
          \/ SyncCallback(i) \/ PushBegin(i) \/ PushEnd(i)

(* The main thread goes on with a command, and a wait ends after a second.  *)
(* Nothing is assumed of the user or of the threads of the store.           *)
CliSpec == CliInit /\ [][CliNext]_cliVars /\ WF_cliVars(MainStep)

-----------------------------------------------------------------------------
Waits == {"get", "update", "remove"}
Dangling == {"aput", "aupdate"}

(* Synchronous commands that do not time out and asynchronous gets, in any  *)
(* number and order, use no frame that is gone and no key that was freed:   *)
(* such a use needs a time-out, an asynchronous put or an asynchronous      *)
(* update (KVStore::GetAsync keeps the pointer that _cmdGetAsync leaves).   *)
OnlyLateCallbacksDangle ==
    fault \in {"heap", "frame"} =>
        late # {} \/ \E i \in Cmds : ops[i] \in Dangling

(* A command that the store has accepted is in one place: under way, in     *)
(* _statusMsgs, or shown by status once.  No message is lost or shown twice *)
(* as long as _statusMsgs is used by one thread at a time.                  *)
ReportedOnce ==
    fault = "none" => \A i \in {c \in asked : ops[c] \notin Waits} :
        printed[i] + (IF i \in msgs /\ me.pc # "status" THEN 1 ELSE 0)
                   + (IF rq[i].at # "none" THEN 1 ELSE 0) = 1

(* A command ends, with the prompt or with the process, although the        *)
(* threads of the store may never answer.                                   *)
PromptReturns ==
    (me.pc \in {"call", "wait", "return", "status"}) ~>
        (me.pc \in {"prompt", "terminated"} \/ fault # "none")
=============================================================================
