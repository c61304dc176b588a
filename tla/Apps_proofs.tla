---------------------------- MODULE Apps_proofs ----------------------------
(***************************************************************************)
(* Theorems about the two applications of the repository, for any number   *)
(* of executors, keys, commands and rings of any size.                     *)
(*                                                                         *)
(* The benchmark (Minidaq): an event goes through at most one place at a   *)
(* time: a number that an executor will still take, a key that is being    *)
(* announced, a ready key, a key that a filter holds.                      *)
(*                                                                         *)
(* The shell (NodeCli): until the first fault, a request refers to a key   *)
(* that is allocated and to a frame of the shell that is still waiting, or *)
(* to one that timed out; a message is the answer of one command, and is   *)
(* still to come, waiting to be shown, or shown, never two of these.       *)
(***************************************************************************)
EXTENDS Minidaq, NodeCli, TLAPS

-----------------------------------------------------------------------------
(***************************************************************************)
(* The benchmark (Minidaq).                                                *)
(***************************************************************************)
(* The locals of an executor.                                               *)
Pcs == {"idle", "after", "quiesce", "asleep", "done", "key", "announce", "get", "filter"}

Locals == [pc : Pcs, phase : {"ramp", "test"}, i : 0 .. MaxIterations, next : Nat, ev : Nat,
           frag : 0 .. NSub, accept : BOOLEAN, tries : Nat, c : Nat, cErr : Nat, due : Int]

(* An executor that counts takes every Count-th number, from its own on,    *)
(* one in an iteration.                                                     *)
Numbers(e, x) ==
    x.pc # "done" =>
        /\ x.next % Count[e[1]] = e[2]
        /\ x.next <= e[2] + x.i * Count[e[1]]
        /\ x.pc = "key" => x.i >= 1 /\ x.next <= e[2] + (x.i - 1) * Count[e[1]]

ExOk(e, x) ==
    /\ x \in Locals
    /\ x.phase = "ramp" => x.due = 0
    /\ x.phase = "test" => x.c + x.cErr = x.due
    /\ Numbers(e, x)
    /\ x.pc = "filter" => x.frag < NSub
    /\ x.pc \in {"get", "filter"} => e[1] = "ff"
    /\ x.pc = "announce" => e[1] = "ro"
    /\ x.pc \in {"announce", "get", "filter"} => x.ev \in Events

ExInv == ex \in [Executors -> Locals] /\ \A e \in Executors : ExOk(e, ex[e])

(* Where an event is.  The filters count themselves, or take what the       *)
(* readout has counted and announced.                                       *)
Counting == IF mode.seq THEN "ff" ELSE "ro"
Future(e, v) == /\ e[1] = Counting /\ ex[e].pc # "done"
                /\ v % Count[Counting] = e[2] /\ v >= ex[e].next
Announcer(e, v) == ~mode.seq /\ ex[e].pc = "announce" /\ ex[e].ev = v
IsReady(v) == \E j \in 1 .. Len(ready) : ready[j] = v
Holder(e, v) == ex[e].pc \in {"get", "filter"} /\ ex[e].ev = v

Untouched(v) == taken[v] = 0 /\ \A e \in Executors : ~Holder(e, v)

PlaceInv ==
    /\ \A e, f \in Executors, v \in Events : Holder(e, v) /\ Holder(f, v) => e = f
    /\ \A e, f \in Executors, v \in Events : Announcer(e, v) /\ Announcer(f, v) => e = f
    /\ \A j, k \in 1 .. Len(ready) : ready[j] = ready[k] => j = k
    /\ \A e \in Executors, v \in Events : Future(e, v) =>
         Untouched(v) /\ ~IsReady(v) /\ \A f \in Executors : ~Announcer(f, v)
    /\ \A e \in Executors, v \in Events : Announcer(e, v) => Untouched(v) /\ ~IsReady(v)
    /\ \A v \in Events : IsReady(v) => Untouched(v)
    /\ \A e \in Executors : ex[e].pc \in {"get", "filter"} => taken[ex[e].ev] = ex[e].frag
    /\ \A e \in Executors : ex[e].pc = "filter" => tree[<<ex[e].ev, ex[e].frag>>] = "pmem"

(* What is on the disk, or on its way there, was sent there by a filter.    *)
StoreInv ==
    /\ ready \in Seq(Events) /\ (mode.seq => ready = <<>>)
    /\ DOMAIN tree = KeysOf
    /\ taken \in [Events -> 0 .. NSub]
    /\ \A u \in offload : u[2] \in KeysOf /\ u[2][2] < taken[u[2][1]]
    /\ \A k \in KeysOf : tree[k] \in {"none", "pmem", "disk"} /\ (tree[k] = "disk" => k[2] < taken[k[1]])

DaqInv == ExInv /\ PlaceInv /\ StoreInv

-----------------------------------------------------------------------------
(* An executor has a node and a number below the count of the node.         *)
LEMMA ExecutorIs ==
    ASSUME NEW e \in Executors
    PROVE  /\ e = <<e[1], e[2]>> /\ e[1] \in Nodes /\ e[2] \in Nat
           /\ Count[e[1]] \in Nat \ {0} /\ e[2] < Count[e[1]]
           /\ Count[e[1]] <= NRo + NFf
<1>1. PICK m \in Nodes, j \in 0 .. NRo + NFf : e = <<m, j>> /\ j < Count[m]
  BY DEF Executors
<1>2. Count[m] \in Nat /\ Count[m] <= NRo + NFf
  BY MinidaqAssumption DEF Count, Nodes
<1> QED
  BY <1>1, <1>2, MinidaqAssumption

(* A larger factor, a larger product.                                       *)
LEMMA Product ==
    ASSUME NEW a \in Nat, NEW b \in Nat, NEW c \in Nat, a <= b
    PROVE  a * c <= b * c /\ a * c \in Nat /\ b * c \in Nat
<1>1. PICK d \in Nat : b = a + d
  <2>1. b - a \in Nat /\ b = a + (b - a)
    OBVIOUS
  <2> QED
    BY Zenon, <2>1
<1>2. b * c = a * c + d * c
  BY <1>1
<1>3. a * c \in Nat /\ d * c \in Nat
  OBVIOUS
<1> QED
  BY <1>2, <1>3

(* Counting on by the number of executors keeps the remainder.              *)
LEMMA SameRemainder ==
    ASSUME NEW a \in Nat, NEW b \in Nat \ {0}
    PROVE  (a + b) % b = a % b
<1>1. \A x \in Nat, y \in Nat \ {0} : /\ x \div y \in Nat /\ x % y \in 0 .. y - 1
                                     /\ x = (x \div y) * y + (x % y)
  BY SMT
<1>2. a + b \in Nat
  OBVIOUS
<1>3. PICK q \in Nat, r \in 0 .. b - 1 : a = q * b + r /\ r = a % b
  BY Zenon, <1>1
<1>4. PICK p \in Nat, s \in 0 .. b - 1 : a + b = p * b + s /\ s = (a + b) % b
  BY Zenon, <1>1, <1>2
<1>5. (q + 1) * b = q * b + b /\ q * b \in Nat /\ p * b \in Nat /\ (q + 1) * b \in Nat
  OBVIOUS
<1>6. CASE q + 1 <= p /\ p <= q + 1
  <2>1. p = q + 1
    BY <1>6
  <2>2. p * b = q * b + b
    BY <2>1
  <2>3. PICK u, v : u = q * b /\ v = p * b
    OBVIOUS
  <2>4. u \in Nat /\ v \in Nat /\ a = u + r /\ a + b = v + s /\ v = u + b
    BY Zenon, <1>3, <1>4, <1>5, <2>2, <2>3
  <2>5. r = s
    BY <2>4
  <2> QED
    BY Zenon, <1>3, <1>4, <2>5
<1>7. CASE q + 1 < p
  <2>1. (q + 1 + 1) * b <= p * b
    BY <1>7, Product
  <2>2. (q + 1 + 1) * b = q * b + b + b
    OBVIOUS
  <2> QED
    BY <1>3, <1>4, <1>5, <2>1, <2>2
<1>8. CASE p < q + 1
  <2>1. (p + 1) * b <= (q + 1) * b
    BY <1>8, Product
  <2>2. (p + 1) * b = p * b + b
    OBVIOUS
  <2> QED
    BY <1>3, <1>4, <1>5, <2>1, <2>2
<1> QED
  BY <1>6, <1>7, <1>8

(* The number that an executor takes is one of an event, and leaves it with *)
(* the next of its numbers (_NextKey).                                      *)
LEMMA FreshNumber ==
    ASSUME NEW e \in Executors, NEW x, ExOk(e, x), x.pc = "key", NEW y,
           y.next = x.next + Count[e[1]], y.i = x.i, y.pc # "key"
    PROVE  /\ Numbers(e, y) /\ x.next \in Events /\ y.next \in Nat
           /\ y.next > x.next /\ x.next % Count[e[1]] = e[2]
<1> DEFINE N == Count[e[1]]
<1>1. /\ N \in Nat \ {0} /\ e[2] \in Nat /\ e[2] < N /\ N <= NRo + NFf
      /\ NRo + NFf \in Nat /\ MaxIterations \in Nat
  BY ExecutorIs, MinidaqAssumption
<1> HIDE DEF N
<1>2. /\ x.next \in Nat /\ x.i \in Nat /\ x.i >= 1 /\ x.i <= MaxIterations
      /\ x.next <= e[2] + (x.i - 1) * N
      /\ x.next % N = e[2]
  BY DEF ExOk, Locals, Numbers, N
<1>3. PICK m \in Nat : x.i = m + 1
  <2>1. x.i - 1 \in Nat /\ x.i = (x.i - 1) + 1
    BY <1>2
  <2> QED
    BY Zenon, <2>1
<1>4. (x.i - 1) * N = m * N /\ x.i * N = m * N + N /\ m * N \in Nat
  BY <1>1, <1>3
<1>5. (x.next + N) % N = x.next % N
  BY Zenon, <1>1, <1>2, SameRemainder
<1>6. x.next < x.i * N /\ x.next + N <= e[2] + x.i * N
  BY <1>1, <1>2, <1>4
<1>7. /\ x.i * N <= MaxIterations * N /\ MaxIterations * N <= MaxIterations * (NRo + NFf)
      /\ x.i * N \in Nat /\ MaxIterations * N \in Nat /\ MaxIterations * (NRo + NFf) \in Nat
  <2>1. x.i * N <= MaxIterations * N /\ x.i * N \in Nat /\ MaxIterations * N \in Nat
    BY <1>1, <1>2, Product
  <2>2. N * MaxIterations <= (NRo + NFf) * MaxIterations
    BY <1>1, Product
  <2>3. /\ N * MaxIterations = MaxIterations * N
        /\ (NRo + NFf) * MaxIterations = MaxIterations * (NRo + NFf)
        /\ MaxIterations * (NRo + NFf) \in Nat
    BY <1>1
  <2> QED
    BY Zenon, <2>1, <2>2, <2>3
<1>8. x.next \in Events
  BY <1>2, <1>6, <1>7 DEF Events
<1>9. Numbers(e, y)
  BY Zenon, <1>2, <1>5, <1>6 DEF Numbers, N
<1> QED
  BY <1>1, <1>2, <1>8, <1>9 DEF N

-----------------------------------------------------------------------------
(* What the steps of an executor do with its locals.                        *)

(* The end of a task, by itself or by an exception.                         *)
LEMMA OverOk ==
    ASSUME NEW e \in Executors, NEW x, ExOk(e, x), x.pc # "done"
    PROVE  /\ ExOk(e, Over(x)) /\ Over(x).pc = "after" /\ Over(x).next = x.next
           /\ Over(x) \in Locals
<1>1. PICK y : y = Over(x)
  OBVIOUS
<1>2. /\ y \in Locals /\ y.pc = "after" /\ y.next = x.next /\ y.i = x.i
      /\ y.phase = x.phase /\ y.c = x.c /\ y.cErr = x.cErr /\ y.due = x.due
  <2>1. x \in Locals /\ 0 \in 0 .. NSub
    BY MinidaqAssumption DEF ExOk
  <2> QED
    BY Zenon, <1>1, <2>1 DEF Over, Locals, Pcs
<1> QED
  BY <1>1, <1>2 DEF ExOk, Numbers

(* A completion is counted.                                                 *)
LEMMA CountedOk ==
    ASSUME NEW e \in Executors, NEW x, ExOk(e, x), NEW ok \in BOOLEAN
    PROVE  /\ ExOk(e, Counted(x, ok)) /\ Counted(x, ok) \in Locals
           /\ Counted(x, ok).pc = x.pc /\ Counted(x, ok).next = x.next
           /\ Counted(x, ok).ev = x.ev /\ Counted(x, ok).frag = x.frag
<1>1. CASE x.phase = "ramp"
  BY <1>1 DEF Counted, ExOk
<1>2. CASE x.phase # "ramp"
  <2>1. PICK y : y = Counted(x, ok)
    OBVIOUS
  <2>2. PICK a, b : a = (IF ok THEN 1 ELSE 0) /\ b = (IF ok THEN 0 ELSE 1)
    OBVIOUS
  <2>3. a \in Nat /\ b \in Nat /\ a + b = 1
    BY <2>2
  <2>4. y = [x EXCEPT !.c = @ + a, !.cErr = @ + b, !.due = @ + 1]
    BY Zenon, <1>2, <2>1, <2>2 DEF Counted
  <2>5. x \in Locals /\ x.c \in Nat /\ x.cErr \in Nat /\ x.due \in Int
    BY DEF ExOk, Locals
  <2>6. /\ y \in Locals /\ y.c = x.c + a /\ y.cErr = x.cErr + b /\ y.due = x.due + 1
        /\ y.pc = x.pc /\ y.next = x.next /\ y.i = x.i /\ y.phase = x.phase
        /\ y.ev = x.ev /\ y.frag = x.frag
    <3>1. x.c + a \in Nat /\ x.cErr + b \in Nat /\ x.due + 1 \in Int
      BY <2>3, <2>5
    <3> QED
      BY Zenon, <2>4, <2>5, <3>1 DEF Locals
  <2>7. x.phase = "test" /\ y.c + y.cErr = y.due
    BY <1>2, <2>3, <2>5, <2>6 DEF ExOk, Locals
  <2>8. Numbers(e, y)
    BY Zenon, <2>6 DEF ExOk, Numbers
  <2> QED
    BY <2>1, <2>6, <2>7, <2>8 DEF ExOk
<1> QED
  BY <1>1, <1>2

(* What follows an iteration.                                               *)
LEMMA FollowingOk ==
    ASSUME NEW e \in Executors, NEW x, ExOk(e, x), x.pc = "after", NEW stop,
           NEW y \in Following(x, stop)
    PROVE  ExOk(e, y) /\ y.pc \in {"key", "quiesce"} /\ y.next = x.next
<1>1. ASSUME NEW z, ExOk(e, z), z.pc = "after"
      PROVE  /\ ExOk(e, Iteration(z)) /\ Iteration(z).pc \in {"key", "quiesce"}
             /\ Iteration(z).next = z.next
             /\ ExOk(e, [z EXCEPT !.pc = "quiesce"])
             /\ [z EXCEPT !.pc = "quiesce"].pc = "quiesce"
             /\ [z EXCEPT !.pc = "quiesce"].next = z.next
  <2>1. PICK w : w = [z EXCEPT !.pc = "quiesce"]
    BY Zenon
  <2>2. /\ w \in Locals /\ w.pc = "quiesce" /\ w.next = z.next /\ w.i = z.i
        /\ w.phase = z.phase /\ w.c = z.c /\ w.cErr = z.cErr /\ w.due = z.due
    BY <1>1, <2>1 DEF ExOk, Locals, Pcs
  <2>3. ExOk(e, w)
    BY <1>1, <2>2 DEF ExOk, Numbers
  <2>4. CASE z.i = MaxIterations
    BY <2>1, <2>2, <2>3, <2>4 DEF Iteration
  <2>5. CASE z.i # MaxIterations
    <3>1. PICK u : u = [z EXCEPT !.i = @ + 1, !.pc = "key", !.tries = 0]
      OBVIOUS
    <3>2. z.i \in Nat /\ z.i + 1 \in 0 .. MaxIterations /\ z \in Locals
      BY <1>1, <2>5, MinidaqAssumption DEF ExOk, Locals
    <3>3. /\ u \in Locals /\ u.pc = "key" /\ u.next = z.next /\ u.i = z.i + 1
          /\ u.phase = z.phase /\ u.c = z.c /\ u.cErr = z.cErr /\ u.due = z.due
      BY Zenon, <3>1, <3>2 DEF Locals, Pcs
    <3>4. Numbers(e, u)
      <4>1. PICK N, m : N = Count[e[1]] /\ m = z.i
        OBVIOUS
      <4>2. N \in Nat /\ m \in Nat /\ e[2] \in Nat /\ z.next \in Nat
        BY <1>1, <3>2, <4>1, ExecutorIs DEF Locals, ExOk
      <4>3. (m + 1) * N = m * N + N /\ m * N \in Nat
        BY <4>2
      <4>4. z.next % N = e[2] /\ z.next <= e[2] + m * N
        BY Zenon, <1>1, <4>1 DEF ExOk, Numbers
      <4>5. z.next <= e[2] + (m + 1) * N /\ m + 1 >= 1
        BY <4>2, <4>3, <4>4
      <4>6. u.i = m + 1 /\ m = u.i - 1
        BY <3>3, <4>1, <4>2
      <4>7. u.next = z.next /\ N = Count[e[1]]
        BY Zenon, <3>3, <4>1
      <4>8. u.next % Count[e[1]] = e[2]
        BY Zenon, <4>4, <4>7
      <4>9. u.next <= e[2] + u.i * Count[e[1]] /\ u.i >= 1
        BY Zenon, <4>5, <4>6, <4>7
      <4>10. u.next <= e[2] + (u.i - 1) * Count[e[1]]
        BY Zenon, <4>4, <4>6, <4>7
      <4> QED
        BY Zenon, <4>8, <4>9, <4>10 DEF Numbers
    <3>5. ExOk(e, u)
      BY <1>1, <3>3, <3>4 DEF ExOk
    <3>6. Iteration(z) = u
      BY Zenon, <2>5, <3>1 DEF Iteration
    <3> QED
      BY Zenon, <2>1, <2>2, <2>3, <3>3, <3>5, <3>6
  <2> QED
    BY <2>4, <2>5
<1>2. PICK r : r = Ramped(x)
  OBVIOUS
<1>3. x.phase = "ramp" => ExOk(e, r) /\ r.pc = "after" /\ r.next = x.next
  <2> SUFFICES ASSUME x.phase = "ramp"
               PROVE  ExOk(e, r) /\ r.pc = "after" /\ r.next = x.next
    OBVIOUS
  <2>1. /\ r \in Locals /\ r.pc = x.pc /\ r.next = x.next /\ r.i = x.i
        /\ r.phase = "test" /\ r.c = 0 /\ r.cErr = 0 /\ r.due = x.due
    BY Zenon, <1>2 DEF ExOk, Locals, Ramped
  <2>2. x.due = 0 /\ Numbers(e, r)
    BY Zenon, <2>1 DEF ExOk, Numbers
  <2> QED
    BY <2>1, <2>2 DEF ExOk
<1>4. PICK q : q = RecordSample(x)
  OBVIOUS
<1>5. x.phase # "ramp" => ExOk(e, q) /\ q.pc = "after" /\ q.next = x.next
  <2> SUFFICES ASSUME x.phase # "ramp"
               PROVE  ExOk(e, q) /\ q.pc = "after" /\ q.next = x.next
    OBVIOUS
  <2>0. x \in Locals /\ x.c \in Nat /\ x.cErr \in Nat /\ x.due \in Int
    BY DEF ExOk, Locals
  <2>1. x.phase = "test" /\ x.due = x.c + x.cErr
    BY DEF ExOk, Locals
  <2>2. /\ q \in Locals /\ q.pc = x.pc /\ q.next = x.next /\ q.i = x.i
        /\ q.phase = x.phase /\ q.c = 0 /\ q.cErr = 0 /\ q.due = x.due - (x.c + x.cErr)
    <3>1. x.due - (x.c + x.cErr) \in Int
      BY <2>0
    <3> QED
      BY Zenon, <1>4, <2>0, <3>1 DEF Locals, RecordSample
  <2>3. Numbers(e, q) /\ q.due = 0
    BY <2>0, <2>1, <2>2 DEF ExOk, Numbers
  <2> QED
    BY <2>1, <2>2, <2>3 DEF ExOk
<1>6. y \in {Iteration(x), [x EXCEPT !.pc = "quiesce"]}
      \/ (x.phase = "ramp" /\ y \in {Iteration(r), [r EXCEPT !.pc = "quiesce"]})
      \/ (x.phase # "ramp" /\ y \in {Iteration(q), [q EXCEPT !.pc = "quiesce"]})
  BY Zenon, <1>2, <1>4 DEF Following, TestLoop
<1>7. CASE y \in {Iteration(x), [x EXCEPT !.pc = "quiesce"]}
  BY Zenon, <1>1, <1>7
<1>8. CASE x.phase = "ramp" /\ y \in {Iteration(r), [r EXCEPT !.pc = "quiesce"]}
  BY Zenon, <1>1, <1>3, <1>8
<1>9. CASE x.phase # "ramp" /\ y \in {Iteration(q), [q EXCEPT !.pc = "quiesce"]}
  BY Zenon, <1>1, <1>5, <1>9
<1> QED
  BY <1>6, <1>7, <1>8, <1>9

-----------------------------------------------------------------------------
(* One executor takes a step.                                               *)
LEMMA ExUpdate ==
    ASSUME ExInv, NEW e \in Executors, NEW y, ExOk(e, y), ex' = [ex EXCEPT ![e] = y]
    PROVE  /\ ExInv' /\ ex'[e] = y
           /\ \A f \in Executors : f # e => ex'[f] = ex[f]
<1>1. y \in Locals
  BY Zenon DEF ExOk
<1>2. ex' \in [Executors -> Locals] /\ ex'[e] = y /\ \A f \in Executors : f # e => ex'[f] = ex[f]
  BY <1>1 DEF ExInv
<1>3. \A f \in Executors : ExOk(f, ex'[f])
  BY Zenon, <1>2 DEF ExInv
<1> QED
  BY Zenon, <1>2, <1>3 DEF ExInv, ExOk, Numbers

(* What an event's place depends on: the step of an executor that takes no  *)
(* event, gives none away and may give one up.                              *)
Yields(f, x, y) ==
    /\ y.pc # "done" => x.pc # "done" /\ y.next >= x.next
    /\ (~mode.seq /\ y.pc = "announce") => x.pc = "announce" /\ y.ev = x.ev
    /\ y.pc \in {"get", "filter"} =>
         x.pc \in {"get", "filter"} /\ y.ev = x.ev /\ y.frag = x.frag

(* Such a step keeps the places.                                            *)
LEMMA PlaceFrame ==
    ASSUME DaqInv, ExInv', mode' = mode, taken' = taken, ready' = ready,
           \A f \in Executors : Yields(f, ex[f], ex'[f]),
           \A f \in Executors : ex'[f].pc = "filter" => tree'[<<ex'[f].ev, ex'[f].frag>>] = "pmem"
    PROVE  PlaceInv'
<1>0. PlaceInv /\ ExInv
  BY Zenon DEF DaqInv
<1>1. \A f \in Executors, v \in Events :
        /\ Holder(f, v)' => Holder(f, v)
        /\ Announcer(f, v)' => Announcer(f, v)
        /\ Future(f, v)' => Future(f, v)
        /\ IsReady(v)' => IsReady(v)
  <2> SUFFICES ASSUME NEW f \in Executors, NEW v \in Events
               PROVE  /\ Holder(f, v)' => Holder(f, v)
                      /\ Announcer(f, v)' => Announcer(f, v)
                      /\ Future(f, v)' => Future(f, v)
                      /\ IsReady(v)' => IsReady(v)
    BY Zenon
  <2>1. Yields(f, ex[f], ex'[f])
    BY Zenon
  <2>2. v \in Nat /\ ex[f].next \in Nat /\ ex'[f].next \in Nat
    <3>1. ex[f] \in Locals /\ ex'[f] \in Locals
      BY Zenon, <1>0 DEF ExInv, ExOk
    <3> QED
      BY <3>1, MinidaqAssumption DEF Locals, Events
  <2>3. Future(f, v)' => Future(f, v)
    BY <2>1, <2>2 DEF Future, Counting, Yields
  <2>4. Holder(f, v)' => Holder(f, v)
    BY Zenon, <2>1 DEF Holder, Yields
  <2>5. Announcer(f, v)' => Announcer(f, v)
    BY Zenon, <2>1 DEF Announcer, Yields
  <2> QED
    BY Zenon, <2>3, <2>4, <2>5 DEF IsReady
<1>2. \A v \in Events : Untouched(v) => Untouched(v)'
  BY Zenon, <1>1 DEF Untouched
<1>3. \A f \in Executors : ex'[f].pc \in {"get", "filter"} => taken'[ex'[f].ev] = ex'[f].frag
  BY Zenon, <1>0 DEF PlaceInv, Yields
<1>4. \A e \in Executors, v \in Events : Future(e, v)' =>
         Untouched(v)' /\ ~IsReady(v)' /\ \A f \in Executors : ~Announcer(f, v)'
  BY Zenon, <1>0, <1>1, <1>2 DEF PlaceInv
<1>5. \A e \in Executors, v \in Events : Announcer(e, v)' => Untouched(v)' /\ ~IsReady(v)'
  BY Zenon, <1>0, <1>1, <1>2 DEF PlaceInv
<1>6. \A v \in Events : IsReady(v)' => Untouched(v)'
  BY Zenon, <1>0, <1>2 DEF PlaceInv, IsReady
<1>7. \A e, f \in Executors, v \in Events : Holder(e, v)' /\ Holder(f, v)' => e = f
  BY Zenon, <1>0, <1>1 DEF PlaceInv
<1>8. \A e, f \in Executors, v \in Events : Announcer(e, v)' /\ Announcer(f, v)' => e = f
  BY Zenon, <1>0, <1>1 DEF PlaceInv
<1>9. \A j, k \in 1 .. Len(ready') : ready'[j] = ready'[k] => j = k
  BY Zenon, <1>0 DEF PlaceInv
<1> QED
  BY Zenon, <1>3, <1>4, <1>5, <1>6, <1>7, <1>8, <1>9 DEF PlaceInv

(* The steps of one executor, that way.                                     *)
LEMMA PlaceYield ==
    ASSUME DaqInv, NEW e \in Executors, NEW y, ExOk(e, y), ex' = [ex EXCEPT ![e] = y],
           Yields(e, ex[e], y), mode' = mode, taken' = taken, ready' = ready,
           y.pc = "filter" => tree'[<<y.ev, y.frag>>] = "pmem",
           \A f \in Executors : f # e /\ ex[f].pc = "filter"
              => tree'[<<ex[f].ev, ex[f].frag>>] = "pmem"
    PROVE  PlaceInv' /\ ExInv'
<1>1. /\ ExInv' /\ ex'[e] = y
      /\ \A f \in Executors : f # e => ex'[f] = ex[f]
  BY Zenon, ExUpdate DEF DaqInv
<1>2. \A f \in Executors : ex[f] \in Locals
  BY Zenon DEF DaqInv, ExInv, ExOk
<1>3. \A f \in Executors : Yields(f, ex[f], ex[f])
  <2>1. \A f \in Executors : ex[f].next \in Nat
    BY <1>2 DEF Locals
  <2> QED
    BY <2>1 DEF Yields
<1>4. \A f \in Executors : Yields(f, ex[f], ex'[f])
  <2> SUFFICES ASSUME NEW f \in Executors
               PROVE  Yields(f, ex[f], ex'[f])
    OBVIOUS
  <2>1. CASE f = e
    BY Zenon, <1>1, <2>1 DEF Yields
  <2>2. CASE f # e
    BY Zenon, <1>1, <1>3, <2>2
  <2> QED
    BY <2>1, <2>2
<1>5. \A f \in Executors : ex'[f].pc = "filter" => tree'[<<ex'[f].ev, ex'[f].frag>>] = "pmem"
  BY Zenon, <1>1
<1> QED
  BY Zenon, <1>1, <1>4, <1>5, PlaceFrame

(* An executor takes its next number: to store and announce the event, or,  *)
(* when the filters count, to ask for it (_NextKey).                        *)
LEMMA PlaceFresh ==
    ASSUME DaqInv, NEW e \in Executors, NEW y, ExOk(e, y), ex' = [ex EXCEPT ![e] = y],
           e[1] = Counting, ex[e].pc = "key", mode' = mode, taken' = taken, ready' = ready,
           y.next = ex[e].next + Count[e[1]], y.i = ex[e].i, y.ev = ex[e].next, y.frag = 0,
           IF mode.seq THEN y.pc = "get" ELSE y.pc = "announce",
           \A f \in Executors : f # e /\ ex[f].pc = "filter"
              => tree'[<<ex[f].ev, ex[f].frag>>] = "pmem"
    PROVE  PlaceInv' /\ ExInv'
<1>0. PlaceInv /\ ExInv /\ ExOk(e, ex[e])
  BY Zenon DEF DaqInv, ExInv
<1>1. /\ ExInv' /\ ex'[e] = y
      /\ \A f \in Executors : f # e => ex'[f] = ex[f]
  BY Zenon, <1>0, ExUpdate
<1>2. PICK v0 : v0 = ex[e].next
  OBVIOUS
<1>3. y.pc # "key"
  OBVIOUS
<1>4. v0 \in Events /\ y.next > v0 /\ v0 % Count[e[1]] = e[2] /\ y.next \in Nat
  BY Zenon, <1>0, <1>2, <1>3, FreshNumber
<1>5. v0 \in Nat /\ \A v \in Events : v \in Nat
  BY <1>4, MinidaqAssumption DEF Events
<1>6. Future(e, v0)
  BY <1>2, <1>4, <1>5 DEF Future
<1>7. /\ Untouched(v0) /\ ~IsReady(v0) /\ \A f \in Executors : ~Announcer(f, v0)
  BY Zenon, <1>0, <1>4, <1>6 DEF PlaceInv
<1>8. \A f \in Executors, v \in Events : Future(f, v)' => Future(f, v) /\ v # v0
  <2> SUFFICES ASSUME NEW f \in Executors, NEW v \in Events, Future(f, v)'
               PROVE  Future(f, v) /\ v # v0
    BY Zenon
  <2>0. /\ f[1] = Counting /\ ex'[f].pc # "done" /\ v % Count[Counting] = f[2]
        /\ v >= ex'[f].next
    BY Zenon DEF Future, Counting
  <2>1. CASE f = e
    BY <1>1, <1>2, <1>4, <1>5, <2>0, <2>1 DEF Future
  <2>2. CASE f # e
    <3>1. Future(f, v)
      BY Zenon, <1>1, <2>0, <2>2 DEF Future
    <3>2. f = <<f[1], f[2]>> /\ e = <<e[1], e[2]>>
      BY Zenon, ExecutorIs
    <3>3. v # v0
      BY Zenon, <1>4, <2>0, <2>2, <3>2
    <3> QED
      BY <3>1, <3>3
  <2> QED
    BY <2>1, <2>2
<1>9. \A v \in Events : IsReady(v)' <=> IsReady(v)
  BY Zenon DEF IsReady
<1>10. CASE mode.seq
  <2>1. \A f \in Executors, v \in Events : ~Announcer(f, v)'
    BY Zenon, <1>10 DEF Announcer
  <2>2. \A f \in Executors, v \in Events : Holder(f, v)' => (f = e /\ v = v0) \/ Holder(f, v)
    <3> SUFFICES ASSUME NEW f \in Executors, NEW v \in Events, Holder(f, v)', f # e \/ v # v0
                 PROVE  Holder(f, v)
      BY Zenon
    <3>1. f # e
      BY Zenon, <1>1, <1>2 DEF Holder
    <3> QED
      BY Zenon, <1>1, <3>1 DEF Holder
  <2>3. \A v \in Events : v # v0 /\ Untouched(v) => Untouched(v)'
    BY Zenon, <2>2 DEF Untouched
  <2>4. \A f \in Executors, g \in Executors, v \in Events : Holder(f, v)' /\ Holder(g, v)' => f = g
    <3> SUFFICES ASSUME NEW f \in Executors, NEW g \in Executors, NEW v \in Events,
                        Holder(f, v)', Holder(g, v)'
                 PROVE  f = g
      BY Zenon
    <3>1. \A h \in Executors : ~Holder(h, v0)
      BY Zenon, <1>7 DEF Untouched
    <3>2. (f = e /\ v = v0) \/ Holder(f, v)
      BY Zenon, <2>2
    <3>3. (g = e /\ v = v0) \/ Holder(g, v)
      BY Zenon, <2>2
    <3>4. Holder(f, v) /\ Holder(g, v) => f = g
      BY Zenon, <1>0 DEF PlaceInv
    <3> QED
      BY Zenon, <3>1, <3>2, <3>3, <3>4
  <2>5. \A f \in Executors, v \in Events : Future(f, v)' => Untouched(v)' /\ ~IsReady(v)'
    BY Zenon, <1>0, <1>8, <1>9, <2>3 DEF PlaceInv
  <2>6. \A v \in Events : IsReady(v)' => Untouched(v)'
    BY Zenon, <1>0, <1>7, <1>9, <2>3 DEF PlaceInv
  <2>7. \A f \in Executors : ex'[f].pc \in {"get", "filter"} => taken'[ex'[f].ev] = ex'[f].frag
    <3>1. taken[v0] = 0
      BY Zenon, <1>7 DEF Untouched
    <3>2. ASSUME NEW f \in Executors, f # e, ex'[f].pc \in {"get", "filter"}
          PROVE  taken'[ex'[f].ev] = ex'[f].frag
      BY Zenon, <1>0, <1>1, <3>2 DEF PlaceInv
    <3>3. taken'[ex'[e].ev] = ex'[e].frag
      BY Zenon, <1>1, <1>2, <3>1
    <3> QED
      BY Zenon, <3>2, <3>3
  <2>8. \A f \in Executors : ex'[f].pc = "filter" => tree'[<<ex'[f].ev, ex'[f].frag>>] = "pmem"
    BY <1>1, <1>10
  <2>9. \A j, k \in 1 .. Len(ready') : ready'[j] = ready'[k] => j = k
    BY Zenon, <1>0 DEF PlaceInv
  <2> QED
    BY Zenon, <1>1, <2>1, <2>4, <2>5, <2>6, <2>7, <2>8, <2>9 DEF PlaceInv
<1>11. CASE ~mode.seq
  <2>1. \A f \in Executors, v \in Events : Holder(f, v)' => Holder(f, v)
    <3> SUFFICES ASSUME NEW f \in Executors, NEW v \in Events, Holder(f, v)'
                 PROVE  Holder(f, v)
      BY Zenon
    <3>1. f # e
      BY <1>1, <1>11 DEF Holder
    <3> QED
      BY Zenon, <1>1, <3>1 DEF Holder
  <2>2. \A f \in Executors, v \in Events : Announcer(f, v)' => (f = e /\ v = v0) \/ Announcer(f, v)
    <3> SUFFICES ASSUME NEW f \in Executors, NEW v \in Events, Announcer(f, v)', f # e \/ v # v0
                 PROVE  Announcer(f, v)
      BY Zenon
    <3>1. f # e
      BY Zenon, <1>1, <1>2 DEF Announcer
    <3> QED
      BY Zenon, <1>1, <3>1 DEF Announcer
  <2>3. \A v \in Events : Untouched(v) => Untouched(v)'
    BY Zenon, <2>1 DEF Untouched
  <2>4. \A f \in Executors, g \in Executors, v \in Events : Holder(f, v)' /\ Holder(g, v)' => f = g
    BY Zenon, <1>0, <2>1 DEF PlaceInv
  <2>5. \A f \in Executors, v \in Events : Future(f, v)' =>
          Untouched(v)' /\ ~IsReady(v)' /\ \A g \in Executors : ~Announcer(g, v)'
    BY Zenon, <1>0, <1>8, <1>9, <2>2, <2>3 DEF PlaceInv
  <2>6. \A v \in Events : IsReady(v)' => Untouched(v)'
    BY Zenon, <1>0, <1>9, <2>3 DEF PlaceInv
  <2>7. \A f \in Executors : ex'[f].pc \in {"get", "filter"} => taken'[ex'[f].ev] = ex'[f].frag
    <3> SUFFICES ASSUME NEW f \in Executors, ex'[f].pc \in {"get", "filter"}
                 PROVE  taken'[ex'[f].ev] = ex'[f].frag
      OBVIOUS
    <3>1. f # e
      BY <1>1, <1>11
    <3> QED
      BY Zenon, <1>0, <1>1, <3>1 DEF PlaceInv
  <2>8. \A f \in Executors : ex'[f].pc = "filter" => tree'[<<ex'[f].ev, ex'[f].frag>>] = "pmem"
    BY <1>1, <1>11
  <2>9. \A j, k \in 1 .. Len(ready') : ready'[j] = ready'[k] => j = k
    BY Zenon, <1>0 DEF PlaceInv
  <2>10. \A f \in Executors, v \in Events : Announcer(f, v)' => Untouched(v)' /\ ~IsReady(v)'
    BY Zenon, <1>0, <1>7, <1>9, <2>2, <2>3 DEF PlaceInv
  <2>11. \A f \in Executors, g \in Executors, v \in Events :
           Announcer(f, v)' /\ Announcer(g, v)' => f = g
    <3> SUFFICES ASSUME NEW f \in Executors, NEW g \in Executors, NEW v \in Events,
                        Announcer(f, v)', Announcer(g, v)'
                 PROVE  f = g
      BY Zenon
    <3>1. (f = e /\ v = v0) \/ Announcer(f, v)
      BY Zenon, <2>2
    <3>2. (g = e /\ v = v0) \/ Announcer(g, v)
      BY Zenon, <2>2
    <3>3. Announcer(f, v) /\ Announcer(g, v) => f = g
      BY Zenon, <1>0 DEF PlaceInv
    <3> QED
      BY Zenon, <1>7, <3>1, <3>2, <3>3
  <2> QED
    BY Zenon, <1>1, <2>4, <2>5, <2>6, <2>7, <2>8, <2>9, <2>10, <2>11 DEF PlaceInv
<1> QED
  BY Zenon, <1>10, <1>11

(* The key of an event that is announced is ready (enqueueNext).            *)
LEMMA PlaceAnnounced ==
    ASSUME DaqInv, NEW e \in Executors, NEW y, ExOk(e, y), ex' = [ex EXCEPT ![e] = y],
           ex[e].pc = "announce", ~mode.seq, ready' = Append(ready, ex[e].ev),
           y.pc = "after", y.next = ex[e].next,
           mode' = mode, taken' = taken, tree' = tree
    PROVE  PlaceInv' /\ ExInv'
<1>0. PlaceInv /\ ExInv /\ ExOk(e, ex[e]) /\ ready \in Seq(Events)
  BY Zenon DEF DaqInv, ExInv, StoreInv
<1>1. /\ ExInv' /\ ex'[e] = y
      /\ \A f \in Executors : f # e => ex'[f] = ex[f]
  BY Zenon, <1>0, ExUpdate
<1>2. PICK v0 \in Events : v0 = ex[e].ev
  BY Zenon, <1>0 DEF ExOk
<1>3. Announcer(e, v0)
  BY Zenon, <1>2 DEF Announcer
<1>4. Untouched(v0) /\ ~IsReady(v0) /\ \A f \in Executors : ~Future(f, v0)
  BY Zenon, <1>0, <1>2, <1>3 DEF PlaceInv
<1>5. /\ Len(ready') = Len(ready) + 1 /\ Len(ready) \in Nat /\ ready'[Len(ready) + 1] = v0
      /\ \A j \in 1 .. Len(ready) : ready'[j] = ready[j]
  BY <1>0, <1>2
<1>6. \A v \in Events : IsReady(v)' => IsReady(v) \/ v = v0
  BY <1>5 DEF IsReady
<1>7. \A f \in Executors, v \in Events : Holder(f, v)' => Holder(f, v)
  BY <1>1 DEF Holder
<1>8. \A f \in Executors, v \in Events : Announcer(f, v)' => Announcer(f, v) /\ f # e
  BY <1>1 DEF Announcer
<1>9. \A f \in Executors, v \in Events : Future(f, v)' => Future(f, v)
  <2>1. ASSUME NEW f \in Executors, NEW v \in Events, Future(f, v)'
        PROVE  Future(f, v)
    <3>1. ex'[f].next = ex[f].next /\ ex[f].pc # "done"
      BY <1>1, <2>1 DEF Future
    <3> QED
      BY Zenon, <2>1, <3>1 DEF Future, Counting
  <2> QED
    BY Zenon, <2>1
<1>10. \A v \in Events : Untouched(v) => Untouched(v)'
  BY Zenon, <1>7 DEF Untouched
<1>11. \A f \in Executors, g \in Executors, v \in Events : Holder(f, v)' /\ Holder(g, v)' => f = g
  BY Zenon, <1>0, <1>7 DEF PlaceInv
<1>12. \A f \in Executors, g \in Executors, v \in Events :
         Announcer(f, v)' /\ Announcer(g, v)' => f = g
  BY Zenon, <1>0, <1>8 DEF PlaceInv
<1>13. \A j, k \in 1 .. Len(ready') : ready'[j] = ready'[k] => j = k
  <2> SUFFICES ASSUME NEW j \in 1 .. Len(ready'), NEW k \in 1 .. Len(ready'),
                      ready'[j] = ready'[k]
               PROVE  j = k
    OBVIOUS
  <2>1. j \in 1 .. Len(ready) \/ j = Len(ready) + 1
    BY <1>5
  <2>2. k \in 1 .. Len(ready) \/ k = Len(ready) + 1
    BY <1>5
  <2>3. \A m \in 1 .. Len(ready) : ready[m] # v0
    BY Zenon, <1>4 DEF IsReady
  <2>4. CASE j \in 1 .. Len(ready) /\ k \in 1 .. Len(ready)
    BY Zenon, <1>0, <1>5, <2>4 DEF PlaceInv
  <2> QED
    BY Zenon, <1>5, <2>1, <2>2, <2>3, <2>4
<1>14. \A f \in Executors, v \in Events : Future(f, v)' =>
         Untouched(v)' /\ ~IsReady(v)' /\ \A g \in Executors : ~Announcer(g, v)'
  <2>1. ASSUME NEW f \in Executors, NEW v \in Events, Future(f, v)'
        PROVE  Untouched(v)' /\ ~IsReady(v)' /\ \A g \in Executors : ~Announcer(g, v)'
    <3>1. Future(f, v) /\ v # v0
      BY Zenon, <1>4, <1>9, <2>1
    <3> QED
      BY Zenon, <1>0, <1>6, <1>8, <1>10, <3>1 DEF PlaceInv
  <2> QED
    BY Zenon, <2>1
<1>15. \A f \in Executors, v \in Events : Announcer(f, v)' => Untouched(v)' /\ ~IsReady(v)'
  <2>1. ASSUME NEW f \in Executors, NEW v \in Events, Announcer(f, v)'
        PROVE  Untouched(v)' /\ ~IsReady(v)'
    <3>1. Announcer(f, v) /\ v # v0
      BY Zenon, <1>0, <1>3, <1>8, <2>1 DEF PlaceInv
    <3> QED
      BY Zenon, <1>0, <1>6, <1>10, <3>1 DEF PlaceInv
  <2> QED
    BY Zenon, <2>1
<1>16. \A v \in Events : IsReady(v)' => Untouched(v)'
  BY Zenon, <1>0, <1>4, <1>6, <1>10 DEF PlaceInv
<1>17. \A f \in Executors : ex'[f].pc \in {"get", "filter"} => taken'[ex'[f].ev] = ex'[f].frag
  <2>1. ASSUME NEW f \in Executors, ex'[f].pc \in {"get", "filter"}
        PROVE  taken'[ex'[f].ev] = ex'[f].frag
    <3>1. f # e
      BY <1>1, <2>1
    <3> QED
      BY Zenon, <1>0, <1>1, <2>1, <3>1 DEF PlaceInv
  <2> QED
    BY Zenon, <2>1
<1>18. \A f \in Executors : ex'[f].pc = "filter" => tree'[<<ex'[f].ev, ex'[f].frag>>] = "pmem"
  <2>1. ASSUME NEW f \in Executors, ex'[f].pc = "filter"
        PROVE  tree'[<<ex'[f].ev, ex'[f].frag>>] = "pmem"
    <3>1. f # e
      BY <1>1, <2>1
    <3> QED
      BY Zenon, <1>0, <1>1, <2>1, <3>1 DEF PlaceInv
  <2> QED
    BY Zenon, <2>1
<1> QED
  BY Zenon, <1>1, <1>11, <1>12, <1>13, <1>14, <1>15, <1>16, <1>17, <1>18 DEF PlaceInv

(* A filter takes the first of the ready keys (GetAny).                     *)
LEMMA PlaceTaken ==
    ASSUME DaqInv, NEW e \in Executors, NEW y, ExOk(e, y), ex' = [ex EXCEPT ![e] = y],
           ex[e].pc = "key", ready # <<>>, ready' = Tail(ready),
           y.pc = "get", y.next = ex[e].next, y.ev = Head(ready), y.frag = 0,
           mode' = mode, taken' = taken, tree' = tree
    PROVE  PlaceInv' /\ ExInv'
<1>0. PlaceInv /\ ExInv /\ ExOk(e, ex[e]) /\ ready \in Seq(Events)
  BY Zenon DEF DaqInv, ExInv, StoreInv
<1>1. /\ ExInv' /\ ex'[e] = y
      /\ \A f \in Executors : f # e => ex'[f] = ex[f]
  BY Zenon, <1>0, ExUpdate
<1>2. PICK v0 \in Events : v0 = Head(ready)
  BY <1>0
<1>3. /\ Len(ready) \in Nat /\ Len(ready) >= 1 /\ ready[1] = v0 /\ Len(ready') = Len(ready) - 1
      /\ \A j \in 1 .. Len(ready') : ready'[j] = ready[j + 1] /\ j + 1 \in 1 .. Len(ready) /\ j + 1 # 1
  BY <1>0, <1>2
<1>4. IsReady(v0)
  <2>1. 1 \in 1 .. Len(ready)
    BY <1>3
  <2> QED
    BY Zenon, <1>3, <2>1 DEF IsReady
<1>5. Untouched(v0) /\ \A f \in Executors : ~Future(f, v0) /\ ~Announcer(f, v0)
  BY Zenon, <1>0, <1>4 DEF PlaceInv
<1>6. \A v \in Events : IsReady(v)' => IsReady(v) /\ v # v0
  <2> SUFFICES ASSUME NEW v \in Events, NEW j \in 1 .. Len(ready'), ready'[j] = v
               PROVE  IsReady(v) /\ v # v0
    BY Zenon DEF IsReady
  <2>1. ready[j + 1] = v /\ j + 1 \in 1 .. Len(ready) /\ j + 1 # 1 /\ 1 \in 1 .. Len(ready)
    BY <1>3
  <2> QED
    BY Zenon, <1>0, <1>3, <2>1 DEF IsReady, PlaceInv
<1>7. \A f \in Executors, v \in Events : Holder(f, v)' => Holder(f, v) \/ (f = e /\ v = v0)
  BY Zenon, <1>1, <1>2 DEF Holder
<1>8. \A f \in Executors, v \in Events : Announcer(f, v)' => Announcer(f, v)
  BY <1>1 DEF Announcer
<1>9. \A f \in Executors, v \in Events : Future(f, v)' => Future(f, v)
  <2>1. ASSUME NEW f \in Executors, NEW v \in Events, Future(f, v)'
        PROVE  Future(f, v)
    <3>1. ex'[f].next = ex[f].next /\ ex[f].pc # "done"
      BY <1>1, <2>1 DEF Future
    <3> QED
      BY Zenon, <2>1, <3>1 DEF Future, Counting
  <2> QED
    BY Zenon, <2>1
<1>10. \A v \in Events : Untouched(v) /\ v # v0 => Untouched(v)'
  BY Zenon, <1>7 DEF Untouched
<1>11. \A f \in Executors, g \in Executors, v \in Events : Holder(f, v)' /\ Holder(g, v)' => f = g
  <2> SUFFICES ASSUME NEW f \in Executors, NEW g \in Executors, NEW v \in Events,
                      Holder(f, v)', Holder(g, v)'
               PROVE  f = g
    BY Zenon
  <2>1. \A h \in Executors : ~Holder(h, v0)
    BY Zenon, <1>5 DEF Untouched
  <2>2. (f = e /\ v = v0) \/ Holder(f, v)
    BY Zenon, <1>7
  <2>3. (g = e /\ v = v0) \/ Holder(g, v)
    BY Zenon, <1>7
  <2>4. Holder(f, v) /\ Holder(g, v) => f = g
    BY Zenon, <1>0 DEF PlaceInv
  <2> QED
    BY Zenon, <2>1, <2>2, <2>3, <2>4
<1>12. \A f \in Executors, g \in Executors, v \in Events :
         Announcer(f, v)' /\ Announcer(g, v)' => f = g
  BY Zenon, <1>0, <1>8 DEF PlaceInv
<1>13. \A j, k \in 1 .. Len(ready') : ready'[j] = ready'[k] => j = k
  <2> SUFFICES ASSUME NEW j \in 1 .. Len(ready'), NEW k \in 1 .. Len(ready'),
                      ready'[j] = ready'[k]
               PROVE  j = k
    OBVIOUS
  <2>1. PICK m \in 1 .. Len(ready), n \in 1 .. Len(ready) :
          m = j + 1 /\ n = k + 1 /\ ready[m] = ready[n]
    BY Zenon, <1>3
  <2>2. m = n
    BY Zenon, <1>0, <2>1 DEF PlaceInv
  <2> QED
    BY <1>3, <2>1, <2>2
<1>14. \A f \in Executors, v \in Events : Future(f, v)' =>
         Untouched(v)' /\ ~IsReady(v)' /\ \A g \in Executors : ~Announcer(g, v)'
  <2>1. ASSUME NEW f \in Executors, NEW v \in Events, Future(f, v)'
        PROVE  Untouched(v)' /\ ~IsReady(v)' /\ \A g \in Executors : ~Announcer(g, v)'
    <3>1. Future(f, v) /\ v # v0
      BY Zenon, <1>5, <1>9, <2>1
    <3> QED
      BY Zenon, <1>0, <1>6, <1>8, <1>10, <3>1 DEF PlaceInv
  <2> QED
    BY Zenon, <2>1
<1>15. \A f \in Executors, v \in Events : Announcer(f, v)' => Untouched(v)' /\ ~IsReady(v)'
  <2>1. ASSUME NEW f \in Executors, NEW v \in Events, Announcer(f, v)'
        PROVE  Untouched(v)' /\ ~IsReady(v)'
    <3>1. Announcer(f, v) /\ v # v0
      BY Zenon, <1>5, <1>8, <2>1
    <3> QED
      BY Zenon, <1>0, <1>6, <1>10, <3>1 DEF PlaceInv
  <2> QED
    BY Zenon, <2>1
<1>16. \A v \in Events : IsReady(v)' => Untouched(v)'
  BY Zenon, <1>0, <1>6, <1>10 DEF PlaceInv
<1>17. \A f \in Executors : ex'[f].pc \in {"get", "filter"} => taken'[ex'[f].ev] = ex'[f].frag
  <2>1. ASSUME NEW f \in Executors, f # e, ex'[f].pc \in {"get", "filter"}
        PROVE  taken'[ex'[f].ev] = ex'[f].frag
    BY Zenon, <1>0, <1>1, <2>1 DEF PlaceInv
  <2>2. taken'[ex'[e].ev] = ex'[e].frag
    BY Zenon, <1>1, <1>2, <1>5 DEF Untouched
  <2> QED
    BY Zenon, <2>1, <2>2
<1>18. \A f \in Executors : ex'[f].pc = "filter" => tree'[<<ex'[f].ev, ex'[f].frag>>] = "pmem"
  <2>1. ASSUME NEW f \in Executors, ex'[f].pc = "filter"
        PROVE  tree'[<<ex'[f].ev, ex'[f].frag>>] = "pmem"
    <3>1. f # e
      BY <1>1, <2>1
    <3> QED
      BY Zenon, <1>0, <1>1, <2>1, <3>1 DEF PlaceInv
  <2> QED
    BY Zenon, <2>1
<1> QED
  BY Zenon, <1>1, <1>11, <1>12, <1>13, <1>14, <1>15, <1>16, <1>17, <1>18 DEF PlaceInv

(* A filter has removed a fragment or sent it to the disk, and goes on with *)
(* the next one of the event.                                               *)
LEMMA PlaceNext ==
    ASSUME DaqInv, NEW e \in Executors, NEW y, ExOk(e, y), ex' = [ex EXCEPT ![e] = y],
           ex[e].pc = "filter", y.pc = "get", y.next = ex[e].next,
           y.ev = ex[e].ev, y.frag = ex[e].frag + 1,
           taken' = [taken EXCEPT ![ex[e].ev] = @ + 1],
           mode' = mode, ready' = ready,
           \A f \in Executors : f # e /\ ex[f].pc = "filter"
              => tree'[<<ex[f].ev, ex[f].frag>>] = "pmem"
    PROVE  PlaceInv' /\ ExInv'
<1>0. PlaceInv /\ ExInv /\ ExOk(e, ex[e]) /\ taken \in [Events -> 0 .. NSub]
  BY Zenon DEF DaqInv, ExInv, StoreInv
<1>1. /\ ExInv' /\ ex'[e] = y
      /\ \A f \in Executors : f # e => ex'[f] = ex[f]
  BY Zenon, <1>0, ExUpdate
<1>2. PICK v0 \in Events : v0 = ex[e].ev
  BY Zenon, <1>0 DEF ExOk
<1>3. Holder(e, v0)
  BY Zenon, <1>2 DEF Holder
<1>4. \A v \in Events : Untouched(v) => v # v0
  BY Zenon, <1>3 DEF Untouched
<1>5. taken'[v0] = taken[v0] + 1 /\ \A v \in Events : v # v0 => taken'[v] = taken[v]
  BY <1>0, <1>2
<1>6. \A f \in Executors, v \in Events : Holder(f, v)' => Holder(f, v)
  BY Zenon, <1>1 DEF Holder
<1>7. \A f \in Executors, v \in Events : Announcer(f, v)' => Announcer(f, v)
  BY <1>1 DEF Announcer
<1>8. \A f \in Executors, v \in Events : Future(f, v)' => Future(f, v)
  <2>1. ASSUME NEW f \in Executors, NEW v \in Events, Future(f, v)'
        PROVE  Future(f, v)
    <3>1. ex'[f].next = ex[f].next /\ ex[f].pc # "done"
      BY <1>1, <2>1 DEF Future
    <3> QED
      BY Zenon, <2>1, <3>1 DEF Future, Counting
  <2> QED
    BY Zenon, <2>1
<1>9. \A v \in Events : Untouched(v) => Untouched(v)'
  BY Zenon, <1>4, <1>5, <1>6 DEF Untouched
<1>10. \A v \in Events : IsReady(v)' => IsReady(v)
  BY Zenon DEF IsReady
<1>11. \A f \in Executors, g \in Executors, v \in Events : Holder(f, v)' /\ Holder(g, v)' => f = g
  BY Zenon, <1>0, <1>6 DEF PlaceInv
<1>12. \A f \in Executors, g \in Executors, v \in Events :
         Announcer(f, v)' /\ Announcer(g, v)' => f = g
  BY Zenon, <1>0, <1>7 DEF PlaceInv
<1>13. \A j, k \in 1 .. Len(ready') : ready'[j] = ready'[k] => j = k
  BY Zenon, <1>0 DEF PlaceInv
<1>14. \A f \in Executors, v \in Events : Future(f, v)' =>
         Untouched(v)' /\ ~IsReady(v)' /\ \A g \in Executors : ~Announcer(g, v)'
  BY Zenon, <1>0, <1>7, <1>8, <1>9, <1>10 DEF PlaceInv
<1>15. \A f \in Executors, v \in Events : Announcer(f, v)' => Untouched(v)' /\ ~IsReady(v)'
  BY Zenon, <1>0, <1>7, <1>9, <1>10 DEF PlaceInv
<1>16. \A v \in Events : IsReady(v)' => Untouched(v)'
  BY Zenon, <1>0, <1>9, <1>10 DEF PlaceInv
<1>17. \A f \in Executors : ex'[f].pc \in {"get", "filter"} => taken'[ex'[f].ev] = ex'[f].frag
  <2>1. ASSUME NEW f \in Executors, f # e, ex'[f].pc \in {"get", "filter"}
        PROVE  taken'[ex'[f].ev] = ex'[f].frag
    <3>1. ex'[f] = ex[f] /\ ex[f].ev \in Events
      BY Zenon, <1>0, <1>1, <2>1 DEF ExInv, ExOk
    <3>2. ex[f].ev # v0
      BY Zenon, <1>0, <1>3, <2>1, <3>1 DEF PlaceInv, Holder
    <3> QED
      BY Zenon, <1>0, <1>5, <2>1, <3>1, <3>2 DEF PlaceInv
  <2>2. taken'[ex'[e].ev] = ex'[e].frag
    <3>1. taken[v0] = ex[e].frag
      BY Zenon, <1>0, <1>2 DEF PlaceInv
    <3> QED
      BY Zenon, <1>1, <1>2, <1>5, <3>1
  <2> QED
    BY Zenon, <2>1, <2>2
<1>18. \A f \in Executors : ex'[f].pc = "filter" => tree'[<<ex'[f].ev, ex'[f].frag>>] = "pmem"
  <2>1. ASSUME NEW f \in Executors, ex'[f].pc = "filter"
        PROVE  tree'[<<ex'[f].ev, ex'[f].frag>>] = "pmem"
    <3>1. f # e
      BY <1>1, <2>1
    <3> QED
      BY Zenon, <1>0, <1>1, <2>1, <3>1 DEF PlaceInv
  <2> QED
    BY Zenon, <2>1
<1> QED
  BY Zenon, <1>1, <1>11, <1>12, <1>13, <1>14, <1>15, <1>16, <1>17, <1>18 DEF PlaceInv

-----------------------------------------------------------------------------
(* The store: steps that leave it alone, and steps that set where the value *)
(* of one key is.                                                           *)
LEMMA StoreFrame ==
    ASSUME DaqInv, mode' = mode, ready' = ready, taken' = taken, offload' = offload, tree' = tree
    PROVE  StoreInv'
  BY Zenon DEF DaqInv, StoreInv

(* A step that sets where the value of one key is.                          *)
LEMMA StoreTree ==
    ASSUME DaqInv, mode' = mode, ready' = ready, taken' = taken, offload' \subseteq offload,
           NEW k, NEW w \in {"none", "pmem", "disk"}, tree' = [tree EXCEPT ![k] = w],
           w = "disk" => k[2] < taken[k[1]]
    PROVE  StoreInv'
<1>0. StoreInv
  BY Zenon DEF DaqInv
<1>1. DOMAIN tree' = KeysOf /\ \A q \in KeysOf : tree'[q] = IF q = k THEN w ELSE tree[q]
  BY <1>0 DEF StoreInv
<1>2. \A q \in KeysOf : tree'[q] \in {"none", "pmem", "disk"}
                        /\ (tree'[q] = "disk" => q[2] < taken'[q[1]])
  <2> SUFFICES ASSUME NEW q \in KeysOf
               PROVE  /\ tree'[q] \in {"none", "pmem", "disk"}
                      /\ tree'[q] = "disk" => q[2] < taken'[q[1]]
    BY Zenon
  <2>1. CASE q = k
    BY Zenon, <1>1, <2>1
  <2>2. CASE q # k
    BY Zenon, <1>0, <1>1, <2>2 DEF StoreInv
  <2> QED
    BY Zenon, <2>1, <2>2
<1>3. \A u \in offload' : u[2] \in KeysOf /\ u[2][2] < taken'[u[2][1]]
  BY Zenon, <1>0 DEF StoreInv
<1> QED
  BY Zenon, <1>0, <1>1, <1>2, <1>3 DEF StoreInv

(* The key of a filter is one of the keys; the value of another key may     *)
(* change.                                                                  *)
LEMMA FilterKey ==
    ASSUME DaqInv, NEW f \in Executors, ex[f].pc = "filter"
    PROVE  /\ ex[f].ev \in Events /\ ex[f].frag \in Nat /\ ex[f].frag < NSub
           /\ <<ex[f].ev, ex[f].frag>> \in KeysOf /\ tree[<<ex[f].ev, ex[f].frag>>] = "pmem"
           /\ taken[ex[f].ev] = ex[f].frag /\ ex[f].ev \in Nat
<1>1. ExOk(f, ex[f]) /\ PlaceInv
  BY Zenon DEF DaqInv, ExInv
<1>2. ex[f].ev \in Events /\ ex[f].frag \in Nat /\ ex[f].frag < NSub /\ ex[f].ev \in Nat
  BY <1>1, MinidaqAssumption DEF ExOk, Locals
<1>3. <<ex[f].ev, ex[f].frag>> \in KeysOf
  BY <1>2, MinidaqAssumption DEF KeysOf
<1> QED
  BY Zenon, <1>1, <1>2, <1>3 DEF PlaceInv

(* A filter keeps its fragment when the value of another key changes.       *)
LEMMA FilterTree ==
    ASSUME DaqInv, NEW k, NEW w, tree' = [tree EXCEPT ![k] = w],
           NEW f \in Executors, ex[f].pc = "filter", k = <<ex[f].ev, ex[f].frag>> => w = "pmem"
    PROVE  tree'[<<ex[f].ev, ex[f].frag>>] = "pmem"
<1>1. PICK q \in KeysOf : q = <<ex[f].ev, ex[f].frag>> /\ tree[q] = "pmem" /\ q \in DOMAIN tree
  BY Zenon, FilterKey DEF DaqInv, StoreInv
<1>2. tree'[q] = IF q = k THEN w ELSE tree[q]
  BY <1>1
<1> QED
  BY Zenon, <1>1, <1>2

(* A callback counts for the executor, or comes too late.                   *)
LEMMA CalledFrame ==
    ASSUME DaqInv, NEW e, NEW ok \in BOOLEAN, Called(e, ok)
    PROVE  /\ ExInv'
           /\ \A f \in Executors : /\ ex'[f].pc = ex[f].pc /\ ex'[f].ev = ex[f].ev
                                   /\ ex'[f].frag = ex[f].frag /\ Yields(f, ex[f], ex'[f])
<1>0. ExInv
  BY Zenon DEF DaqInv
<1>1. \A f \in Executors : ex[f].next \in Nat
  BY <1>0 DEF ExInv, Locals
<1>2. ASSUME ex' = ex
      PROVE  ExInv' /\ \A f \in Executors : ex'[f] = ex[f]
  BY Zenon, <1>0, <1>2 DEF ExInv, ExOk, Numbers
<1>3. CASE e \notin Executors
  <2>1. ex' = ex
    BY <1>0, <1>3 DEF Called, ExInv
  <2> QED
    BY <1>1, <1>2, <2>1 DEF Yields
<1>4. CASE e \in Executors /\ ex[e].pc = "done"
  <2>1. ex' = ex
    BY <1>0, <1>4 DEF Called, ExInv
  <2> QED
    BY <1>1, <1>2, <2>1 DEF Yields
<1>5. CASE e \in Executors /\ ex[e].pc # "done"
  <2>1. PICK y : y = Counted(ex[e], ok)
    OBVIOUS
  <2>2. /\ ExOk(e, y) /\ y.pc = ex[e].pc /\ y.next = ex[e].next
        /\ y.ev = ex[e].ev /\ y.frag = ex[e].frag
    BY Zenon, <1>0, <1>5, <2>1, CountedOk DEF ExInv
  <2>3. ex' = [ex EXCEPT ![e] = y]
    BY Zenon, <1>5, <2>1 DEF Called
  <2>4. /\ ExInv' /\ ex'[e] = y
        /\ \A f \in Executors : f # e => ex'[f] = ex[f]
    BY Zenon, <1>0, <1>5, <2>2, <2>3, ExUpdate
  <2>5. \A f \in Executors : /\ ex'[f].pc = ex[f].pc /\ ex'[f].ev = ex[f].ev
                             /\ ex'[f].frag = ex[f].frag /\ ex'[f].next = ex[f].next
    BY Zenon, <2>2, <2>4
  <2> QED
    BY <1>1, <2>4, <2>5 DEF Yields
<1> QED
  BY Zenon, <1>3, <1>4, <1>5

(* What an executor has become that took its next number.                   *)
LEMMA FreshOk ==
    ASSUME NEW e \in Executors, NEW x, ExOk(e, x), x.pc = "key", NEW p \in Pcs,
           NEW y, y \in Locals, y.pc = p, y.next = x.next + Count[e[1]], y.i = x.i,
           y.phase = x.phase, y.c = x.c, y.cErr = x.cErr, y.due = x.due,
           p \in {"after", "announce", "get"},
           p = "announce" => e[1] = "ro", p = "get" => e[1] = "ff",
           p # "after" => y.ev = x.next
    PROVE  ExOk(e, y) /\ x.next \in Events /\ y.next > x.next
<1>1. Numbers(e, y) /\ x.next \in Events /\ y.next > x.next
  BY FreshNumber
<1> QED
  BY <1>1 DEF ExOk

-----------------------------------------------------------------------------
(* One lemma for each step of the benchmark.                                *)

(* The step of an executor that gives up its event, or has none.            *)
LEMMA Yielding ==
    ASSUME DaqInv, NEW e \in Executors, NEW y, ExOk(e, y), ex' = [ex EXCEPT ![e] = y],
           y.pc # "done" => ex[e].pc # "done" /\ y.next >= ex[e].next,
           y.pc \in {"idle", "after", "quiesce", "asleep", "done", "key"},
           UNCHANGED <<mode, taken, ready, offload, tree>>
    PROVE  DaqInv'
<1>1. mode' = mode /\ taken' = taken /\ ready' = ready /\ offload' = offload /\ tree' = tree
  OBVIOUS
<1>2. Yields(e, ex[e], y)
  BY DEF Yields
<1>3. y.pc # "filter"
  OBVIOUS
<1>4. \A f \in Executors : f # e /\ ex[f].pc = "filter"
        => tree'[<<ex[f].ev, ex[f].frag>>] = "pmem"
  BY Zenon, <1>1, FilterKey
<1>5. PlaceInv' /\ ExInv'
  BY Zenon, <1>1, <1>2, <1>3, <1>4, PlaceYield
<1>6. StoreInv'
  BY Zenon, <1>1, StoreFrame
<1> QED
  BY Zenon, <1>5, <1>6 DEF DaqInv

(* The end of a task that had an event, or had none.                        *)
LEMMA Ending ==
    ASSUME DaqInv, NEW e \in Executors, ex[e].pc # "done", ex' = [ex EXCEPT ![e] = Over(ex[e])],
           UNCHANGED <<mode, taken, ready, offload, tree>>
    PROVE  DaqInv'
<1>1. ExOk(e, ex[e]) /\ ex[e] \in Locals
  BY Zenon DEF DaqInv, ExInv, ExOk
<1>2. PICK y : y = Over(ex[e])
  OBVIOUS
<1>3. ExOk(e, y) /\ y.pc = "after" /\ y.next = ex[e].next
  BY Zenon, <1>1, <1>2, OverOk
<1>4. y.next >= ex[e].next
  BY <1>1, <1>3 DEF Locals
<1>5. y.pc \in {"idle", "after", "quiesce", "asleep", "done", "key"}
  BY <1>3
<1>6. ex' = [ex EXCEPT ![e] = y]
  BY Zenon, <1>2
<1> QED
  BY Zenon, <1>3, <1>4, <1>5, <1>6, Yielding

(* _Execute: the next iteration, or the end of the loop.                    *)
LEMMA DaqLoop ==
    ASSUME DaqInv, NEW e \in Executors, Loop(e)
    PROVE  DaqInv'
<1>1. ExOk(e, ex[e]) /\ ex[e] \in Locals /\ ex[e].pc = "after"
  BY Zenon DEF DaqInv, ExInv, ExOk, Loop, At
<1>2. PICK y \in Following(ex[e], stopped[e[1]]) : ex' = [ex EXCEPT ![e] = y]
  BY Zenon DEF Loop
<1>3. ExOk(e, y) /\ y.pc \in {"key", "quiesce"} /\ y.next = ex[e].next
  BY <1>1, <1>2, FollowingOk
<1>4. y.next >= ex[e].next
  BY <1>1, <1>3 DEF Locals
<1>5. /\ y.pc \in {"idle", "after", "quiesce", "asleep", "done", "key"}
      /\ y.pc # "done" => ex[e].pc # "done"
  BY <1>1, <1>3
<1>6. UNCHANGED <<mode, taken, ready, offload, tree>>
  BY DEF Loop, storeVars
<1> QED
  BY Zenon, <1>2, <1>3, <1>4, <1>5, <1>6, Yielding

(* A number is taken and nothing is stored with it, or not yet.             *)
LEMMA Skipping ==
    ASSUME DaqInv, NEW e \in Executors, ex[e].pc = "key", e[1] = "ro",
           ex' = [ex EXCEPT ![e] = Over(Fresh(ex[e], NRo))],
           UNCHANGED <<mode, taken, ready, offload, tree>>
    PROVE  DaqInv'
<1>1. ExOk(e, ex[e]) /\ ex[e] \in Locals /\ Count[e[1]] = NRo /\ NRo \in Nat
  BY MinidaqAssumption DEF DaqInv, ExInv, ExOk, Count
<1>2. PICK y : y = Over(Fresh(ex[e], NRo))
  OBVIOUS
<1>3. /\ y \in Locals /\ y.pc = "after" /\ y.next = ex[e].next + NRo /\ y.i = ex[e].i
      /\ y.phase = ex[e].phase /\ y.c = ex[e].c /\ y.cErr = ex[e].cErr /\ y.due = ex[e].due
  <2>1. 0 \in 0 .. NSub /\ ex[e].next + NRo \in Nat
    BY <1>1, MinidaqAssumption DEF Locals
  <2> QED
    BY <1>1, <1>2, <2>1 DEF Over, Fresh, Locals, Pcs
<1>4. ExOk(e, y) /\ y.next > ex[e].next
  BY <1>1, <1>3, FreshOk DEF Pcs
<1>5. y.next >= ex[e].next
  BY <1>1, <1>3 DEF Locals
<1>6. y.pc \in {"idle", "after", "quiesce", "asleep", "done", "key"}
  BY <1>3
<1>7. ex' = [ex EXCEPT ![e] = y]
  BY Zenon, <1>2
<1> QED
  BY Zenon, <1>4, <1>5, <1>6, <1>7, Yielding

(* The readout: Alloc throws, and the number is skipped.                    *)
LEMMA DaqAllocFails ==
    ASSUME DaqInv, NEW e \in Executors, AllocFails(e)
    PROVE  DaqInv'
<1>1. /\ ex[e].pc = "key" /\ e[1] = "ro" /\ ex' = [ex EXCEPT ![e] = Over(Fresh(ex[e], NRo))]
      /\ UNCHANGED <<mode, taken, ready, offload, tree>>
  BY DEF AllocFails, Throw, At, storeVars
<1> QED
  BY Zenon, <1>1, Skipping

(* The readout: PutAsync is accepted, or the ring is full.                  *)
LEMMA DaqPutAsync ==
    ASSUME DaqInv, NEW e \in Executors, PutAsync(e)
    PROVE  DaqInv'
<1>1. /\ ex[e].pc = "key" /\ e[1] = "ro" /\ ex' = [ex EXCEPT ![e] = Over(Fresh(ex[e], NRo))]
      /\ UNCHANGED <<mode, taken, ready, offload, tree>>
  BY DEF PutAsync, Throw, At
<1> QED
  BY Zenon, <1>1, Skipping

(* The readout: Put has stored the value of the executor's next event.      *)
LEMMA DaqPut ==
    ASSUME DaqInv, NEW e \in Executors, Put(e)
    PROVE  DaqInv'
<1>1. /\ ex[e].pc = "key" /\ e[1] = "ro" /\ mode' = mode /\ ready' = ready
      /\ taken' = taken /\ offload' = offload
      /\ tree' = [tree EXCEPT ![<<ex[e].next, 0>>] = "pmem"]
  BY DEF Put, At
<1>2. ExOk(e, ex[e]) /\ ex[e] \in Locals /\ Count[e[1]] = NRo /\ NRo \in Nat
  BY <1>1, MinidaqAssumption DEF DaqInv, ExInv, ExOk, Count
<1>3. PICK y : y = [Fresh(ex[e], NRo) EXCEPT !.pc = "announce"]
  BY Zenon
<1>4. /\ y \in Locals /\ y.pc = "announce" /\ y.next = ex[e].next + NRo /\ y.i = ex[e].i
      /\ y.phase = ex[e].phase /\ y.c = ex[e].c /\ y.cErr = ex[e].cErr /\ y.due = ex[e].due
      /\ y.ev = ex[e].next /\ y.frag = 0
  <2>1. 0 \in 0 .. NSub /\ ex[e].next + NRo \in Nat
    BY <1>2, MinidaqAssumption DEF Locals
  <2> QED
    BY Zenon, <1>2, <1>3, <2>1 DEF Fresh, Locals, Pcs
<1>5. ExOk(e, y) /\ y.next > ex[e].next
  BY <1>1, <1>2, <1>4, FreshOk DEF Pcs
<1>6. ex' = [ex EXCEPT ![e] = y]
  BY Zenon, <1>3 DEF Put
<1>7. \A f \in Executors : f # e /\ ex[f].pc = "filter"
        => tree'[<<ex[f].ev, ex[f].frag>>] = "pmem"
  BY Zenon, <1>1, FilterTree
<1>8. PlaceInv' /\ ExInv'
  <2>1. CASE mode.seq
    <3>1. Yields(e, ex[e], y)
      BY <1>1, <1>2, <1>4, <2>1 DEF Yields, Locals
    <3>2. y.pc # "filter"
      BY <1>4
    <3> QED
      BY Zenon, <1>1, <1>5, <1>6, <1>7, <3>1, <3>2, PlaceYield
  <2>2. CASE ~mode.seq
    <3>1. e[1] = Counting /\ (IF mode.seq THEN y.pc = "get" ELSE y.pc = "announce")
      BY Zenon, <1>1, <1>4, <2>2 DEF Counting
    <3>2. y.next = ex[e].next + Count[e[1]]
      BY Zenon, <1>2, <1>4
    <3> QED
      BY Zenon, <1>1, <1>4, <1>5, <1>6, <1>7, <3>1, <3>2, PlaceFresh
  <2> QED
    BY Zenon, <2>1, <2>2
<1>9. StoreInv'
  BY Zenon, <1>1, StoreTree
<1> QED
  BY Zenon, <1>8, <1>9 DEF DaqInv

(* The readout: enqueueNext makes the key ready, or does nothing.           *)
LEMMA DaqAnnounce ==
    ASSUME DaqInv, NEW e \in Executors, Announce(e)
    PROVE  DaqInv'
<1>1. /\ ex[e].pc = "announce" /\ ex' = [ex EXCEPT ![e] = Counted(Over(ex[e]), TRUE)]
      /\ mode' = mode /\ taken' = taken /\ offload' = offload /\ tree' = tree
      /\ ready' = IF mode.seq THEN ready ELSE Append(ready, ex[e].ev)
  BY DEF Announce, At
<1>2. ExOk(e, ex[e]) /\ ex[e] \in Locals /\ StoreInv
  BY Zenon DEF DaqInv, ExInv, ExOk
<1>3. PICK y : y = Counted(Over(ex[e]), TRUE)
  BY Zenon
<1>4. ExOk(e, y) /\ y.pc = "after" /\ y.next = ex[e].next
  <2>1. ex[e].pc # "done"
    BY <1>1
  <2>2. PICK x : x = Over(ex[e])
    OBVIOUS
  <2>3. ExOk(e, x) /\ x.pc = "after" /\ x.next = ex[e].next
    BY Zenon, <1>2, <2>1, <2>2, OverOk
  <2>4. TRUE \in BOOLEAN
    OBVIOUS
  <2> QED
    BY Zenon, <1>3, <2>2, <2>3, <2>4, CountedOk
<1>5. ex' = [ex EXCEPT ![e] = y]
  BY Zenon, <1>1, <1>3
<1>6. CASE mode.seq
  <2>1. ready' = ready /\ y.next >= ex[e].next
    BY <1>1, <1>2, <1>4, <1>6 DEF Locals
  <2>2. y.pc \in {"idle", "after", "quiesce", "asleep", "done", "key"} /\ ex[e].pc # "done"
    BY <1>1, <1>4
  <2> QED
    BY Zenon, <1>1, <1>4, <1>5, <2>1, <2>2, Yielding
<1>7. CASE ~mode.seq
  <2>1. ready' = Append(ready, ex[e].ev) /\ ex[e].ev \in Events
    BY <1>1, <1>2, <1>7 DEF ExOk
  <2>2. PlaceInv' /\ ExInv'
    BY Zenon, <1>1, <1>4, <1>5, <1>7, <2>1, PlaceAnnounced
  <2>3. ready' \in Seq(Events)
    BY <1>2, <2>1 DEF StoreInv
  <2>4. StoreInv'
    BY Zenon, <1>1, <1>2, <1>7, <2>3 DEF StoreInv
  <2> QED
    BY Zenon, <2>2, <2>4 DEF DaqInv
<1> QED
  BY Zenon, <1>6, <1>7

(* The ring of ready keys is full: no filter has the event whose value is   *)
(* removed.                                                                 *)
LEMMA DaqReadyFull ==
    ASSUME DaqInv, NEW e \in Executors, ReadyFull(e)
    PROVE  DaqInv'
<1>1. /\ ex[e].pc = "announce" /\ ~mode.seq /\ ex' = [ex EXCEPT ![e] = Over(ex[e])]
      /\ mode' = mode /\ taken' = taken /\ offload' = offload /\ ready' = ready
      /\ tree' = [tree EXCEPT ![<<ex[e].ev, 0>>] = "none"] /\ ex[e].pc # "done"
  BY DEF ReadyFull, At, Throw
<1>2. ExOk(e, ex[e]) /\ ex[e] \in Locals /\ ex[e].ev \in Events
  BY <1>1 DEF DaqInv, ExInv, ExOk
<1>3. PICK y : y = Over(ex[e])
  OBVIOUS
<1>4. ExOk(e, y) /\ y.pc = "after" /\ y.next = ex[e].next
  BY Zenon, <1>1, <1>2, <1>3, OverOk
<1>5. \A f \in Executors : ~Holder(f, ex[e].ev)
  BY Zenon, <1>1, <1>2 DEF DaqInv, PlaceInv, Announcer, Untouched
<1>6. \A f \in Executors : f # e /\ ex[f].pc = "filter"
        => tree'[<<ex[f].ev, ex[f].frag>>] = "pmem"
  <2> SUFFICES ASSUME NEW f \in Executors, ex[f].pc = "filter"
               PROVE  tree'[<<ex[f].ev, ex[f].frag>>] = "pmem"
    BY Zenon
  <2>1. ex[f].ev # ex[e].ev
    BY Zenon, <1>5 DEF Holder
  <2>2. <<ex[e].ev, 0>> # <<ex[f].ev, ex[f].frag>>
    BY <2>1
  <2> QED
    BY Zenon, <1>1, <2>2, FilterTree
<1>7. Yields(e, ex[e], y) /\ y.pc # "filter" /\ ex' = [ex EXCEPT ![e] = y]
  BY <1>1, <1>2, <1>3, <1>4 DEF Yields, Locals
<1>8. PlaceInv' /\ ExInv'
  BY Zenon, <1>1, <1>4, <1>6, <1>7, PlaceYield
<1>9. StoreInv'
  BY Zenon, <1>1, StoreTree
<1> QED
  BY Zenon, <1>8, <1>9 DEF DaqInv

(* The filter: GetAny takes a ready key, is retried, or throws.             *)
LEMMA DaqGetAny ==
    ASSUME DaqInv, NEW e \in Executors, GetAny(e)
    PROVE  DaqInv'
<1>1. /\ ex[e].pc = "key" /\ e[1] = "ff" /\ ~mode.seq
      /\ mode' = mode /\ taken' = taken /\ offload' = offload /\ tree' = tree
  BY Zenon DEF GetAny, At
<1>2. ExOk(e, ex[e]) /\ ex[e] \in Locals /\ StoreInv
  BY Zenon DEF DaqInv, ExInv, ExOk
<1>3. ASSUME ready # <<>>, ready' = Tail(ready), NEW a \in BOOLEAN,
             ex' = [ex EXCEPT ![e] = [@ EXCEPT !.ev = Head(ready), !.frag = 0,
                      !.accept = a, !.pc = "get"]]
      PROVE  DaqInv'
  <2>1. PICK y : y = [ex[e] EXCEPT !.ev = Head(ready), !.frag = 0, !.accept = a, !.pc = "get"]
    OBVIOUS
  <2>2. Head(ready) \in Events /\ Head(ready) \in Nat /\ Tail(ready) \in Seq(Events)
        /\ 0 \in 0 .. NSub
    BY <1>2, <1>3, MinidaqAssumption DEF StoreInv, Events
  <2>3. /\ y \in Locals /\ y.pc = "get" /\ y.next = ex[e].next /\ y.i = ex[e].i
        /\ y.phase = ex[e].phase /\ y.c = ex[e].c /\ y.cErr = ex[e].cErr /\ y.due = ex[e].due
        /\ y.ev = Head(ready) /\ y.frag = 0
    BY Zenon, <1>2, <2>1, <2>2 DEF Locals, Pcs
  <2>4. ExOk(e, y)
    BY <1>1, <1>2, <2>2, <2>3 DEF ExOk, Numbers
  <2>5. ex' = [ex EXCEPT ![e] = y]
    BY Zenon, <1>3, <2>1
  <2>6. PlaceInv' /\ ExInv'
    BY Zenon, <1>1, <1>3, <2>3, <2>4, <2>5, PlaceTaken
  <2>7. StoreInv'
    BY Zenon, <1>1, <1>2, <1>3, <2>2 DEF StoreInv
  <2> QED
    BY Zenon, <2>6, <2>7 DEF DaqInv
<1>4. ASSUME ex' = [ex EXCEPT ![e].tries = @ + 1], ready' = ready
      PROVE  DaqInv'
  <2>1. PICK y : y = [ex[e] EXCEPT !.tries = @ + 1]
    BY Zenon
  <2>2. ex[e].tries + 1 \in Nat
    BY <1>2 DEF Locals
  <2>3. /\ y \in Locals /\ y.pc = "key" /\ y.next = ex[e].next /\ y.i = ex[e].i
        /\ y.phase = ex[e].phase /\ y.c = ex[e].c /\ y.cErr = ex[e].cErr /\ y.due = ex[e].due
    BY <1>1, <1>2, <2>1, <2>2 DEF Locals
  <2>4. ExOk(e, y)
    BY <1>1, <1>2, <2>3 DEF ExOk, Numbers
  <2>5. ex' = [ex EXCEPT ![e] = y] /\ y.next >= ex[e].next /\ ex[e].pc # "done"
        /\ y.pc \in {"idle", "after", "quiesce", "asleep", "done", "key"}
    BY <1>1, <1>2, <1>4, <2>1, <2>3 DEF Locals
  <2> QED
    BY Zenon, <1>1, <1>4, <2>4, <2>5, Yielding
<1>5. ASSUME ex' = [ex EXCEPT ![e] = Over(ex[e])], ready' = ready
      PROVE  DaqInv'
  BY Zenon, <1>1, <1>5, Ending
<1> QED
  BY Zenon, <1>3, <1>4, <1>5 DEF GetAny, Throw

(* The filter that counts takes its next number.                            *)
LEMMA DaqNextSeq ==
    ASSUME DaqInv, NEW e \in Executors, NextSeq(e)
    PROVE  DaqInv'
<1>1. /\ ex[e].pc = "key" /\ e[1] = "ff" /\ mode.seq /\ mode' = mode /\ ready' = ready
      /\ taken' = taken /\ offload' = offload /\ tree' = tree
  BY DEF NextSeq, At, storeVars
<1>2. ExOk(e, ex[e]) /\ ex[e] \in Locals /\ Count[e[1]] = NFf /\ NFf \in Nat
  BY <1>1, MinidaqAssumption DEF DaqInv, ExInv, ExOk, Count
<1>3. PICK a \in BOOLEAN :
        ex' = [ex EXCEPT ![e] = [Fresh(@, NFf) EXCEPT !.accept = a, !.pc = "get"]]
  BY Zenon DEF NextSeq
<1>4. PICK y : y = [Fresh(ex[e], NFf) EXCEPT !.accept = a, !.pc = "get"]
  OBVIOUS
<1>5. /\ y \in Locals /\ y.pc = "get" /\ y.next = ex[e].next + NFf /\ y.i = ex[e].i
      /\ y.phase = ex[e].phase /\ y.c = ex[e].c /\ y.cErr = ex[e].cErr /\ y.due = ex[e].due
      /\ y.ev = ex[e].next /\ y.frag = 0
  <2>1. 0 \in 0 .. NSub /\ ex[e].next + NFf \in Nat
    BY <1>2, MinidaqAssumption DEF Locals
  <2> QED
    BY Zenon, <1>2, <1>4, <2>1 DEF Fresh, Locals, Pcs
<1>6. ExOk(e, y) /\ y.next > ex[e].next
  BY <1>1, <1>2, <1>5, FreshOk DEF Pcs
<1>7. ex' = [ex EXCEPT ![e] = y]
  BY Zenon, <1>3, <1>4
<1>8. \A f \in Executors : f # e /\ ex[f].pc = "filter"
        => tree'[<<ex[f].ev, ex[f].frag>>] = "pmem"
  BY Zenon, <1>1, FilterKey
<1>9. e[1] = Counting /\ (IF mode.seq THEN y.pc = "get" ELSE y.pc = "announce")
  BY Zenon, <1>1, <1>5 DEF Counting
<1>10. y.next = ex[e].next + Count[e[1]]
  BY Zenon, <1>2, <1>5
<1>11. PlaceInv' /\ ExInv'
  BY Zenon, <1>1, <1>5, <1>6, <1>7, <1>8, <1>9, <1>10, PlaceFresh
<1>12. StoreInv'
  BY Zenon, <1>1, StoreFrame
<1> QED
  BY Zenon, <1>11, <1>12 DEF DaqInv

(* A fragment that a filter fetches was not removed, and is not on the      *)
(* disk: it is in the memory.                                               *)
LEMMA DaqGet ==
    ASSUME DaqInv, NEW e \in Executors, Get(e)
    PROVE  DaqInv'
<1>1. /\ ex[e].pc = "get" /\ mode' = mode /\ ready' = ready /\ ex[e].pc # "done"
      /\ taken' = taken /\ offload' = offload /\ tree' = tree
  BY DEF Get, At, storeVars
<1>2. /\ ExOk(e, ex[e]) /\ ex[e] \in Locals /\ ex[e].ev \in Events /\ e[1] = "ff"
      /\ taken[ex[e].ev] = ex[e].frag
  <2>1. ExOk(e, ex[e]) /\ PlaceInv
    BY Zenon DEF DaqInv, ExInv
  <2>2. ex[e].pc \in {"get", "filter"} /\ ex[e].pc \in {"announce", "get", "filter"}
    BY <1>1
  <2> QED
    BY Zenon, <2>1, <2>2 DEF ExOk, PlaceInv
<1>3. ASSUME NEW y, ExOk(e, y), ex' = [ex EXCEPT ![e] = y],
             y.pc \in {"get", "filter"}, y.next = ex[e].next, y.ev = ex[e].ev, y.frag = ex[e].frag,
             y.pc = "filter" => tree[<<y.ev, y.frag>>] = "pmem"
      PROVE  DaqInv'
  <2>1. Yields(e, ex[e], y)
    BY <1>1, <1>2, <1>3 DEF Yields, Locals
  <2>2. \A f \in Executors : f # e /\ ex[f].pc = "filter"
          => tree'[<<ex[f].ev, ex[f].frag>>] = "pmem"
    BY Zenon, <1>1, FilterKey
  <2>3. PlaceInv' /\ ExInv'
    BY Zenon, <1>1, <1>3, <2>1, <2>2, PlaceYield
  <2>4. StoreInv'
    BY Zenon, <1>1, StoreFrame
  <2> QED
    BY Zenon, <2>3, <2>4 DEF DaqInv
<1>4. ASSUME ex' = [ex EXCEPT ![e] = Over(ex[e])]
      PROVE  DaqInv'
  BY Zenon, <1>1, <1>4, Ending
<1>5. ASSUME ex[e].frag < NSub, tree[KeyOf(e)] # "none",
             ex' = [ex EXCEPT ![e] = [@ EXCEPT !.pc = "filter"]]
      PROVE  DaqInv'
  <2>1. PICK y : y = [ex[e] EXCEPT !.pc = "filter"]
    BY Zenon
  <2>2. /\ y \in Locals /\ y.pc = "filter" /\ y.next = ex[e].next /\ y.i = ex[e].i
        /\ y.phase = ex[e].phase /\ y.c = ex[e].c /\ y.cErr = ex[e].cErr /\ y.due = ex[e].due
        /\ y.ev = ex[e].ev /\ y.frag = ex[e].frag
    BY <1>2, <2>1 DEF Locals, Pcs
  <2>3. ExOk(e, y)
    BY <1>1, <1>2, <1>5, <2>2 DEF ExOk, Numbers
  <2>4. PICK k : k = <<ex[e].ev, ex[e].frag>>
    BY Zenon
  <2>5. k \in KeysOf /\ ~(k[2] < taken[k[1]])
    BY <1>2, <1>5, <2>4, MinidaqAssumption DEF KeysOf, Locals
  <2>6. tree[k] = "pmem"
    <3>1. tree[k] \in {"none", "pmem", "disk"} /\ tree[k] # "disk"
      BY Zenon, <2>5 DEF DaqInv, StoreInv
    <3> QED
      BY Zenon, <1>5, <2>4, <3>1 DEF KeyOf
  <2>7. tree[<<y.ev, y.frag>>] = "pmem"
    BY Zenon, <2>2, <2>4, <2>6
  <2>8. ex' = [ex EXCEPT ![e] = y]
    BY Zenon, <1>5, <2>1
  <2> QED
    BY Zenon, <1>3, <2>2, <2>3, <2>7, <2>8
<1>6. ASSUME ex' = [ex EXCEPT ![e].tries = @ + 1]
      PROVE  DaqInv'
  <2>1. PICK y : y = [ex[e] EXCEPT !.tries = @ + 1]
    BY Zenon
  <2>2. ex[e].tries + 1 \in Nat
    BY <1>2 DEF Locals
  <2>3. /\ y \in Locals /\ y.pc = "get" /\ y.next = ex[e].next /\ y.i = ex[e].i
        /\ y.phase = ex[e].phase /\ y.c = ex[e].c /\ y.cErr = ex[e].cErr /\ y.due = ex[e].due
        /\ y.ev = ex[e].ev /\ y.frag = ex[e].frag
    BY <1>1, <1>2, <2>1, <2>2 DEF Locals
  <2>4. ExOk(e, y)
    BY <1>1, <1>2, <2>3 DEF ExOk, Numbers
  <2>5. ex' = [ex EXCEPT ![e] = y] /\ y.pc # "filter"
    BY <1>6, <2>1, <2>3
  <2> QED
    BY Zenon, <1>3, <2>3, <2>4, <2>5
<1> QED
  BY Zenon, <1>4, <1>5, <1>6 DEF Get, Throw

(* The next fragment of the event.                                          *)
LEMMA NextFragmentOk ==
    ASSUME NEW e \in Executors, NEW x, ExOk(e, x), x.pc = "filter"
    PROVE  /\ ExOk(e, NextFragment(x)) /\ NextFragment(x).pc = "get"
           /\ NextFragment(x).next = x.next /\ NextFragment(x).ev = x.ev
           /\ NextFragment(x).frag = x.frag + 1
<1>1. PICK y : y = NextFragment(x)
  OBVIOUS
<1>2. x \in Locals /\ x.frag + 1 \in 0 .. NSub /\ e[1] = "ff" /\ x.ev \in Events
  BY MinidaqAssumption DEF ExOk, Locals
<1>3. /\ y \in Locals /\ y.pc = "get" /\ y.next = x.next /\ y.i = x.i
      /\ y.phase = x.phase /\ y.c = x.c /\ y.cErr = x.cErr /\ y.due = x.due
      /\ y.ev = x.ev /\ y.frag = x.frag + 1
  BY Zenon, <1>1, <1>2 DEF NextFragment, Locals, Pcs
<1>4. ExOk(e, y)
  BY <1>2, <1>3 DEF ExOk, Numbers
<1> QED
  BY Zenon, <1>1, <1>3, <1>4

(* A fragment is taken: the store counts it, and it may be on its way to    *)
(* the disk.                                                                *)
LEMMA StoreTaken ==
    ASSUME DaqInv, NEW e \in Executors, ex[e].pc = "filter", mode' = mode, ready' = ready,
           taken' = [taken EXCEPT ![ex[e].ev] = @ + 1],
           offload' \subseteq offload \cup {<<e, <<ex[e].ev, ex[e].frag>>>>},
           \/ tree' = tree
           \/ tree' = [tree EXCEPT ![<<ex[e].ev, ex[e].frag>>] = "none"]
    PROVE  StoreInv'
<1>0. StoreInv
  BY Zenon DEF DaqInv
<1>1. PICK v \in Events, n \in Nat : v = ex[e].ev /\ n = ex[e].frag
  BY Zenon, FilterKey
<1>2. n < NSub /\ <<v, n>> \in KeysOf /\ taken[v] = n
  BY Zenon, <1>1, FilterKey
<1>3. /\ taken' \in [Events -> 0 .. NSub] /\ taken'[v] = n + 1
      /\ \A u \in Events : taken'[u] >= taken[u] /\ taken[u] \in Nat /\ taken'[u] \in Nat
  BY <1>0, <1>1, <1>2, MinidaqAssumption DEF StoreInv
<1>4. \A k \in KeysOf : k[2] < taken[k[1]] => k[2] < taken'[k[1]]
  <2> SUFFICES ASSUME NEW k \in KeysOf, k[2] < taken[k[1]]
               PROVE  k[2] < taken'[k[1]]
    OBVIOUS
  <2>1. k[1] \in Events /\ k[2] \in Nat
    BY DEF KeysOf
  <2> QED
    BY <1>3, <2>1
<1>5. \A u \in offload' : u[2] \in KeysOf /\ u[2][2] < taken'[u[2][1]]
  <2> SUFFICES ASSUME NEW u \in offload'
               PROVE  u[2] \in KeysOf /\ u[2][2] < taken'[u[2][1]]
    OBVIOUS
  <2>1. CASE u \in offload
    BY Zenon, <1>0, <1>4, <2>1 DEF StoreInv
  <2>2. CASE u = <<e, <<v, n>>>>
    <3>1. u[2] = <<v, n>> /\ u[2][1] = v /\ u[2][2] = n
      BY <2>2
    <3> QED
      BY <1>2, <1>3, <3>1
  <2> QED
    BY Zenon, <1>1, <2>1, <2>2
<1>6. DOMAIN tree' = KeysOf /\ \A k \in KeysOf : tree'[k] = tree[k] \/ tree'[k] = "none"
  BY Zenon, <1>0 DEF StoreInv
<1>7. \A k \in KeysOf : tree'[k] \in {"none", "pmem", "disk"} /\ (tree'[k] = "disk" => k[2] < taken'[k[1]])
  <2> SUFFICES ASSUME NEW k \in KeysOf
               PROVE  /\ tree'[k] \in {"none", "pmem", "disk"}
                      /\ tree'[k] = "disk" => k[2] < taken'[k[1]]
    BY Zenon
  <2>1. CASE tree'[k] = tree[k]
    BY Zenon, <1>0, <1>4, <2>1 DEF StoreInv
  <2>2. CASE tree'[k] = "none"
    BY <2>2
  <2> QED
    BY Zenon, <1>6, <2>1, <2>2
<1> QED
  BY Zenon, <1>0, <1>3, <1>5, <1>6, <1>7 DEF StoreInv

(* The filter sends an accepted fragment to the disk.                       *)
LEMMA DaqUpdateAsync ==
    ASSUME DaqInv, NEW e \in Executors, UpdateAsync(e)
    PROVE  DaqInv'
<1>1. /\ ex[e].pc = "filter" /\ mode' = mode /\ ready' = ready /\ tree' = tree
      /\ taken' = [taken EXCEPT ![ex[e].ev] = @ + 1]
      /\ offload' \subseteq offload \cup {<<e, <<ex[e].ev, ex[e].frag>>>>}
  BY DEF UpdateAsync, At, KeyOf
<1>2. ExOk(e, ex[e])
  BY Zenon DEF DaqInv, ExInv
<1>3. PICK y : y = NextFragment(ex[e])
  OBVIOUS
<1>4. /\ ExOk(e, y) /\ y.pc = "get" /\ y.next = ex[e].next /\ y.ev = ex[e].ev
      /\ y.frag = ex[e].frag + 1
  BY Zenon, <1>1, <1>2, <1>3, NextFragmentOk
<1>5. ex' = [ex EXCEPT ![e] = y]
  BY Zenon, <1>3 DEF UpdateAsync
<1>6. \A f \in Executors : f # e /\ ex[f].pc = "filter"
        => tree'[<<ex[f].ev, ex[f].frag>>] = "pmem"
  BY Zenon, <1>1, FilterKey
<1>7. PlaceInv' /\ ExInv'
  BY Zenon, <1>1, <1>4, <1>5, <1>6, PlaceNext
<1>8. StoreInv'
  BY Zenon, <1>1, StoreTaken
<1> QED
  BY Zenon, <1>7, <1>8 DEF DaqInv

(* The filter: UpdateAsync throws without a disk.                           *)
LEMMA DaqUpdateDisabled ==
    ASSUME DaqInv, NEW e \in Executors, UpdateDisabled(e)
    PROVE  DaqInv'
<1>1. /\ ex[e].pc # "done" /\ ex' = [ex EXCEPT ![e] = Over(ex[e])]
      /\ UNCHANGED <<mode, taken, ready, offload, tree>>
  BY DEF UpdateDisabled, Throw, At, storeVars
<1> QED
  BY Zenon, <1>1, Ending

(* Remove: no other filter has fetched the fragment that goes.              *)
LEMMA DaqRemove ==
    ASSUME DaqInv, NEW e \in Executors, Remove(e)
    PROVE  DaqInv'
<1>1. /\ ex[e].pc = "filter" /\ mode' = mode /\ ready' = ready /\ offload' = offload
      /\ ex[e].pc # "done"
  BY DEF Remove, At
<1>2. ExOk(e, ex[e])
  BY Zenon DEF DaqInv, ExInv
<1>3. CASE tree[KeyOf(e)] = "pmem"
  <2>1. /\ taken' = [taken EXCEPT ![ex[e].ev] = @ + 1]
        /\ tree' = [tree EXCEPT ![<<ex[e].ev, ex[e].frag>>] = "none"]
        /\ ex' = [ex EXCEPT ![e] = Counted(NextFragment(ex[e]), TRUE)]
    BY Zenon, <1>3 DEF Remove, KeyOf
  <2>2. PICK x : x = NextFragment(ex[e])
    OBVIOUS
  <2>3. /\ ExOk(e, x) /\ x.pc = "get" /\ x.next = ex[e].next /\ x.ev = ex[e].ev
        /\ x.frag = ex[e].frag + 1
    BY Zenon, <1>1, <1>2, <2>2, NextFragmentOk
  <2>4. PICK y : y = Counted(x, TRUE)
    BY Zenon
  <2>5. TRUE \in BOOLEAN
    OBVIOUS
  <2>6. /\ ExOk(e, y) /\ y.pc = "get" /\ y.next = ex[e].next /\ y.ev = ex[e].ev
        /\ y.frag = ex[e].frag + 1
    BY Zenon, <2>3, <2>4, <2>5, CountedOk
  <2>7. ex' = [ex EXCEPT ![e] = y]
    BY Zenon, <2>1, <2>2, <2>4
  <2>8. \A f \in Executors : f # e /\ ex[f].pc = "filter"
          => tree'[<<ex[f].ev, ex[f].frag>>] = "pmem"
    <3> SUFFICES ASSUME NEW f \in Executors, f # e, ex[f].pc = "filter"
                 PROVE  tree'[<<ex[f].ev, ex[f].frag>>] = "pmem"
      BY Zenon
    <3>1. PICK v \in Events, u \in Events : v = ex[e].ev /\ u = ex[f].ev
      BY Zenon, <1>1, FilterKey
    <3>2. v # u
      BY Zenon, <1>1, <3>1 DEF DaqInv, PlaceInv, Holder
    <3>3. <<ex[e].ev, ex[e].frag>> # <<ex[f].ev, ex[f].frag>>
      BY <3>1, <3>2
    <3> QED
      BY Zenon, <2>1, <3>3, FilterTree
  <2>9. PlaceInv' /\ ExInv'
    BY Zenon, <1>1, <2>1, <2>6, <2>7, <2>8, PlaceNext
  <2>10. StoreInv'
    BY Zenon, <1>1, <2>1, StoreTaken
  <2> QED
    BY Zenon, <2>9, <2>10 DEF DaqInv
<1>4. CASE tree[KeyOf(e)] # "pmem"
  <2>1. ex' = [ex EXCEPT ![e] = Over(ex[e])] /\ tree' = tree /\ taken' = taken
    BY <1>4 DEF Remove, Throw
  <2> QED
    BY Zenon, <1>1, <2>1, Ending
<1> QED
  BY Zenon, <1>3, <1>4

(* _Execute: QuiesceOffload, and the counters are zeroed.                   *)
LEMMA DaqQuiesce ==
    ASSUME DaqInv, NEW e \in Executors, Quiesce(e)
    PROVE  DaqInv'
<1>1. ex[e].pc = "quiesce" /\ UNCHANGED <<mode, taken, ready, offload, tree>>
  BY DEF Quiesce, At, storeVars
<1>2. ExOk(e, ex[e]) /\ ex[e] \in Locals
  BY Zenon DEF DaqInv, ExInv, ExOk
<1>3. PICK y : y = [ex[e] EXCEPT !.pc = "asleep", !.c = 0, !.cErr = 0, !.due = 0]
  OBVIOUS
<1>4. /\ y \in Locals /\ y.pc = "asleep" /\ y.next = ex[e].next /\ y.i = ex[e].i
      /\ y.phase = ex[e].phase /\ y.c = 0 /\ y.cErr = 0 /\ y.due = 0
  <2>1. 0 \in Nat /\ 0 \in Int /\ "asleep" \in Pcs
    BY DEF Pcs
  <2> QED
    BY Zenon, <1>2, <1>3, <2>1 DEF Locals
<1>5. ExOk(e, y)
  BY <1>1, <1>2, <1>4 DEF ExOk, Numbers
<1>6. /\ ex' = [ex EXCEPT ![e] = y] /\ y.next >= ex[e].next /\ ex[e].pc # "done"
      /\ y.pc \in {"idle", "after", "quiesce", "asleep", "done", "key"}
  <2>1. ex' = [ex EXCEPT ![e] = y]
    BY Zenon, <1>3 DEF Quiesce
  <2> QED
    BY <1>1, <1>2, <1>4, <2>1 DEF Locals
<1> QED
  BY Zenon, <1>1, <1>5, <1>6, Yielding

(* _Execute: another look at the counters, or the end.                      *)
LEMMA DaqReturn ==
    ASSUME DaqInv, NEW e \in Executors, Return(e)
    PROVE  DaqInv'
<1>1. ex[e].pc = "asleep" /\ UNCHANGED <<mode, taken, ready, offload, tree>>
  BY DEF Return, At, storeVars
<1>2. ExOk(e, ex[e]) /\ ex[e] \in Locals
  BY Zenon DEF DaqInv, ExInv, ExOk
<1>3. CASE ex[e].c > 0 \/ ex[e].cErr > 0
  <2>1. PICK y : y = [ex[e] EXCEPT !.c = 0, !.cErr = 0, !.due = 0]
    OBVIOUS
  <2>2. /\ y \in Locals /\ y.pc = "asleep" /\ y.next = ex[e].next /\ y.i = ex[e].i
        /\ y.phase = ex[e].phase /\ y.c = 0 /\ y.cErr = 0 /\ y.due = 0
    <3>1. 0 \in Nat /\ 0 \in Int
      OBVIOUS
    <3> QED
      BY Zenon, <1>1, <1>2, <2>1, <3>1 DEF Locals
  <2>3. ExOk(e, y)
    BY <1>1, <1>2, <2>2 DEF ExOk, Numbers
  <2>4. ex' = [ex EXCEPT ![e] = y]
    BY Zenon, <1>3, <2>1 DEF Return
  <2>5. /\ y.next >= ex[e].next /\ ex[e].pc # "done"
        /\ y.pc \in {"idle", "after", "quiesce", "asleep", "done", "key"}
    BY <1>1, <1>2, <2>2 DEF Locals
  <2> QED
    BY Zenon, <1>1, <2>3, <2>4, <2>5, Yielding
<1>4. CASE ~(ex[e].c > 0 \/ ex[e].cErr > 0)
  <2>1. PICK y : y = [NewExecutor(0) EXCEPT !.pc = "done"]
    BY Zenon
  <2>2. /\ y \in Locals /\ y.pc = "done" /\ y.phase = "ramp" /\ y.due = 0
    <3>1. /\ 0 \in 0 .. NSub /\ 0 \in 0 .. MaxIterations /\ 0 \in Nat /\ 0 \in Int
          /\ "done" \in Pcs /\ "idle" \in Pcs
      BY MinidaqAssumption DEF Pcs
    <3>2. PICK x : x = NewExecutor(0)
      OBVIOUS
    <3>3. x \in Locals /\ x.phase = "ramp" /\ x.due = 0
      BY <3>1, <3>2 DEF NewExecutor, Locals
    <3>4. y = [x EXCEPT !.pc = "done"]
      BY Zenon, <2>1, <3>2
    <3> QED
      BY <3>1, <3>3, <3>4 DEF Locals
  <2>3. ExOk(e, y)
    BY <2>2 DEF ExOk, Numbers
  <2>4. ex' = [ex EXCEPT ![e] = y]
    BY Zenon, <1>4, <2>1 DEF Return
  <2>5. y.pc \in {"idle", "after", "quiesce", "asleep", "done", "key"} /\ ~(y.pc # "done")
    BY <2>2
  <2> QED
    BY Zenon, <1>1, <2>3, <2>4, <2>5, Yielding
<1> QED
  BY Zenon, <1>3, <1>4

(* MinidaqNode::Run starts the executors of a node.                         *)
LEMMA DaqRun ==
    ASSUME DaqInv, NEW n \in Nodes, Run(n)
    PROVE  DaqInv'
<1>1. /\ \A f \in Executors : f[1] = n => ex[f].pc = "idle"
      /\ ex' = [f \in Executors |-> IF f[1] = n THEN [ex[f] EXCEPT !.pc = "after"] ELSE ex[f]]
      /\ mode' = mode /\ taken' = taken /\ ready' = ready /\ offload' = offload /\ tree' = tree
  BY DEF Run, At, storeVars
<1>2. ASSUME NEW f \in Executors
      PROVE  ExOk(f, ex'[f]) /\ Yields(f, ex[f], ex'[f]) /\ (ex'[f].pc = "filter" => ex'[f] = ex[f])
  <2>1. ExOk(f, ex[f]) /\ ex[f] \in Locals
    BY Zenon DEF DaqInv, ExInv, ExOk
  <2>2. CASE f[1] = n
    <3>1. PICK y : y = [ex[f] EXCEPT !.pc = "after"]
      BY Zenon
    <3>2. /\ y \in Locals /\ y.pc = "after" /\ y.next = ex[f].next /\ y.i = ex[f].i
          /\ y.phase = ex[f].phase /\ y.c = ex[f].c /\ y.cErr = ex[f].cErr /\ y.due = ex[f].due
      BY <2>1, <3>1 DEF Locals, Pcs
    <3>3. ex'[f] = y /\ ex[f].pc = "idle"
      BY Zenon, <1>1, <2>2, <3>1
    <3>4. ExOk(f, y)
      BY <2>1, <3>2, <3>3 DEF ExOk, Numbers
    <3>5. Yields(f, ex[f], y) /\ y.pc # "filter"
      BY <2>1, <3>2, <3>3 DEF Yields, Locals
    <3> QED
      BY Zenon, <3>3, <3>4, <3>5
  <2>3. CASE f[1] # n
    <3>1. ex'[f] = ex[f]
      BY Zenon, <1>1, <2>3
    <3>2. Yields(f, ex[f], ex[f])
      BY <2>1 DEF Yields, Locals
    <3> QED
      BY Zenon, <2>1, <3>1, <3>2
  <2> QED
    BY Zenon, <2>2, <2>3
<1>3. ExInv'
  <2>1. ex' \in [Executors -> Locals]
    <3>1. \A f \in Executors : ex'[f] \in Locals
      BY Zenon, <1>2 DEF ExOk
    <3>2. ex' = [f \in Executors |-> ex'[f]]
      BY <1>1
    <3> QED
      BY <3>1, <3>2
  <2> QED
    BY Zenon, <1>2, <2>1 DEF ExInv, ExOk, Numbers
<1>4. \A f \in Executors : ex'[f].pc = "filter" => tree'[<<ex'[f].ev, ex'[f].frag>>] = "pmem"
  BY Zenon, <1>1, <1>2, FilterKey
<1>5. PlaceInv'
  BY Zenon, <1>1, <1>2, <1>3, <1>4, PlaceFrame
<1>6. StoreInv'
  BY Zenon, <1>1, StoreFrame
<1> QED
  BY Zenon, <1>3, <1>5, <1>6 DEF DaqInv

(* A step that leaves the executors, the keys and the store alone.          *)
LEMMA DaqStutter ==
    ASSUME DaqInv, UNCHANGED <<mode, ex, tree, ready, offload, taken>>
    PROVE  DaqInv'
<1>1. /\ mode' = mode /\ ex' = ex /\ tree' = tree /\ ready' = ready /\ offload' = offload
      /\ taken' = taken
  OBVIOUS
<1>2. ExInv'
  BY Zenon, <1>1 DEF DaqInv, ExInv, ExOk, Numbers
<1>3. PlaceInv'
  <2>1. \A f \in Executors : ex[f].next \in Nat
    BY DEF DaqInv, ExInv, Locals
  <2>2. \A f \in Executors : Yields(f, ex[f], ex'[f])
    BY <1>1, <2>1 DEF Yields
  <2>3. \A f \in Executors : ex'[f].pc = "filter" => tree'[<<ex'[f].ev, ex'[f].frag>>] = "pmem"
    BY Zenon, <1>1, FilterKey
  <2> QED
    BY Zenon, <1>1, <1>2, <2>2, <2>3, PlaceFrame
<1>4. StoreInv'
  BY Zenon, <1>1, StoreFrame
<1> QED
  BY Zenon, <1>2, <1>3, <1>4 DEF DaqInv

(* The poller stores the value of a request, and its callback counts.       *)
LEMMA DaqProcessPut ==
    ASSUME DaqInv, _processPut
    PROVE  DaqInv'
<1>1. PICK e, k : /\ Called(e, TRUE) /\ tree' = [tree EXCEPT ![k] = "pmem"]
                  /\ mode' = mode /\ taken' = taken /\ ready' = ready /\ offload' = offload
  BY Zenon DEF _processPut
<1>2. TRUE \in BOOLEAN
  OBVIOUS
<1>3. /\ ExInv'
      /\ \A f \in Executors : /\ ex'[f].pc = ex[f].pc /\ ex'[f].ev = ex[f].ev
                              /\ ex'[f].frag = ex[f].frag /\ Yields(f, ex[f], ex'[f])
  BY Zenon, <1>1, <1>2, CalledFrame
<1>4. \A f \in Executors : ex[f].pc = "filter" => tree'[<<ex[f].ev, ex[f].frag>>] = "pmem"
  BY Zenon, <1>1, FilterTree
<1>5. PlaceInv'
  BY Zenon, <1>1, <1>3, <1>4, PlaceFrame
<1>6. StoreInv'
  BY Zenon, <1>1, StoreTree
<1> QED
  BY Zenon, <1>3, <1>5, <1>6 DEF DaqInv

(* The device completes an update: the filter that sent it has gone on to   *)
(* another fragment.                                                        *)
LEMMA DaqOffloaded ==
    ASSUME DaqInv, NEW u \in offload, Offloaded(u)
    PROVE  DaqInv'
<1>1. mode' = mode /\ taken' = taken /\ ready' = ready /\ offload' \subseteq offload
  BY DEF Offloaded
<1>2. PICK k \in KeysOf : k = u[2] /\ k[2] < taken[k[1]]
  BY Zenon DEF DaqInv, StoreInv
<1>3. ASSUME NEW ok \in BOOLEAN, Called(u[1], ok)
      PROVE  /\ ExInv'
             /\ \A f \in Executors : /\ ex'[f].pc = ex[f].pc /\ ex'[f].ev = ex[f].ev
                                     /\ ex'[f].frag = ex[f].frag /\ Yields(f, ex[f], ex'[f])
  BY Zenon, <1>3, CalledFrame
<1>4. CASE tree' = [tree EXCEPT ![k] = "disk"] /\ Called(u[1], TRUE)
  <2>1. \A f \in Executors : ex[f].pc = "filter" => tree'[<<ex[f].ev, ex[f].frag>>] = "pmem"
    <3> SUFFICES ASSUME NEW f \in Executors, ex[f].pc = "filter"
                 PROVE  tree'[<<ex[f].ev, ex[f].frag>>] = "pmem"
      BY Zenon
    <3>1. taken[ex[f].ev] = ex[f].frag /\ ex[f].frag \in Nat
      BY Zenon, FilterKey
    <3>2. k # <<ex[f].ev, ex[f].frag>>
      BY <1>2, <3>1
    <3> QED
      BY Zenon, <1>4, <3>2, FilterTree
  <2>2. TRUE \in BOOLEAN
    OBVIOUS
  <2>3. ExInv' /\ PlaceInv'
    BY Zenon, <1>1, <1>3, <1>4, <2>1, <2>2, PlaceFrame
  <2>4. StoreInv'
    BY Zenon, <1>1, <1>2, <1>4, StoreTree
  <2> QED
    BY Zenon, <2>3, <2>4 DEF DaqInv
<1>5. CASE tree' = tree /\ Called(u[1], FALSE)
  <2>1. \A f \in Executors : ex[f].pc = "filter" => tree'[<<ex[f].ev, ex[f].frag>>] = "pmem"
    BY Zenon, <1>5, FilterKey
  <2>2. FALSE \in BOOLEAN
    OBVIOUS
  <2>3. ExInv' /\ PlaceInv'
    BY Zenon, <1>1, <1>3, <1>5, <2>1, <2>2, PlaceFrame
  <2>4. StoreInv'
    BY Zenon, <1>1, <1>5 DEF DaqInv, StoreInv
  <2> QED
    BY Zenon, <2>3, <2>4 DEF DaqInv
<1> QED
  BY Zenon, <1>2, <1>4, <1>5 DEF Offloaded

(* At the start nothing is stored, ready or taken.                          *)
LEMMA DaqInit ==
    ASSUME Init
    PROVE  DaqInv
<1>1. /\ ex = [e \in Executors |-> NewExecutor(e[2])] /\ tree = [k \in KeysOf |-> "none"]
      /\ ready = <<>> /\ offload = {} /\ taken = [v \in Events |-> 0]
  BY DEF Init
<1>2. ASSUME NEW e \in Executors
      PROVE  ExOk(e, ex[e]) /\ ex[e].pc = "idle"
  <2>1. PICK x : x = NewExecutor(e[2])
    OBVIOUS
  <2>2. PICK N : N = Count[e[1]]
    OBVIOUS
  <2>3. e[2] \in Nat /\ N \in Nat \ {0} /\ e[2] < N
    BY Zenon, <2>2, ExecutorIs
  <2>4. \A a \in Nat, b \in Nat \ {0} : a < b => a % b = a
    BY SMT
  <2>5. e[2] % N = e[2] /\ e[2] <= e[2] + 0 * N
    BY <2>3, <2>4
  <2>6. /\ 0 \in 0 .. NSub /\ 0 \in 0 .. MaxIterations /\ 0 \in Nat /\ 0 \in Int
        /\ "idle" \in Pcs
    BY MinidaqAssumption DEF Pcs
  <2>7. /\ x \in Locals /\ x.pc = "idle" /\ x.phase = "ramp" /\ x.due = 0 /\ x.i = 0
        /\ x.next = e[2]
    BY <2>1, <2>3, <2>6 DEF NewExecutor, Locals
  <2>8. x.pc # "key"
    BY <2>7
  <2>9. Numbers(e, x)
    BY Zenon, <2>2, <2>5, <2>7, <2>8 DEF Numbers
  <2>10. ex[e] = x
    BY Zenon, <1>1, <2>1
  <2> QED
    BY <2>7, <2>9, <2>10 DEF ExOk
<1>3. ExInv
  <2>1. ex = [e \in Executors |-> ex[e]] /\ \A e \in Executors : ex[e] \in Locals
    BY <1>1, <1>2 DEF ExOk
  <2>2. ex \in [Executors -> Locals]
    BY <2>1
  <2> QED
    BY Zenon, <1>2, <2>2 DEF ExInv
<1>4. \A e \in Executors, v \in Events : ~Holder(e, v) /\ ~Announcer(e, v)
  BY <1>2 DEF Holder, Announcer
<1>5. \A v \in Events : Untouched(v) /\ ~IsReady(v)
  BY <1>1, <1>4 DEF Untouched, IsReady
<1>6. /\ \A e \in Executors : ex[e].pc \notin {"get", "filter"} /\ ex[e].pc # "filter"
      /\ \A j, k \in 1 .. Len(ready) : ready[j] = ready[k] => j = k
  BY <1>1, <1>2
<1>7. PlaceInv
  BY Zenon, <1>4, <1>5, <1>6 DEF PlaceInv
<1>8. StoreInv
  <2>1. ready \in Seq(Events) /\ taken \in [Events -> 0 .. NSub] /\ DOMAIN tree = KeysOf
    BY <1>1, MinidaqAssumption
  <2>2. \A k \in KeysOf : tree[k] = "none"
    BY Zenon, <1>1
  <2>3. \A k \in KeysOf : tree[k] \in {"none", "pmem", "disk"} /\ tree[k] # "disk"
    BY <2>2
  <2> QED
    BY Zenon, <1>1, <2>1, <2>3 DEF StoreInv
<1> QED
  BY Zenon, <1>3, <1>7, <1>8 DEF DaqInv

(* Every step of the benchmark keeps the invariant.                         *)
LEMMA DaqNext ==
    ASSUME DaqInv, [Next]_vars
    PROVE  DaqInv'
<1>1. CASE UNCHANGED vars
  <2>1. UNCHANGED <<mode, ex, tree, ready, offload, taken>>
    BY <1>1 DEF vars
  <2> QED
    BY <2>1, DaqStutter
<1>2. ASSUME NEW n \in Nodes, Wait(n)
      PROVE  DaqInv'
  <2>1. UNCHANGED <<mode, ex, tree, ready, offload, taken>>
    BY <1>2 DEF Wait, storeVars
  <2> QED
    BY <2>1, DaqStutter
<1>3. ASSUME NEW e \in Executors, Step(e)
      PROVE  DaqInv'
  BY Zenon, <1>3, DaqLoop, DaqAllocFails, DaqPut, DaqAnnounce, DaqReadyFull, DaqPutAsync,
     DaqGetAny, DaqNextSeq, DaqGet, DaqUpdateAsync, DaqUpdateDisabled, DaqRemove, DaqQuiesce,
     DaqReturn DEF Step
<1> QED
  BY Zenon, <1>1, <1>2, <1>3, DaqRun, DaqProcessPut, DaqOffloaded DEF Next, Step

-----------------------------------------------------------------------------
(* In every state of the benchmark an event is in one place at most: still  *)
(* to be numbered, being announced, ready, or held by one filter; and the   *)
(* executors and the store agree about it.                                  *)
THEOREM MinidaqInvariant == Spec => []DaqInv
<1>1. Init => DaqInv
  BY DaqInit
<1>2. DaqInv /\ [Next]_vars => DaqInv'
  BY DaqNext
<1> QED
  BY <1>1, <1>2, PTL DEF Spec

(* An event is removed or sent to the disk at most once for each fragment,  *)
(* and a filter finds in the memory what it has fetched: for any number of  *)
(* executors and fragments, rings of any size and every way to run.         *)
THEOREM MinidaqOneFilterPerEvent == Spec => []OneFilterPerEvent
<1>1. DaqInv => OneFilterPerEvent
  <2> SUFFICES ASSUME DaqInv
               PROVE  OneFilterPerEvent
    OBVIOUS
  <2>1. \A v \in Events : taken[v] <= NSub
    BY MinidaqAssumption DEF DaqInv, StoreInv
  <2>2. \A e \in Executors : At(e, "filter") => tree[KeyOf(e)] = "pmem"
    BY Zenon DEF DaqInv, PlaceInv, At, KeyOf
  <2> QED
    BY Zenon, <2>1, <2>2 DEF OneFilterPerEvent
<1> QED
  BY <1>1, MinidaqInvariant, PTL

(* Every completion after the ramp-up is in a sample or in a counter, once. *)
THEOREM MinidaqCompletionsCounted == Spec => []CompletionsCounted
<1>1. DaqInv => CompletionsCounted
  BY Zenon DEF DaqInv, ExInv, ExOk, CompletionsCounted
<1> QED
  BY <1>1, MinidaqInvariant, PTL

-----------------------------------------------------------------------------
(***************************************************************************)
(* The shell (NodeCli).                                                    *)
(***************************************************************************)
CliPcs == {"prompt", "call", "wait", "return", "status", "closing", "closed", "terminated"}
CliOps == CmdNames \cup {"none"}
Names == Keys \cup {"none"}
Requests == [op : {"none", "GET", "UPDATE", "REMOVE", "AGET", "APUT", "AUPDATE"},
             key : Names, at : {"none", "pmem", "off", "dev", "clb", "push", "ready"}]

CliTypes ==
    /\ num \in 0 .. MaxCommands
    /\ DOMAIN me = {"pc", "op", "key", "attrs"} /\ me.pc \in CliPcs /\ me.key \in Names
    /\ rq \in [Cmds -> Requests]
    /\ printed \in [Cmds -> Nat]
    /\ ops \in [Cmds -> CliOps]
    /\ asked \subseteq Cmds /\ \A i \in asked : i <= num

(* The command that is executed is the last one, and its request is new.    *)
CurrentInv ==
    /\ me.pc \in {"call", "wait", "return"} => num \in Cmds /\ ops[num] = me.op
    /\ me.pc = "call" => num \notin asked /\ num \in live
    /\ me.pc = "wait" => me.op \in Waits

(* A message of a command that the store has accepted is in one place.      *)
MessageInv ==
    /\ \A i \in Cmds : i \notin asked => i \notin msgs /\ printed[i] = 0 /\ rq[i].at = "none"
    /\ \A i \in asked : ops[i] \notin Waits =>
         printed[i] + (IF i \in msgs /\ me.pc # "status" THEN 1 ELSE 0)
                    + (IF rq[i].at # "none" THEN 1 ELSE 0) = 1
    /\ me.pc = "status" => \A i \in Cmds : rq[i].at # "push"

(* A request refers to a key that is allocated, and the callback of a       *)
(* synchronous call to a frame that waits, unless a wait has timed out.     *)
FrameInv ==
    \A i \in Cmds : rq[i].at # "none" =>
        /\ i \in live \/ i \in late
        /\ rq[i].op \in {"GET", "UPDATE", "REMOVE"} => (i = num /\ me.pc = "wait") \/ i \in late
        /\ rq[i].at = "push" => rq[i].op \in {"AGET", "APUT", "AUPDATE"}
        /\ rq[i].op = "APUT" => ops[i] = "aput"
        /\ rq[i].op = "AUPDATE" => ops[i] = "aupdate"

CliOk == CliTypes /\ CurrentInv /\ MessageInv /\ FrameInv

CliInv == (fault = "none" => CliOk) /\ OnlyLateCallbacksDangle

(* What the threads of the store leave alone when they move a request.      *)
CliKept ==
    /\ num' = num /\ me' = me /\ asked' = asked /\ live' = live /\ late' = late
    /\ msgs' = msgs /\ printed' = printed /\ ops' = ops

(* The threads of the store move a request on.                              *)
LEMMA CliGoes ==
    ASSUME CliOk, NEW i \in Cmds, rq[i].at # "none",
           NEW where \in {"off", "dev", "clb", "push", "ready"}, Goes(i, where),
           where = "push" => me.pc # "status" /\ rq[i].op \in {"AGET", "APUT", "AUPDATE"},
           CliKept
    PROVE  CliOk'
<1>0. /\ num' = num /\ me' = me /\ asked' = asked /\ live' = live /\ late' = late
      /\ msgs' = msgs /\ printed' = printed /\ ops' = ops /\ rq \in [Cmds -> Requests]
  BY Zenon DEF CliOk, CliTypes, CliKept
<1>1. PICK r : r = [rq[i] EXCEPT !.at = where]
  BY Zenon
<1>2. rq[i] \in Requests /\ where # "none"
  BY <1>0
<1>3. r \in Requests /\ r.at = where /\ r.op = rq[i].op
  BY <1>1, <1>2 DEF Requests
<1>4. rq' = [rq EXCEPT ![i] = r]
  BY Zenon, <1>1 DEF Goes
<1>5. rq' \in [Cmds -> Requests] /\ rq'[i] = r /\ \A j \in Cmds : j # i => rq'[j] = rq[j]
  BY <1>0, <1>3, <1>4
<1>6. \A j \in Cmds : /\ rq'[j].op = rq[j].op /\ (rq'[j].at # "none" <=> rq[j].at # "none")
                      /\ rq'[j].at = "push" => rq[j].at = "push" \/ (j = i /\ where = "push")
  BY Zenon, <1>2, <1>3, <1>5
<1>7. CliTypes'
  BY Zenon, <1>0, <1>5 DEF CliOk, CliTypes
<1>8. CurrentInv'
  BY Zenon, <1>0 DEF CliOk, CurrentInv
<1>9. MessageInv'
  <2>1. asked \subseteq Cmds
    BY Zenon DEF CliOk, CliTypes
  <2>2. \A j \in asked : (IF rq'[j].at # "none" THEN 1 ELSE 0) = (IF rq[j].at # "none" THEN 1 ELSE 0)
    BY Zenon, <1>6, <2>1
  <2>3. \A j \in Cmds : j \notin asked => j \notin msgs /\ printed[j] = 0 /\ rq'[j].at = "none"
    BY Zenon, <1>6 DEF CliOk, MessageInv
  <2>4. ASSUME NEW j \in asked, ops[j] \notin Waits
        PROVE  printed[j] + (IF j \in msgs /\ me.pc # "status" THEN 1 ELSE 0)
                    + (IF rq'[j].at # "none" THEN 1 ELSE 0) = 1
    BY Zenon, <2>2, <2>4 DEF CliOk, MessageInv
  <2>5. me.pc = "status" => \A j \in Cmds : rq'[j].at # "push"
    BY Zenon, <1>6 DEF CliOk, MessageInv
  <2> QED
    BY Zenon, <1>0, <2>3, <2>4, <2>5 DEF MessageInv
<1>10. FrameInv'
  BY Zenon, <1>0, <1>6 DEF CliOk, FrameInv
<1> QED
  BY Zenon, <1>7, <1>8, <1>9, <1>10 DEF CliOk

(* A command ends without a request, or the main thread leaves the shell.   *)
LEMMA CliBack ==
    ASSUME CliOk, me.pc \notin {"wait", "status"},
           me'.pc \in {"prompt", "terminated", "closing", "closed"},
           DOMAIN me' = {"pc", "op", "key", "attrs"}, me'.key \in Names,
           live' = live \/ (me.pc = "call" /\ live' = live \ {num}),
           UNCHANGED <<num, rq, asked, late, msgs, printed, ops>>
    PROVE  CliOk'
<1>0. /\ num' = num /\ rq' = rq /\ asked' = asked /\ late' = late
      /\ msgs' = msgs /\ printed' = printed /\ ops' = ops
  OBVIOUS
<1>1. me'.pc \in CliPcs /\ me'.pc \notin {"call", "wait", "return"} /\ me'.pc # "call"
      /\ me'.pc # "wait" /\ me'.pc # "status" /\ me.pc # "wait" /\ me.pc # "status"
  BY DEF CliPcs
<1>2. CliTypes'
  BY Zenon, <1>0, <1>1 DEF CliOk, CliTypes
<1>3. CurrentInv'
  BY Zenon, <1>1 DEF CurrentInv
<1>4. MessageInv'
  BY Zenon, <1>0, <1>1 DEF CliOk, MessageInv
<1>5. ASSUME NEW i \in Cmds, rq[i].at # "none", i \in live
      PROVE  i \in live'
  <2>1. me.pc = "call" => i # num
    BY Zenon, <1>5 DEF CliOk, CurrentInv, MessageInv
  <2> QED
    BY Zenon, <1>5, <2>1
<1>6. FrameInv'
  BY Zenon, <1>0, <1>1, <1>5 DEF CliOk, FrameInv
<1> QED
  BY Zenon, <1>2, <1>3, <1>4, <1>6 DEF CliOk

(* The prompt, and the end of the process, as values of the main thread.    *)
LEMMA CliMe ==
    ASSUME CliOk, NEW p \in CliPcs
    PROVE  /\ Prompt.pc = "prompt" /\ Prompt.key \in Names
           /\ DOMAIN Prompt = {"pc", "op", "key", "attrs"}
           /\ [me EXCEPT !.pc = p].pc = p /\ [me EXCEPT !.pc = p].key = me.key
           /\ [me EXCEPT !.pc = p].op = me.op
           /\ [me EXCEPT !.pc = p].key \in Names
           /\ DOMAIN [me EXCEPT !.pc = p] = {"pc", "op", "key", "attrs"}
<1>1. DOMAIN me = {"pc", "op", "key", "attrs"} /\ me.key \in Names
  BY Zenon DEF CliOk, CliTypes
<1>2. Prompt.pc = "prompt" /\ DOMAIN Prompt = {"pc", "op", "key", "attrs"}
  BY DEF Prompt
<1>3. Prompt.key \in Names
  BY DEF Prompt, Names
<1>4. PICK w : w = [me EXCEPT !.pc = p]
  BY Zenon
<1>5. w.pc = p /\ w.key = me.key /\ w.op = me.op /\ DOMAIN w = {"pc", "op", "key", "attrs"}
  BY <1>1, <1>4
<1> QED
  BY Zenon, <1>1, <1>2, <1>3, <1>4, <1>5

(* The request of the command is accepted by a poller, or its ring is full. *)
LEMMA CliEnqueue ==
    ASSUME CliOk, me.pc = "call", NEW op \in {"GET", "UPDATE", "REMOVE", "AGET", "APUT", "AUPDATE"},
           NEW where \in {"pmem", "off"}, NEW next \in {"wait", "return"},
           Enqueue(op, where, next),
           op \in {"GET", "UPDATE", "REMOVE"} => next = "wait",
           next = "wait" => me.op \in Waits,
           op = "APUT" => me.op = "aput", op = "AUPDATE" => me.op = "aupdate",
           UNCHANGED <<num, live, late, msgs, printed, ops>>
    PROVE  CliOk'
<1>0. /\ num' = num /\ live' = live /\ late' = late
      /\ msgs' = msgs /\ printed' = printed /\ ops' = ops
  OBVIOUS
<1>1. /\ CliTypes /\ CurrentInv /\ MessageInv /\ FrameInv /\ num \in Cmds /\ ops[num] = me.op
      /\ num \notin asked /\ num \in live /\ num \notin msgs /\ printed[num] = 0
      /\ rq[num].at = "none" /\ me.key \in Names
  BY Zenon DEF CliOk, CliTypes, CurrentInv, MessageInv
<1>2. CASE ~Room[where]
  <2>1. me' = [me EXCEPT !.pc = "terminated"] /\ rq' = rq /\ asked' = asked
    BY <1>2 DEF Enqueue, Terminate
  <2>2. "terminated" \in CliPcs /\ me.pc \notin {"wait", "status"}
    BY DEF CliPcs
  <2>3. /\ me'.pc = "terminated" /\ me'.key \in Names
        /\ DOMAIN me' = {"pc", "op", "key", "attrs"}
    BY Zenon, <2>1, <2>2, CliMe
  <2>4. me'.pc \in {"prompt", "terminated", "closing", "closed"}
    BY <2>3
  <2> QED
    BY <1>0, <2>1, <2>2, <2>3, <2>4, CliBack
<1>3. CASE Room[where]
  <2>1. PICK r : r = [op |-> op, key |-> me.key, at |-> where]
    BY Zenon
  <2>2. /\ rq' = [rq EXCEPT ![num] = r] /\ asked' = asked \cup {num}
        /\ me' = [me EXCEPT !.pc = next]
    BY Zenon, <1>3, <2>1 DEF Enqueue
  <2>3. r \in Requests /\ r.at = where /\ r.op = op /\ where # "none" /\ where # "push"
    BY <1>1, <2>1 DEF Requests
  <2>4. next \in CliPcs /\ next # "call" /\ next # "status" /\ me.pc # "status" /\ me.pc # "wait"
    BY DEF CliPcs
  <2>5. /\ me'.pc = next /\ me'.op = me.op /\ me'.key \in Names
        /\ DOMAIN me' = {"pc", "op", "key", "attrs"}
    BY Zenon, <2>2, <2>4, CliMe
  <2>6. /\ rq' \in [Cmds -> Requests] /\ rq'[num] = r
        /\ \A j \in Cmds : j # num => rq'[j] = rq[j]
    BY <1>1, <2>2, <2>3 DEF CliTypes
  <2>7. asked' \subseteq Cmds /\ \A i \in asked' : i <= num'
    BY <1>0, <1>1, <2>2 DEF CliTypes
  <2>8. CliTypes'
    BY Zenon, <1>0, <1>1, <2>2, <2>4, <2>5, <2>6, <2>7 DEF CliTypes
  <2>9. CurrentInv'
    BY Zenon, <1>0, <1>1, <2>4, <2>5 DEF CurrentInv
  <2>10. MessageInv'
    <3>1. ASSUME NEW i \in Cmds, i \notin asked'
          PROVE  i \notin msgs' /\ printed'[i] = 0 /\ rq'[i].at = "none"
      BY Zenon, <1>0, <1>1, <2>2, <2>6, <3>1 DEF MessageInv
    <3>2. ASSUME NEW i \in asked', ops'[i] \notin Waits
          PROVE  printed'[i] + (IF i \in msgs' /\ me'.pc # "status" THEN 1 ELSE 0)
                    + (IF rq'[i].at # "none" THEN 1 ELSE 0) = 1
      <4>1. CASE i = num
        <5>1. (IF i \in msgs' /\ me'.pc # "status" THEN 1 ELSE 0) = 0
          BY Zenon, <1>0, <1>1, <4>1
        <5>2. (IF rq'[i].at # "none" THEN 1 ELSE 0) = 1
          BY Zenon, <2>3, <2>6, <4>1
        <5>3. printed'[i] = 0
          BY Zenon, <1>0, <1>1, <4>1
        <5> QED
          BY <5>1, <5>2, <5>3
      <4>2. CASE i # num
        <5>1. i \in asked /\ i \in Cmds
          BY Zenon, <1>1, <2>2, <3>2, <4>2 DEF CliTypes
        <5>2. rq'[i] = rq[i] /\ (me'.pc # "status" <=> me.pc # "status")
          BY Zenon, <2>4, <2>5, <2>6, <4>2, <5>1
        <5> QED
          BY Zenon, <1>0, <1>1, <2>4, <2>5, <3>2, <5>1, <5>2 DEF MessageInv
      <4> QED
        BY Zenon, <4>1, <4>2
    <3> QED
      BY Zenon, <2>4, <2>5, <3>1, <3>2 DEF MessageInv
  <2>11. FrameInv'
    <3> SUFFICES ASSUME NEW i \in Cmds, rq'[i].at # "none"
                 PROVE  /\ i \in live' \/ i \in late'
                        /\ rq'[i].op \in {"GET", "UPDATE", "REMOVE"} =>
                             (i = num' /\ me'.pc = "wait") \/ i \in late'
                        /\ rq'[i].at = "push" => rq'[i].op \in {"AGET", "APUT", "AUPDATE"}
                        /\ rq'[i].op = "APUT" => ops'[i] = "aput"
                        /\ rq'[i].op = "AUPDATE" => ops'[i] = "aupdate"
      BY Zenon DEF FrameInv
    <3>1. CASE i = num
      BY Zenon, <1>0, <1>1, <2>3, <2>5, <2>6, <3>1
    <3>2. CASE i # num
      BY Zenon, <1>0, <1>1, <2>4, <2>6, <3>2 DEF FrameInv
    <3> QED
      BY Zenon, <3>1, <3>2
  <2> QED
    BY Zenon, <2>8, <2>9, <2>10, <2>11 DEF CliOk
<1> QED
  BY Zenon, <1>2, <1>3

(* A command is read: its number is new, and nothing is known of it.        *)
LEMMA CliCommand ==
    ASSUME CliOk, NEW op \in CmdNames, NEW k \in Keys, NEW words,
           Command(op, k, words)
    PROVE  CliOk'
<1>0. /\ CliTypes /\ CurrentInv /\ MessageInv /\ FrameInv /\ me.pc = "prompt"
      /\ num' = num + 1 /\ live' = live \cup {num + 1} /\ ops' = [ops EXCEPT ![num + 1] = op]
      /\ asked' = asked /\ rq' = rq /\ late' = late /\ msgs' = msgs /\ printed' = printed
      /\ num < MaxCommands
  BY DEF CliOk, Command, MainAt
<1>10. PICK a : a = _getKeyAttrs(words)
  BY Zenon
<1>11. PICK p : p = IF "bad_cast" \in a THEN "terminated" ELSE "call"
  BY Zenon
<1>1. p \in {"terminated", "call"} /\ me' = [pc |-> p, op |-> op, key |-> k, attrs |-> a]
  <2>1. p \in {"terminated", "call"}
    BY Zenon, <1>11
  <2>2. me' = [pc |-> p, op |-> op, key |-> k, attrs |-> a]
    BY Zenon, <1>10, <1>11 DEF Command
  <2> QED
    BY Zenon, <2>1, <2>2
<1>2. /\ me'.pc = p /\ me'.op = op /\ me'.key = k /\ DOMAIN me' = {"pc", "op", "key", "attrs"}
      /\ p \in CliPcs /\ p \notin {"wait", "status", "return"} /\ me.pc # "wait" /\ me.pc # "status"
  BY <1>0, <1>1 DEF CliPcs
<1>3. PICK m \in Cmds : m = num + 1 /\ m \in 0 .. MaxCommands
  BY <1>0, CliAssumption DEF CliTypes, Cmds
<1>4. /\ ops' \in [Cmds -> CliOps] /\ ops'[m] = op
      /\ \A i \in Cmds : i # m => ops'[i] = ops[i]
  <2>1. op \in CliOps
    BY Zenon DEF CliOps
  <2> QED
    BY <1>0, <1>3, <2>1 DEF CliTypes
<1>5. m \notin asked /\ \A i \in asked : i <= m
  <2>1. \A i \in asked : i \in Int /\ i <= num /\ num \in Int
    BY <1>0 DEF CliTypes, Cmds
  <2> QED
    BY <1>3, <2>1
<1>6. CliTypes'
  <2>1. me'.key \in Names
    BY Zenon, <1>2 DEF Names
  <2> QED
    BY Zenon, <1>0, <1>2, <1>3, <1>4, <1>5, <2>1 DEF CliTypes
<1>7. CurrentInv'
  BY <1>0, <1>2, <1>3, <1>4, <1>5 DEF CurrentInv
<1>8. MessageInv'
  <2>1. ASSUME NEW i \in asked
        PROVE  ops'[i] = ops[i]
    BY Zenon, <1>0, <1>4, <1>5, <2>1 DEF CliTypes
  <2>2. me'.pc # "status"
    BY <1>2
  <2> QED
    BY Zenon, <1>0, <1>2, <2>1, <2>2 DEF MessageInv
<1>9. FrameInv'
  <2> SUFFICES ASSUME NEW i \in Cmds, rq'[i].at # "none"
               PROVE  /\ i \in live' \/ i \in late'
                      /\ rq'[i].op \in {"GET", "UPDATE", "REMOVE"} =>
                           (i = num' /\ me'.pc = "wait") \/ i \in late'
                      /\ rq'[i].at = "push" => rq'[i].op \in {"AGET", "APUT", "AUPDATE"}
                      /\ rq'[i].op = "APUT" => ops'[i] = "aput"
                      /\ rq'[i].op = "AUPDATE" => ops'[i] = "aupdate"
    BY Zenon DEF FrameInv
  <2>1. i \in asked
    BY Zenon, <1>0 DEF MessageInv
  <2>2. ops'[i] = ops[i]
    BY Zenon, <1>4, <1>5, <2>1
  <2> QED
    BY Zenon, <1>0, <1>2, <2>2 DEF FrameInv
<1> QED
  BY Zenon, <1>6, <1>7, <1>8, <1>9 DEF CliOk

(* The commands, one by one.                                                *)
LEMMA CliCalls ==
    ASSUME CliOk,
           \/ _cmdGet \/ _cmdGetAsync \/ PutAllocFails \/ _cmdPut
           \/ _cmdPutAsync \/ _cmdUpdate \/ _cmdUpdateAsync \/ _cmdRemove,
           fault' = "none"
    PROVE  CliOk'
<1>1. me.pc = "call" /\ UNCHANGED <<num, late, msgs, printed, ops>>
  BY DEF _cmdGet, _cmdGetAsync, PutAllocFails, _cmdPut, _cmdPutAsync,
         _cmdUpdate, _cmdUpdateAsync, _cmdRemove, Calling, MainAt
<1>2. ASSUME Done, live' = live \/ live' = live \ {num}, rq' = rq, asked' = asked
      PROVE  CliOk'
  <2>1. "prompt" \in CliPcs /\ me.pc \notin {"wait", "status"}
    BY <1>1 DEF CliPcs
  <2>2. /\ me'.pc = "prompt" /\ me'.key \in Names
        /\ DOMAIN me' = {"pc", "op", "key", "attrs"}
    BY Zenon, <1>2, <2>1, CliMe DEF Done
  <2>3. me'.pc \in {"prompt", "terminated", "closing", "closed"}
    BY <2>2
  <2> QED
    BY <1>1, <1>2, <2>1, <2>2, <2>3, CliBack
<1>3. CASE _cmdGet
  <2>1. ASSUME Enqueue("GET", "off", "wait"), live' = live, me.op = "get"
        PROVE  CliOk'
    <3>1. me.op \in Waits
      BY <2>1 DEF Waits
    <3> QED
      BY <1>1, <2>1, <3>1, CliEnqueue
  <2> QED
    BY Zenon, <1>2, <1>3, <2>1 DEF _cmdGet, Calling
<1>4. CASE _cmdGetAsync
  <2>1. ASSUME NEW where \in {"pmem", "off"}, Enqueue("AGET", where, "return"), live' = live
        PROVE  CliOk'
    BY <1>1, <2>1, CliEnqueue
  <2>2. live' = live
    BY <1>4 DEF _cmdGetAsync
  <2>3. (IF LongTerm THEN "off" ELSE "pmem") \in {"pmem", "off"}
    OBVIOUS
  <2> QED
    BY Zenon, <1>2, <1>4, <2>1, <2>2, <2>3 DEF _cmdGetAsync
<1>5. CASE PutAllocFails
  BY <1>2, <1>5 DEF PutAllocFails
<1>6. CASE _cmdPut
  BY <1>2, <1>6 DEF _cmdPut
<1>7. CASE _cmdPutAsync
  <2>1. ASSUME Enqueue("APUT", "pmem", "return"), live' = live, me.op = "aput"
        PROVE  CliOk'
    BY <1>1, <2>1, CliEnqueue
  <2> QED
    BY Zenon, <1>2, <1>7, <2>1 DEF _cmdPutAsync, Calling
<1>8. CASE _cmdUpdate
  <2>1. ASSUME Enqueue("UPDATE", "off", "wait"), live' = live, me.op = "update"
        PROVE  CliOk'
    <3>1. me.op \in Waits
      BY <2>1 DEF Waits
    <3> QED
      BY <1>1, <2>1, <3>1, CliEnqueue
  <2>2. live' = live
    BY <1>8 DEF _cmdUpdate
  <2> QED
    BY Zenon, <1>2, <1>8, <2>1, <2>2 DEF _cmdUpdate, Calling
<1>9. CASE _cmdUpdateAsync
  <2>1. ASSUME Enqueue("AUPDATE", "off", "return"), live' = live, me.op = "aupdate"
        PROVE  CliOk'
    BY <1>1, <2>1, CliEnqueue
  <2>2. live' = live
    BY <1>9 DEF _cmdUpdateAsync
  <2>3. fault' # "heap"
    OBVIOUS
  <2> QED
    BY Zenon, <1>2, <1>9, <2>1, <2>2, <2>3 DEF _cmdUpdateAsync, Calling
<1>10. CASE _cmdRemove
  <2>1. ASSUME Enqueue("REMOVE", "off", "wait"), live' = live, me.op = "remove"
        PROVE  CliOk'
    <3>1. me.op \in Waits
      BY <2>1 DEF Waits
    <3> QED
      BY <1>1, <2>1, <3>1, CliEnqueue
  <2>2. live' = live
    BY <1>10 DEF _cmdRemove
  <2> QED
    BY Zenon, <1>2, <1>10, <2>1, <2>2 DEF _cmdRemove, Calling
<1> QED
  BY Zenon, <1>3, <1>4, <1>5, <1>6, <1>7, <1>8, <1>9, <1>10

(* An asynchronous command returns, and the user leaves the shell.          *)
LEMMA CliLeaves ==
    ASSUME CliOk, CmdReturn \/ Quit \/ Close
    PROVE  CliOk'
<1>1. /\ me.pc \notin {"wait", "status"} /\ live' = live
      /\ UNCHANGED <<num, rq, asked, late, msgs, printed, ops>>
  BY DEF CmdReturn, Quit, Close, MainAt
<1>2. "closing" \in CliPcs /\ "closed" \in CliPcs
  BY DEF CliPcs
<1>3. \/ me' = Prompt \/ me' = [me EXCEPT !.pc = "closing"] \/ me' = [me EXCEPT !.pc = "closed"]
  BY Zenon DEF CmdReturn, Quit, Close, Done
<1>4. /\ me'.pc = "prompt" \/ me'.pc = "closing" \/ me'.pc = "closed"
      /\ me'.key \in Names /\ DOMAIN me' = {"pc", "op", "key", "attrs"}
  BY Zenon, <1>2, <1>3, CliMe
<1>5. me'.pc \in {"prompt", "terminated", "closing", "closed"}
  BY <1>4
<1> QED
  BY <1>1, <1>4, <1>5, CliBack

(* The wait ends with the answer: the request is gone with the frame.       *)
LEMMA CliAnswered ==
    ASSUME CliOk, Answered
    PROVE  CliOk'
<1>0. /\ CliTypes /\ CurrentInv /\ MessageInv /\ FrameInv /\ me.pc = "wait"
      /\ rq[num].at = "ready" /\ me' = Prompt /\ (live' = live \/ live' = live \ {num})
      /\ rq' = [rq EXCEPT ![num] = NoRqst]
      /\ num' = num /\ ops' = ops
      /\ asked' = asked /\ late' = late /\ msgs' = msgs /\ printed' = printed
  BY DEF CliOk, Answered, MainAt, Done, Freed
<1>1. num \in Cmds /\ ops[num] \in Waits /\ num \in asked
  <2>1. me.pc \in {"call", "wait", "return"} /\ rq[num].at # "none"
    BY <1>0
  <2> QED
    BY Zenon, <1>0, <2>1 DEF CurrentInv, MessageInv
<1>2. "prompt" \in CliPcs
  BY DEF CliPcs
<1>3. /\ me'.pc = "prompt" /\ me'.key \in Names /\ DOMAIN me' = {"pc", "op", "key", "attrs"}
  BY Zenon, <1>0, <1>2, CliMe
<1>4. /\ me'.pc \notin {"call", "wait", "return"} /\ me'.pc # "call" /\ me'.pc # "wait"
      /\ me'.pc # "status" /\ me.pc # "status"
  BY <1>0, <1>3
<1>5. PICK r : r = NoRqst
  BY Zenon
<1>6. r \in Requests /\ r.at = "none"
  BY <1>5 DEF NoRqst, Requests, Names
<1>7. /\ rq' \in [Cmds -> Requests] /\ rq'[num] = r
      /\ \A j \in Cmds : j # num => rq'[j] = rq[j]
  BY <1>0, <1>1, <1>5, <1>6 DEF CliTypes
<1>8. CliTypes'
  BY Zenon, <1>0, <1>2, <1>3, <1>7 DEF CliTypes
<1>9. CurrentInv'
  BY Zenon, <1>4 DEF CurrentInv
<1>10. MessageInv'
  <2>1. ASSUME NEW i \in asked, ops[i] \notin Waits
        PROVE  rq'[i] = rq[i] /\ i \in Cmds
    BY Zenon, <1>0, <1>1, <1>7, <2>1 DEF CliTypes
  <2> QED
    BY Zenon, <1>0, <1>1, <1>4, <1>7, <2>1 DEF MessageInv
<1>11. FrameInv'
  BY Zenon, <1>0, <1>6, <1>7 DEF FrameInv
<1> QED
  BY Zenon, <1>8, <1>9, <1>10, <1>11 DEF CliOk

(* The wait ends without an answer: from here on the command is late.       *)
LEMMA CliTimeOut ==
    ASSUME CliOk, TimeOut
    PROVE  CliOk'
<1>0. /\ CliTypes /\ CurrentInv /\ MessageInv /\ FrameInv /\ me.pc = "wait"
      /\ me' = Prompt /\ (live' = live \/ live' = live \ {num})
      /\ late' = late \cup {num} /\ rq' = rq
      /\ num' = num /\ ops' = ops
      /\ asked' = asked /\ msgs' = msgs /\ printed' = printed
  BY DEF CliOk, TimeOut, MainAt, Done, Freed
<1>1. "prompt" \in CliPcs
  BY DEF CliPcs
<1>2. /\ me'.pc = "prompt" /\ me'.key \in Names /\ DOMAIN me' = {"pc", "op", "key", "attrs"}
  BY Zenon, <1>0, <1>1, CliMe
<1>3. /\ me'.pc \notin {"call", "wait", "return"} /\ me'.pc # "call" /\ me'.pc # "wait"
      /\ me'.pc # "status" /\ me.pc # "status"
  BY <1>0, <1>2
<1>4. CliTypes'
  BY Zenon, <1>0, <1>1, <1>2 DEF CliTypes
<1>5. CurrentInv'
  BY Zenon, <1>3 DEF CurrentInv
<1>6. MessageInv'
  BY Zenon, <1>0, <1>3 DEF MessageInv
<1>7. FrameInv'
  BY Zenon, <1>0 DEF FrameInv
<1> QED
  BY Zenon, <1>4, <1>5, <1>6, <1>7 DEF CliOk

(* status shows every message, and then clears them.                        *)
LEMMA CliStatus ==
    ASSUME CliOk, _cmdStatus, fault' = "none"
    PROVE  CliOk'
<1>0. /\ CliTypes /\ CurrentInv /\ MessageInv /\ FrameInv /\ me.pc = "prompt" /\ me.pc # "status"
      /\ rq' = rq /\ num' = num /\ ops' = ops /\ live' = live /\ late' = late
      /\ asked' = asked /\ msgs' = msgs /\ ~InVector
      /\ me' = [me EXCEPT !.pc = "status"]
      /\ printed' = [i \in Cmds |-> printed[i] + (IF i \in msgs THEN 1 ELSE 0)]
  BY DEF CliOk, _cmdStatus, MainAt
<1>1. "status" \in CliPcs
  BY DEF CliPcs
<1>2. /\ me'.pc = "status" /\ me'.key \in Names /\ DOMAIN me' = {"pc", "op", "key", "attrs"}
  BY Zenon, <1>0, <1>1, CliMe
<1>3. /\ me'.pc \notin {"call", "wait", "return"} /\ me'.pc # "call" /\ me'.pc # "wait"
      /\ me.pc # "wait"
  BY <1>0, <1>2
<1>4. \A i \in Cmds : rq[i].at # "push"
  BY Zenon, <1>0 DEF InVector, Waiting
<1>5. \A i \in Cmds : /\ printed[i] \in Nat /\ printed'[i] \in Nat
                      /\ printed'[i] = printed[i] + (IF i \in msgs THEN 1 ELSE 0)
  BY <1>0 DEF CliTypes
<1>6. CliTypes'
  <2>1. printed' \in [Cmds -> Nat]
    BY Zenon, <1>0, <1>5
  <2> QED
    BY Zenon, <1>0, <1>1, <1>2, <2>1 DEF CliTypes
<1>7. CurrentInv'
  BY Zenon, <1>3 DEF CurrentInv
<1>8. MessageInv'
  <2>1. ASSUME NEW i \in Cmds, i \notin asked
        PROVE  i \notin msgs /\ printed'[i] = 0 /\ rq[i].at = "none"
    <3>1. i \notin msgs /\ printed[i] = 0 /\ rq[i].at = "none"
      BY Zenon, <1>0, <2>1 DEF MessageInv
    <3> QED
      BY <1>5, <3>1
  <2>2. ASSUME NEW i \in asked, ops[i] \notin Waits
        PROVE  printed'[i] + (IF i \in msgs' /\ me'.pc # "status" THEN 1 ELSE 0)
                  + (IF rq'[i].at # "none" THEN 1 ELSE 0) = 1
    <3>1. i \in Cmds /\ me'.pc = "status" /\ me.pc # "status" /\ rq' = rq
      BY Zenon, <1>0, <1>2 DEF CliTypes
    <3>2. printed[i] + (IF i \in msgs /\ me.pc # "status" THEN 1 ELSE 0)
                  + (IF rq[i].at # "none" THEN 1 ELSE 0) = 1
      BY Zenon, <1>0, <2>2 DEF MessageInv
    <3> QED
      BY <1>5, <3>1, <3>2
  <2> QED
    BY Zenon, <1>0, <1>4, <2>1, <2>2 DEF MessageInv
<1>9. FrameInv'
  BY Zenon, <1>0, <1>3 DEF FrameInv
<1> QED
  BY Zenon, <1>6, <1>7, <1>8, <1>9 DEF CliOk

(* What was shown is forgotten.                                             *)
LEMMA CliStatusClear ==
    ASSUME CliOk, StatusClear
    PROVE  CliOk'
<1>0. /\ CliTypes /\ CurrentInv /\ MessageInv /\ FrameInv /\ me.pc = "status"
      /\ rq' = rq /\ num' = num /\ ops' = ops /\ live' = live /\ late' = late
      /\ asked' = asked /\ msgs' = {} /\ me' = Prompt /\ printed' = printed
  BY DEF CliOk, StatusClear, MainAt, Done
<1>1. "prompt" \in CliPcs
  BY DEF CliPcs
<1>2. /\ me'.pc = "prompt" /\ me'.key \in Names /\ DOMAIN me' = {"pc", "op", "key", "attrs"}
  BY Zenon, <1>0, <1>1, CliMe
<1>3. /\ me'.pc \notin {"call", "wait", "return"} /\ me'.pc # "call" /\ me'.pc # "wait"
      /\ me'.pc # "status" /\ me.pc # "wait"
  BY <1>0, <1>2
<1>4. CliTypes'
  BY Zenon, <1>0, <1>1, <1>2 DEF CliTypes
<1>5. CurrentInv'
  BY Zenon, <1>3 DEF CurrentInv
<1>6. MessageInv'
  <2>1. \A i : ~(i \in msgs' /\ me'.pc # "status") /\ ~(i \in msgs /\ me.pc # "status")
    BY Zenon, <1>0
  <2>2. \A i \in asked : (IF i \in msgs' /\ me'.pc # "status" THEN 1 ELSE 0)
                         = (IF i \in msgs /\ me.pc # "status" THEN 1 ELSE 0)
    BY Zenon, <2>1
  <2> QED
    BY Zenon, <1>0, <1>3, <2>2 DEF MessageInv
<1>7. FrameInv'
  BY Zenon, <1>0, <1>3 DEF FrameInv
<1> QED
  BY Zenon, <1>4, <1>5, <1>6, <1>7 DEF CliOk

(* A callback has added its message: the request is gone.                   *)
LEMMA CliPushEnd ==
    ASSUME CliOk, NEW i \in Cmds, PushEnd(i), fault = "none", fault' = "none"
    PROVE  CliOk'
<1>0. /\ CliTypes /\ CurrentInv /\ MessageInv /\ FrameInv /\ rq[i].at = "push"
      /\ msgs' = msgs \cup {i} /\ (live' = live \/ live' = live \ {i})
      /\ rq' = [rq EXCEPT ![i] = NoRqst]
      /\ num' = num /\ ops' = ops /\ late' = late /\ me' = me
      /\ asked' = asked /\ printed' = printed
  <2>1. fault' # "shell" /\ fault' # "frame"
    OBVIOUS
  <2> QED
    BY Zenon, <2>1 DEF CliOk, PushEnd
<1>1. rq[i].at # "none" /\ me.pc # "status" /\ i \in asked
  <2>1. rq[i].at # "none"
    BY <1>0
  <2> QED
    BY Zenon, <1>0, <2>1 DEF MessageInv
<1>2. PICK r : r = NoRqst
  BY Zenon
<1>3. r \in Requests /\ r.at = "none" /\ r.at # "push"
  BY <1>2 DEF NoRqst, Requests, Names
<1>4. /\ rq' \in [Cmds -> Requests] /\ rq'[i] = r
      /\ \A j \in Cmds : j # i => rq'[j] = rq[j]
  BY <1>0, <1>2, <1>3 DEF CliTypes
<1>5. CliTypes'
  BY Zenon, <1>0, <1>4 DEF CliTypes
<1>6. CurrentInv'
  <2>1. me.pc = "call" => num # i
    BY Zenon, <1>0, <1>1 DEF CurrentInv
  <2> QED
    BY Zenon, <1>0, <2>1 DEF CurrentInv
<1>7. MessageInv'
  <2>1. ASSUME NEW j \in Cmds, j \notin asked
        PROVE  j \notin msgs' /\ printed'[j] = 0 /\ rq'[j].at = "none"
    BY Zenon, <1>0, <1>1, <1>4, <2>1 DEF MessageInv
  <2>2. ASSUME NEW j \in asked, ops[j] \notin Waits
        PROVE  printed'[j] + (IF j \in msgs' /\ me'.pc # "status" THEN 1 ELSE 0)
                  + (IF rq'[j].at # "none" THEN 1 ELSE 0) = 1
    <3>1. /\ j \in Cmds /\ printed[j] \in Nat
          /\ printed[j] + (IF j \in msgs /\ me.pc # "status" THEN 1 ELSE 0)
                  + (IF rq[j].at # "none" THEN 1 ELSE 0) = 1
      BY Zenon, <1>0, <2>2 DEF MessageInv, CliTypes
    <3>2. CASE j = i
      <4>1. (IF rq[j].at # "none" THEN 1 ELSE 0) = 1 /\ (IF rq'[j].at # "none" THEN 1 ELSE 0) = 0
        BY Zenon, <1>1, <1>3, <1>4, <3>2
      <4>2. (IF j \in msgs' /\ me'.pc # "status" THEN 1 ELSE 0) = 1
        BY Zenon, <1>0, <1>1, <3>2
      <4> QED
        BY <1>0, <3>1, <4>1, <4>2
    <3>3. CASE j # i
      BY Zenon, <1>0, <1>4, <3>1, <3>3
    <3> QED
      BY Zenon, <3>2, <3>3
  <2> QED
    BY Zenon, <1>0, <1>1, <2>1, <2>2 DEF MessageInv
<1>8. FrameInv'
  BY Zenon, <1>0, <1>3, <1>4 DEF FrameInv
<1> QED
  BY Zenon, <1>5, <1>6, <1>7, <1>8 DEF CliOk

(* The threads of the store, one by one.                                    *)
LEMMA CliThreads ==
    ASSUME CliOk, fault = "none", fault' = "none", NEW i \in Cmds,
           \/ UsesFreedKey(i) \/ PmemProcess(i) \/ OffProcess(i) \/ Finalize(i)
           \/ SyncCallback(i) \/ PushBegin(i) \/ PushEnd(i)
    PROVE  CliOk'
<1>0. fault' # "heap" /\ fault' # "frame" /\ fault' # "shell" /\ fault' # "vector"
  OBVIOUS
<1>1. ASSUME NEW where \in {"off", "dev", "clb", "ready"}, Goes(i, where), rq[i].at # "none",
             CliKept
      PROVE  CliOk'
  <2>1. where \in {"off", "dev", "clb", "push", "ready"} /\ where # "push"
    OBVIOUS
  <2> QED
    BY <1>1, <2>1, CliGoes
<1>2. CASE PmemProcess(i)
  <2>1. rq[i].at # "none" /\ CliKept
    BY <1>2 DEF PmemProcess, CliKept
  <2>2. PICK where \in {"off", "clb"} : Goes(i, where)
    <3>1. "clb" \in {"off", "clb"} /\ "off" \in {"off", "clb"}
      OBVIOUS
    <3> QED
      BY Zenon, <1>2, <3>1 DEF PmemProcess
  <2>3. where \in {"off", "dev", "clb", "ready"}
    OBVIOUS
  <2> QED
    BY Zenon, <1>1, <2>1, <2>2, <2>3
<1>3. CASE OffProcess(i)
  <2>1. rq[i].at # "none" /\ CliKept
    BY Zenon, <1>3 DEF OffProcess, CliKept
  <2>2. PICK where \in {"clb", "dev"} : Goes(i, where)
    <3>1. "clb" \in {"clb", "dev"} /\ "dev" \in {"clb", "dev"}
      OBVIOUS
    <3> QED
      BY Zenon, <1>3, <3>1 DEF OffProcess
  <2>3. where \in {"off", "dev", "clb", "ready"}
    OBVIOUS
  <2> QED
    BY Zenon, <1>1, <2>1, <2>2, <2>3
<1>4. CASE Finalize(i)
  <2>1. /\ rq[i].at # "none" /\ CliKept
        /\ Goes(i, "clb") /\ "clb" \in {"off", "dev", "clb", "ready"}
    BY Zenon, <1>4 DEF Finalize, CliKept
  <2> QED
    BY Zenon, <1>1, <2>1
<1>5. CASE SyncCallback(i)
  <2>1. /\ rq[i].at # "none" /\ CliKept
        /\ "ready" \in {"off", "dev", "clb", "ready"}
    BY <1>5 DEF SyncCallback, CliKept
  <2>2. Goes(i, "ready")
    BY Zenon, <1>0, <1>5 DEF SyncCallback
  <2> QED
    BY Zenon, <1>1, <2>1, <2>2
<1>6. CASE PushBegin(i)
  <2>1. /\ rq[i].at # "none" /\ CliKept
        /\ rq[i].op \in {"AGET", "APUT", "AUPDATE"}
        /\ "push" \in {"off", "dev", "clb", "push", "ready"}
    BY <1>6 DEF PushBegin, CliKept
  <2>2. Goes(i, "push") /\ me.pc # "status"
    BY Zenon, <1>0, <1>6 DEF PushBegin
  <2> QED
    BY Zenon, <2>1, <2>2, CliGoes
<1>7. CASE UsesFreedKey(i)
  BY Zenon, <1>0, <1>7 DEF UsesFreedKey
<1> QED
  BY Zenon, <1>2, <1>3, <1>4, <1>5, <1>6, <1>7, CliPushEnd

(* What goes wrong with a frame or a key: a wait has timed out, or there    *)
(* was an asynchronous put or update.                                       *)
LEMMA CliFault ==
    ASSUME CliOk, fault = "none", CliNext, fault' \in {"heap", "frame"}
    PROVE  OnlyLateCallbacksDangle'
<1>0. CurrentInv /\ FrameInv /\ MessageInv /\ fault' # "none" /\ fault' # "vector" /\ fault' # "shell"
  BY DEF CliOk
<1>1. late' = late /\ ops' = ops /\ (late # {} \/ \E i \in Cmds : ops[i] \in Dangling)
  <2>1. CASE _cmdUpdateAsync
    <3>1. /\ late' = late /\ ops' = ops /\ me.op = "aupdate"
          /\ me.pc \in {"call", "wait", "return"}
      BY <2>1 DEF _cmdUpdateAsync, Calling, MainAt
    <3>2. num \in Cmds /\ ops[num] = "aupdate"
      BY Zenon, <1>0, <3>1 DEF CurrentInv
    <3>3. "aupdate" \in Dangling
      BY DEF Dangling
    <3> QED
      BY Zenon, <3>1, <3>2, <3>3
  <2>2. ASSUME NEW i \in Cmds, UsesFreedKey(i)
        PROVE  late' = late /\ ops' = ops /\ late # {}
    <3>1. late' = late /\ ops' = ops /\ i \notin live /\ rq[i].at # "none"
      BY <2>2 DEF UsesFreedKey
    <3> QED
      BY Zenon, <1>0, <3>1 DEF FrameInv
  <2>3. ASSUME NEW i \in Cmds, SyncCallback(i)
        PROVE  late' = late /\ ops' = ops /\ late # {}
    <3>1. late' = late /\ ops' = ops /\ rq[i].at # "none" /\ rq[i].op \in {"GET", "UPDATE", "REMOVE"}
      BY <2>3 DEF SyncCallback
    <3>2. ~(i = num /\ me.pc = "wait")
      BY <2>3 DEF SyncCallback
    <3> QED
      BY Zenon, <1>0, <3>1, <3>2 DEF FrameInv
  <2>4. ASSUME NEW i \in Cmds, PushEnd(i)
        PROVE  late' = late /\ ops' = ops /\ ops[i] \in Dangling
    <3>1. late' = late /\ ops' = ops /\ rq[i].at = "push" /\ rq[i].at # "none"
      BY <2>4 DEF PushEnd
    <3>2. rq[i].op # "AGET"
      BY Zenon, <1>0, <2>4 DEF PushEnd
    <3>3. rq[i].op = "APUT" \/ rq[i].op = "AUPDATE"
      BY Zenon, <1>0, <3>1, <3>2 DEF FrameInv
    <3>4. ops[i] = "aput" \/ ops[i] = "aupdate"
      BY Zenon, <1>0, <3>1, <3>3 DEF FrameInv
    <3> QED
      BY <3>1, <3>4 DEF Dangling
  <2>5. ASSUME NEW i \in Cmds, PushBegin(i)
        PROVE  FALSE
    BY Zenon, <1>0, <2>5 DEF PushBegin
  <2>6. ~_cmdStatus
    BY Zenon, <1>0 DEF _cmdStatus
  <2>7. fault' # fault
    BY <1>0
  <2>8. /\ ~_cmdGet /\ ~_cmdGetAsync /\ ~PutAllocFails /\ ~_cmdPut
        /\ ~_cmdPutAsync /\ ~_cmdUpdate /\ ~_cmdRemove
    BY <2>7 DEF _cmdGet, _cmdGetAsync, PutAllocFails, _cmdPut, _cmdPutAsync,
                _cmdUpdate, _cmdRemove
  <2>9. /\ ~CmdReturn /\ ~Answered /\ ~TimeOut /\ ~StatusClear /\ ~Close
        /\ ~Quit
    BY <2>7 DEF CmdReturn, Answered, TimeOut, StatusClear, Close, Quit
  <2>10. \A i \in Cmds : ~PmemProcess(i) /\ ~OffProcess(i) /\ ~Finalize(i)
    BY Zenon, <2>7 DEF PmemProcess, OffProcess, Finalize
  <2>11. \A op \in CmdNames, k \in Keys, words \in Lines : ~Command(op, k, words)
    BY <2>7 DEF Command
  <2> QED
    BY Zenon, <2>1, <2>2, <2>3, <2>4, <2>5, <2>6, <2>8, <2>9, <2>10, <2>11 DEF CliNext
<1> QED
  BY Zenon, <1>1 DEF OnlyLateCallbacksDangle

(* The shell starts with nothing asked and nothing shown.                   *)
LEMMA CliStarts ==
    ASSUME CliInit
    PROVE  CliInv
<1>1. /\ me = Prompt /\ num = 0 /\ asked = {} /\ msgs = {} /\ fault = "none"
      /\ rq = [i \in Cmds |-> NoRqst] /\ printed = [i \in Cmds |-> 0]
      /\ ops = [i \in Cmds |-> "none"]
  BY DEF CliInit
<1>2. NoRqst \in Requests /\ NoRqst.at = "none"
  BY DEF NoRqst, Requests, Names
<1>3. /\ me.pc = "prompt" /\ me.key \in Names /\ DOMAIN me = {"pc", "op", "key", "attrs"}
      /\ me.pc \in CliPcs
  BY <1>1 DEF Prompt, Names, CliPcs
<1>4. rq \in [Cmds -> Requests] /\ \A i \in Cmds : rq[i].at = "none"
  BY Zenon, <1>1, <1>2
<1>5. CliTypes
  <2>1. printed \in [Cmds -> Nat] /\ ops \in [Cmds -> CliOps] /\ num \in 0 .. MaxCommands
    BY <1>1, CliAssumption DEF CliOps
  <2> QED
    BY Zenon, <1>1, <1>3, <1>4, <2>1 DEF CliTypes
<1>6. me.pc \notin {"call", "wait", "return"} /\ me.pc # "call" /\ me.pc # "wait" /\ me.pc # "status"
  BY <1>3
<1>7. CurrentInv
  BY Zenon, <1>6 DEF CurrentInv
<1>8. MessageInv
  BY Zenon, <1>1, <1>4, <1>6 DEF MessageInv
<1>9. FrameInv
  BY Zenon, <1>4 DEF FrameInv
<1>10. fault \notin {"heap", "frame"}
  BY <1>1
<1> QED
  BY Zenon, <1>5, <1>7, <1>8, <1>9, <1>10 DEF CliInv, CliOk, OnlyLateCallbacksDangle

(* Every step of the shell and of the store's threads keeps the invariant.  *)
LEMMA CliStepOk ==
    ASSUME CliInv, [CliNext]_cliVars
    PROVE  CliInv'
<1>1. CASE UNCHANGED cliVars
  <2>1. /\ num' = num /\ rq' = rq /\ asked' = asked /\ late' = late /\ me' = me /\ live' = live
        /\ msgs' = msgs /\ printed' = printed /\ ops' = ops /\ fault' = fault
    BY <1>1 DEF cliVars
  <2> QED
    BY Zenon, <2>1 DEF CliInv, CliOk, CliTypes, CurrentInv, MessageInv, FrameInv,
       OnlyLateCallbacksDangle
<1>2. CASE CliNext
  <2>1. fault = "none"
    BY Zenon, <1>2 DEF CliNext, Command, _cmdStatus, Quit, _cmdGet,
       _cmdGetAsync, PutAllocFails, _cmdPut, _cmdPutAsync, _cmdUpdate,
       _cmdUpdateAsync, _cmdRemove, CmdReturn, Answered, TimeOut,
       StatusClear, Close, UsesFreedKey, PmemProcess, OffProcess,
       Finalize, SyncCallback, PushBegin, PushEnd, Calling, MainAt, Running
  <2>2. CliOk
    BY Zenon, <2>1 DEF CliInv
  <2>3. fault' = "none" => CliOk'
    BY Zenon, <1>2, <2>1, <2>2, CliCommand, CliCalls, CliLeaves, CliAnswered, CliTimeOut, CliStatus,
       CliStatusClear, CliThreads DEF CliNext
  <2>4. OnlyLateCallbacksDangle'
    BY Zenon, <1>2, <2>1, <2>2, CliFault DEF OnlyLateCallbacksDangle
  <2> QED
    BY Zenon, <2>3, <2>4 DEF CliInv
<1> QED
  BY Zenon, <1>1, <1>2

-----------------------------------------------------------------------------
(* In every state of the shell that is defined, a request refers to a key   *)
(* that is allocated and to a frame that waits for it, unless its wait has  *)
(* timed out, and a message is in one place.                                *)
THEOREM CliInvariant == CliSpec => []CliInv
<1>1. CliInit => CliInv
  BY CliStarts
<1>2. CliInv /\ [CliNext]_cliVars => CliInv'
  BY CliStepOk
<1> QED
  BY <1>1, <1>2, PTL DEF CliSpec

(* No use of a dead frame or of a freed key without a time-out, an          *)
(* asynchronous put or an asynchronous update: for any number of commands.  *)
THEOREM CliOnlyLateCallbacksDangle == CliSpec => []OnlyLateCallbacksDangle
<1>1. CliInv => OnlyLateCallbacksDangle
  BY Zenon DEF CliInv
<1> QED
  BY <1>1, CliInvariant, PTL

(* No message is lost or shown twice while _statusMsgs is used by one       *)
(* thread at a time.                                                        *)
THEOREM CliReportedOnce == CliSpec => []ReportedOnce
<1>1. CliInv => ReportedOnce
  BY Zenon DEF CliInv, CliOk, MessageInv, ReportedOnce
<1> QED
  BY <1>1, CliInvariant, PTL
=============================================================================
