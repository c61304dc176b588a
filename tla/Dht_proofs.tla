----------------------------- MODULE Dht_proofs -----------------------------
(***************************************************************************)
(* Proofs about Dht.  A client's sessions are a prefix of the list of      *)
(* neighbours that all clients of its node share, so the session ids that  *)
(* they overwrite for one another in DhtNode agree; and while no thread    *)
(* mixes buffered and unbuffered keys, the key in the request buffer is    *)
(* the one the thread holds.  From these two facts a request reaches the   *)
(* owner of its key, and what the handlers do there follows.               *)
(***************************************************************************)
EXTENDS Dht, WellFoundedInduction, TLAPS

Requests == {"get", "put", "remove"}
Handled == {"serve", "announce", "resp"}

ClientFields == {"st", "rpc", "sess", "idx", "keyUse", "valUse", "buf"}

CallRecords ==
    [op : {"none", "get", "put", "remove", "getany", "allockey"},
     key : AnyKeys \cup {None}, val : Values \cup {None}, buffered : BOOLEAN,
     pc : {"idle", "client", "queued"} \cup Handled, host : Hosts \cup {NotSet},
     msg : AnyKeys \cup {None}, status : {"OK", "KEY_NOT_FOUND", "QUEUE_FULL_ERROR"},
     res : Values \cup AnyKeys \cup {None}]

(* The values that the variables have; nothing is said of busy and alive,   *)
(* which no safety property needs.                                          *)
TypeInv ==
    /\ DOMAIN cl = Threads
    /\ \A t \in Threads : /\ DOMAIN cl[t] = ClientFields
                          /\ cl[t].st \in {"none", "init", "ready", "error"}
                          /\ cl[t].sess \in Seq(Hosts) /\ cl[t].idx \in Nat
                          /\ cl[t].keyUse \in BOOLEAN /\ cl[t].valUse \in BOOLEAN
                          /\ cl[t].buf \in AnyKeys \cup {None}
    /\ call \in [Threads -> CallRecords]
    /\ hold \in [Threads -> AnyKeys \cup {None}]
    /\ sid \in [Hosts -> [Hosts -> Int]]
    /\ store \in [Servers -> [Keys -> Values \cup {None}]]
    /\ ready \in [Servers -> Seq({_createPKeyBuff(k) : k \in Keys})]
    /\ DOMAIN seen = Threads
    /\ puts \subseteq Keys

(* The sessions of a client are with the first neighbours, in their order,  *)
(* and it is ready when it has one with each.                               *)
SessionsOk(t) ==
    LET all == _neighbors[Home[t]] IN
    /\ Len(cl[t].sess) <= Len(all)
    /\ \A i \in 1 .. Len(cl[t].sess) : /\ cl[t].sess[i] = all[i]
                                       /\ sid[Home[t]][all[i]] # NotSet
    /\ cl[t].st = "ready" => Len(cl[t].sess) = Len(all)
    /\ cl[t].st = "none" => Len(cl[t].sess) = 0
    /\ cl[t].st = "init" => Len(cl[t].sess) < Len(all)

(* The id in a DhtNode, whoever wrote it, is the place of the node.         *)
SidOk == \A h \in Hosts, n \in Hosts : sid[h][n] # NotSet =>
            /\ sid[h][n] + 1 \in 1 .. Len(_neighbors[h])
            /\ _neighbors[h][sid[h][n] + 1] = n

(* What a call knows at each place in its course.                           *)
CallOk(t) ==
    LET c == call[t] IN
    /\ c.pc = "idle" => c = NoCall
    /\ c.pc # "idle" => c.op # "none"
    /\ c.pc = "client" => c.host = NotSet
    /\ c.pc = "queued" => c.host # NotSet
    /\ c.pc = "announce" => c.op = "put"
    /\ c.host # NotSet => c.host \in Servers
    /\ (c.op \in Requests /\ (c.pc = "client" \/ c.host # NotSet)) => ~Local(t, c.key)
    /\ (c.pc \in Handled /\ c.host = NotSet) => (c.op \in Requests /\ Local(t, c.key))
    /\ c.op \in Requests => /\ c.key \in AnyKeys
                            /\ hold[t] = (IF c.buffered THEN c.key ELSE None)
    /\ c.op = "allockey" => (c.key \in AnyKeys /\ c.pc = "client")
    /\ c.op = "put" => (c.key \in puts /\ c.val \in Values)
    /\ c.op = "remove" => c.key \in gone
    /\ (c.op \in Requests /\ c.host # NotSet) =>
          (c.msg = c.key /\ isLocalKey(c.host, c.key))

(* The request buffer: its key is the one that the thread holds.            *)
BufferOk(t) ==
    /\ cl[t].keyUse <=> hold[t] # None
    /\ hold[t] # None => cl[t].buf = hold[t]
    /\ cl[t].valUse => (call[t].op = "put" /\ ~Local(t, call[t].key))

(* A key is put by one call; between its two halves the value is stored;    *)
(* and an announced key is one whose put has announced it.                  *)
Putting(k) == {t \in Threads : call[t].op = "put" /\ call[t].key = k}

PutOnce == \A t, u \in Threads :
    (call[t].op = "put" /\ call[u].op = "put" /\ call[t].key = call[u].key) => t = u

Kept(h, k) == store[h][k] # None \/ k \in gone

HalfPut == \A t \in Threads : call[t].pc = "announce" => Kept(At(t), call[t].key)

ReadyOk == \A h \in Servers : \A i \in 1 .. Len(ready[h]) : \E k \in puts :
    /\ _createPKeyBuff(k) = ready[h][i]
    /\ Kept(h, k)
    /\ \A t \in Putting(k) : call[t].pc = "resp"

(* The inductive invariant.                                                 *)
DhtInv ==
    /\ TypeInv
    /\ \A t \in Threads : SessionsOk(t)
    /\ SidOk
    /\ \A t \in Threads : CallOk(t)
    /\ \A t \in Threads : BufferOk(t)
    /\ PutOnce /\ HalfPut /\ ReadyOk

(* The ranges of two nodes with a store have no key in common.              *)
OneOwner == \A k \in Keys : \A g, h \in Servers :
    (isLocalKey(g, k) /\ isLocalKey(h, k)) => g = h

(* A get under way has seen what its key is mapped to now.                  *)
SeenOk(t) ==
    (call[t].op = "get" /\ call[t].key \in Keys /\ Owner(call[t].key) \in Servers) =>
        /\ store[Owner(call[t].key)][call[t].key] \in seen[t]
        /\ call[t].pc = "resp" => call[t].res \in seen[t]

SeenInv == \A t \in Threads : SeenOk(t)

------------------------------------------------------------------------------
(* A set of natural numbers that is not empty has a least element.          *)
LEMMA LeastNat ==
    ASSUME NEW S, S \subseteq Nat, S # {}
    PROVE  \E x \in S : \A y \in S : x <= y
<1>1. IsWellFoundedOn(OpToRel(<, Nat), Nat)
  BY Zenon, NatLessThanWellFounded
<1>2. PICK x \in S : \A y \in S : ~(<<y, x>> \in OpToRel(<, Nat))
  BY Zenon, <1>1, WFMin
<1>3. \A y \in S : ~(<<y, x>> \in {ss \in Nat \X Nat : ss[1] < ss[2]})
  BY Zenon, <1>2 DEF OpToRel
<1>4. \A y \in S : ~(y < x)
  BY Zenon, <1>3
<1> QED
  BY <1>4

(* A neighbour is another node with a store, and its place in the list is   *)
(* the only one (_initNeighbors).                                           *)
LEMMA NeighborFacts ==
    ASSUME NEW h \in Hosts
    PROVE  /\ Len(_neighbors[h]) \in Nat
           /\ \A i \in 1 .. Len(_neighbors[h]) : /\ _neighbors[h][i] \in Servers \ {h}
                                                 /\ _neighbors[h][i] \in Hosts
           /\ \A n \in Servers \ {h} :
                \E i \in 1 .. Len(_neighbors[h]) : _neighbors[h][i] = n
           /\ \A i, j \in 1 .. Len(_neighbors[h]) :
                _neighbors[h][i] = _neighbors[h][j] => i = j
<1>1. _neighbors[h] \in Seq(Servers \ {h})
  BY Zenon, NeighborsAssumption
<1>2. \A i \in 1 .. Len(_neighbors[h]) : _neighbors[h][i] \in Servers \ {h}
  BY <1>1
<1>3. Len(_neighbors[h]) \in Nat
  BY <1>1
<1>4. Servers \subseteq Hosts
  BY Zenon DEF Servers
<1> QED
  BY Zenon, <1>2, <1>3, <1>4, NeighborsAssumption

(* getHostForKey finds a node whose range holds the key, whenever one of    *)
(* the ranges does: the first in the order of the ranges exists.            *)
LEMMA HostForKey ==
    ASSUME NEW h \in Hosts, NEW key, Matches(h, key) # {}
    PROVE  /\ getHostForKey(h, key) \in Servers \ {h}
           /\ isLocalKey(getHostForKey(h, key), key)
<1> DEFINE M == Matches(h, key)
<1>1. \A n \in M : n \in Servers \ {h} /\ n \in Hosts /\ isLocalKey(n, key)
  <2>1. MaskLength # 0
    BY Zenon DEF Matches
  <2>2. M = {n \in _rangeToHost[h] : _genHash(key) >= Start[n] /\ _genHash(key) <= End[n]}
    BY Zenon, <2>1 DEF Matches
  <2>3. MaskLength > 0
    BY <2>1, DhtCoreAssumption
  <2>4. _rangeToHost[h] \subseteq {_neighbors[h][i] : i \in 1 .. Len(_neighbors[h])}
    BY Zenon DEF _rangeToHost
  <2>5. \A n \in M : n \in Servers \ {h} /\ n \in Hosts
    <3>1. \A i \in 1 .. Len(_neighbors[h]) : /\ _neighbors[h][i] \in Servers \ {h}
                                              /\ _neighbors[h][i] \in Hosts
      BY Zenon, NeighborFacts
    <3> QED
      BY Zenon, <2>2, <2>4, <3>1
  <2>6. \A n \in M : isLocalKey(n, key)
    BY Zenon, <2>2, <2>3 DEF isLocalKey
  <2> QED
    BY Zenon, <2>5, <2>6
<1>2. \A n \in M : Start[n] \in Nat /\ End[n] \in Nat
  BY Zenon, <1>1, DhtCoreAssumption
<1> HIDE DEF M
<1>3. M # {}
  BY Zenon DEF M
<1>4. PICK s \in {Start[n] : n \in M} : \A y \in {Start[n] : n \in M} : s <= y
  <2> DEFINE S == {Start[n] : n \in M}
  <2>1. S \subseteq Nat /\ S # {}
    BY Zenon, <1>2, <1>3
  <2> HIDE DEF S
  <2>2. \E x \in S : \A y \in S : x <= y
    BY Zenon, <2>1, LeastNat
  <2> QED
    BY Zenon, <2>2 DEF S
<1> DEFINE B == {n \in M : Start[n] = s}
<1>5. PICK e \in {End[n] : n \in B} : \A y \in {End[n] : n \in B} : e <= y
  <2> DEFINE S == {End[n] : n \in B}
  <2>1. S \subseteq Nat /\ S # {}
    BY Zenon, <1>2, <1>4
  <2> HIDE DEF S
  <2>2. \E x \in S : \A y \in S : x <= y
    BY Zenon, <2>1, LeastNat
  <2> QED
    BY Zenon, <2>2 DEF S
<1>6. PICK n \in B : End[n] = e
  BY Zenon, <1>5
<1>7. \A m \in M : Start[n] < Start[m] \/ (Start[n] = Start[m] /\ End[n] <= End[m])
  BY <1>2, <1>4, <1>5, <1>6
<1>8. n \in M
  BY Zenon, <1>6
<1>9. getHostForKey(h, key) \in M
  BY Zenon, <1>7, <1>8 DEF getHostForKey, M
<1> QED
  BY Zenon, <1>1, <1>9

(* getHostAny picks a neighbour.                                            *)
LEMMA HostAny ==
    ASSUME NEW h \in Hosts, NEW idx \in Nat, Servers \ {h} # {}
    PROVE  /\ nextIdx(h, idx) \in Nat
           /\ getHostAny(h, nextIdx(h, idx)) \in Servers \ {h}
<1>1. Len(_neighbors[h]) \in Nat \ {0}
  BY NeighborFacts
<1>2. nextIdx(h, idx) \in Nat /\ nextIdx(h, idx) + 1 \in 1 .. Len(_neighbors[h])
  <2>1. \A a \in Nat, b \in Nat \ {0} : a % b \in Nat /\ (a % b) + 1 \in 1 .. b
    BY SMT
  <2>2. idx + 1 \in Nat
    OBVIOUS
  <2> QED
    BY Zenon, <1>1, <2>1, <2>2 DEF nextIdx
<1> QED
  BY Zenon, <1>2, NeighborFacts DEF getHostAny

(* _initializeNode goes to the first neighbour without a session, and the   *)
(* client is ready after the last one.                                      *)
LEMMA NextNeighbor ==
    ASSUME NEW t \in Threads, TypeInv, SessionsOk(t), cl[t].st = "init"
    PROVE  /\ Len(cl[t].sess) + 1 \in 1 .. Len(_neighbors[Home[t]])
           /\ Neighbor(t) = _neighbors[Home[t]][Len(cl[t].sess) + 1]
           /\ After(t) = "ready" => Len(cl[t].sess) + 1 = Len(_neighbors[Home[t]])
           /\ After(t) # "ready" => Len(cl[t].sess) + 1 < Len(_neighbors[Home[t]])
           /\ After(t) \in {"init", "ready"}
<1> DEFINE all == _neighbors[Home[t]]
           s == cl[t].sess
<1>0. Home[t] \in Hosts
  BY Zenon, DhtAssumption
<1>1. /\ Len(all) \in Nat
      /\ \A i \in 1 .. Len(all) : all[i] \in Servers \ {Home[t]}
      /\ \A n \in Servers \ {Home[t]} : \E i \in 1 .. Len(all) : all[i] = n
      /\ \A i, j \in 1 .. Len(all) : all[i] = all[j] => i = j
  BY Zenon, <1>0, NeighborFacts
<1>2. /\ Len(s) \in Nat /\ Len(s) < Len(all)
      /\ \A i \in 1 .. Len(s) : s[i] = all[i]
  BY DEF TypeInv, SessionsOk
<1>3. Connected(t) = {s[i] : i \in 1 .. Len(s)}
  BY Zenon DEF Connected
<1> HIDE DEF all, s
<1>4. \A i \in 1 .. Len(all) : all[i] \in Connected(t) <=> i <= Len(s)
  BY <1>1, <1>2, <1>3
<1> DEFINE first(i) == /\ all[i] \notin Connected(t)
                       /\ \A j \in 1 .. i - 1 : all[j] \in Connected(t)
<1>5. Len(s) + 1 \in 1 .. Len(all) /\ first(Len(s) + 1)
  BY <1>1, <1>2, <1>4
<1>6. \A i \in 1 .. Len(all) : first(i) => i = Len(s) + 1
  BY <1>1, <1>2, <1>4
<1>7. (CHOOSE i \in 1 .. Len(all) : first(i)) = Len(s) + 1
  <2> HIDE DEF first
  <2> QED
    BY Zenon, <1>5, <1>6
<1>8. Neighbor(t) = all[Len(s) + 1]
  BY Zenon, <1>7 DEF Neighbor, all
<1> HIDE DEF first
<1>9. Len(s) + 1 = Len(all) => Connected(t) \cup {Neighbor(t)} = Servers \ {Home[t]}
  BY <1>1, <1>2, <1>3, <1>8
<1>10. Len(s) + 1 < Len(all) => Connected(t) \cup {Neighbor(t)} # Servers \ {Home[t]}
  <2> SUFFICES ASSUME Len(s) + 1 < Len(all)
               PROVE  all[Len(all)] \notin Connected(t) \cup {Neighbor(t)}
    BY <1>1
  <2> QED
    BY <1>1, <1>2, <1>4, <1>8
<1>11. Len(s) + 1 = Len(all) \/ Len(s) + 1 < Len(all)
  BY <1>1, <1>2
<1>12. After(t) \in {"init", "ready"}
       /\ (After(t) = "ready" <=> Connected(t) \cup {Neighbor(t)} = Servers \ {Home[t]})
  BY Zenon DEF After
<1> QED
  BY Zenon, <1>5, <1>8, <1>9, <1>10, <1>11, <1>12 DEF s, all

------------------------------------------------------------------------------
(* Frames: what a step of one thread leaves of the invariant.               *)

OthersSame(t) == \A u \in Threads \ {t} :
    cl'[u] = cl[u] /\ call'[u] = call[u] /\ hold'[u] = hold[u]

HistoryGrows == puts \subseteq puts' /\ gone \subseteq gone'

(* The step neither stores a value half way nor begins a put.               *)
Quiet(t) ==
    /\ call'[t].pc # "announce"
    /\ call'[t].op = "put" => /\ call[t].op = "put" /\ call'[t].key = call[t].key
                              /\ call[t].pc = "resp" => call'[t].pc = "resp"

(* The ready queues lose keys at most.                                      *)
ReadyShrinks == \A h \in Servers : \A i \in 1 .. Len(ready'[h]) :
    \E j \in 1 .. Len(ready[h]) : ready'[h][i] = ready[h][j]

(* A step of one thread leaves the calls and the buffers of the others.     *)
LEMMA OthersKept ==
    ASSUME NEW t \in Threads, DhtInv, OthersSame(t), HistoryGrows,
           NEW u \in Threads \ {t}
    PROVE  CallOk(u)' /\ BufferOk(u)'
<1>1. CallOk(u) /\ BufferOk(u)
  BY Zenon DEF DhtInv
<1>2. cl'[u] = cl[u] /\ call'[u] = call[u] /\ hold'[u] = hold[u]
  BY Zenon DEF OthersSame
<1>3. CallOk(u)'
  BY Zenon, <1>1, <1>2 DEF CallOk, HistoryGrows, Local, NoCall
<1>4. BufferOk(u)'
  BY Zenon, <1>1, <1>2 DEF BufferOk, Local
<1> QED
  BY Zenon, <1>3, <1>4

(* The sessions are those of before when no client connects.                *)
LEMMA SessionsKept ==
    ASSUME DhtInv, sid' = sid,
           \A u \in Threads : cl'[u].sess = cl[u].sess /\ cl'[u].st \in {cl[u].st, "error"}
    PROVE  (\A u \in Threads : SessionsOk(u))' /\ SidOk'
<1>1. ASSUME NEW u \in Threads
      PROVE  SessionsOk(u)'
  <2>1. SessionsOk(u)
    BY Zenon DEF DhtInv
  <2>2. cl'[u].sess = cl[u].sess /\ (cl'[u].st = cl[u].st \/ cl'[u].st = "error")
    BY Zenon
  <2> QED
    BY Zenon, <2>1, <2>2 DEF SessionsOk
<1>2. SidOk'
  BY Zenon DEF DhtInv, SidOk
<1> QED
  BY Zenon, <1>1, <1>2

(* A quiet step that changes no store keeps what is said of puts.           *)
LEMMA PutsKept ==
    ASSUME NEW t \in Threads, DhtInv, OthersSame(t), HistoryGrows, Quiet(t),
           store' = store, ReadyShrinks
    PROVE  PutOnce' /\ HalfPut' /\ ReadyOk'
<1>1. \A u \in Threads \ {t} : call'[u] = call[u]
  BY Zenon DEF OthersSame
<1>2. \A u \in Threads : call'[u].op = "put" =>
        call[u].op = "put" /\ call'[u].key = call[u].key
                           /\ (call[u].pc = "resp" => call'[u].pc = "resp")
  BY Zenon, <1>1 DEF Quiet
<1>3. PutOnce'
  BY Zenon, <1>2 DEF DhtInv, PutOnce
<1>4. HalfPut'
  <2> SUFFICES ASSUME NEW u \in Threads, call'[u].pc = "announce"
               PROVE  Kept(At(u), call[u].key)'
    BY Zenon DEF HalfPut
  <2>1. u # t
    BY Zenon DEF Quiet
  <2>2. call'[u] = call[u]
    BY Zenon, <1>1, <2>1
  <2>3. Kept(At(u), call[u].key)
    BY Zenon, <2>2 DEF DhtInv, HalfPut
  <2> QED
    BY Zenon, <2>2, <2>3 DEF Kept, At, Remote, HistoryGrows
<1>5. ReadyOk'
  <2> SUFFICES ASSUME NEW h \in Servers, NEW i \in 1 .. Len(ready'[h])
               PROVE  \E k \in puts' : /\ _createPKeyBuff(k) = ready'[h][i]
                                       /\ Kept(h, k)'
                                       /\ \A u \in Putting(k)' : call'[u].pc = "resp"
    BY Zenon DEF ReadyOk
  <2>1. PICK j \in 1 .. Len(ready[h]) : ready'[h][i] = ready[h][j]
    BY Zenon DEF ReadyShrinks
  <2>2. PICK k \in puts : /\ _createPKeyBuff(k) = ready[h][j]
                          /\ Kept(h, k)
                          /\ \A u \in Putting(k) : call[u].pc = "resp"
    BY Zenon DEF DhtInv, ReadyOk
  <2>3. k \in puts' /\ Kept(h, k)'
    BY Zenon, <2>2 DEF HistoryGrows, Kept
  <2>4. \A u \in Putting(k)' : call'[u].pc = "resp"
    BY Zenon, <1>2, <2>2 DEF Putting
  <2> QED
    BY Zenon, <2>1, <2>2, <2>3, <2>4
<1> QED
  BY Zenon, <1>3, <1>4, <1>5

(* The parts of the invariant that a step of t has to establish.            *)
LEMMA Assembled ==
    ASSUME NEW t \in Threads, DhtInv, OthersSame(t), HistoryGrows, TypeInv',
           CallOk(t)', BufferOk(t)', (\A u \in Threads : SessionsOk(u))', SidOk',
           PutOnce' /\ HalfPut' /\ ReadyOk'
    PROVE  DhtInv'
<1>1. \A u \in Threads \ {t} : CallOk(u)' /\ BufferOk(u)'
  BY Zenon, OthersKept
<1>2. (\A u \in Threads : CallOk(u))' /\ (\A u \in Threads : BufferOk(u))'
  BY Zenon, <1>1
<1> QED
  BY Zenon, <1>2 DEF DhtInv

(* A call that begins.                                                      *)
LEMMA BeginFacts ==
    ASSUME NEW t \in Threads, DhtInv,
           NEW op \in {"get", "put", "remove", "getany", "allockey"},
           NEW k \in AnyKeys \cup {None}, NEW v \in Values \cup {None},
           NEW b \in BOOLEAN, NEW pc \in {"serve", "client"},
           Begin(t, op, k, v, b, pc), cl' = cl, hold' = hold
    PROVE  /\ call[t] = NoCall /\ ~Pending(t)
           /\ call' \in [Threads -> CallRecords]
           /\ call'[t].op = op /\ call'[t].key = k /\ call'[t].val = v
           /\ call'[t].buffered = b /\ call'[t].pc = pc /\ call'[t].host = NotSet
           /\ OthersSame(t)
<1>1. call \in [Threads -> CallRecords] /\ CallOk(t)
  BY Zenon DEF DhtInv, TypeInv
<1>2. ~Pending(t) /\ call[t] = NoCall
  BY Zenon, <1>1 DEF Begin, CallOk, Pending
<1>3. PICK w : w = [NoCall EXCEPT !.op = op, !.key = k, !.val = v,
                                  !.buffered = b, !.pc = pc]
  BY Zenon
<1>4. call' = [call EXCEPT ![t] = w]
  BY Zenon, <1>3 DEF Begin
<1>5. w \in CallRecords
  BY Zenon, <1>3 DEF CallRecords, Handled, NoCall
<1>6. w.op = op /\ w.key = k /\ w.val = v /\ w.buffered = b /\ w.pc = pc /\ w.host = NotSet
  BY Zenon, <1>3 DEF NoCall
<1>7. call' \in [Threads -> CallRecords] /\ call'[t] = w
      /\ \A u \in Threads \ {t} : call'[u] = call[u]
  BY Zenon, <1>1, <1>4, <1>5
<1> QED
  BY Zenon, <1>2, <1>6, <1>7 DEF OthersSame

(* The call begins, with the clients, the sessions and the stores as before. *)
LEMMA BeginKeeps ==
    ASSUME NEW t \in Threads, DhtInv,
           NEW op \in {"get", "put", "remove", "getany", "allockey"},
           NEW k \in AnyKeys \cup {None}, NEW v \in Values \cup {None},
           NEW b \in BOOLEAN, NEW pc \in {"serve", "client"},
           Begin(t, op, k, v, b, pc),
           UNCHANGED <<cl, sid, hold, store, ready>>, DOMAIN seen' = Threads,
           puts' \subseteq Keys, HistoryGrows
    PROVE  /\ TypeInv' /\ BufferOk(t)' /\ OthersSame(t)
           /\ (\A u \in Threads : SessionsOk(u))' /\ SidOk'
<1>0. cl' = cl /\ hold' = hold /\ sid' = sid
  BY Zenon
<1>1. /\ call[t] = NoCall
      /\ call' \in [Threads -> CallRecords]
      /\ OthersSame(t)
  BY <1>0, BeginFacts
<1>2. TypeInv'
  BY Zenon, <1>1 DEF DhtInv, TypeInv
<1>3. (\A u \in Threads : SessionsOk(u))' /\ SidOk'
  BY Zenon, SessionsKept
<1>4. BufferOk(t)'
  <2>1. BufferOk(t)
    BY Zenon DEF DhtInv
  <2>2. call[t].op = "none"
    BY <1>1 DEF NoCall
  <2>3. ~cl[t].valUse
    BY Zenon, <2>1, <2>2 DEF BufferOk
  <2> QED
    BY Zenon, <2>1, <2>3 DEF BufferOk
<1> QED
  BY Zenon, <1>1, <1>2, <1>3, <1>4

(* Get and Remove begin: Local decides the way; the key of the caller is    *)
(* the one it holds, or it holds none.                                      *)
LEMMA RequestBegins ==
    ASSUME NEW t \in Threads, DhtInv, ~Mixes,
           NEW op \in {"get", "remove", "put"},
           NEW k \in AnyKeys, NEW v \in Values \cup {None}, NEW b \in BOOLEAN,
           KeyArg(t, k, b),
           Begin(t, op, k, v, b, IF Local(t, k) THEN "serve" ELSE "client"),
           UNCHANGED <<cl, hold>>,
           op = "put" => (k \in puts' /\ v \in Values), op = "remove" => k \in gone'
    PROVE  CallOk(t)'
<1>1. PICK pc \in {"serve", "client"} :
         /\ pc = IF Local(t, k) THEN "serve" ELSE "client"
         /\ Begin(t, op, k, v, b, pc)
  BY Zenon
<1>2. /\ call'[t].op = op /\ call'[t].key = k /\ call'[t].val = v
      /\ call'[t].buffered = b /\ call'[t].pc = pc /\ call'[t].host = NotSet
  <2>1. op \in {"get", "put", "remove", "getany", "allockey"} /\ k \in AnyKeys \cup {None}
    BY Zenon
  <2> QED
    BY <1>1, <2>1, BeginFacts
<1>3. hold'[t] = IF b THEN k ELSE None
  BY Zenon DEF KeyArg
<1>4. pc = "serve" => Local(t, k)
  BY Zenon, <1>1
<1>5. pc = "client" => ~Local(t, k)
  BY Zenon, <1>1
<1>6. Local(t, k)' <=> Local(t, k)
  BY Zenon DEF Local
<1> QED
  BY Zenon, <1>1, <1>2, <1>3, <1>4, <1>5, <1>6 DEF CallOk, Requests, Handled, Local

(* A begin that is no put is quiet.                                         *)
LEMMA BeginQuiet ==
    ASSUME NEW t \in Threads, DhtInv,
           NEW op \in {"get", "put", "remove", "getany", "allockey"},
           NEW k \in AnyKeys \cup {None}, NEW v \in Values \cup {None},
           NEW b \in BOOLEAN, NEW pc \in {"serve", "client"},
           Begin(t, op, k, v, b, pc), op # "put",
           UNCHANGED <<cl, hold, store, ready>>, HistoryGrows
    PROVE  PutOnce' /\ HalfPut' /\ ReadyOk'
<1>1. cl' = cl /\ hold' = hold
  BY Zenon
<1>2. OthersSame(t) /\ call'[t].op = op /\ call'[t].pc = pc
  BY <1>1, BeginFacts
<1>3. Quiet(t)
  BY Zenon, <1>2 DEF Quiet
<1>4. ReadyShrinks
  BY Zenon DEF ReadyShrinks
<1> QED
  BY Zenon, <1>2, <1>3, <1>4, PutsKept

(* KVStore::Get and Remove, KVStoreThin::Get and Remove keep the invariant. *)
LEMMA GetKeeps ==
    ASSUME NEW t \in Threads, DhtInv, ~Mixes, Get(t)
    PROVE  DhtInv'
<1>1. PICK k \in AnyKeys, b \in BOOLEAN :
        /\ KeyArg(t, k, b)
        /\ Begin(t, "get", k, None, b, IF Local(t, k) THEN "serve" ELSE "client")
  BY Zenon DEF Get
<1>2. /\ UNCHANGED <<cl, sid, hold, store, ready, puts, gone>>
      /\ UNCHANGED <<cl, hold>>
      /\ UNCHANGED <<cl, hold, store, ready>>
      /\ UNCHANGED <<cl, sid, hold, store, ready>>
  BY Zenon DEF Get
<1>3. HistoryGrows /\ puts' \subseteq Keys /\ DOMAIN seen' = Threads
  BY Zenon DEF Get, HistoryGrows, DhtInv, TypeInv
<1>4. CallOk(t)'
  BY Zenon, <1>1, <1>2, RequestBegins
<1>5. PICK pc \in {"serve", "client"} : Begin(t, "get", k, None, b, pc)
  BY Zenon, <1>1
<1>6. k \in AnyKeys \cup {None} /\ None \in Values \cup {None}
  BY Zenon
<1>7. /\ TypeInv' /\ BufferOk(t)' /\ OthersSame(t)
      /\ (\A u \in Threads : SessionsOk(u))' /\ SidOk'
  BY Zenon, <1>2, <1>3, <1>5, <1>6, BeginKeeps
<1>8. PutOnce' /\ HalfPut' /\ ReadyOk'
  BY Zenon, <1>2, <1>3, <1>5, <1>6, BeginQuiet
<1> QED
  BY Zenon, <1>3, <1>4, <1>7, <1>8, Assembled

(* KVStore::Remove begins: the key joins those that a remove was called for.*)
LEMMA RemoveKeeps ==
    ASSUME NEW t \in Threads, DhtInv, ~Mixes, Remove(t)
    PROVE  DhtInv'
<1>1. PICK k \in AnyKeys, b \in BOOLEAN :
        /\ KeyArg(t, k, b)
        /\ Begin(t, "remove", k, None, b, IF Local(t, k) THEN "serve" ELSE "client")
        /\ gone' = gone \cup {k}
  BY Zenon DEF Remove
<1>2. /\ UNCHANGED <<cl, sid, hold, store, ready, puts>>
      /\ UNCHANGED <<cl, hold>>
      /\ UNCHANGED <<cl, hold, store, ready>>
      /\ UNCHANGED <<cl, sid, hold, store, ready>>
  BY Zenon DEF Remove
<1>3. HistoryGrows /\ puts' \subseteq Keys /\ DOMAIN seen' = Threads
  BY Zenon DEF Remove, HistoryGrows, DhtInv, TypeInv
<1>4. CallOk(t)'
  BY Zenon, <1>1, <1>2, RequestBegins
<1>5. PICK pc \in {"serve", "client"} : Begin(t, "remove", k, None, b, pc)
  BY Zenon, <1>1
<1>6. k \in AnyKeys \cup {None} /\ None \in Values \cup {None}
  BY Zenon
<1>7. /\ TypeInv' /\ BufferOk(t)' /\ OthersSame(t)
      /\ (\A u \in Threads : SessionsOk(u))' /\ SidOk'
  BY Zenon, <1>2, <1>3, <1>5, <1>6, BeginKeeps
<1>8. PutOnce' /\ HalfPut' /\ ReadyOk'
  BY Zenon, <1>2, <1>3, <1>5, <1>6, BeginQuiet
<1> QED
  BY Zenon, <1>3, <1>4, <1>7, <1>8, Assembled

(* KVStore::Put and KVStoreThin::Put begin: the key was not put before, so  *)
(* nobody else puts it and no queue holds it on account of another put.     *)
LEMMA PutKeeps ==
    ASSUME NEW t \in Threads, DhtInv, ~Mixes, Put(t)
    PROVE  DhtInv'
<1>1. PICK k \in Keys \ puts, v \in Values, b \in BOOLEAN :
        /\ KeyArg(t, k, b)
        /\ Begin(t, "put", k, v, b, IF Local(t, k) THEN "serve" ELSE "client")
        /\ puts' = puts \cup {k}
  BY Zenon DEF Put
<1>2. /\ UNCHANGED <<cl, sid, hold, store, ready, gone>>
      /\ UNCHANGED <<cl, hold>>
      /\ UNCHANGED <<cl, sid, hold, store, ready>>
  BY Zenon DEF Put
<1>3. HistoryGrows /\ puts' \subseteq Keys /\ DOMAIN seen' = Threads
  BY Zenon DEF Put, HistoryGrows, DhtInv, TypeInv
<1>6. k \in AnyKeys /\ k \in AnyKeys \cup {None} /\ v \in Values \cup {None} /\ k \in puts'
  BY Zenon, <1>1 DEF AnyKeys
<1>4. CallOk(t)'
  BY Zenon, <1>1, <1>2, <1>6, RequestBegins
<1>5. PICK pc \in {"serve", "client"} : Begin(t, "put", k, v, b, pc)
  BY Zenon, <1>1
<1>7. /\ TypeInv' /\ BufferOk(t)' /\ OthersSame(t)
      /\ (\A u \in Threads : SessionsOk(u))' /\ SidOk'
  BY Zenon, <1>2, <1>3, <1>5, <1>6, BeginKeeps
<1>8. call'[t].op = "put" /\ call'[t].key = k /\ call'[t].pc = pc
  BY <1>2, <1>5, <1>6, BeginFacts
<1>9. \A u \in Threads \ {t} : /\ call'[u] = call[u]
                               /\ call[u].op = "put" => call[u].key # k
  BY Zenon, <1>1, <1>7 DEF OthersSame, DhtInv, CallOk
<1>10. PutOnce'
  BY Zenon, <1>8, <1>9 DEF DhtInv, PutOnce
<1>11. HalfPut'
  <2> SUFFICES ASSUME NEW u \in Threads, call'[u].pc = "announce"
               PROVE  Kept(At(u), call[u].key)'
    BY Zenon DEF HalfPut
  <2>1. u # t
    BY Zenon, <1>5, <1>8
  <2>2. call'[u] = call[u]
    BY Zenon, <1>9, <2>1
  <2>3. Kept(At(u), call[u].key)
    BY Zenon, <2>2 DEF DhtInv, HalfPut
  <2> QED
    BY Zenon, <1>2, <2>2, <2>3 DEF Kept, At, Remote
<1>12. ReadyOk'
  <2> SUFFICES ASSUME NEW h \in Servers, NEW i \in 1 .. Len(ready'[h])
               PROVE  \E j \in puts' : /\ _createPKeyBuff(j) = ready'[h][i]
                                       /\ Kept(h, j)'
                                       /\ \A u \in Putting(j)' : call'[u].pc = "resp"
    BY Zenon DEF ReadyOk
  <2>1. ready' = ready
    BY Zenon, <1>2
  <2>2. PICK j \in puts : /\ _createPKeyBuff(j) = ready[h][i]
                          /\ Kept(h, j)
                          /\ \A u \in Putting(j) : call[u].pc = "resp"
    BY Zenon, <2>1 DEF DhtInv, ReadyOk
  <2>3. j \in puts' /\ Kept(h, j)'
    BY Zenon, <1>2, <1>3, <2>2 DEF HistoryGrows, Kept
  <2>4. ASSUME NEW u \in Threads, call'[u].op = "put", call'[u].key = j
        PROVE  call'[u].pc = "resp"
    <3>1. j # k
      BY Zenon, <1>1, <2>2
    <3>2. u # t
      BY Zenon, <1>8, <2>4, <3>1
    <3>3. call'[u] = call[u]
      BY Zenon, <1>9, <3>2
    <3> QED
      BY Zenon, <2>2, <2>4, <3>3 DEF Putting
  <2>5. \A u \in Putting(j)' : call'[u].pc = "resp"
    BY Zenon, <2>4 DEF Putting
  <2> QED
    BY Zenon, <2>1, <2>2, <2>3, <2>5
<1> QED
  BY Zenon, <1>3, <1>4, <1>7, <1>10, <1>11, <1>12, Assembled

(* GetAny and AllocKey begin in the client.                                 *)
LEMMA GetAnyKeeps ==
    ASSUME NEW t \in Threads, DhtInv, GetAny(t) \/ AllocKey(t)
    PROVE  DhtInv'
<1>1. PICK op \in {"getany", "allockey"}, k \in AnyKeys \cup {None}, b \in BOOLEAN :
        Begin(t, op, k, None, b, "client") /\ (op = "allockey" => k \in AnyKeys)
  <2>1. CASE GetAny(t)
    BY Zenon, <2>1 DEF GetAny
  <2>2. CASE AllocKey(t)
    <3>1. PICK k \in Keys : Begin(t, "allockey", k, None, TRUE, "client")
      BY Zenon, <2>2 DEF AllocKey
    <3> QED
      BY Zenon, <3>1 DEF AnyKeys
  <2> QED
    BY Zenon, <2>1, <2>2
<1>2. /\ UNCHANGED <<cl, hold, store, ready>>
      /\ UNCHANGED <<cl, sid, hold, store, ready>>
      /\ cl' = cl /\ hold' = hold
  BY Zenon DEF GetAny, AllocKey
<1>3. HistoryGrows /\ puts' \subseteq Keys /\ DOMAIN seen' = Threads
  BY Zenon DEF GetAny, AllocKey, HistoryGrows, DhtInv, TypeInv
<1>4. op \in {"get", "put", "remove", "getany", "allockey"} /\ op # "put"
  BY Zenon
<1>5. "client" \in {"serve", "client"} /\ None \in Values \cup {None}
  BY Zenon
<1>6. /\ TypeInv' /\ BufferOk(t)' /\ OthersSame(t)
      /\ (\A u \in Threads : SessionsOk(u))' /\ SidOk'
  BY Zenon, <1>1, <1>2, <1>3, <1>4, <1>5, BeginKeeps
<1>7. PutOnce' /\ HalfPut' /\ ReadyOk'
  BY Zenon, <1>1, <1>2, <1>3, <1>4, <1>5, BeginQuiet
<1>8. /\ call'[t].op = op /\ call'[t].pc = "client" /\ call'[t].host = NotSet
      /\ call'[t].key = k
  BY <1>1, <1>2, <1>4, <1>5, BeginFacts
<1>9. CallOk(t)'
  BY Zenon, <1>1, <1>8 DEF CallOk, Requests, Handled
<1> QED
  BY Zenon, <1>3, <1>6, <1>7, <1>9, Assembled

(* The types when thread t alone changes its call, client and key.          *)
LEMMA TypeKept ==
    ASSUME NEW t \in Threads, DhtInv,
           DOMAIN cl' = Threads, \A u \in Threads \ {t} : cl'[u] = cl[u],
           DOMAIN cl'[t] = ClientFields,
           cl'[t].st \in {"none", "init", "ready", "error"},
           cl'[t].sess \in Seq(Hosts), cl'[t].idx \in Nat,
           cl'[t].keyUse \in BOOLEAN, cl'[t].valUse \in BOOLEAN,
           cl'[t].buf \in AnyKeys \cup {None},
           call' \in [Threads -> CallRecords], hold' \in [Threads -> AnyKeys \cup {None}],
           sid' \in [Hosts -> [Hosts -> Int]],
           store' \in [Servers -> [Keys -> Values \cup {None}]],
           ready' \in [Servers -> Seq({_createPKeyBuff(k) : k \in Keys})],
           DOMAIN seen' = Threads, puts' \subseteq Keys
    PROVE  TypeInv'
<1>1. ASSUME NEW u \in Threads \ {t}
      PROVE  /\ DOMAIN cl'[u] = ClientFields
             /\ cl'[u].st \in {"none", "init", "ready", "error"}
             /\ cl'[u].sess \in Seq(Hosts) /\ cl'[u].idx \in Nat
             /\ cl'[u].keyUse \in BOOLEAN /\ cl'[u].valUse \in BOOLEAN
             /\ cl'[u].buf \in AnyKeys \cup {None}
  BY Zenon DEF DhtInv, TypeInv
<1> QED
  BY Zenon, <1>1 DEF TypeInv

(* FreeKey gives the request buffer back.                                   *)
LEMMA FreeKeyKeeps ==
    ASSUME NEW t \in Threads, DhtInv, FreeKey(t)
    PROVE  DhtInv'
<1>1. TypeInv /\ CallOk(t) /\ BufferOk(t)
  BY Zenon DEF DhtInv
<1>2. call[t] = NoCall
  BY Zenon, <1>1 DEF FreeKey, Pending, CallOk
<1>3. call[t].op = "none" /\ call[t].pc = "idle"
  BY <1>2 DEF NoCall
<1>4. UNCHANGED <<sid, call, store, ready, seen, puts, gone>>
  BY Zenon DEF FreeKey
<1>5. PICK w : w = [cl[t] EXCEPT !.keyUse = FALSE]
  BY Zenon
<1>6. cl' = [cl EXCEPT ![t] = w]
  BY Zenon, <1>5 DEF FreeKey
<1>7. /\ DOMAIN w = ClientFields /\ w.keyUse = FALSE
      /\ w.st = cl[t].st /\ w.sess = cl[t].sess /\ w.idx = cl[t].idx
      /\ w.valUse = cl[t].valUse /\ w.buf = cl[t].buf
  BY Zenon, <1>1, <1>5 DEF TypeInv, ClientFields
<1>8. /\ DOMAIN cl' = Threads /\ cl'[t] = w
      /\ \A u \in Threads \ {t} : cl'[u] = cl[u]
  BY Zenon, <1>1, <1>6 DEF TypeInv
<1>9. hold' \in [Threads -> AnyKeys \cup {None}] /\ hold'[t] = None
      /\ \A u \in Threads \ {t} : hold'[u] = hold[u]
  BY Zenon, <1>1 DEF FreeKey, TypeInv
<1>10. OthersSame(t) /\ HistoryGrows
  BY Zenon, <1>4, <1>8, <1>9 DEF OthersSame, HistoryGrows
<1>11. TypeInv'
  BY Zenon, <1>1, <1>4, <1>7, <1>8, <1>9, TypeKept DEF TypeInv
<1>12. (\A u \in Threads : SessionsOk(u))' /\ SidOk'
  BY Zenon, <1>4, <1>7, <1>8, SessionsKept
<1>13. PutOnce' /\ HalfPut' /\ ReadyOk'
  BY Zenon, <1>3, <1>4, <1>10, PutsKept DEF Quiet, ReadyShrinks
<1>14. CallOk(t)'
  BY <1>2, <1>3, <1>4 DEF CallOk, Requests, Handled, NoCall
<1>15. BufferOk(t)'
  <2>1. ~cl[t].valUse
    BY Zenon, <1>1, <1>3 DEF BufferOk
  <2> QED
    BY Zenon, <1>7, <1>8, <1>9, <2>1 DEF BufferOk
<1> QED
  BY Zenon, <1>10, <1>11, <1>12, <1>13, <1>14, <1>15, Assembled

------------------------------------------------------------------------------
(* The client.                                                              *)

(* The client of one thread is assigned.                                    *)
LEMMA ClientSet ==
    ASSUME NEW t \in Threads, TypeInv, NEW w, cl' = [cl EXCEPT ![t] = w]
    PROVE  /\ DOMAIN cl' = Threads /\ cl'[t] = w
           /\ \A u \in Threads \ {t} : cl'[u] = cl[u]
BY Zenon DEF TypeInv

(* The call of one thread is assigned.                                      *)
LEMMA CallSet ==
    ASSUME NEW t \in Threads, TypeInv, NEW w \in CallRecords, call' = [call EXCEPT ![t] = w]
    PROVE  /\ call' \in [Threads -> CallRecords] /\ call'[t] = w
           /\ \A u \in Threads \ {t} : call'[u] = call[u]
BY Zenon DEF TypeInv

(* NoCall is the record of a thread outside a call.                         *)
LEMMA NoCallFacts ==
    /\ NoCall \in CallRecords
    /\ NoCall.op = "none" /\ NoCall.pc = "idle" /\ NoCall.host = NotSet
BY Zenon DEF NoCall, CallRecords, Handled

(* A call that returns or throws leaves its thread outside a call.          *)
LEMMA Returned ==
    ASSUME NEW t \in Threads, TypeInv, Return(t)
    PROVE  /\ call' \in [Threads -> CallRecords] /\ call'[t] = NoCall
           /\ \A u \in Threads \ {t} : call'[u] = call[u] /\ hold'[u] = hold[u]
           /\ hold' \in [Threads -> AnyKeys \cup {None}]
           /\ hold'[t] = (IF KeepsKey(t) THEN hold[t] ELSE None)
           /\ DOMAIN seen' = Threads
           /\ CallOk(t)' /\ Quiet(t)
<1>1. /\ call' \in [Threads -> CallRecords] /\ call'[t] = NoCall
      /\ \A u \in Threads \ {t} : call'[u] = call[u]
  BY Zenon, NoCallFacts, CallSet DEF Return
<1>2. /\ \A u \in Threads \ {t} : hold'[u] = hold[u]
      /\ hold' \in [Threads -> AnyKeys \cup {None}]
      /\ hold'[t] = (IF KeepsKey(t) THEN hold[t] ELSE None)
  BY Zenon DEF Return, TypeInv
<1>3. DOMAIN seen' = Threads
  BY Zenon DEF Return, TypeInv
<1>4. CallOk(t)' /\ Quiet(t)
  BY Zenon, <1>1, NoCallFacts DEF CallOk, Requests, Handled, Quiet
<1> QED
  BY Zenon, <1>1, <1>2, <1>3, <1>4

(* The client after a put has given its buffers back.                       *)
LEMMA FreedFacts ==
    ASSUME NEW t \in Threads, NEW c, DOMAIN c = ClientFields,
           c.keyUse \in BOOLEAN, c.valUse \in BOOLEAN
    PROVE  LET f == Freed(t, c) IN
           /\ DOMAIN f = ClientFields
           /\ f.st = c.st /\ f.sess = c.sess /\ f.idx = c.idx /\ f.buf = c.buf
           /\ f.keyUse \in BOOLEAN /\ f.valUse \in BOOLEAN
           /\ call[t].op # "put" => f.keyUse = c.keyUse /\ f.valUse = c.valUse
           /\ (call[t].op = "put" /\ call[t].buffered) => ~f.keyUse
           /\ ~c.keyUse => ~f.keyUse
           /\ (call[t].op = "put" /\ ~call[t].buffered /\ Home[t] \notin Thin) =>
                f.keyUse = c.keyUse
           /\ call[t].op = "put" => f.valUse = (Local(t, call[t].key) /\ c.valUse)
<1>1. CASE call[t].op # "put"
  <2>1. Freed(t, c) = c
    BY Zenon, <1>1 DEF Freed
  <2> QED
    BY Zenon, <1>1, <2>1
<1>2. CASE call[t].op = "put"
  <2>1. PICK a \in BOOLEAN :
          a = IF call[t].buffered \/ Home[t] \in Thin THEN FALSE ELSE c.keyUse
    BY Zenon
  <2>2. PICK b \in BOOLEAN : b = IF Local(t, call[t].key) THEN c.valUse ELSE FALSE
    BY Zenon
  <2>3. PICK f : f = [c EXCEPT !.keyUse = a, !.valUse = b]
    BY Zenon
  <2>4. Freed(t, c) = f
    BY Zenon, <1>2, <2>1, <2>2, <2>3 DEF Freed
  <2>5. /\ DOMAIN f = ClientFields
        /\ f.st = c.st /\ f.sess = c.sess /\ f.idx = c.idx /\ f.buf = c.buf
        /\ f.keyUse = a /\ f.valUse = b
    BY Zenon, <2>3 DEF ClientFields
  <2> QED
    BY Zenon, <1>2, <2>1, <2>2, <2>4, <2>5
<1> QED
  BY Zenon, <1>1, <1>2

(* However a call ends, the flags agree with the key that is still held.    *)
LEMMA ReturnFreed ==
    ASSUME NEW t \in Threads, DhtInv, Return(t),
           NEW c, DOMAIN c = ClientFields,
           c.keyUse = cl[t].keyUse, c.valUse = cl[t].valUse,
           hold[t] # None => c.buf = hold[t],
           cl'[t] = Freed(t, c)
    PROVE  BufferOk(t)'
<1>1. TypeInv /\ CallOk(t) /\ BufferOk(t)
  BY Zenon DEF DhtInv
<1>2. c.keyUse \in BOOLEAN /\ c.valUse \in BOOLEAN
  BY Zenon, <1>1 DEF TypeInv
<1> DEFINE f == Freed(t, c)
<1>3. /\ f.buf = c.buf /\ f.keyUse \in BOOLEAN /\ f.valUse \in BOOLEAN
      /\ call[t].op # "put" => f.keyUse = c.keyUse /\ f.valUse = c.valUse
      /\ (call[t].op = "put" /\ call[t].buffered) => ~f.keyUse
      /\ ~c.keyUse => ~f.keyUse
      /\ call[t].op = "put" => f.valUse = (Local(t, call[t].key) /\ c.valUse)
  BY Zenon, <1>2, FreedFacts
<1> HIDE DEF f
<1>4. hold'[t] = (IF KeepsKey(t) THEN hold[t] ELSE None)
  BY Zenon, <1>1, Returned
<1>5. cl'[t] = f
  BY Zenon DEF f
<1>6. call[t].op = "put" => (hold[t] = IF call[t].buffered THEN call[t].key ELSE None)
  BY Zenon, <1>1 DEF CallOk, Requests
<1>7. ~f.valUse
  BY Zenon, <1>1, <1>3 DEF BufferOk
<1>8. f.keyUse <=> hold'[t] # None
  <2>1. CASE call[t].op # "put"
    BY Zenon, <1>1, <1>3, <1>4, <2>1 DEF BufferOk, KeepsKey
  <2>2. CASE call[t].op = "put" /\ call[t].buffered
    BY Zenon, <1>3, <1>4, <2>2 DEF KeepsKey
  <2>3. CASE call[t].op = "put" /\ ~call[t].buffered
    BY Zenon, <1>1, <1>3, <1>4, <1>6, <2>3 DEF BufferOk, KeepsKey
  <2> QED
    BY Zenon, <2>1, <2>2, <2>3
<1>9. hold'[t] # None => f.buf = hold'[t]
  BY Zenon, <1>3, <1>4
<1> QED
  BY Zenon, <1>5, <1>7, <1>8, <1>9 DEF BufferOk

(* Every way for a call to end keeps the invariant.                         *)
LEMMA ReturnKeeps ==
    ASSUME NEW t \in Threads, DhtInv, Return(t),
           NEW c, DOMAIN c = ClientFields, c.st \in {cl[t].st, "error"},
           c.sess = cl[t].sess, c.idx = cl[t].idx,
           c.keyUse = cl[t].keyUse, c.valUse = cl[t].valUse,
           c.buf \in AnyKeys \cup {None}, hold[t] # None => c.buf = hold[t],
           DOMAIN cl' = Threads, cl'[t] = Freed(t, c),
           \A u \in Threads \ {t} : cl'[u] = cl[u],
           UNCHANGED <<sid, store, ready, puts, gone>>
    PROVE  DhtInv'
<1>1. TypeInv
  BY Zenon DEF DhtInv
<1>2. c.keyUse \in BOOLEAN /\ c.valUse \in BOOLEAN
  BY Zenon, <1>1 DEF TypeInv
<1>3. PICK f : f = Freed(t, c)
  BY Zenon
<1>4. /\ DOMAIN f = ClientFields
      /\ f.st = c.st /\ f.sess = c.sess /\ f.idx = c.idx /\ f.buf = c.buf
      /\ f.keyUse \in BOOLEAN /\ f.valUse \in BOOLEAN
  BY Zenon, <1>2, <1>3, FreedFacts
<1>5. /\ DOMAIN cl' = Threads /\ cl'[t] = f
      /\ \A u \in Threads \ {t} : cl'[u] = cl[u]
  BY Zenon, <1>3
<1>6. /\ call' \in [Threads -> CallRecords]
      /\ \A u \in Threads \ {t} : call'[u] = call[u] /\ hold'[u] = hold[u]
      /\ hold' \in [Threads -> AnyKeys \cup {None}]
      /\ DOMAIN seen' = Threads
      /\ CallOk(t)' /\ Quiet(t)
  BY Zenon, <1>1, Returned
<1>7. OthersSame(t) /\ HistoryGrows
  BY Zenon, <1>5, <1>6 DEF OthersSame, HistoryGrows
<1>8. TypeInv'
  <2>1. /\ f.st \in {"none", "init", "ready", "error"} /\ f.sess \in Seq(Hosts)
        /\ f.idx \in Nat /\ f.buf \in AnyKeys \cup {None}
    BY Zenon, <1>1, <1>4 DEF TypeInv
  <2>2. /\ sid' \in [Hosts -> [Hosts -> Int]] /\ puts' \subseteq Keys
        /\ store' \in [Servers -> [Keys -> Values \cup {None}]]
        /\ ready' \in [Servers -> Seq({_createPKeyBuff(k) : k \in Keys})]
    BY Zenon, <1>1 DEF TypeInv
  <2> QED
    BY Zenon, <1>4, <1>5, <1>6, <2>1, <2>2, TypeKept
<1>9. (\A u \in Threads : SessionsOk(u))' /\ SidOk'
  <2>1. \A u \in Threads : cl'[u].sess = cl[u].sess /\ cl'[u].st \in {cl[u].st, "error"}
    BY Zenon, <1>4, <1>5
  <2> QED
    BY Zenon, <2>1, SessionsKept
<1>10. PutOnce' /\ HalfPut' /\ ReadyOk'
  <2>1. ReadyShrinks /\ store' = store
    BY Zenon DEF ReadyShrinks
  <2> QED
    BY Zenon, <1>6, <1>7, <2>1, PutsKept
<1>11. BufferOk(t)'
  BY Zenon, <1>3, <1>5, ReturnFreed
<1> QED
  BY Zenon, <1>6, <1>7, <1>8, <1>9, <1>10, <1>11, Assembled

(* A call that is no put returns and leaves the client alone.               *)
LEMMA PlainReturnKeeps ==
    ASSUME NEW t \in Threads, DhtInv, Return(t), call[t].op # "put", cl' = cl,
           UNCHANGED <<sid, store, ready, puts, gone>>
    PROVE  DhtInv'
<1>1. TypeInv /\ BufferOk(t)
  BY Zenon DEF DhtInv
<1>2. Freed(t, cl[t]) = cl[t]
  BY Zenon DEF Freed
<1>3. /\ DOMAIN cl' = Threads /\ cl'[t] = Freed(t, cl[t])
      /\ \A u \in Threads \ {t} : cl'[u] = cl[u]
  BY Zenon, <1>1, <1>2 DEF TypeInv
<1>4. DOMAIN cl[t] = ClientFields /\ cl[t].buf \in AnyKeys \cup {None}
      /\ cl[t].st \in {cl[t].st, "error"}
  BY Zenon, <1>1 DEF TypeInv
<1>5. hold[t] # None => cl[t].buf = hold[t]
  BY Zenon, <1>1 DEF BufferOk
<1> QED
  BY Zenon, <1>3, <1>4, <1>5, ReturnKeeps

(* _runToResponse returns.                                                  *)
LEMMA RunToResponseKeeps ==
    ASSUME NEW t \in Threads, DhtInv, RunToResponse(t)
    PROVE  DhtInv'
<1>1. TypeInv /\ BufferOk(t)
  BY Zenon DEF DhtInv
<1>3. /\ DOMAIN cl' = Threads /\ cl'[t] = Freed(t, cl[t])
      /\ \A u \in Threads \ {t} : cl'[u] = cl[u]
  BY Zenon, <1>1, ClientSet DEF RunToResponse
<1>4. DOMAIN cl[t] = ClientFields /\ cl[t].buf \in AnyKeys \cup {None}
      /\ cl[t].st \in {cl[t].st, "error"}
  BY Zenon, <1>1 DEF TypeInv
<1>5. hold[t] # None => cl[t].buf = hold[t]
  BY Zenon, <1>1 DEF BufferOk
<1>6. Return(t) /\ UNCHANGED <<sid, store, ready, puts, gone>>
  BY Zenon DEF RunToResponse
<1> QED
  BY Zenon, <1>3, <1>4, <1>5, <1>6, ReturnKeeps

(* initialize throws when a neighbour cannot be reached.                    *)
LEMMA ConnectFailsKeeps ==
    ASSUME NEW t \in Threads, DhtInv, ConnectFails(t)
    PROVE  DhtInv'
<1>1. TypeInv /\ BufferOk(t)
  BY Zenon DEF DhtInv
<1>2. PICK c : c = [cl[t] EXCEPT !.st = "error"]
  BY Zenon
<1>3. /\ DOMAIN cl' = Threads /\ cl'[t] = Freed(t, c)
      /\ \A u \in Threads \ {t} : cl'[u] = cl[u]
  BY Zenon, <1>1, <1>2, ClientSet DEF ConnectFails
<1>4. /\ DOMAIN c = ClientFields /\ c.st \in {cl[t].st, "error"}
      /\ c.sess = cl[t].sess /\ c.idx = cl[t].idx
      /\ c.keyUse = cl[t].keyUse /\ c.valUse = cl[t].valUse /\ c.buf = cl[t].buf
  BY Zenon, <1>1, <1>2 DEF TypeInv, ClientFields
<1>5. c.buf \in AnyKeys \cup {None} /\ (hold[t] # None => c.buf = hold[t])
  BY Zenon, <1>1, <1>4 DEF BufferOk, TypeInv
<1>6. Return(t) /\ UNCHANGED <<sid, store, ready, puts, gone>>
  BY Zenon DEF ConnectFails
<1> QED
  BY Zenon, <1>3, <1>4, <1>5, <1>6, ReturnKeeps

(* What fillReqMsg leaves in the buffer is the key that is held, if any,    *)
(* and the key of the call.                                                 *)
LEMMA FilledFacts ==
    ASSUME NEW t \in Threads, DhtInv
    PROVE  /\ fillReqMsg(t) \in AnyKeys \cup {None}
           /\ (call[t].op \in Requests \cup {"getany"} /\ hold[t] # None) =>
                 fillReqMsg(t) = hold[t]
           /\ call[t].op \in Requests => fillReqMsg(t) = call[t].key
<1>1. TypeInv /\ CallOk(t) /\ BufferOk(t)
  BY Zenon DEF DhtInv
<1>2. cl[t].buf \in AnyKeys \cup {None} /\ call[t] \in CallRecords
  BY Zenon, <1>1 DEF TypeInv
<1>3. call[t].key \in AnyKeys \cup {None}
  BY Zenon, <1>2 DEF CallRecords
<1>4. fillReqMsg(t) \in AnyKeys \cup {None}
  BY Zenon, <1>2, <1>3 DEF fillReqMsg
<1>5. call[t].op \in Requests =>
        /\ call[t].op # "getany" /\ call[t].key # None
        /\ hold[t] = (IF call[t].buffered THEN call[t].key ELSE None)
  BY Zenon, <1>1, AnyKeysAssumption DEF CallOk, Requests
<1>6. hold[t] # None => cl[t].buf = hold[t]
  BY Zenon, <1>1 DEF BufferOk
<1>7. CASE call[t].op \in Requests
  <2>1. CASE call[t].buffered
    BY Zenon, <1>4, <1>5, <1>6, <1>7, <2>1 DEF fillReqMsg
  <2>2. CASE ~call[t].buffered
    BY Zenon, <1>4, <1>5, <1>6, <1>7, <2>2 DEF fillReqMsg
  <2> QED
    BY Zenon, <2>1, <2>2
<1>8. CASE call[t].op \notin Requests
  BY Zenon, <1>4, <1>6, <1>8 DEF fillReqMsg
<1> QED
  BY Zenon, <1>7, <1>8

(* The session id that a ready client finds in the DhtNode of a neighbour   *)
(* is that of its own session with it, whichever thread wrote it.           *)
LEMMA SessionIsTarget ==
    ASSUME NEW t \in Threads, DhtInv, cl[t].st = "ready",
           NEW n \in Servers \ {Home[t]}
    PROVE  cl[t].sess[sid[Home[t]][n] + 1] = n
<1>1. SessionsOk(t) /\ SidOk
  BY Zenon DEF DhtInv
<1>2. Home[t] \in Hosts /\ n \in Hosts
  BY Zenon, DhtAssumption DEF Servers
<1>3. PICK i \in 1 .. Len(_neighbors[Home[t]]) : _neighbors[Home[t]][i] = n
  BY Zenon, <1>2, NeighborFacts
<1>4. Len(cl[t].sess) = Len(_neighbors[Home[t]])
  BY Zenon, <1>1 DEF SessionsOk
<1>5. sid[Home[t]][n] # NotSet
  BY Zenon, <1>1, <1>3, <1>4 DEF SessionsOk
<1>6. /\ sid[Home[t]][n] + 1 \in 1 .. Len(_neighbors[Home[t]])
      /\ _neighbors[Home[t]][sid[Home[t]][n] + 1] = n
  BY Zenon, <1>1, <1>2, <1>5 DEF SidOk
<1> QED
  BY Zenon, <1>1, <1>4, <1>6 DEF SessionsOk

(* The host of a request, and for a request of a key, that it owns the key. *)
LEMMA TargetFacts ==
    ASSUME NEW t \in Threads, DhtInv, Targets(t) # {}
    PROVE  /\ Target(t) \in Servers \ {Home[t]}
           /\ call[t].op # "getany" => isLocalKey(Target(t), call[t].key)
           /\ call[t].op = "getany" => nextIdx(Home[t], cl[t].idx) \in Nat
<1>1. Home[t] \in Hosts
  BY Zenon, DhtAssumption
<1>2. cl[t].idx \in Nat
  BY Zenon DEF DhtInv, TypeInv
<1>3. CASE call[t].op = "getany"
  BY Zenon, <1>1, <1>2, <1>3, HostAny DEF Target, Targets
<1>4. CASE call[t].op # "getany"
  BY Zenon, <1>1, <1>4, HostForKey DEF Target, Targets
<1> QED
  BY Zenon, <1>3, <1>4

(* enqueueAndWait sends the request, or throws when no range has the key.   *)
LEMMA EnqueueKeeps ==
    ASSUME NEW t \in Threads, DhtInv, enqueueAndWait(t)
    PROVE  DhtInv'
<1>1. TypeInv /\ CallOk(t) /\ BufferOk(t)
  BY Zenon DEF DhtInv
<1>2. /\ call[t].pc = "client" /\ cl[t].st = "ready"
      /\ call[t].op \in Requests \cup {"getany"}
  BY Zenon DEF enqueueAndWait, InClient, Requests
<1>3. UNCHANGED <<sid, store, ready, puts, gone>>
  BY Zenon DEF enqueueAndWait
<1>4. PICK m : m = fillReqMsg(t)
  BY Zenon
<1>5. /\ m \in AnyKeys \cup {None} /\ (hold[t] # None => m = hold[t])
      /\ call[t].op \in Requests => m = call[t].key
  BY Zenon, <1>2, <1>4, FilledFacts
<1>6. CASE Targets(t) = {}
  <2>1. PICK c : c = [cl[t] EXCEPT !.buf = m]
    BY Zenon
  <2>2. /\ DOMAIN cl' = Threads /\ cl'[t] = Freed(t, c)
        /\ \A u \in Threads \ {t} : cl'[u] = cl[u]
    BY Zenon, <1>1, <1>4, <1>6, <2>1, ClientSet DEF enqueueAndWait
  <2>3. /\ DOMAIN c = ClientFields /\ c.st \in {cl[t].st, "error"}
        /\ c.sess = cl[t].sess /\ c.idx = cl[t].idx
        /\ c.keyUse = cl[t].keyUse /\ c.valUse = cl[t].valUse /\ c.buf = m
    BY Zenon, <1>1, <2>1 DEF TypeInv, ClientFields
  <2>4. Return(t)
    BY Zenon, <1>6 DEF enqueueAndWait
  <2> QED
    BY Zenon, <1>3, <1>5, <2>2, <2>3, <2>4, ReturnKeeps
<1>7. CASE Targets(t) # {}
  <2>1. /\ Target(t) \in Servers \ {Home[t]}
        /\ call[t].op # "getany" => isLocalKey(Target(t), call[t].key)
        /\ call[t].op = "getany" => nextIdx(Home[t], cl[t].idx) \in Nat
    BY Zenon, <1>7, TargetFacts
  <2>2. PICK n : n = cl[t].sess[sid[Home[t]][Target(t)] + 1]
    BY Zenon
  <2>3. n = Target(t)
    BY Zenon, <1>2, <2>1, <2>2, SessionIsTarget
  <2>4. PICK v \in BOOLEAN : v = (call[t].op = "put")
    BY Zenon
  <2>5. PICK x : x = IF call[t].op = "getany" THEN nextIdx(Home[t], cl[t].idx) ELSE cl[t].idx
    BY Zenon
  <2>6. x \in Nat
    BY Zenon, <1>1, <2>1, <2>5 DEF TypeInv
  <2>7. cl' = [cl EXCEPT ![t].buf = m, ![t].valUse = v, ![t].idx = x]
    BY Zenon, <1>4, <1>7, <2>4, <2>5 DEF enqueueAndWait
  <2>8. /\ DOMAIN cl' = Threads /\ DOMAIN cl'[t] = ClientFields
        /\ \A u \in Threads \ {t} : cl'[u] = cl[u]
        /\ cl'[t].st = cl[t].st /\ cl'[t].sess = cl[t].sess /\ cl'[t].idx = x
        /\ cl'[t].keyUse = cl[t].keyUse /\ cl'[t].valUse = v /\ cl'[t].buf = m
    BY Zenon, <1>1, <2>7 DEF TypeInv, ClientFields
  <2>9. PICK d : d = [call[t] EXCEPT !.pc = "queued", !.host = n, !.msg = m]
    BY Zenon
  <2>10. call' = [call EXCEPT ![t] = d]
    <3>1. call' = [call EXCEPT ![t].pc = "queued", ![t].host = n, ![t].msg = m]
      BY Zenon, <1>4, <1>7, <2>2 DEF enqueueAndWait
    <3> QED
      BY Zenon, <1>1, <2>9, <3>1 DEF TypeInv
  <2>11. call[t] \in CallRecords
    BY Zenon, <1>1 DEF TypeInv
  <2>12. /\ d \in CallRecords /\ d.pc = "queued" /\ d.host = n /\ d.msg = m
         /\ d.op = call[t].op /\ d.key = call[t].key /\ d.val = call[t].val
         /\ d.buffered = call[t].buffered
    <3>1. n \in Hosts /\ m \in AnyKeys \cup {None}
      BY <1>5, <2>1, <2>3 DEF Servers
    <3> QED
      BY Zenon, <2>9, <2>11, <3>1 DEF CallRecords
  <2>13. /\ call' \in [Threads -> CallRecords] /\ call'[t] = d
         /\ \A u \in Threads \ {t} : call'[u] = call[u]
    BY Zenon, <1>1, <2>10, <2>12, CallSet
  <2>14. hold' = hold /\ seen' = seen
    BY Zenon, <1>7 DEF enqueueAndWait
  <2>15. OthersSame(t) /\ HistoryGrows
    BY Zenon, <1>3, <2>8, <2>13, <2>14 DEF OthersSame, HistoryGrows
  <2>16. TypeInv'
    <3>1. /\ cl[t].st \in {"none", "init", "ready", "error"} /\ cl[t].sess \in Seq(Hosts)
          /\ cl[t].keyUse \in BOOLEAN
      BY Zenon, <1>1 DEF TypeInv
    <3>2. /\ sid' \in [Hosts -> [Hosts -> Int]] /\ puts' \subseteq Keys
          /\ store' \in [Servers -> [Keys -> Values \cup {None}]]
          /\ ready' \in [Servers -> Seq({_createPKeyBuff(k) : k \in Keys})]
          /\ DOMAIN seen' = Threads /\ hold' \in [Threads -> AnyKeys \cup {None}]
      BY Zenon, <1>1, <1>3, <2>14 DEF TypeInv
    <3> QED
      BY Zenon, <1>5, <2>4, <2>6, <2>8, <2>13, <3>1, <3>2, TypeKept
  <2>17. (\A u \in Threads : SessionsOk(u))' /\ SidOk'
    BY Zenon, <1>3, <2>8, SessionsKept
  <2>18. PutOnce' /\ HalfPut' /\ ReadyOk'
    <3>1. ReadyShrinks /\ store' = store
      BY Zenon, <1>3 DEF ReadyShrinks
    <3>2. Quiet(t)
      BY Zenon, <1>2, <2>12, <2>13 DEF Quiet
    <3> QED
      BY Zenon, <2>15, <3>1, <3>2, PutsKept
  <2>19. CallOk(t)'
    <3>1. n \in Servers /\ n # NotSet
      BY <2>1, <2>3, DhtCoreAssumption DEF NotSet, Servers
    <3>2. d.op \in Requests => /\ ~Local(t, d.key) /\ d.msg = d.key
                               /\ isLocalKey(d.host, d.key)
      BY Zenon, <1>1, <1>2, <1>5, <2>1, <2>3, <2>12 DEF CallOk, Requests
    <3>3. /\ d.op # "none" /\ d.op # "allockey"
          /\ d.op \in Requests => /\ d.key \in AnyKeys
                                  /\ hold[t] = (IF d.buffered THEN d.key ELSE None)
          /\ d.op = "put" => (d.key \in puts /\ d.val \in Values)
          /\ d.op = "remove" => d.key \in gone
      BY Zenon, <1>1, <1>2, <2>12 DEF CallOk, Requests
    <3>4. Local(t, d.key)' <=> Local(t, d.key)
      BY Zenon DEF Local
    <3> QED
      BY Zenon, <1>3, <2>12, <2>13, <2>14, <3>1, <3>2, <3>3, <3>4 DEF CallOk, Handled, Local
  <2>20. BufferOk(t)'
    <3>1. call[t].op = "put" => ~Local(t, call[t].key)
      BY Zenon, <1>1, <1>2 DEF CallOk, Requests
    <3> QED
      BY Zenon, <1>1, <1>5, <2>4, <2>8, <2>12, <2>13, <2>14, <3>1 DEF BufferOk, Local
  <2> QED
    BY Zenon, <2>15, <2>16, <2>17, <2>18, <2>19, <2>20, Assembled
<1> QED
  BY Zenon, <1>6, <1>7

(* A step of the client that concerns its sessions only.                    *)
LEMMA SessionStepKeeps ==
    ASSUME NEW t \in Threads, DhtInv,
           DOMAIN cl' = Threads, \A u \in Threads \ {t} : cl'[u] = cl[u],
           DOMAIN cl'[t] = ClientFields,
           cl'[t].st \in {"none", "init", "ready", "error"},
           cl'[t].sess \in Seq(Hosts), cl'[t].idx = cl[t].idx,
           cl'[t].keyUse = cl[t].keyUse, cl'[t].valUse = cl[t].valUse,
           cl'[t].buf = cl[t].buf, sid' \in [Hosts -> [Hosts -> Int]],
           UNCHANGED <<call, hold, store, ready, seen, puts, gone>>,
           (\A u \in Threads : SessionsOk(u))', SidOk'
    PROVE  DhtInv'
<1>1. TypeInv /\ CallOk(t) /\ BufferOk(t)
  BY Zenon DEF DhtInv
<1>2. call' = call /\ hold' = hold /\ store' = store /\ ready' = ready /\ seen' = seen
      /\ puts' = puts /\ gone' = gone
  BY Zenon
<1>3. TypeInv'
  BY Zenon, <1>1, <1>2, TypeKept DEF TypeInv
<1>4. CallOk(t)'
  BY Zenon, <1>1, <1>2 DEF CallOk, Local, NoCall
<1>5. BufferOk(t)'
  BY Zenon, <1>1, <1>2 DEF BufferOk, Local
<1>6. OthersSame(t) /\ HistoryGrows
  BY Zenon, <1>2 DEF OthersSame, HistoryGrows
<1>7. PutOnce' /\ HalfPut' /\ ReadyOk'
  <2>1. PutOnce' /\ HalfPut'
    BY <1>2 DEF DhtInv, PutOnce, HalfPut, Kept, At, Remote
  <2>2. ReadyOk'
    BY <1>2 DEF DhtInv, ReadyOk, Kept, Putting
  <2> QED
    BY Zenon, <2>1, <2>2
<1> QED
  BY Zenon, <1>3, <1>4, <1>5, <1>6, <1>7, Assembled

(* The sessions of the threads whose client does not change.                *)
LEMMA OtherSessions ==
    ASSUME DhtInv, NEW u \in Threads, cl'[u] = cl[u],
           \A h \in Hosts, n \in Hosts : sid[h][n] # NotSet => sid'[h][n] # NotSet
    PROVE  SessionsOk(u)'
<1>1. SessionsOk(u) /\ TypeInv
  BY Zenon DEF DhtInv
<1>2. Home[u] \in Hosts
  BY Zenon, DhtAssumption
<1>3. \A i \in 1 .. Len(_neighbors[Home[u]]) : _neighbors[Home[u]][i] \in Hosts
  BY Zenon, <1>2, NeighborFacts
<1>4. \A i \in 1 .. Len(cl[u].sess) : i \in 1 .. Len(_neighbors[Home[u]])
  <2>1. PICK a, b : a = Len(cl[u].sess) /\ b = Len(_neighbors[Home[u]])
    BY Zenon
  <2>2. cl[u].sess \in Seq(Hosts) /\ a <= b /\ b \in Nat
    BY Zenon, <1>1, <1>2, <2>1, NeighborFacts DEF SessionsOk, TypeInv
  <2>3. a \in Nat
    BY <2>1, <2>2
  <2>4. \A i \in 1 .. a : i \in 1 .. b
    BY <2>2, <2>3
  <2> QED
    BY Zenon, <2>1, <2>4
<1>5. \A i \in 1 .. Len(cl[u].sess) : sid'[Home[u]][_neighbors[Home[u]][i]] # NotSet
  BY Zenon, <1>1, <1>2, <1>3, <1>4 DEF SessionsOk
<1> QED
  BY Zenon, <1>1, <1>5 DEF SessionsOk

(* getClient makes the client of a thread.                                  *)
LEMMA ClientNewKeeps ==
    ASSUME NEW t \in Threads, DhtInv, ClientNew(t)
    PROVE  DhtInv'
<1>1. TypeInv /\ SessionsOk(t) /\ SidOk
  BY Zenon DEF DhtInv
<1>2. PICK st \in {"ready", "init"} :
        st = IF _neighbors[Home[t]] = <<>> THEN "ready" ELSE "init"
  BY Zenon
<1>3. PICK r : r = remoteRpcId(Home[t], Cardinality(Clients(Home[t])))
  BY Zenon
<1>4. cl' = [cl EXCEPT ![t].st = st, ![t].rpc = r]
  BY Zenon, <1>2, <1>3 DEF ClientNew
<1>5. /\ DOMAIN cl' = Threads /\ DOMAIN cl'[t] = ClientFields
      /\ \A u \in Threads \ {t} : cl'[u] = cl[u]
      /\ cl'[t].st = st /\ cl'[t].sess = cl[t].sess /\ cl'[t].idx = cl[t].idx
      /\ cl'[t].keyUse = cl[t].keyUse /\ cl'[t].valUse = cl[t].valUse
      /\ cl'[t].buf = cl[t].buf
  BY Zenon, <1>1, <1>4 DEF TypeInv, ClientFields
<1>6. sid' = sid /\ UNCHANGED <<call, hold, store, ready, seen, puts, gone>>
  BY Zenon DEF ClientNew
<1>7. Len(cl[t].sess) = 0 /\ Home[t] \in Hosts
  BY Zenon, <1>1, DhtAssumption DEF SessionsOk, ClientNew
<1>8. /\ st = "ready" => Len(_neighbors[Home[t]]) = 0
      /\ st = "init" => Len(_neighbors[Home[t]]) > 0
      /\ Len(_neighbors[Home[t]]) \in Nat
  BY <1>2, <1>7, NeighborsAssumption
<1>9. SessionsOk(t)'
  BY <1>1, <1>5, <1>7, <1>8 DEF SessionsOk
<1>10. \A u \in Threads \ {t} : SessionsOk(u)'
  BY Zenon, <1>5, <1>6, OtherSessions
<1>11. (\A u \in Threads : SessionsOk(u))'
  BY Zenon, <1>9, <1>10
<1>12. SidOk'
  BY Zenon, <1>1, <1>6 DEF SidOk
<1>13. /\ st \in {"none", "init", "ready", "error"} /\ cl[t].sess \in Seq(Hosts)
       /\ sid \in [Hosts -> [Hosts -> Int]]
  BY Zenon, <1>1 DEF TypeInv
<1> QED
  BY Zenon, <1>5, <1>6, <1>11, <1>12, <1>13, SessionStepKeeps

(* _initializeNode: the next session has the number of the neighbour's      *)
(* place, for every client of the process.                                  *)
LEMMA ConnectKeeps ==
    ASSUME NEW t \in Threads, DhtInv, Connect(t)
    PROVE  DhtInv'
<1>1. TypeInv /\ SessionsOk(t) /\ SidOk /\ cl[t].st = "init"
  BY Zenon DEF DhtInv, Connect, Connecting
<1> DEFINE all == _neighbors[Home[t]]
           len == Len(cl[t].sess)
<1>2. /\ len + 1 \in 1 .. Len(all)
      /\ Neighbor(t) = all[len + 1]
      /\ After(t) = "ready" => len + 1 = Len(all)
      /\ After(t) # "ready" => len + 1 < Len(all)
      /\ After(t) \in {"init", "ready"}
  BY Zenon, <1>1, NextNeighbor
<1>3. PICK n, st, l : n = Neighbor(t) /\ st = After(t) /\ l = len
  BY Zenon
<1>4. cl' = [cl EXCEPT ![t].sess = Append(@, n), ![t].st = st]
      /\ sid' = [sid EXCEPT ![Home[t]][n] = l]
  BY Zenon, <1>3 DEF Connect, _initializeNode, Sid
<1>5. UNCHANGED <<call, hold, store, ready, seen, puts, gone>>
  BY Zenon DEF Connect
<1>6. Home[t] \in Hosts /\ n \in Hosts /\ l \in Nat /\ cl[t].sess \in Seq(Hosts)
  <2>1. Home[t] \in Hosts /\ cl[t].sess \in Seq(Hosts)
    BY Zenon, <1>1, DhtAssumption DEF TypeInv
  <2>2. n \in Hosts
    <3>1. \A i \in 1 .. Len(all) : all[i] \in Hosts
      BY Zenon, <2>1, NeighborFacts
    <3> QED
      BY Zenon, <1>2, <1>3, <3>1
  <2>3. l \in Nat
    BY <1>3, <2>1
  <2> QED
    BY Zenon, <2>1, <2>2, <2>3
<1>7. /\ DOMAIN cl' = Threads /\ DOMAIN cl'[t] = ClientFields
      /\ \A u \in Threads \ {t} : cl'[u] = cl[u]
      /\ cl'[t].st = st /\ cl'[t].sess = Append(cl[t].sess, n) /\ cl'[t].idx = cl[t].idx
      /\ cl'[t].keyUse = cl[t].keyUse /\ cl'[t].valUse = cl[t].valUse
      /\ cl'[t].buf = cl[t].buf
  BY Zenon, <1>1, <1>4 DEF TypeInv, ClientFields
<1>8. /\ sid' \in [Hosts -> [Hosts -> Int]] /\ sid'[Home[t]][n] = l
      /\ \A h \in Hosts, m \in Hosts : (h # Home[t] \/ m # n) => sid'[h][m] = sid[h][m]
  BY <1>1, <1>4, <1>6 DEF TypeInv
<1>9. l # NotSet
  BY <1>6 DEF NotSet
<1>10. \A h \in Hosts, m \in Hosts : sid[h][m] # NotSet => sid'[h][m] # NotSet
  BY Zenon, <1>8, <1>9
<1>11. SidOk'
  <2> SUFFICES ASSUME NEW h \in Hosts, NEW m \in Hosts, sid'[h][m] # NotSet
               PROVE  /\ sid'[h][m] + 1 \in 1 .. Len(_neighbors[h])
                      /\ _neighbors[h][sid'[h][m] + 1] = m
    BY Zenon DEF SidOk
  <2>1. CASE h = Home[t] /\ m = n
    BY Zenon, <1>2, <1>3, <1>8, <2>1
  <2>2. CASE h # Home[t] \/ m # n
    <3>1. sid'[h][m] = sid[h][m]
      BY Zenon, <1>8, <2>2
    <3>2. /\ sid[h][m] + 1 \in 1 .. Len(_neighbors[h])
          /\ _neighbors[h][sid[h][m] + 1] = m
      BY Zenon, <1>1, <3>1 DEF SidOk
    <3> QED
      BY Zenon, <3>1, <3>2
  <2> QED
    BY Zenon, <2>1, <2>2
<1>12. Append(cl[t].sess, n) \in Seq(Hosts) /\ Len(Append(cl[t].sess, n)) = l + 1
       /\ Append(cl[t].sess, n)[l + 1] = n
       /\ \A i \in 1 .. l : Append(cl[t].sess, n)[i] = cl[t].sess[i]
  BY <1>3, <1>6
<1>13. SessionsOk(t)'
  <2>1. Len(all) \in Nat
    BY Zenon, <1>6, NeighborFacts
  <2>2. ASSUME NEW i \in 1 .. l + 1
        PROVE  Append(cl[t].sess, n)[i] = all[i] /\ sid'[Home[t]][all[i]] # NotSet
    <3>1. CASE i = l + 1
      BY Zenon, <1>2, <1>3, <1>8, <1>9, <1>12, <3>1
    <3>2. CASE i # l + 1
      <4>1. i \in 1 .. l /\ i \in 1 .. Len(all)
        BY <1>2, <1>3, <1>6, <2>1, <3>2
      <4>2. cl[t].sess[i] = all[i] /\ sid[Home[t]][all[i]] # NotSet
        BY Zenon, <1>1, <1>3, <4>1 DEF SessionsOk
      <4>3. all[i] \in Hosts
        BY Zenon, <1>6, <4>1, NeighborFacts
      <4> QED
        BY Zenon, <1>6, <1>10, <1>12, <4>1, <4>2, <4>3
    <3> QED
      BY Zenon, <3>1, <3>2
  <2>3. /\ l + 1 <= Len(all)
        /\ st = "ready" => l + 1 = Len(all)
        /\ st # "none"
        /\ st = "init" => l + 1 < Len(all)
    BY <1>2, <1>3, <2>1
  <2> HIDE DEF all, len
  <2> QED
    BY Zenon, <1>7, <1>12, <2>2, <2>3 DEF SessionsOk, all
<1>14. \A u \in Threads \ {t} : SessionsOk(u)'
  BY Zenon, <1>7, <1>10, OtherSessions
<1>15. (\A u \in Threads : SessionsOk(u))'
  BY Zenon, <1>13, <1>14
<1>16. cl'[t].st \in {"none", "init", "ready", "error"} /\ cl'[t].sess \in Seq(Hosts)
  BY Zenon, <1>2, <1>3, <1>7, <1>12
<1> QED
  BY Zenon, <1>5, <1>7, <1>8, <1>11, <1>15, <1>16, SessionStepKeeps

(* What the invariant is about.                                             *)
LEMMA NothingChanges ==
    ASSUME DhtInv, UNCHANGED <<cl, sid, call, hold, store, ready, seen, puts, gone>>
    PROVE  DhtInv'
<1>1. /\ cl' = cl /\ sid' = sid /\ call' = call /\ hold' = hold /\ store' = store
      /\ ready' = ready /\ seen' = seen /\ puts' = puts /\ gone' = gone
  BY Zenon
<1>2. TypeInv'
  BY Zenon, <1>1 DEF DhtInv, TypeInv
<1>3. (\A t \in Threads : SessionsOk(t))' /\ SidOk'
  BY <1>1 DEF DhtInv, SessionsOk, SidOk
<1>4. (\A t \in Threads : CallOk(t))' /\ (\A t \in Threads : BufferOk(t))'
  <2> SUFFICES ASSUME NEW t \in Threads PROVE CallOk(t)' /\ BufferOk(t)'
    BY Zenon
  <2>1. CallOk(t) /\ BufferOk(t)
    BY Zenon DEF DhtInv
  <2>2. CallOk(t)'
    BY Zenon, <1>1, <2>1 DEF CallOk, Local, NoCall
  <2>3. BufferOk(t)'
    BY Zenon, <1>1, <2>1 DEF BufferOk, Local
  <2> QED
    BY Zenon, <2>2, <2>3
<1>5. PutOnce' /\ HalfPut' /\ ReadyOk'
  BY <1>1 DEF DhtInv, PutOnce, HalfPut, ReadyOk, Kept, Putting, At, Remote
<1> QED
  BY Zenon, <1>2, <1>3, <1>4, <1>5 DEF DhtInv

(* A call returns a key in the request buffer: allocKey, or a key of the    *)
(* ready queue.                                                             *)
LEMMA KeyGivenKeeps ==
    ASSUME NEW t \in Threads, DhtInv, call[t].op # "put", NEW k \in AnyKeys,
           cl' = [cl EXCEPT ![t].keyUse = TRUE, ![t].buf = k],
           call' = [call EXCEPT ![t] = NoCall], hold' = [hold EXCEPT ![t] = k],
           UNCHANGED <<sid, store, seen, puts, gone>>, ReadyShrinks,
           ready' \in [Servers -> Seq({_createPKeyBuff(j) : j \in Keys})]
    PROVE  DhtInv'
<1>1. TypeInv /\ BufferOk(t)
  BY Zenon DEF DhtInv
<1>2. /\ DOMAIN cl' = Threads /\ DOMAIN cl'[t] = ClientFields
      /\ \A u \in Threads \ {t} : cl'[u] = cl[u]
      /\ cl'[t].st = cl[t].st /\ cl'[t].sess = cl[t].sess /\ cl'[t].idx = cl[t].idx
      /\ cl'[t].keyUse = TRUE /\ cl'[t].valUse = cl[t].valUse /\ cl'[t].buf = k
  BY Zenon, <1>1 DEF TypeInv, ClientFields
<1>3. /\ call' \in [Threads -> CallRecords] /\ call'[t] = NoCall
      /\ \A u \in Threads \ {t} : call'[u] = call[u]
  BY Zenon, <1>1, NoCallFacts, CallSet
<1>4. /\ hold' \in [Threads -> AnyKeys \cup {None}] /\ hold'[t] = k
      /\ \A u \in Threads \ {t} : hold'[u] = hold[u]
  BY Zenon, <1>1 DEF TypeInv
<1>5. OthersSame(t) /\ HistoryGrows
  BY Zenon, <1>2, <1>3, <1>4 DEF OthersSame, HistoryGrows
<1>6. TypeInv'
  <2>1. /\ cl[t].st \in {"none", "init", "ready", "error"} /\ cl[t].sess \in Seq(Hosts)
        /\ cl[t].idx \in Nat /\ cl[t].valUse \in BOOLEAN
        /\ k \in AnyKeys \cup {None} /\ TRUE \in BOOLEAN
    BY Zenon, <1>1 DEF TypeInv
  <2>2. /\ sid' \in [Hosts -> [Hosts -> Int]] /\ puts' \subseteq Keys
        /\ store' \in [Servers -> [Keys -> Values \cup {None}]]
        /\ DOMAIN seen' = Threads
    BY Zenon, <1>1 DEF TypeInv
  <2> QED
    BY Zenon, <1>2, <1>3, <1>4, <2>1, <2>2, TypeKept
<1>7. (\A u \in Threads : SessionsOk(u))' /\ SidOk'
  BY Zenon, <1>2, SessionsKept
<1>8. CallOk(t)' /\ Quiet(t)
  BY Zenon, <1>3, NoCallFacts DEF CallOk, Requests, Handled, Quiet
<1>9. PutOnce' /\ HalfPut' /\ ReadyOk'
  BY Zenon, <1>5, <1>8, PutsKept
<1>10. BufferOk(t)'
  <2>1. ~cl[t].valUse
    BY Zenon, <1>1 DEF BufferOk
  <2> QED
    BY Zenon, <1>2, <1>4, <2>1, AnyKeysAssumption DEF BufferOk
<1> QED
  BY Zenon, <1>5, <1>6, <1>7, <1>8, <1>9, <1>10, Assembled

(* DhtClient::allocKey.                                                     *)
LEMMA ClientAllocKeyKeeps ==
    ASSUME NEW t \in Threads, DhtInv, ClientAllocKey(t)
    PROVE  DhtInv'
<1>1. call[t].op = "allockey" /\ call[t].op # "put"
  BY Zenon DEF ClientAllocKey
<1>2. UNCHANGED <<sid, store, ready, puts, gone>>
  BY Zenon DEF ClientAllocKey
<1>3. CASE cl[t].keyUse
  <2>1. Return(t) /\ cl' = cl
    BY Zenon, <1>3 DEF ClientAllocKey
  <2> QED
    BY Zenon, <1>1, <1>2, <2>1, PlainReturnKeeps
<1>4. CASE ~cl[t].keyUse
  <2>1. /\ cl' = [cl EXCEPT ![t].keyUse = TRUE, ![t].buf = call[t].key]
        /\ call' = [call EXCEPT ![t] = NoCall]
        /\ hold' = [hold EXCEPT ![t] = call[t].key] /\ seen' = seen
    BY Zenon, <1>4 DEF ClientAllocKey
  <2>2. call[t].key \in AnyKeys
    BY Zenon, <1>1 DEF DhtInv, CallOk
  <2>3. ReadyShrinks /\ ready' \in [Servers -> Seq({_createPKeyBuff(j) : j \in Keys})]
    BY Zenon, <1>2 DEF ReadyShrinks, DhtInv, TypeInv
  <2>4. UNCHANGED <<sid, store, seen, puts, gone>>
    BY Zenon, <1>2, <2>1
  <2> QED
    BY Zenon, <1>1, <2>1, <2>2, <2>3, <2>4, KeyGivenKeeps
<1> QED
  BY Zenon, <1>3, <1>4

(* A queue without its first key.                                           *)
LEMMA TailShrinks ==
    ASSUME NEW h \in Servers, TypeInv, ready[h] # <<>>,
           ready' = [ready EXCEPT ![h] = Tail(@)]
    PROVE  /\ ReadyShrinks
           /\ ready' \in [Servers -> Seq({_createPKeyBuff(j) : j \in Keys})]
           /\ dequeuedKey(Head(ready[h])) \in AnyKeys
<1> DEFINE B == {_createPKeyBuff(j) : j \in Keys}
<1>1. ready \in [Servers -> Seq(B)]
  BY Zenon DEF TypeInv
<1> HIDE DEF B
<1>2. /\ Tail(ready[h]) \in Seq(B) /\ Head(ready[h]) \in B
      /\ \A i \in 1 .. Len(Tail(ready[h])) : /\ i + 1 \in 1 .. Len(ready[h])
                                             /\ Tail(ready[h])[i] = ready[h][i + 1]
  BY <1>1
<1>3. ready' \in [Servers -> Seq(B)] /\ ready'[h] = Tail(ready[h])
      /\ \A g \in Servers \ {h} : ready'[g] = ready[g]
  BY Zenon, <1>1, <1>2
<1>4. ReadyShrinks
  <2> SUFFICES ASSUME NEW g \in Servers, NEW i \in 1 .. Len(ready'[g])
               PROVE  \E j \in 1 .. Len(ready[g]) : ready'[g][i] = ready[g][j]
    BY Zenon DEF ReadyShrinks
  <2>1. CASE g = h
    BY Zenon, <1>2, <1>3, <2>1
  <2>2. CASE g # h
    BY Zenon, <1>3, <2>2
  <2> QED
    BY Zenon, <2>1, <2>2
<1>5. dequeuedKey(Head(ready[h])) \in AnyKeys
  BY Zenon, <1>2 DEF B, AnyKeys
<1> QED
  BY Zenon, <1>3, <1>4, <1>5 DEF B

(* KVStore::GetAny.                                                         *)
LEMMA LocalGetAnyKeeps ==
    ASSUME NEW t \in Threads, DhtInv, LocalGetAny(t)
    PROVE  DhtInv'
<1>1. call[t].op # "put" /\ Home[t] \in Servers
  BY Zenon, DhtAssumption DEF LocalGetAny, Servers
<1>2. UNCHANGED <<sid, store, puts, gone>>
  BY Zenon DEF LocalGetAny
<1>3. CASE cl[t].keyUse \/ MaxReady = 0 \/ ready[Home[t]] = <<>>
  <2>1. Return(t) /\ cl' = cl /\ ready' = ready
    BY Zenon, <1>3 DEF LocalGetAny
  <2>2. UNCHANGED <<sid, store, ready, puts, gone>>
    BY Zenon, <1>2, <2>1
  <2> QED
    BY Zenon, <1>1, <2>1, <2>2, PlainReturnKeeps
<1>4. CASE ~(cl[t].keyUse \/ MaxReady = 0 \/ ready[Home[t]] = <<>>)
  <2>1. PICK k : k = dequeuedKey(Head(ready[Home[t]]))
    BY Zenon
  <2>2. /\ cl' = [cl EXCEPT ![t].keyUse = TRUE, ![t].buf = k]
        /\ ready' = [ready EXCEPT ![Home[t]] = Tail(@)]
        /\ call' = [call EXCEPT ![t] = NoCall]
        /\ hold' = [hold EXCEPT ![t] = k] /\ seen' = seen
    BY Zenon, <1>4, <2>1 DEF LocalGetAny
  <2>3. /\ ReadyShrinks /\ ready' \in [Servers -> Seq({_createPKeyBuff(j) : j \in Keys})]
        /\ k \in AnyKeys
    BY Zenon, <1>1, <1>4, <2>1, <2>2, TailShrinks DEF DhtInv
  <2>4. UNCHANGED <<sid, store, seen, puts, gone>>
    BY Zenon, <1>2, <2>2
  <2> QED
    BY Zenon, <1>1, <2>2, <2>3, <2>4, KeyGivenKeeps
<1> QED
  BY Zenon, <1>3, <1>4

(* A client without buffers ends its process.                               *)
LEMMA ClientUnusableKeeps ==
    ASSUME NEW t \in Threads, DhtInv, ClientUnusable(t)
    PROVE  DhtInv'
<1>1. UNCHANGED <<cl, sid, call, hold, store, ready, seen, puts, gone>>
  BY Zenon DEF ClientUnusable
<1> QED
  BY Zenon, <1>1, NothingChanges

------------------------------------------------------------------------------
(* The handlers.                                                            *)

(* A handler runs on a node with a store, and for the key of the call.      *)
LEMMA HandlerFacts ==
    ASSUME NEW t \in Threads, DhtInv, call[t].pc \in Handled \cup {"queued"}
    PROVE  /\ At(t) \in Servers
           /\ call[t].op \in Requests => /\ Asked(t) = call[t].key
                                         /\ isLocalKey(At(t), call[t].key)
           /\ call[t].op = "put" => Asked(t) \in Keys
<1>1. TypeInv /\ CallOk(t)
  BY Zenon DEF DhtInv
<1>2. CASE Remote(t)
  <2>1. At(t) = call[t].host /\ Asked(t) = call[t].msg
    BY Zenon, <1>2 DEF At, Asked
  <2> QED
    BY Zenon, <1>1, <1>2, <2>1 DEF CallOk, Remote, Requests, TypeInv
<1>3. CASE ~Remote(t)
  <2>1. At(t) = Home[t] /\ Asked(t) = call[t].key
    BY Zenon, <1>3 DEF At, Asked
  <2>2. call[t].pc \in Handled /\ call[t].host = NotSet
    BY Zenon, <1>1, <1>3 DEF CallOk, Remote
  <2>3. Local(t, call[t].key)
    BY Zenon, <1>1, <2>2 DEF CallOk
  <2>4. Home[t] \in Servers /\ isLocalKey(Home[t], call[t].key)
    BY Zenon, <2>3, DhtAssumption DEF Local, Servers
  <2>5. call[t].op = "put" => call[t].key \in Keys
    BY Zenon, <1>1 DEF CallOk, TypeInv
  <2> QED
    BY Zenon, <2>1, <2>4, <2>5
<1> QED
  BY Zenon, <1>2, <1>3

(* What a server step leaves: the call goes on to another place.            *)
LEMMA ServerStepKeeps ==
    ASSUME NEW t \in Threads, DhtInv, call[t].pc \in {"queued", "serve", "announce"},
           NEW d \in CallRecords, call' = [call EXCEPT ![t] = d],
           d.op = call[t].op, d.key = call[t].key, d.val = call[t].val,
           d.buffered = call[t].buffered, d.host = call[t].host, d.msg = call[t].msg,
           d.pc \in Handled, d.pc = "announce" => d.op = "put",
           UNCHANGED <<cl, sid, hold, puts, gone>>, DOMAIN seen' = Threads,
           store' \in [Servers -> [Keys -> Values \cup {None}]],
           ready' \in [Servers -> Seq({_createPKeyBuff(k) : k \in Keys})],
           HalfPut' /\ ReadyOk'
    PROVE  DhtInv'
<1>1. TypeInv /\ CallOk(t) /\ BufferOk(t) /\ PutOnce
  BY Zenon DEF DhtInv
<1>2. /\ call' \in [Threads -> CallRecords] /\ call'[t] = d
      /\ \A u \in Threads \ {t} : call'[u] = call[u]
  BY Zenon, <1>1, CallSet
<1>3. cl' = cl /\ sid' = sid /\ hold' = hold /\ puts' = puts /\ gone' = gone
  BY Zenon
<1>4. OthersSame(t) /\ HistoryGrows
  BY Zenon, <1>2, <1>3 DEF OthersSame, HistoryGrows
<1>5. TypeInv'
  BY Zenon, <1>1, <1>2, <1>3 DEF TypeInv
<1>6. (\A u \in Threads : SessionsOk(u))' /\ SidOk'
  BY Zenon, <1>3, SessionsKept
<1>7. BufferOk(t)'
  BY Zenon, <1>1, <1>2, <1>3 DEF BufferOk, Local
<1>8. \A u \in Threads : call'[u].op = call[u].op /\ call'[u].key = call[u].key
  BY Zenon, <1>2
<1>9. PutOnce'
  BY <1>1, <1>8 DEF PutOnce
<1>10. CallOk(t)'
  <2>1. d.host = NotSet => (d.op \in Requests /\ Local(t, d.key))
    BY Zenon, <1>1 DEF CallOk, Handled
  <2>2. d.op # "none" /\ d.op # "allockey"
    BY Zenon, <1>1 DEF CallOk
  <2>3. /\ d.host # NotSet => d.host \in Servers
        /\ (d.op \in Requests /\ d.host # NotSet) => ~Local(t, d.key)
        /\ d.op \in Requests => /\ d.key \in AnyKeys
                                /\ hold[t] = (IF d.buffered THEN d.key ELSE None)
        /\ d.op = "put" => (d.key \in puts /\ d.val \in Values)
        /\ d.op = "remove" => d.key \in gone
        /\ (d.op \in Requests /\ d.host # NotSet) =>
              (d.msg = d.key /\ isLocalKey(d.host, d.key))
    BY Zenon, <1>1 DEF CallOk
  <2>4. d.pc \notin {"idle", "client", "queued"}
    BY Zenon DEF Handled
  <2> QED
    BY Zenon, <1>2, <1>3, <2>1, <2>2, <2>3, <2>4 DEF CallOk, Local
<1> QED
  BY Zenon, <1>4, <1>5, <1>6, <1>7, <1>9, <1>10, Assembled

(* enqueue_response.                                                        *)
LEMMA RespondFacts ==
    ASSUME NEW t \in Threads, TypeInv,
           NEW s \in {"OK", "KEY_NOT_FOUND", "QUEUE_FULL_ERROR"},
           NEW r \in Values \cup AnyKeys \cup {None}, Respond(t, s, r)
    PROVE  /\ UNCHANGED <<cl, sid, hold, puts, gone>>
           /\ \E d \in CallRecords :
                /\ call' = [call EXCEPT ![t] = d]
                /\ d.op = call[t].op /\ d.key = call[t].key /\ d.val = call[t].val
                /\ d.buffered = call[t].buffered /\ d.host = call[t].host
                /\ d.msg = call[t].msg /\ d.pc = "resp" /\ d.res = r
<1>1. UNCHANGED <<cl, sid, hold, puts, gone>>
  BY Zenon DEF Respond
<1>2. PICK d : d = [call[t] EXCEPT !.pc = "resp", !.status = s, !.res = r]
  BY Zenon
<1>3. call[t] \in CallRecords /\ call \in [Threads -> CallRecords]
  BY Zenon DEF TypeInv
<1>4. call' = [call EXCEPT ![t] = d]
  <2>1. call' = [call EXCEPT ![t].pc = "resp", ![t].status = s, ![t].res = r]
    BY Zenon DEF Respond
  <2> QED
    BY Zenon, <1>2, <1>3, <2>1
<1>5. /\ d \in CallRecords /\ d.pc = "resp" /\ d.res = r
      /\ d.op = call[t].op /\ d.key = call[t].key /\ d.val = call[t].val
      /\ d.buffered = call[t].buffered /\ d.host = call[t].host /\ d.msg = call[t].msg
  BY Zenon, <1>2, <1>3 DEF CallRecords, Handled
<1> QED
  BY Zenon, <1>1, <1>4, <1>5

(* The handler goes to another place.                                       *)
LEMMA GotoFacts ==
    ASSUME NEW t \in Threads, TypeInv, NEW pc \in Handled, Goto(t, pc)
    PROVE  \E d \in CallRecords :
             /\ call' = [call EXCEPT ![t] = d]
             /\ d.op = call[t].op /\ d.key = call[t].key /\ d.val = call[t].val
             /\ d.buffered = call[t].buffered /\ d.host = call[t].host
             /\ d.msg = call[t].msg /\ d.pc = pc
<1>1. PICK d : d = [call[t] EXCEPT !.pc = pc]
  BY Zenon
<1>2. call[t] \in CallRecords /\ call \in [Threads -> CallRecords]
  BY Zenon DEF TypeInv
<1>3. call' = [call EXCEPT ![t] = d]
  BY Zenon, <1>1 DEF Goto
<1>4. /\ d \in CallRecords /\ d.pc = pc
      /\ d.op = call[t].op /\ d.key = call[t].key /\ d.val = call[t].val
      /\ d.buffered = call[t].buffered /\ d.host = call[t].host /\ d.msg = call[t].msg
  BY Zenon, <1>1, <1>2 DEF CallRecords
<1> QED
  BY Zenon, <1>3, <1>4

(* What is kept stays kept, on every node.                                  *)
KeptGrows == \A h \in Servers, k \in Keys : Kept(h, k) => Kept(h, k)'

(* The puts half way stay good and the announced keys stored, when the call *)
(* of t, which may answer but not announce, changes no other.               *)
LEMMA AnnouncedKept ==
    ASSUME NEW t \in Threads, DhtInv, NEW d, call' = [call EXCEPT ![t] = d],
           d.op = call[t].op, d.key = call[t].key, d.pc \in {"serve", "resp"},
           call[t].pc # "resp", puts' = puts, KeptGrows, ReadyShrinks
    PROVE  HalfPut' /\ ReadyOk'
<1>1. TypeInv
  BY Zenon DEF DhtInv
<1>2. call'[t] = d /\ \A u \in Threads \ {t} : call'[u] = call[u]
  BY Zenon, <1>1 DEF TypeInv
<1>3. HalfPut'
  <2> SUFFICES ASSUME NEW u \in Threads, call'[u].pc = "announce"
               PROVE  Kept(At(u), call[u].key)'
    BY Zenon DEF HalfPut
  <2>1. u # t
    BY Zenon, <1>2
  <2>2. call'[u] = call[u]
    BY Zenon, <1>2, <2>1
  <2>3. Kept(At(u), call[u].key)
    BY Zenon, <2>2 DEF DhtInv, HalfPut
  <2>4. At(u) \in Servers /\ call[u].key \in Keys
    <3>1. call[u].pc \in Handled \cup {"queued"} /\ call[u].pc = "announce"
      BY Zenon, <2>2 DEF Handled
    <3>2. call[u].op = "put" /\ call[u].key \in puts
      BY Zenon, <3>1 DEF DhtInv, CallOk
    <3> QED
      BY Zenon, <1>1, <3>1, <3>2, HandlerFacts DEF TypeInv
  <2>5. PICK a, k : a = At(u) /\ k = call[u].key
    BY Zenon
  <2>6. Kept(a, k)'
    BY Zenon, <2>3, <2>4, <2>5 DEF KeptGrows
  <2>7. At(u)' = a /\ call'[u].key = k
    BY <2>2, <2>5 DEF At, Remote
  <2> QED
    BY Zenon, <2>6, <2>7 DEF Kept
<1>4. ReadyOk'
  <2> SUFFICES ASSUME NEW h \in Servers, NEW i \in 1 .. Len(ready'[h])
               PROVE  \E k \in puts' : /\ _createPKeyBuff(k) = ready'[h][i]
                                       /\ Kept(h, k)'
                                       /\ \A u \in Putting(k)' : call'[u].pc = "resp"
    BY Zenon DEF ReadyOk
  <2>1. PICK j \in 1 .. Len(ready[h]) : ready'[h][i] = ready[h][j]
    BY Zenon DEF ReadyShrinks
  <2>2. PICK k \in puts : /\ _createPKeyBuff(k) = ready[h][j]
                          /\ Kept(h, k)
                          /\ \A u \in Putting(k) : call[u].pc = "resp"
    BY Zenon DEF DhtInv, ReadyOk
  <2>3. k \in puts' /\ Kept(h, k)'
    BY Zenon, <1>1, <2>2 DEF KeptGrows, TypeInv
  <2>4. ASSUME NEW u \in Threads, call'[u].op = "put", call'[u].key = k
        PROVE  call'[u].pc = "resp"
    <3>1. CASE u # t
      <4>1. call'[u] = call[u]
        BY Zenon, <1>2, <3>1
      <4> QED
        BY Zenon, <2>2, <2>4, <4>1 DEF Putting
    <3>2. CASE u = t
      <4>1. t \in Putting(k)
        BY Zenon, <1>2, <2>4, <3>2 DEF Putting
      <4> QED
        BY Zenon, <2>2, <4>1
    <3> QED
      BY Zenon, <3>1, <3>2
  <2>5. \A u \in Putting(k)' : call'[u].pc = "resp"
    BY Zenon, <2>4 DEF Putting
  <2> QED
    BY Zenon, <2>1, <2>2, <2>3, <2>5
<1> QED
  BY Zenon, <1>3, <1>4

(* Take: a worker gets a request that waited.                               *)
LEMMA TakeKeeps ==
    ASSUME NEW t \in Threads, DhtInv, Take(t)
    PROVE  DhtInv'
<1>1. TypeInv /\ call[t].pc = "queued" /\ Goto(t, "serve")
  BY Zenon DEF DhtInv, Take
<1>2. PICK d \in CallRecords :
        /\ call' = [call EXCEPT ![t] = d]
        /\ d.op = call[t].op /\ d.key = call[t].key /\ d.val = call[t].val
        /\ d.buffered = call[t].buffered /\ d.host = call[t].host
        /\ d.msg = call[t].msg /\ d.pc = "serve"
  BY Zenon, <1>1, GotoFacts DEF Handled
<1>3. UNCHANGED <<cl, sid, hold, store, ready, seen, puts, gone>>
  BY Zenon DEF Take
<1>4. KeptGrows /\ ReadyShrinks
  BY Zenon, <1>3 DEF KeptGrows, ReadyShrinks, Kept
<1>5. HalfPut' /\ ReadyOk'
  BY Zenon, <1>1, <1>2, <1>3, <1>4, AnnouncedKept
<1>6. /\ DOMAIN seen' = Threads /\ d.pc \in Handled
      /\ store' \in [Servers -> [Keys -> Values \cup {None}]]
      /\ ready' \in [Servers -> Seq({_createPKeyBuff(k) : k \in Keys})]
  BY Zenon, <1>1, <1>2, <1>3 DEF TypeInv, Handled
<1> QED
  BY Zenon, <1>1, <1>2, <1>3, <1>5, <1>6, ServerStepKeeps

(* An answer that announces nothing.                                        *)
LEMMA RespondKeeps ==
    ASSUME NEW t \in Threads, DhtInv, call[t].pc \in {"serve", "announce"},
           NEW s \in {"OK", "KEY_NOT_FOUND", "QUEUE_FULL_ERROR"},
           NEW r \in Values \cup AnyKeys \cup {None}, Respond(t, s, r),
           DOMAIN seen' = Threads,
           store' \in [Servers -> [Keys -> Values \cup {None}]],
           ready' \in [Servers -> Seq({_createPKeyBuff(k) : k \in Keys})],
           KeptGrows, ReadyShrinks
    PROVE  DhtInv'
<1>1. TypeInv
  BY Zenon DEF DhtInv
<1>2. PICK d \in CallRecords :
        /\ call' = [call EXCEPT ![t] = d]
        /\ d.op = call[t].op /\ d.key = call[t].key /\ d.val = call[t].val
        /\ d.buffered = call[t].buffered /\ d.host = call[t].host
        /\ d.msg = call[t].msg /\ d.pc = "resp" /\ d.res = r
  BY <1>1, RespondFacts
<1>3. UNCHANGED <<cl, sid, hold, puts, gone>>
  BY Zenon, <1>1, RespondFacts
<1>4. HalfPut' /\ ReadyOk'
  BY Zenon, <1>2, <1>3, AnnouncedKept
<1>5. d.pc \in Handled /\ d.pc # "announce"
  BY Zenon, <1>2 DEF Handled
<1> QED
  BY Zenon, <1>2, <1>3, <1>4, <1>5, ServerStepKeeps

(* erpcReqGetHandler, and a local Get, answer.                              *)
LEMMA GetHandlerKeeps ==
    ASSUME NEW t \in Threads, DhtInv, erpcReqGetHandler(t)
    PROVE  DhtInv'
<1>1. TypeInv /\ call[t].pc = "serve"
  BY Zenon DEF DhtInv, erpcReqGetHandler, Serving
<1>2. At(t) \in Servers
  BY Zenon, <1>1, HandlerFacts DEF Handled
<1>3. Mapped(At(t), Asked(t)) \in Values \cup {None}
  BY Zenon, <1>1, <1>2 DEF Mapped, TypeInv
<1>4. PICK v, s : /\ v = Mapped(At(t), Asked(t))
                  /\ s = IF v = None THEN "KEY_NOT_FOUND" ELSE "OK"
  BY Zenon
<1>5. Respond(t, s, v)
  BY Zenon, <1>4 DEF erpcReqGetHandler
<1>6. store' = store /\ ready' = ready /\ seen' = seen /\ gone' = gone
  BY Zenon, <1>5 DEF erpcReqGetHandler, Respond
<1>7. KeptGrows /\ ReadyShrinks
  BY Zenon, <1>6 DEF KeptGrows, ReadyShrinks, Kept
<1>8. /\ s \in {"OK", "KEY_NOT_FOUND", "QUEUE_FULL_ERROR"}
      /\ v \in Values \cup AnyKeys \cup {None}
  BY Zenon, <1>3, <1>4
<1>9. /\ DOMAIN seen' = Threads /\ call[t].pc \in {"serve", "announce"}
      /\ store' \in [Servers -> [Keys -> Values \cup {None}]]
      /\ ready' \in [Servers -> Seq({_createPKeyBuff(k) : k \in Keys})]
  BY Zenon, <1>1, <1>6 DEF TypeInv
<1> QED
  BY Zenon, <1>5, <1>7, <1>8, <1>9, RespondKeeps

(* erpcReqGetAnyHandler takes a key from the ready queue.                   *)
LEMMA GetAnyHandlerKeeps ==
    ASSUME NEW t \in Threads, DhtInv, erpcReqGetAnyHandler(t)
    PROVE  DhtInv'
<1>1. TypeInv /\ call[t].pc = "serve"
  BY Zenon DEF DhtInv, erpcReqGetAnyHandler, Serving
<1>2. At(t) \in Servers
  BY Zenon, <1>1, HandlerFacts DEF Handled
<1>3. PICK s, v : /\ Respond(t, s, v) /\ s \in {"OK", "KEY_NOT_FOUND", "QUEUE_FULL_ERROR"}
                  /\ v \in Values \cup AnyKeys \cup {None}
                  /\ ReadyShrinks
                  /\ ready' \in [Servers -> Seq({_createPKeyBuff(k) : k \in Keys})]
  <2>1. CASE ready[At(t)] = <<>>
    <3>1. Respond(t, "KEY_NOT_FOUND", None) /\ ready' = ready
      BY Zenon, <2>1 DEF erpcReqGetAnyHandler
    <3>2. ReadyShrinks /\ ready' \in [Servers -> Seq({_createPKeyBuff(k) : k \in Keys})]
      BY Zenon, <1>1, <3>1 DEF ReadyShrinks, TypeInv
    <3> QED
      BY Zenon, <3>1, <3>2
  <2>2. CASE ready[At(t)] # <<>>
    <3>1. PICK h, v : h = At(t) /\ v = dequeuedKey(Head(ready[h]))
      BY Zenon
    <3>2. Respond(t, "OK", v) /\ ready' = [ready EXCEPT ![h] = Tail(@)]
      BY Zenon, <2>2, <3>1 DEF erpcReqGetAnyHandler
    <3>3. /\ ReadyShrinks /\ v \in AnyKeys
          /\ ready' \in [Servers -> Seq({_createPKeyBuff(k) : k \in Keys})]
      BY Zenon, <1>1, <1>2, <2>2, <3>1, <3>2, TailShrinks
    <3> QED
      BY Zenon, <3>2, <3>3
  <2> QED
    BY Zenon, <2>1, <2>2
<1>4. store' = store /\ seen' = seen /\ gone' = gone
  BY Zenon, <1>3 DEF erpcReqGetAnyHandler, Respond
<1>5. KeptGrows
  BY Zenon, <1>4 DEF KeptGrows, Kept
<1>6. /\ DOMAIN seen' = Threads /\ call[t].pc \in {"serve", "announce"}
      /\ store' \in [Servers -> [Keys -> Values \cup {None}]]
  BY Zenon, <1>1, <1>4 DEF TypeInv
<1> QED
  BY Zenon, <1>3, <1>5, <1>6, RespondKeeps

(* A store that changes at one key.                                         *)
LEMMA StoreSetFacts ==
    ASSUME TypeInv, NEW h \in Servers, NEW k \in Keys, NEW v \in Values \cup {None},
           StoreSet(h, k, v)
    PROVE  /\ store' \in [Servers -> [Keys -> Values \cup {None}]]
           /\ store'[h][k] = v
           /\ \A g \in Servers, j \in Keys : (g # h \/ j # k) => store'[g][j] = store[g][j]
           /\ DOMAIN seen' = Threads
<1>1. store \in [Servers -> [Keys -> Values \cup {None}]]
      /\ store' = [store EXCEPT ![h][k] = v]
  BY Zenon DEF TypeInv, StoreSet
<1>2. DOMAIN seen' = Threads
  BY Zenon DEF StoreSet
<1> QED
  BY Zenon, <1>1, <1>2

(* erpcReqRemoveHandler, and a local Remove: the key is one that a remove   *)
(* was called for.                                                          *)
LEMMA RemoveHandlerKeeps ==
    ASSUME NEW t \in Threads, DhtInv, erpcReqRemoveHandler(t)
    PROVE  DhtInv'
<1>1. TypeInv /\ CallOk(t) /\ call[t].pc = "serve" /\ call[t].op = "remove"
  BY Zenon DEF DhtInv, erpcReqRemoveHandler, Serving
<1>2. At(t) \in Servers /\ Asked(t) = call[t].key
  BY Zenon, <1>1, HandlerFacts DEF Handled, Requests
<1>3. Asked(t) \in gone
  BY Zenon, <1>1, <1>2 DEF CallOk
<1>4. PICK s : /\ s \in {"OK", "KEY_NOT_FOUND", "QUEUE_FULL_ERROR"}
               /\ Respond(t, s, None)
  <2>1. PICK s : s = IF Mapped(At(t), Asked(t)) = None THEN "KEY_NOT_FOUND" ELSE "OK"
    BY Zenon
  <2>2. Respond(t, s, None)
    BY Zenon, <2>1 DEF erpcReqRemoveHandler
  <2> QED
    BY Zenon, <2>1, <2>2
<1>5. ready' = ready /\ gone' = gone
  BY Zenon, <1>4 DEF erpcReqRemoveHandler, Respond
<1>6. /\ KeptGrows /\ DOMAIN seen' = Threads
      /\ store' \in [Servers -> [Keys -> Values \cup {None}]]
  <2>1. CASE Asked(t) \in Keys
    <3>1. PICK h, k : h = At(t) /\ k = Asked(t)
      BY Zenon
    <3>2. StoreSet(h, k, None)
      BY Zenon, <2>1, <3>1 DEF erpcReqRemoveHandler
    <3>3. /\ store' \in [Servers -> [Keys -> Values \cup {None}]]
          /\ \A g \in Servers, j \in Keys : (g # h \/ j # k) => store'[g][j] = store[g][j]
          /\ DOMAIN seen' = Threads
      <4>1. h \in Servers /\ k \in Keys /\ None \in Values \cup {None}
        BY Zenon, <1>2, <2>1, <3>1
      <4> QED
        BY Zenon, <1>1, <3>2, <4>1, StoreSetFacts
    <3>4. KeptGrows
      BY Zenon, <1>3, <1>5, <3>1, <3>3 DEF KeptGrows, Kept
    <3> QED
      BY Zenon, <3>3, <3>4
  <2>2. CASE Asked(t) \notin Keys
    <3>1. store' = store /\ seen' = seen
      BY Zenon, <2>2 DEF erpcReqRemoveHandler
    <3> QED
      BY Zenon, <1>1, <1>5, <3>1 DEF KeptGrows, Kept, TypeInv
  <2> QED
    BY Zenon, <2>1, <2>2
<1>7. /\ ReadyShrinks /\ call[t].pc \in {"serve", "announce"}
      /\ ready' \in [Servers -> Seq({_createPKeyBuff(k) : k \in Keys})]
  BY Zenon, <1>1, <1>5 DEF ReadyShrinks, TypeInv
<1> QED
  BY Zenon, <1>4, <1>6, <1>7, RespondKeeps

(* erpcReqPutHandler, and the first half of a local Put, store the value.   *)
LEMMA PutHandlerKeeps ==
    ASSUME NEW t \in Threads, DhtInv, erpcReqPutHandler(t)
    PROVE  DhtInv'
<1>1. TypeInv /\ CallOk(t) /\ call[t].pc = "serve" /\ call[t].op = "put"
  BY Zenon DEF DhtInv, erpcReqPutHandler, Serving
<1>2. At(t) \in Servers /\ Asked(t) = call[t].key /\ Asked(t) \in Keys
  BY Zenon, <1>1, HandlerFacts DEF Handled, Requests
<1>3. PICK h, k, v : h = At(t) /\ k = Asked(t) /\ v = call[t].val
  BY Zenon
<1>4. StoreSet(h, k, v) /\ Goto(t, "announce")
  BY Zenon, <1>3 DEF erpcReqPutHandler
<1>5. h \in Servers /\ k \in Keys /\ v \in Values /\ v # None /\ v \in Values \cup {None}
  BY Zenon, <1>1, <1>2, <1>3, DhtAssumption DEF CallOk
<1>6. /\ store' \in [Servers -> [Keys -> Values \cup {None}]]
      /\ store'[h][k] = v
      /\ \A g \in Servers, j \in Keys : (g # h \/ j # k) => store'[g][j] = store[g][j]
      /\ DOMAIN seen' = Threads
  BY Zenon, <1>1, <1>4, <1>5, StoreSetFacts
<1>7. UNCHANGED <<cl, sid, hold, ready, puts, gone>>
  BY Zenon DEF erpcReqPutHandler
<1>8. PICK d \in CallRecords :
        /\ call' = [call EXCEPT ![t] = d]
        /\ d.op = call[t].op /\ d.key = call[t].key /\ d.val = call[t].val
        /\ d.buffered = call[t].buffered /\ d.host = call[t].host
        /\ d.msg = call[t].msg /\ d.pc = "announce"
  BY Zenon, <1>1, <1>4, GotoFacts DEF Handled
<1>9. call'[t] = d /\ \A u \in Threads \ {t} : call'[u] = call[u]
  BY Zenon, <1>1, <1>8 DEF TypeInv
<1>10. gone' = gone /\ puts' = puts /\ ready' = ready
  BY Zenon, <1>7
<1>11. KeptGrows
  BY Zenon, <1>5, <1>6, <1>10 DEF KeptGrows, Kept
<1>12. HalfPut'
  <2> SUFFICES ASSUME NEW u \in Threads, call'[u].pc = "announce"
               PROVE  Kept(At(u), call[u].key)'
    BY Zenon DEF HalfPut
  <2>1. CASE u = t
    <3>1. At(t)' = h /\ call'[t].key = k
      BY Zenon, <1>2, <1>3, <1>8, <1>9 DEF At, Remote
    <3> QED
      BY Zenon, <1>5, <1>6, <2>1, <3>1 DEF Kept
  <2>2. CASE u # t
    <3>1. call'[u] = call[u]
      BY Zenon, <1>9, <2>2
    <3>2. call[u].pc \in Handled \cup {"queued"} /\ call[u].pc = "announce"
      BY Zenon, <3>1 DEF Handled
    <3>3. call[u].op = "put" /\ call[u].key \in puts /\ Kept(At(u), call[u].key)
      BY Zenon, <3>2 DEF DhtInv, CallOk, HalfPut
    <3>4. At(u) \in Servers /\ call[u].key \in Keys
      BY Zenon, <1>1, <3>2, <3>3, HandlerFacts DEF TypeInv
    <3>5. PICK a, j : a = At(u) /\ j = call[u].key
      BY Zenon
    <3>6. Kept(a, j)'
      BY Zenon, <1>11, <3>3, <3>4, <3>5 DEF KeptGrows
    <3>7. At(u)' = a /\ call'[u].key = j
      BY Zenon, <3>1, <3>5 DEF At, Remote
    <3> QED
      BY Zenon, <3>6, <3>7 DEF Kept
  <2> QED
    BY Zenon, <2>1, <2>2
<1>13. ReadyOk'
  <2> SUFFICES ASSUME NEW g \in Servers, NEW i \in 1 .. Len(ready'[g])
               PROVE  \E j \in puts' : /\ _createPKeyBuff(j) = ready'[g][i]
                                       /\ Kept(g, j)'
                                       /\ \A u \in Putting(j)' : call'[u].pc = "resp"
    BY Zenon DEF ReadyOk
  <2>1. PICK j \in puts : /\ _createPKeyBuff(j) = ready[g][i]
                          /\ Kept(g, j)
                          /\ \A u \in Putting(j) : call[u].pc = "resp"
    BY Zenon, <1>10 DEF DhtInv, ReadyOk
  <2>2. Kept(g, j)'
    BY Zenon, <1>1, <1>11, <2>1 DEF KeptGrows, TypeInv
  <2>3. t \notin Putting(j)
    BY Zenon, <1>1, <2>1
  <2>4. ASSUME NEW u \in Threads, call'[u].op = "put", call'[u].key = j
        PROVE  call'[u].pc = "resp"
    <3>1. u # t
      BY Zenon, <1>8, <1>9, <2>3, <2>4 DEF Putting
    <3>2. call'[u] = call[u]
      BY Zenon, <1>9, <3>1
    <3> QED
      BY Zenon, <2>1, <2>4, <3>2 DEF Putting
  <2>5. \A u \in Putting(j)' : call'[u].pc = "resp"
    BY Zenon, <2>4 DEF Putting
  <2> QED
    BY Zenon, <1>10, <2>1, <2>2, <2>5
<1>14. /\ d.pc \in Handled /\ call[t].pc \in {"queued", "serve", "announce"}
       /\ d.pc = "announce" => d.op = "put"
       /\ ready' \in [Servers -> Seq({_createPKeyBuff(j) : j \in Keys})]
  BY Zenon, <1>1, <1>8, <1>10 DEF Handled, TypeInv
<1> QED
  BY Zenon, <1>6, <1>7, <1>8, <1>12, <1>13, <1>14, ServerStepKeeps

(* enqueueNext: the key whose put has stored its value is announced.        *)
LEMMA PutAnnounceKeeps ==
    ASSUME NEW t \in Threads, DhtInv, PutAnnounce(t)
    PROVE  DhtInv'
<1>1. /\ TypeInv /\ CallOk(t) /\ call[t].pc = "announce" /\ call[t].op = "put"
      /\ PutOnce /\ HalfPut
  BY Zenon DEF DhtInv, PutAnnounce, Serving
<1>2. At(t) \in Servers /\ Asked(t) = call[t].key /\ Asked(t) \in Keys
  BY Zenon, <1>1, HandlerFacts DEF Handled, Requests
<1>3. PICK h, k : h = At(t) /\ k = Asked(t)
  BY Zenon
<1>4. h \in Servers /\ k \in Keys /\ k = call[t].key /\ k \in puts /\ Kept(h, k)
  BY Zenon, <1>1, <1>2, <1>3 DEF CallOk, HalfPut
<1>5. Respond(t, "OK", None)
  BY Zenon DEF PutAnnounce
<1>6. /\ "OK" \in {"OK", "KEY_NOT_FOUND", "QUEUE_FULL_ERROR"}
      /\ None \in Values \cup AnyKeys \cup {None}
  BY Zenon
<1>7. PICK d \in CallRecords :
        /\ call' = [call EXCEPT ![t] = d]
        /\ d.op = call[t].op /\ d.key = call[t].key /\ d.val = call[t].val
        /\ d.buffered = call[t].buffered /\ d.host = call[t].host
        /\ d.msg = call[t].msg /\ d.pc = "resp" /\ d.res = None
  BY Zenon, <1>1, <1>5, <1>6, RespondFacts
<1>8. UNCHANGED <<cl, sid, hold, puts, gone>>
  BY Zenon, <1>1, <1>5, <1>6, RespondFacts
<1>9. call'[t] = d /\ \A u \in Threads \ {t} : call'[u] = call[u]
  BY Zenon, <1>1, <1>7 DEF TypeInv
<1>10. store' = store /\ seen' = seen /\ gone' = gone /\ puts' = puts
  BY Zenon, <1>8 DEF PutAnnounce
<1>11. \A g \in Servers, j \in Keys : Kept(g, j)' <=> Kept(g, j)
  BY Zenon, <1>10 DEF Kept
<1>12. PICK r : r = _createPKeyBuff(k)
  BY Zenon
<1>13. \/ ready' = ready
       \/ ready' = [ready EXCEPT ![h] = Append(ready[h], r)]
  BY Zenon, <1>3, <1>12 DEF PutAnnounce
<1> DEFINE B == {_createPKeyBuff(j) : j \in Keys}
<1>14. ready \in [Servers -> Seq(B)] /\ r \in B
  BY Zenon, <1>1, <1>4, <1>12 DEF TypeInv
<1> HIDE DEF B
<1>15. /\ Append(ready[h], r) \in Seq(B) /\ ready[h] \in Seq(B)
       /\ Append(ready[h], r)[Len(ready[h]) + 1] = r
       /\ \A i \in 1 .. Len(Append(ready[h], r)) :
            \/ i \in 1 .. Len(ready[h]) /\ Append(ready[h], r)[i] = ready[h][i]
            \/ Append(ready[h], r)[i] = r
  BY <1>4, <1>14
<1>16. /\ ready' \in [Servers -> Seq(B)]
       /\ \A g \in Servers : \A i \in 1 .. Len(ready'[g]) :
            \/ i \in 1 .. Len(ready[g]) /\ ready'[g][i] = ready[g][i]
            \/ g = h /\ ready'[g][i] = r
  <2>1. CASE ready' = ready
    BY Zenon, <1>14, <2>1
  <2>2. CASE ready' = [ready EXCEPT ![h] = Append(ready[h], r)]
    <3>1. /\ ready' \in [Servers -> Seq(B)] /\ ready'[h] = Append(ready[h], r)
          /\ \A g \in Servers \ {h} : ready'[g] = ready[g]
      BY Zenon, <1>4, <1>14, <1>15, <2>2
    <3> SUFFICES ASSUME NEW g \in Servers, NEW i \in 1 .. Len(ready'[g])
                 PROVE  \/ i \in 1 .. Len(ready[g]) /\ ready'[g][i] = ready[g][i]
                        \/ g = h /\ ready'[g][i] = r
      BY Zenon, <3>1
    <3>2. CASE g = h
      BY Zenon, <1>15, <3>1, <3>2
    <3>3. CASE g # h
      BY Zenon, <3>1, <3>3
    <3> QED
      BY Zenon, <3>2, <3>3
  <2> QED
    BY Zenon, <1>13, <2>1, <2>2
<1>17. \A u \in Putting(k)' : call'[u].pc = "resp"
  <2> SUFFICES ASSUME NEW u \in Threads, call'[u].op = "put", call'[u].key = k
               PROVE  call'[u].pc = "resp"
    BY Zenon DEF Putting
  <2>1. CASE u = t
    BY Zenon, <1>7, <1>9, <2>1
  <2>2. CASE u # t
    <3>1. call[u].op = "put" /\ call[u].key = call[t].key
      BY Zenon, <1>4, <1>9, <2>2
    <3> QED
      BY Zenon, <1>1, <2>2, <3>1 DEF PutOnce
  <2> QED
    BY Zenon, <2>1, <2>2
<1>18. HalfPut'
  <2> SUFFICES ASSUME NEW u \in Threads, call'[u].pc = "announce"
               PROVE  Kept(At(u), call[u].key)'
    BY Zenon DEF HalfPut
  <2>1. u # t
    BY Zenon, <1>7, <1>9
  <2>2. call'[u] = call[u]
    BY Zenon, <1>9, <2>1
  <2>3. Kept(At(u), call[u].key)
    BY Zenon, <1>1, <2>2 DEF HalfPut
  <2> QED
    BY Zenon, <1>10, <2>2, <2>3 DEF Kept, At, Remote
<1>19. ReadyOk'
  <2> SUFFICES ASSUME NEW g \in Servers, NEW i \in 1 .. Len(ready'[g])
               PROVE  \E j \in puts' : /\ _createPKeyBuff(j) = ready'[g][i]
                                       /\ Kept(g, j)'
                                       /\ \A u \in Putting(j)' : call'[u].pc = "resp"
    BY Zenon DEF ReadyOk
  <2>1. CASE g = h /\ ready'[g][i] = r
    BY Zenon, <1>4, <1>10, <1>11, <1>12, <1>17, <2>1
  <2>2. CASE i \in 1 .. Len(ready[g]) /\ ready'[g][i] = ready[g][i]
    <3>1. PICK j \in puts : /\ _createPKeyBuff(j) = ready[g][i]
                            /\ Kept(g, j)
                            /\ \A u \in Putting(j) : call[u].pc = "resp"
      BY Zenon, <2>2 DEF DhtInv, ReadyOk
    <3>2. Kept(g, j)'
      BY Zenon, <1>1, <1>11, <3>1 DEF TypeInv
    <3>3. \A u \in Putting(j)' : call'[u].pc = "resp"
      BY <1>7, <1>9, <3>1 DEF Putting
    <3> QED
      BY Zenon, <1>10, <2>2, <3>1, <3>2, <3>3
  <2> QED
    BY Zenon, <1>16, <2>1, <2>2
<1>20. /\ d.pc \in Handled /\ call[t].pc \in {"queued", "serve", "announce"}
       /\ d.pc # "announce" /\ DOMAIN seen' = Threads
       /\ store' \in [Servers -> [Keys -> Values \cup {None}]]
       /\ ready' \in [Servers -> Seq({_createPKeyBuff(j) : j \in Keys})]
  BY Zenon, <1>1, <1>7, <1>10, <1>16 DEF Handled, TypeInv, B
<1> QED
  BY Zenon, <1>7, <1>8, <1>18, <1>19, <1>20, ServerStepKeeps

(* KVStore::Put takes the value out when the queue is full: the key was not *)
(* announced, and no other put of it is under way.                          *)
LEMMA PutUndoKeeps ==
    ASSUME NEW t \in Threads, DhtInv, PutUndo(t)
    PROVE  DhtInv'
<1>1. /\ TypeInv /\ CallOk(t) /\ call[t].pc = "announce" /\ call[t].op = "put"
      /\ PutOnce /\ HalfPut
  BY Zenon DEF DhtInv, PutUndo, Serving
<1>2. At(t) \in Servers /\ Asked(t) = call[t].key /\ Asked(t) \in Keys
  BY Zenon, <1>1, HandlerFacts DEF Handled, Requests
<1>3. PICK h, k : h = At(t) /\ k = Asked(t)
  BY Zenon
<1>4. h \in Servers /\ k \in Keys /\ k = call[t].key /\ None \in Values \cup {None}
  BY Zenon, <1>2, <1>3
<1>5. Respond(t, "QUEUE_FULL_ERROR", None) /\ StoreSet(h, k, None) /\ ready' = ready
  BY Zenon, <1>3 DEF PutUndo
<1>6. /\ "QUEUE_FULL_ERROR" \in {"OK", "KEY_NOT_FOUND", "QUEUE_FULL_ERROR"}
      /\ None \in Values \cup AnyKeys \cup {None}
  BY Zenon
<1>7. PICK d \in CallRecords :
        /\ call' = [call EXCEPT ![t] = d]
        /\ d.op = call[t].op /\ d.key = call[t].key /\ d.val = call[t].val
        /\ d.buffered = call[t].buffered /\ d.host = call[t].host
        /\ d.msg = call[t].msg /\ d.pc = "resp" /\ d.res = None
  BY Zenon, <1>1, <1>5, <1>6, RespondFacts
<1>8. UNCHANGED <<cl, sid, hold, puts, gone>>
  BY Zenon, <1>1, <1>5, <1>6, RespondFacts
<1>9. call'[t] = d /\ \A u \in Threads \ {t} : call'[u] = call[u]
  BY Zenon, <1>1, <1>7 DEF TypeInv
<1>10. gone' = gone /\ puts' = puts
  BY Zenon, <1>8
<1>11. /\ store' \in [Servers -> [Keys -> Values \cup {None}]]
       /\ \A g \in Servers, j \in Keys : (g # h \/ j # k) => store'[g][j] = store[g][j]
       /\ DOMAIN seen' = Threads
  BY Zenon, <1>1, <1>4, <1>5, StoreSetFacts
<1>12. \A g \in Servers, j \in Keys : (j # k /\ Kept(g, j)) => Kept(g, j)'
  BY Zenon, <1>10, <1>11 DEF Kept
<1>13. HalfPut'
  <2> SUFFICES ASSUME NEW u \in Threads, call'[u].pc = "announce"
               PROVE  Kept(At(u), call[u].key)'
    BY Zenon DEF HalfPut
  <2>1. u # t
    BY Zenon, <1>7, <1>9
  <2>2. call'[u] = call[u]
    BY Zenon, <1>9, <2>1
  <2>3. call[u].pc \in Handled \cup {"queued"} /\ call[u].pc = "announce"
    BY Zenon, <2>2 DEF Handled
  <2>4. call[u].op = "put" /\ call[u].key \in puts /\ Kept(At(u), call[u].key)
    BY Zenon, <2>3 DEF DhtInv, CallOk, HalfPut
  <2>5. At(u) \in Servers /\ call[u].key \in Keys
    BY Zenon, <1>1, <2>3, <2>4, HandlerFacts DEF TypeInv
  <2>6. call[u].key # k
    BY Zenon, <1>1, <1>4, <2>1, <2>4 DEF PutOnce
  <2>7. PICK a, j : a = At(u) /\ j = call[u].key
    BY Zenon
  <2>8. Kept(a, j)'
    BY Zenon, <1>12, <2>4, <2>5, <2>6, <2>7
  <2>9. At(u)' = a /\ call'[u].key = j
    BY Zenon, <2>2, <2>7 DEF At, Remote
  <2> QED
    BY Zenon, <2>8, <2>9 DEF Kept
<1>14. ReadyOk'
  <2> SUFFICES ASSUME NEW g \in Servers, NEW i \in 1 .. Len(ready'[g])
               PROVE  \E j \in puts' : /\ _createPKeyBuff(j) = ready'[g][i]
                                       /\ Kept(g, j)'
                                       /\ \A u \in Putting(j)' : call'[u].pc = "resp"
    BY Zenon DEF ReadyOk
  <2>1. PICK j \in puts : /\ _createPKeyBuff(j) = ready[g][i]
                          /\ Kept(g, j)
                          /\ \A u \in Putting(j) : call[u].pc = "resp"
    BY Zenon, <1>5 DEF DhtInv, ReadyOk
  <2>2. j # k
    BY Zenon, <1>1, <1>4, <2>1 DEF Putting
  <2>3. Kept(g, j)'
    BY Zenon, <1>1, <1>12, <2>1, <2>2 DEF TypeInv
  <2>4. \A u \in Putting(j)' : call'[u].pc = "resp"
    BY <1>7, <1>9, <2>1 DEF Putting
  <2> QED
    BY Zenon, <1>5, <1>10, <2>1, <2>3, <2>4
<1>15. /\ d.pc \in Handled /\ call[t].pc \in {"queued", "serve", "announce"}
       /\ d.pc # "announce"
       /\ ready' \in [Servers -> Seq({_createPKeyBuff(j) : j \in Keys})]
  BY Zenon, <1>1, <1>5, <1>7 DEF Handled, TypeInv
<1> QED
  BY Zenon, <1>7, <1>8, <1>11, <1>13, <1>14, <1>15, ServerStepKeeps

(* An exception that the handler does not catch: the worker ends, or the    *)
(* local call throws.                                                       *)
LEMMA HandlerEscapesKeeps ==
    ASSUME NEW t \in Threads, DhtInv, HandlerEscapes(t)
    PROVE  DhtInv'
<1>1. TypeInv /\ BufferOk(t)
  BY Zenon DEF DhtInv
<1>2. UNCHANGED <<sid, store, ready, puts, gone>>
  BY Zenon DEF HandlerEscapes
<1>3. CASE Remote(t)
  <2>1. UNCHANGED <<call, busy, cl, hold, seen>>
    BY Zenon, <1>3 DEF HandlerEscapes
  <2>2. UNCHANGED <<cl, sid, call, hold, store, ready, seen, puts, gone>>
    BY Zenon, <1>2, <2>1
  <2> QED
    BY Zenon, <2>2, NothingChanges
<1>4. CASE ~Remote(t)
  <2>1. Return(t) /\ cl' = [cl EXCEPT ![t] = Freed(t, cl[t])]
    BY Zenon, <1>4 DEF HandlerEscapes
  <2>2. /\ DOMAIN cl' = Threads /\ cl'[t] = Freed(t, cl[t])
        /\ \A u \in Threads \ {t} : cl'[u] = cl[u]
    BY Zenon, <1>1, <2>1, ClientSet
  <2>3. DOMAIN cl[t] = ClientFields /\ cl[t].buf \in AnyKeys \cup {None}
        /\ cl[t].st \in {cl[t].st, "error"}
    BY Zenon, <1>1 DEF TypeInv
  <2>4. hold[t] # None => cl[t].buf = hold[t]
    BY Zenon, <1>1 DEF BufferOk
  <2> QED
    BY Zenon, <1>2, <2>1, <2>2, <2>3, <2>4, ReturnKeeps
<1> QED
  BY Zenon, <1>3, <1>4

------------------------------------------------------------------------------
(* The stores have just been opened.                                        *)
LEMMA DhtInit ==
    ASSUME Init
    PROVE  DhtInv
<1>1. ASSUME NEW t \in Threads
      PROVE  /\ DOMAIN cl[t] = ClientFields
             /\ cl[t].st = (IF t \in Openers THEN "ready" ELSE "none")
             /\ cl[t].sess = (IF t \in Openers THEN _neighbors[Home[t]] ELSE <<>>)
             /\ cl[t].idx = 0 /\ cl[t].keyUse = FALSE /\ cl[t].valUse = FALSE
             /\ cl[t].buf = None
  <2>1. CASE t \in Openers
    <3>1. PICK r : r = remoteRpcId(Home[t], 0)
      BY Zenon
    <3>2. cl[t] = [NewClient EXCEPT !.st = "ready", !.rpc = r, !.sess = _neighbors[Home[t]]]
      BY Zenon, <2>1, <3>1 DEF Init
    <3> QED
      BY Zenon, <2>1, <3>2 DEF NewClient, ClientFields
  <2>2. CASE t \notin Openers
    <3>1. cl[t] = NewClient
      BY Zenon, <2>2 DEF Init
    <3> QED
      BY <2>2, <3>1 DEF NewClient, ClientFields
  <2> QED
    BY Zenon, <2>1, <2>2
<1>2. DOMAIN cl = Threads /\ DOMAIN seen = Threads /\ puts = {} /\ gone = {}
  BY Zenon DEF Init
<1>3. \A t \in Threads : call[t] = NoCall /\ hold[t] = None
  BY Zenon DEF Init
<1>4. \A t \in Threads : Home[t] \in Hosts /\ _neighbors[Home[t]] \in Seq(Hosts)
  <2> SUFFICES ASSUME NEW t \in Threads
               PROVE  Home[t] \in Hosts /\ _neighbors[Home[t]] \in Seq(Hosts)
    BY Zenon
  <2>1. Home[t] \in Hosts
    BY Zenon, DhtAssumption
  <2>2. _neighbors[Home[t]] \in Seq(Servers \ {Home[t]})
    BY Zenon, <2>1, NeighborsAssumption
  <2> QED
    BY <2>1, <2>2 DEF Servers
<1> DEFINE place(h, n) == CHOOSE i \in 0 .. Len(_neighbors[h]) - 1 : _neighbors[h][i + 1] = n
           set(h, n) == h \in {Home[t] : t \in Openers} /\ n \in Servers \ {h}
<1>5. ASSUME NEW h \in Hosts, NEW n \in Servers \ {h}
      PROVE  /\ place(h, n) \in Nat /\ place(h, n) + 1 \in 1 .. Len(_neighbors[h])
             /\ _neighbors[h][place(h, n) + 1] = n
  <2>1. PICK j \in 1 .. Len(_neighbors[h]) : _neighbors[h][j] = n
    BY Zenon, NeighborFacts
  <2>2. Len(_neighbors[h]) \in Nat
    BY Zenon, NeighborFacts
  <2>3. PICK i \in 0 .. Len(_neighbors[h]) - 1 : i + 1 = j
    BY <2>1, <2>2
  <2>4. _neighbors[h][i + 1] = n
    BY Zenon, <2>1, <2>3
  <2>5. place(h, n) \in 0 .. Len(_neighbors[h]) - 1 /\ _neighbors[h][place(h, n) + 1] = n
    BY Zenon, <2>4
  <2> HIDE DEF place
  <2> QED
    BY <2>2, <2>5
<1>6. \A h \in Hosts, n \in Hosts : sid[h][n] = IF set(h, n) THEN place(h, n) ELSE NotSet
  BY Zenon DEF Init
<1>7. sid \in [Hosts -> [Hosts -> Int]]
  <2>1. sid = [h \in Hosts |-> [n \in Hosts |-> IF set(h, n) THEN place(h, n) ELSE NotSet]]
    BY Zenon DEF Init
  <2>2. \A h \in Hosts, n \in Hosts : (IF set(h, n) THEN place(h, n) ELSE NotSet) \in Int
    <3> HIDE DEF place
    <3> QED
      BY <1>5 DEF NotSet
  <2> HIDE DEF place, set
  <2> QED
    BY Zenon, <2>1, <2>2
<1> HIDE DEF place
<1>8. TypeInv
  <2>1. \A t \in Threads : /\ DOMAIN cl[t] = ClientFields
                           /\ cl[t].st \in {"none", "init", "ready", "error"}
                           /\ cl[t].sess \in Seq(Hosts) /\ cl[t].idx \in Nat
                           /\ cl[t].keyUse \in BOOLEAN /\ cl[t].valUse \in BOOLEAN
                           /\ cl[t].buf \in AnyKeys \cup {None}
    <3>1. ASSUME NEW t \in Threads
          PROVE  cl[t].sess \in Seq(Hosts) /\ cl[t].st \in {"none", "init", "ready", "error"}
      <4>1. CASE t \in Openers
        BY Zenon, <1>1, <1>4, <4>1
      <4>2. CASE t \notin Openers
        <5>1. cl[t].sess = <<>> /\ cl[t].st = "none"
          BY Zenon, <1>1, <4>2
        <5> QED
          BY <5>1
      <4> QED
        BY Zenon, <4>1, <4>2
    <3>2. 0 \in Nat /\ FALSE \in BOOLEAN /\ None \in AnyKeys \cup {None}
      BY Zenon
    <3> QED
      BY Zenon, <1>1, <3>1, <3>2
  <2>2. call \in [Threads -> CallRecords]
    BY Zenon, NoCallFacts DEF Init
  <2>3. hold \in [Threads -> AnyKeys \cup {None}]
    BY Zenon DEF Init
  <2>4. store \in [Servers -> [Keys -> Values \cup {None}]]
    BY Zenon DEF Init
  <2>5. ready \in [Servers -> Seq({_createPKeyBuff(k) : k \in Keys})]
    <3> DEFINE B == {_createPKeyBuff(k) : k \in Keys}
    <3>1. <<>> \in Seq(B)
      <4> HIDE DEF B
      <4> QED
        OBVIOUS
    <3> QED
      BY Zenon, <3>1 DEF Init
  <2> QED
    BY Zenon, <1>2, <1>7, <2>1, <2>2, <2>3, <2>4, <2>5 DEF TypeInv
<1>9. SidOk
  <2> SUFFICES ASSUME NEW h \in Hosts, NEW n \in Hosts, sid[h][n] # NotSet
               PROVE  /\ sid[h][n] + 1 \in 1 .. Len(_neighbors[h])
                      /\ _neighbors[h][sid[h][n] + 1] = n
    BY Zenon DEF SidOk
  <2>1. sid[h][n] = place(h, n) /\ n \in Servers \ {h}
    BY Zenon, <1>6
  <2> QED
    BY Zenon, <1>5, <2>1
<1>10. ASSUME NEW t \in Threads
       PROVE  SessionsOk(t)
  <2>1. CASE t \in Openers
    <3>1. ASSUME NEW i \in 1 .. Len(_neighbors[Home[t]])
          PROVE  sid[Home[t]][_neighbors[Home[t]][i]] # NotSet
      <4>1. PICK h, n : h = Home[t] /\ n = _neighbors[h][i]
        BY Zenon
      <4>2. h \in Hosts /\ n \in Servers \ {h} /\ n \in Hosts
        BY Zenon, <1>4, <4>1, NeighborFacts
      <4>3. set(h, n)
        BY Zenon, <2>1, <4>1, <4>2
      <4>4. sid[h][n] = place(h, n)
        <5> HIDE DEF set
        <5> QED
          BY Zenon, <1>6, <4>2, <4>3
      <4>5. place(h, n) # NotSet
        BY <1>5, <4>2 DEF NotSet
      <4> QED
        BY Zenon, <4>1, <4>4, <4>5
    <3>2. cl[t].sess = _neighbors[Home[t]] /\ cl[t].st = "ready"
      BY Zenon, <1>1, <2>1
    <3>3. Len(_neighbors[Home[t]]) \in Nat
      BY Zenon, <1>4, NeighborFacts
    <3> QED
      BY <3>1, <3>2, <3>3 DEF SessionsOk
  <2>2. CASE t \notin Openers
    <3>1. cl[t].st = "none" /\ cl[t].sess = <<>>
      BY Zenon, <1>1, <2>2
    <3>2. Len(_neighbors[Home[t]]) \in Nat
      BY Zenon, <1>4, NeighborFacts
    <3> QED
      BY <3>1, <3>2 DEF SessionsOk
  <2> QED
    BY Zenon, <2>1, <2>2
<1>11. ASSUME NEW t \in Threads
       PROVE  CallOk(t) /\ BufferOk(t)
  <2>1. CallOk(t)
    BY Zenon, <1>3, NoCallFacts DEF CallOk, Requests, Handled
  <2>2. BufferOk(t)
    BY Zenon, <1>1, <1>3 DEF BufferOk
  <2> QED
    BY Zenon, <2>1, <2>2
<1>12. PutOnce /\ HalfPut
  BY Zenon, <1>3, NoCallFacts DEF PutOnce, HalfPut
<1>13. ReadyOk
  <2>1. \A h \in Servers : ready[h] = <<>>
    BY Zenon DEF Init
  <2>2. 1 .. Len(<<>>) = {}
    OBVIOUS
  <2> QED
    BY Zenon, <2>1, <2>2 DEF ReadyOk
<1> QED
  BY Zenon, <1>8, <1>9, <1>10, <1>11, <1>12, <1>13 DEF DhtInv

(* Every step of the specification keeps the invariant.                     *)
LEMMA DhtNext ==
    ASSUME DhtInv, ~Mixes, [Next]_dhtVars
    PROVE  DhtInv'
<1>1. CASE UNCHANGED dhtVars
  <2>1. UNCHANGED <<cl, sid, call, hold, store, ready, seen, puts, gone>>
    BY Zenon, <1>1 DEF dhtVars
  <2> QED
    BY Zenon, <2>1, NothingChanges
<1>2. ASSUME NEW t \in Threads, Calls(t)
      PROVE  DhtInv'
  BY Zenon, <1>2, GetKeeps, RemoveKeeps, PutKeeps, GetAnyKeeps, FreeKeyKeeps DEF Calls
<1>3. ASSUME NEW t \in Threads, ClientStep(t)
      PROVE  DhtInv'
  BY Zenon, <1>3, ClientNewKeeps, ConnectKeeps, ConnectFailsKeeps, ClientUnusableKeeps,
     ClientAllocKeyKeeps, LocalGetAnyKeeps, EnqueueKeeps, RunToResponseKeeps DEF ClientStep
<1>4. ASSUME NEW t \in Threads, ServerStep(t)
      PROVE  DhtInv'
  BY Zenon, <1>4, TakeKeeps, GetHandlerKeeps, RemoveHandlerKeeps, GetAnyHandlerKeeps,
     PutHandlerKeeps, PutAnnounceKeeps, PutUndoKeeps, HandlerEscapesKeeps DEF ServerStep
<1> QED
  BY Zenon, <1>1, <1>2, <1>3, <1>4 DEF Next

(* The invariant holds, for every number of nodes, threads and keys and     *)
(* every order of the neighbours, while no thread uses an unbuffered key    *)
(* when it holds a buffered one.                                            *)
THEOREM DhtInvariant ==
    ASSUME ~Mixes
    PROVE  Spec => []DhtInv
<1>1. Init => DhtInv
  BY Zenon, DhtInit
<1>2. DhtInv /\ [Next]_dhtVars => DhtInv'
  BY Zenon, DhtNext
<1> QED
  BY <1>1, <1>2, PTL DEF Spec

(* A request goes to a node whose range holds its key, and asks for that    *)
(* key (_initializeNode, getHostForKey, fillReqMsg, enqueueAndWait): for    *)
(* any number of clients that overwrite each other's session ids, for       *)
(* ranges that may overlap, and for nodes that list their neighbours in     *)
(* different orders.                                                        *)
THEOREM DhtRequestReachesOwner ==
    ASSUME ~Mixes
    PROVE  Spec => []RequestReachesOwner
<1>1. ASSUME DhtInv
      PROVE  RequestReachesOwner
  <2> SUFFICES ASSUME NEW t \in Threads, Pending(t), Remote(t), call[t].op # "getany"
               PROVE  isLocalKey(call[t].host, call[t].key) /\ call[t].msg = call[t].key
    BY Zenon DEF RequestReachesOwner
  <2>1. CallOk(t) /\ TypeInv
    BY Zenon, <1>1 DEF DhtInv
  <2>2. call[t].op \in Requests
    <3>1. call[t] \in CallRecords
      BY Zenon, <2>1 DEF TypeInv
    <3>2. call[t].op \in {"none", "get", "put", "remove", "getany", "allockey"}
      BY Zenon, <3>1 DEF CallRecords
    <3>3. call[t].op # "none"
      BY Zenon, <2>1 DEF CallOk, Pending
    <3>4. call[t].op # "allockey"
      BY Zenon, <2>1 DEF CallOk, Remote, Pending
    <3> QED
      BY Zenon, <3>2, <3>3, <3>4 DEF Requests
  <2> QED
    BY Zenon, <2>1, <2>2 DEF CallOk, Remote
<1>2. DhtInv => RequestReachesOwner
  BY Zenon, <1>1
<1> QED
  BY <1>2, DhtInvariant, PTL

(* An announced key has a value or was removed (KVStore::Put, enqueueNext). *)
THEOREM DhtAnnouncedAreStored ==
    ASSUME ~Mixes
    PROVE  Spec => []AnnouncedAreStored
<1>1. ASSUME DhtInv
      PROVE  AnnouncedAreStored
  BY Zenon, <1>1 DEF DhtInv, ReadyOk, Kept, AnnouncedAreStored
<1>2. DhtInv => AnnouncedAreStored
  BY Zenon, <1>1
<1> QED
  BY <1>2, DhtInvariant, PTL

(* The flags of the request buffer agree with what the thread holds (free,  *)
(* allocKey, alloc and every path of KVStore and KVStoreThin that throws).  *)
THEOREM DhtReqBufferAccounted ==
    ASSUME ~Mixes
    PROVE  Spec => []ReqBufferAccounted
<1>1. ASSUME DhtInv
      PROVE  ReqBufferAccounted
  <2> SUFFICES ASSUME NEW t \in Threads, ~Pending(t)
               PROVE  (cl[t].keyUse <=> hold[t] # None) /\ ~cl[t].valUse
    BY Zenon DEF ReqBufferAccounted
  <2>1. CallOk(t) /\ BufferOk(t)
    BY Zenon, <1>1 DEF DhtInv
  <2>2. call[t] = NoCall
    BY Zenon, <2>1 DEF CallOk, Pending
  <2>3. call[t].op # "put"
    BY Zenon, <2>2, NoCallFacts
  <2> QED
    BY Zenon, <2>1, <2>3 DEF BufferOk
<1>2. DhtInv => ReqBufferAccounted
  BY Zenon, <1>1
<1> QED
  BY <1>2, DhtInvariant, PTL

------------------------------------------------------------------------------
(* What a get returns.                                                      *)

(* The step answers no get and begins none.                                 *)
QuietGet == \A u \in Threads : call'[u].op = "get" =>
    /\ call[u].op = "get" /\ call'[u].key = call[u].key /\ seen'[u] = seen[u]
    /\ call'[u].pc = "resp" => (call[u].pc = "resp" /\ call'[u].res = call[u].res)

(* A step that leaves the stores and the gets alone keeps what they have    *)
(* seen.                                                                    *)
LEMMA SeenKept ==
    ASSUME SeenInv, store' = store, QuietGet
    PROVE  SeenInv'
<1> SUFFICES ASSUME NEW u \in Threads
             PROVE  SeenOk(u)'
  BY Zenon DEF SeenInv
<1>1. SeenOk(u)
  BY Zenon DEF SeenInv
<1>2. CASE call'[u].op # "get"
  BY Zenon, <1>2 DEF SeenOk
<1>3. CASE call'[u].op = "get"
  <2>1. /\ call[u].op = "get" /\ call'[u].key = call[u].key /\ seen'[u] = seen[u]
        /\ call'[u].pc = "resp" => (call[u].pc = "resp" /\ call'[u].res = call[u].res)
    BY Zenon, <1>3 DEF QuietGet
  <2>2. PICK k, o : k = call[u].key /\ o = Owner(k)
    BY Zenon
  <2>3. Owner(call[u].key)' = o
    BY Zenon, <2>1, <2>2 DEF Owner
  <2>4. Owner(call[u].key) = o
    BY Zenon, <2>2
  <2> QED
    BY Zenon, <1>1, <2>1, <2>2, <2>3, <2>4 DEF SeenOk
<1> QED
  BY Zenon, <1>2, <1>3

(* The calls that neither are a get nor touch a store.                      *)
LEMMA QuietBegins ==
    ASSUME NEW t \in Threads, DhtInv,
           Remove(t) \/ Put(t) \/ GetAny(t) \/ AllocKey(t) \/ FreeKey(t)
    PROVE  store' = store /\ QuietGet
<1>1. CASE FreeKey(t)
  BY Zenon, <1>1 DEF FreeKey, QuietGet
<1>2. ASSUME NEW op \in {"put", "remove", "getany", "allockey"},
             NEW k, NEW v, NEW b, NEW pc, Begin(t, op, k, v, b, pc), seen' = seen
      PROVE  QuietGet
  <2>1. PICK w : w = [NoCall EXCEPT !.op = op, !.key = k, !.val = v,
                                    !.buffered = b, !.pc = pc]
    BY Zenon
  <2>2. call' = [call EXCEPT ![t] = w]
    BY Zenon, <1>2, <2>1 DEF Begin
  <2>3. w.op = op
    BY Zenon, <2>1 DEF NoCall
  <2>4. w.op # "get"
    BY Zenon, <2>3
  <2>5. call'[t] = w /\ \A u \in Threads \ {t} : call'[u] = call[u]
    BY Zenon, <2>2 DEF DhtInv, TypeInv
  <2> QED
    BY Zenon, <1>2, <2>4, <2>5 DEF QuietGet
<1>3. CASE Remove(t)
  <2>1. PICK k, b : Begin(t, "remove", k, None, b, IF Local(t, k) THEN "serve" ELSE "client")
    BY Zenon, <1>3 DEF Remove
  <2>2. store' = store /\ seen' = seen
    BY Zenon, <1>3 DEF Remove
  <2> QED
    BY Zenon, <1>2, <2>1, <2>2
<1>4. CASE Put(t)
  <2>1. PICK k, v, b : Begin(t, "put", k, v, b, IF Local(t, k) THEN "serve" ELSE "client")
    BY Zenon, <1>4 DEF Put
  <2>2. store' = store /\ seen' = seen
    BY Zenon, <1>4 DEF Put
  <2> QED
    BY Zenon, <1>2, <2>1, <2>2
<1>5. CASE GetAny(t)
  <2>1. Begin(t, "getany", None, None, FALSE, "client")
    BY Zenon, <1>5 DEF GetAny
  <2>2. store' = store /\ seen' = seen
    BY Zenon, <1>5 DEF GetAny
  <2> QED
    BY Zenon, <1>2, <2>1, <2>2
<1>6. CASE AllocKey(t)
  <2>1. PICK k : Begin(t, "allockey", k, None, TRUE, "client")
    BY Zenon, <1>6 DEF AllocKey
  <2>2. store' = store /\ seen' = seen
    BY Zenon, <1>6 DEF AllocKey
  <2> QED
    BY Zenon, <1>2, <2>1, <2>2
<1> QED
  BY Zenon, <1>1, <1>3, <1>4, <1>5, <1>6

(* A call that ends is no get any more.                                     *)
LEMMA QuietReturn ==
    ASSUME NEW t \in Threads, DhtInv, call' = [call EXCEPT ![t] = NoCall],
           \A u \in Threads \ {t} : seen'[u] = seen[u]
    PROVE  QuietGet
<1>1. call'[t] = NoCall /\ \A u \in Threads \ {t} : call'[u] = call[u]
  BY Zenon DEF DhtInv, TypeInv
<1>2. NoCall.op # "get"
  BY Zenon, NoCallFacts
<1> QED
  BY Zenon, <1>1, <1>2 DEF QuietGet

(* A call that returns leaves the gets of the other threads alone.          *)
LEMMA ReturnSeen ==
    ASSUME NEW t \in Threads, DhtInv, Return(t)
    PROVE  QuietGet
<1>1. call' = [call EXCEPT ![t] = NoCall] /\ seen' = [seen EXCEPT ![t] = {}]
  BY Zenon DEF Return
<1>2. \A u \in Threads \ {t} : seen'[u] = seen[u]
  BY Zenon, <1>1 DEF DhtInv, TypeInv
<1> QED
  BY Zenon, <1>1, <1>2, QuietReturn

(* The steps of a client touch no store and answer no get.                  *)
LEMMA QuietClient ==
    ASSUME NEW t \in Threads, DhtInv, ClientStep(t)
    PROVE  store' = store /\ QuietGet
<1>0. store' = store
  BY Zenon DEF ClientStep, ClientNew, Connect, ConnectFails, ClientUnusable, ClientAllocKey,
         LocalGetAny, enqueueAndWait, RunToResponse
<1>1. ASSUME call' = call, seen' = seen
      PROVE  QuietGet
  BY Zenon, <1>1 DEF QuietGet
<1>2. ASSUME call' = [call EXCEPT ![t] = NoCall], seen' = seen
      PROVE  QuietGet
  BY Zenon, <1>2, QuietReturn
<1>3. CASE ClientNew(t) \/ Connect(t) \/ ClientUnusable(t)
  <2>1. call' = call /\ seen' = seen
    BY Zenon, <1>3 DEF ClientNew, Connect, ClientUnusable
  <2> QED
    BY Zenon, <1>0, <1>1, <2>1
<1>4. CASE ConnectFails(t) \/ RunToResponse(t)
  <2>1. Return(t)
    BY Zenon, <1>4 DEF ConnectFails, RunToResponse
  <2> QED
    BY Zenon, <1>0, <2>1, ReturnSeen
<1>5. CASE ClientAllocKey(t)
  <2>1. Return(t) \/ (call' = [call EXCEPT ![t] = NoCall] /\ seen' = seen)
    BY Zenon, <1>5 DEF ClientAllocKey
  <2> QED
    BY Zenon, <1>0, <1>2, <2>1, ReturnSeen
<1>6. CASE LocalGetAny(t)
  <2>1. Return(t) \/ (call' = [call EXCEPT ![t] = NoCall] /\ seen' = seen)
    BY Zenon, <1>6 DEF LocalGetAny
  <2> QED
    BY Zenon, <1>0, <1>2, <2>1, ReturnSeen
<1>7. CASE enqueueAndWait(t)
  <2>1. CASE Targets(t) = {}
    <3>1. Return(t)
      BY Zenon, <1>7, <2>1 DEF enqueueAndWait
    <3> QED
      BY Zenon, <1>0, <3>1, ReturnSeen
  <2>2. CASE Targets(t) # {}
    <3>1. PICK n, m : call' = [call EXCEPT ![t].pc = "queued", ![t].host = n, ![t].msg = m]
      BY Zenon, <1>7, <2>2 DEF enqueueAndWait
    <3>2. seen' = seen
      BY Zenon, <1>7, <2>2 DEF enqueueAndWait
    <3>3. call \in [Threads -> CallRecords]
      BY Zenon DEF DhtInv, TypeInv
    <3>4. /\ call'[t].op = call[t].op /\ call'[t].key = call[t].key /\ call'[t].pc = "queued"
          /\ \A u \in Threads \ {t} : call'[u] = call[u]
      BY <3>1, <3>3 DEF CallRecords
    <3>5. call'[t].pc # "resp"
      BY Zenon, <3>4
    <3> QED
      BY Zenon, <1>0, <3>2, <3>4, <3>5 DEF QuietGet
  <2> QED
    BY Zenon, <2>1, <2>2
<1> QED
  BY Zenon, <1>3, <1>4, <1>5, <1>6, <1>7 DEF ClientStep

(* A handler that writes no store and serves no get; what it leaves of the  *)
(* other calls.                                                             *)
LEMMA QuietElsewhere ==
    ASSUME NEW t \in Threads, DhtInv, NEW d, call' = [call EXCEPT ![t] = d],
           seen' = seen, d.op # "get"
    PROVE  QuietGet
<1>1. call'[t] = d /\ \A u \in Threads \ {t} : call'[u] = call[u]
  BY Zenon DEF DhtInv, TypeInv
<1> QED
  BY Zenon, <1>1 DEF QuietGet

(* The handlers that write no store and answer no get.                      *)
LEMMA QuietServer ==
    ASSUME NEW t \in Threads, DhtInv,
           Take(t) \/ erpcReqGetAnyHandler(t) \/ PutAnnounce(t) \/ HandlerEscapes(t)
    PROVE  store' = store /\ QuietGet
<1>0. store' = store
  BY Zenon DEF Take, erpcReqGetAnyHandler, PutAnnounce, HandlerEscapes
<1>a. call \in [Threads -> CallRecords]
  BY Zenon DEF DhtInv, TypeInv
<1>1. CASE Take(t)
  <2>1. call' = [call EXCEPT ![t].pc = "serve"]
    BY Zenon, <1>1 DEF Take, Goto
  <2>2. seen' = seen
    BY Zenon, <1>1 DEF Take
  <2>3. /\ call'[t].op = call[t].op /\ call'[t].key = call[t].key /\ call'[t].pc = "serve"
        /\ \A u \in Threads \ {t} : call'[u] = call[u]
    BY Zenon, <2>1, <1>a DEF CallRecords
  <2>4. call'[t].pc # "resp"
    BY Zenon, <2>3
  <2> QED
    BY Zenon, <1>0, <2>2, <2>3, <2>4 DEF QuietGet
<1>2. ASSUME NEW s, NEW r, Respond(t, s, r), seen' = seen, call[t].op # "get"
      PROVE  QuietGet
  <2>1. PICK d : d = [call[t] EXCEPT !.pc = "resp", !.status = s, !.res = r]
    BY Zenon
  <2>2. call' = [call EXCEPT ![t] = d]
    BY Zenon, <1>2, <2>1 DEF Respond
  <2>3. d.op # "get"
    BY <1>2, <1>a, <2>1 DEF CallRecords
  <2> QED
    BY Zenon, <1>2, <2>2, <2>3, QuietElsewhere
<1>3. CASE erpcReqGetAnyHandler(t)
  <2>1. \E s, r : Respond(t, s, r)
    BY Zenon, <1>3 DEF erpcReqGetAnyHandler
  <2>2. seen' = seen /\ call[t].op # "get"
    BY Zenon, <1>3 DEF erpcReqGetAnyHandler, Serving
  <2> QED
    BY Zenon, <1>0, <1>2, <2>1, <2>2
<1>4. CASE PutAnnounce(t)
  <2>1. \E s, r : Respond(t, s, r)
    BY Zenon, <1>4 DEF PutAnnounce
  <2>2. seen' = seen /\ call[t].op # "get"
    BY Zenon, <1>4 DEF PutAnnounce, Serving
  <2> QED
    BY Zenon, <1>0, <1>2, <2>1, <2>2
<1>5. CASE HandlerEscapes(t)
  <2>1. CASE Remote(t)
    <3>1. call' = call /\ seen' = seen
      BY Zenon, <1>5, <2>1 DEF HandlerEscapes
    <3> QED
      BY Zenon, <1>0, <3>1 DEF QuietGet
  <2>2. CASE ~Remote(t)
    <3>1. Return(t)
      BY Zenon, <1>5, <2>2 DEF HandlerEscapes
    <3> QED
      BY Zenon, <1>0, <3>1, ReturnSeen
  <2> QED
    BY Zenon, <2>1, <2>2
<1> QED
  BY Zenon, <1>1, <1>3, <1>4, <1>5

(* A write to a store: every get of the key under way sees the new value.   *)
LEMMA WriteSeen ==
    ASSUME NEW t \in Threads, DhtInv, SeenInv, NEW h \in Servers, NEW k \in Keys,
           NEW v \in Values \cup {None}, StoreSet(h, k, v),
           NEW d, call' = [call EXCEPT ![t] = d], d.op # "get"
    PROVE  SeenInv'
<1> SUFFICES ASSUME NEW u \in Threads, call'[u].op = "get", call'[u].key \in Keys,
                    Owner(call'[u].key) \in Servers
             PROVE  /\ store'[Owner(call'[u].key)][call'[u].key] \in seen'[u]
                    /\ call'[u].pc = "resp" => call'[u].res \in seen'[u]
  BY Zenon DEF SeenInv, SeenOk, Owner
<1>1. call'[t] = d /\ \A w \in Threads \ {t} : call'[w] = call[w]
  BY Zenon DEF DhtInv, TypeInv
<1>2. u # t /\ call'[u] = call[u]
  BY Zenon, <1>1
<1>3. PICK j, o : j = call[u].key /\ o = Owner(j)
  BY Zenon
<1>4. /\ call[u].op = "get" /\ j \in Keys /\ o \in Servers
      /\ Owner(call'[u].key) = o /\ call'[u].key = j
  BY Zenon, <1>2, <1>3
<1>5. store[o][j] \in seen[u] /\ (call[u].pc = "resp" => call[u].res \in seen[u])
  BY Zenon, <1>3, <1>4 DEF SeenInv, SeenOk
<1>6. /\ store'[h][k] = v
      /\ \A g \in Servers, i \in Keys : (g # h \/ i # k) => store'[g][i] = store[g][i]
  BY StoreSetFacts DEF DhtInv
<1>7. seen'[u] = IF call[u].op = "get" /\ call[u].key = k /\ h = Owner(k)
                 THEN seen[u] \cup {v} ELSE seen[u]
  BY Zenon DEF StoreSet
<1>8. CASE j = k /\ o = h
  <2>1. seen'[u] = seen[u] \cup {v}
    BY Zenon, <1>3, <1>4, <1>7, <1>8
  <2> QED
    BY Zenon, <1>2, <1>4, <1>5, <1>6, <1>8, <2>1
<1>9. CASE j # k \/ o # h
  <2>1. seen'[u] = seen[u]
    BY Zenon, <1>3, <1>7, <1>9
  <2>2. store'[o][j] = store[o][j]
    BY Zenon, <1>4, <1>6, <1>9
  <2> QED
    BY Zenon, <1>2, <1>4, <1>5, <2>1, <2>2
<1> QED
  BY Zenon, <1>8, <1>9

(* The owner of a key is the node whose range holds it.                     *)
LEMMA OwnerIs ==
    ASSUME OneOwner, NEW k \in Keys, NEW h \in Servers, isLocalKey(h, k)
    PROVE  Owner(k) = h
<1>1. Owner(k) \in Servers /\ isLocalKey(Owner(k), k)
  BY Zenon DEF Owner
<1> QED
  BY Zenon, <1>1 DEF OneOwner

(* erpcReqGetHandler, and a local get, answer with what the owner has now.  *)
LEMMA GetHandlerSeen ==
    ASSUME NEW t \in Threads, DhtInv, SeenInv, OneOwner, erpcReqGetHandler(t)
    PROVE  SeenInv'
<1>1. TypeInv /\ call[t].pc = "serve" /\ call[t].op = "get"
  BY Zenon DEF DhtInv, erpcReqGetHandler, Serving
<1>2. At(t) \in Servers /\ Asked(t) = call[t].key /\ isLocalKey(At(t), call[t].key)
  BY Zenon, <1>1, HandlerFacts DEF Handled, Requests
<1>3. PICK k, v, s, o : /\ k = call[t].key /\ v = Mapped(At(t), k) /\ o = Owner(k)
                        /\ s = IF v = None THEN "KEY_NOT_FOUND" ELSE "OK"
  BY Zenon
<1>4. Respond(t, s, v) /\ store' = store /\ seen' = seen
  BY Zenon, <1>2, <1>3 DEF erpcReqGetHandler
<1>5. PICK d : d = [call[t] EXCEPT !.pc = "resp", !.status = s, !.res = v]
  BY Zenon
<1>6. call' = [call EXCEPT ![t] = d]
  BY Zenon, <1>4, <1>5 DEF Respond
<1>7. call \in [Threads -> CallRecords]
  BY Zenon, <1>1 DEF TypeInv
<1>8. d.key = k /\ d.res = v
  BY Zenon, <1>3, <1>5, <1>7 DEF CallRecords
<1>9. call'[t] = d /\ \A u \in Threads \ {t} : call'[u] = call[u]
  BY Zenon, <1>6, <1>7
<1> SUFFICES ASSUME NEW u \in Threads, call'[u].op = "get", call'[u].key \in Keys,
                    Owner(call'[u].key) \in Servers
             PROVE  /\ store'[Owner(call'[u].key)][call'[u].key] \in seen'[u]
                    /\ call'[u].pc = "resp" => call'[u].res \in seen'[u]
  BY Zenon DEF SeenInv, SeenOk, Owner
<1>10. CASE u # t
  BY Zenon, <1>4, <1>9, <1>10 DEF SeenInv, SeenOk
<1>11. CASE u = t
  <2>1. k \in Keys /\ o = At(t)
    BY Zenon, <1>2, <1>3, <1>8, <1>9, <1>11, OwnerIs
  <2>2. store[o][k] \in seen[t]
    BY Zenon, <1>1, <1>2, <1>3, <2>1 DEF SeenInv, SeenOk
  <2>3. v = store[o][k]
    BY Zenon, <1>3, <2>1 DEF Mapped
  <2>4. Owner(call'[u].key) = o /\ call'[u].key = k /\ call'[u].res = v
    BY Zenon, <1>3, <1>8, <1>9, <1>11
  <2> QED
    BY Zenon, <1>4, <1>11, <2>2, <2>3, <2>4
<1> QED
  BY Zenon, <1>10, <1>11

(* KVStore::Get begins: it has seen what its key is mapped to.              *)
LEMMA GetSeen ==
    ASSUME NEW t \in Threads, DhtInv, SeenInv, Get(t)
    PROVE  SeenInv'
<1>1. PICK k \in AnyKeys, b \in BOOLEAN :
        /\ Begin(t, "get", k, None, b, IF Local(t, k) THEN "serve" ELSE "client")
        /\ seen' = [seen EXCEPT ![t] = IF k \in Keys THEN {store[Owner(k)][k]} ELSE {}]
  BY Zenon DEF Get
<1>2. store' = store
  BY Zenon DEF Get
<1>3. PICK w, pc, o : /\ pc = IF Local(t, k) THEN "serve" ELSE "client"
                      /\ w = [NoCall EXCEPT !.op = "get", !.key = k, !.val = None,
                                            !.buffered = b, !.pc = pc]
                      /\ o = Owner(k)
  BY Zenon
<1>4. call' = [call EXCEPT ![t] = w]
  BY Zenon, <1>1, <1>3 DEF Begin
<1>5. w.key = k /\ w.pc = pc /\ pc # "resp"
  BY Zenon, <1>3 DEF NoCall
<1>6. /\ call'[t] = w /\ \A u \in Threads \ {t} : call'[u] = call[u] /\ seen'[u] = seen[u]
      /\ k \in Keys => seen'[t] = {store[o][k]}
  BY Zenon, <1>1, <1>3, <1>4 DEF DhtInv, TypeInv
<1> SUFFICES ASSUME NEW u \in Threads, call'[u].op = "get", call'[u].key \in Keys,
                    Owner(call'[u].key) \in Servers
             PROVE  /\ store'[Owner(call'[u].key)][call'[u].key] \in seen'[u]
                    /\ call'[u].pc = "resp" => call'[u].res \in seen'[u]
  BY Zenon DEF SeenInv, SeenOk, Owner
<1>7. CASE u # t
  BY Zenon, <1>2, <1>6, <1>7 DEF SeenInv, SeenOk
<1>8. CASE u = t
  <2>1. Owner(call'[u].key) = o /\ call'[u].key = k /\ k \in Keys /\ call'[u].pc # "resp"
    BY Zenon, <1>3, <1>5, <1>6, <1>8
  <2> QED
    BY Zenon, <1>2, <1>6, <1>8, <2>1
<1> QED
  BY Zenon, <1>7, <1>8

(* The three handlers that write.                                           *)
LEMMA WriterSeen ==
    ASSUME NEW t \in Threads, DhtInv, SeenInv,
           erpcReqRemoveHandler(t) \/ erpcReqPutHandler(t) \/ PutUndo(t)
    PROVE  SeenInv'
<1>1. TypeInv /\ CallOk(t) /\ call \in [Threads -> CallRecords] /\ call[t] \in CallRecords
  BY Zenon DEF DhtInv, TypeInv
<1>2. PICK h, k : h = At(t) /\ k = Asked(t)
  BY Zenon
<1>3. ASSUME NEW s, NEW r, Respond(t, s, r), call[t].op # "get"
      PROVE  \E d : call' = [call EXCEPT ![t] = d] /\ d.op # "get"
  <2>1. PICK d : d = [call[t] EXCEPT !.pc = "resp", !.status = s, !.res = r]
    BY Zenon
  <2>2. call' = [call EXCEPT ![t] = d]
    BY Zenon, <1>3, <2>1 DEF Respond
  <2>3. d.op # "get"
    BY Zenon, <1>1, <1>3, <2>1 DEF CallRecords
  <2> QED
    BY Zenon, <2>2, <2>3
<1>4. CASE erpcReqRemoveHandler(t)
  <2>1. call[t].pc = "serve" /\ call[t].op = "remove"
    BY Zenon, <1>4 DEF erpcReqRemoveHandler, Serving
  <2>2. h \in Servers
    BY Zenon, <1>2, <2>1, HandlerFacts DEF Handled
  <2>3. PICK d : call' = [call EXCEPT ![t] = d] /\ d.op # "get"
    <3>1. \E s, r : Respond(t, s, r)
      BY Zenon, <1>4 DEF erpcReqRemoveHandler
    <3>2. call[t].op # "get"
      BY Zenon, <2>1
    <3> QED
      BY Zenon, <1>3, <3>1, <3>2
  <2>4. CASE k \in Keys
    <3>1. StoreSet(h, k, None) /\ None \in Values \cup {None}
      BY Zenon, <1>2, <1>4, <2>4 DEF erpcReqRemoveHandler
    <3> QED
      BY Zenon, <2>2, <2>3, <2>4, <3>1, WriteSeen
  <2>5. CASE k \notin Keys
    <3>1. store' = store /\ seen' = seen
      BY Zenon, <1>2, <1>4, <2>5 DEF erpcReqRemoveHandler
    <3>2. QuietGet
      BY Zenon, <2>3, <3>1, QuietElsewhere
    <3> QED
      BY Zenon, <3>1, <3>2, SeenKept
  <2> QED
    BY Zenon, <2>4, <2>5
<1>5. CASE erpcReqPutHandler(t)
  <2>1. call[t].pc = "serve" /\ call[t].op = "put"
    BY Zenon, <1>5 DEF erpcReqPutHandler, Serving
  <2>2. h \in Servers /\ k \in Keys
    BY Zenon, <1>2, <2>1, HandlerFacts DEF Handled
  <2>3. PICK v : v = call[t].val
    BY Zenon
  <2>4. v \in Values \cup {None} /\ StoreSet(h, k, v)
    <3>1. v \in Values \cup {None}
      BY Zenon, <1>1, <2>1, <2>3 DEF CallOk
    <3>2. StoreSet(h, k, v)
      BY Zenon, <1>2, <1>5, <2>3 DEF erpcReqPutHandler
    <3> QED
      BY Zenon, <3>1, <3>2
  <2>5. PICK d : d = [call[t] EXCEPT !.pc = "announce"]
    BY Zenon
  <2>6. call' = [call EXCEPT ![t] = d]
    BY Zenon, <1>5, <2>5 DEF erpcReqPutHandler, Goto
  <2>7. d.op # "get"
    BY Zenon, <1>1, <2>1, <2>5 DEF CallRecords
  <2> QED
    BY Zenon, <2>2, <2>4, <2>6, <2>7, WriteSeen
<1>6. CASE PutUndo(t)
  <2>1. call[t].pc = "announce" /\ call[t].op = "put"
    BY Zenon, <1>6 DEF PutUndo, Serving
  <2>2. h \in Servers /\ k \in Keys
    BY Zenon, <1>2, <2>1, HandlerFacts DEF Handled
  <2>3. PICK d : call' = [call EXCEPT ![t] = d] /\ d.op # "get"
    <3>1. \E s, r : Respond(t, s, r)
      BY Zenon, <1>6 DEF PutUndo
    <3>2. call[t].op # "get"
      BY Zenon, <2>1
    <3> QED
      BY Zenon, <1>3, <3>1, <3>2
  <2>4. StoreSet(h, k, None) /\ None \in Values \cup {None}
    BY Zenon, <1>2, <1>6 DEF PutUndo
  <2> QED
    BY Zenon, <2>2, <2>3, <2>4, WriteSeen
<1> QED
  BY Zenon, <1>4, <1>5, <1>6

(* Every step keeps what the gets under way have seen.                      *)
LEMMA SeenNext ==
    ASSUME OneOwner, DhtInv, SeenInv, [Next]_dhtVars
    PROVE  SeenInv'
<1>1. CASE UNCHANGED dhtVars
  <2>1. store' = store /\ call' = call /\ seen' = seen
    BY Zenon, <1>1 DEF dhtVars
  <2>2. QuietGet
    BY Zenon, <2>1 DEF QuietGet
  <2> QED
    BY Zenon, <2>1, <2>2, SeenKept
<1>2. ASSUME NEW t \in Threads, Calls(t)
      PROVE  SeenInv'
  BY Zenon, <1>2, GetSeen, QuietBegins, SeenKept DEF Calls
<1>3. ASSUME NEW t \in Threads, ClientStep(t)
      PROVE  SeenInv'
  BY Zenon, <1>3, QuietClient, SeenKept
<1>4. ASSUME NEW t \in Threads, ServerStep(t)
      PROVE  SeenInv'
  BY Zenon, <1>4, QuietServer, SeenKept, GetHandlerSeen, WriterSeen DEF ServerStep
<1> QED
  BY Zenon, <1>1, <1>2, <1>3, <1>4 DEF Next

(* What a get returns its key was mapped to, on the one node whose range    *)
(* holds it, at some moment between the call and the return, whatever puts  *)
(* and removes of other threads came in between (KVStore::Get,              *)
(* DhtClient::get, erpcReqGetHandler).  The ranges of the nodes must be     *)
(* disjoint; that the key in the request is the one the caller named is     *)
(* part of DhtInv.                                                          *)
THEOREM DhtGetSeesStored ==
    ASSUME ~Mixes, OneOwner
    PROVE  Spec => []GetSeesStored
<1>1. Init => DhtInv /\ SeenInv
  <2> SUFFICES ASSUME Init
               PROVE  SeenInv
    BY Zenon, DhtInit
  <2>1. \A t \in Threads : call[t].op = NoCall.op
    BY Zenon DEF Init
  <2>2. NoCall.op # "get"
    BY Zenon, NoCallFacts
  <2> QED
    BY Zenon, <2>1, <2>2 DEF SeenInv, SeenOk
<1>2. (DhtInv /\ SeenInv) /\ [Next]_dhtVars => (DhtInv /\ SeenInv)'
  BY Zenon, DhtNext, SeenNext
<1>3. ASSUME DhtInv, SeenInv
      PROVE  GetSeesStored
  <2> SUFFICES ASSUME NEW t \in Threads, call[t].pc = "resp", call[t].op = "get",
                      call[t].key \in Keys
               PROVE  call[t].res \in seen[t]
    BY Zenon DEF GetSeesStored
  <2>1. At(t) \in Servers /\ isLocalKey(At(t), call[t].key)
    BY Zenon, <1>3, HandlerFacts DEF Handled, Requests
  <2>2. Owner(call[t].key) \in Servers
    BY Zenon, <2>1, OwnerIs
  <2> QED
    BY Zenon, <1>3, <2>2 DEF SeenInv, SeenOk
<1>4. DhtInv /\ SeenInv => GetSeesStored
  BY Zenon, <1>3
<1> QED
  BY <1>1, <1>2, <1>4, PTL DEF Spec
=============================================================================
