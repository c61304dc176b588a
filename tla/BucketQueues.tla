---------------------------- MODULE BucketQueues ----------------------------
(***************************************************************************)
(* What a pool promises its users: every bucket is a first-in first-out    *)
(* queue of idle objects, an object has one home bucket for life, and it   *)
(* is either idle in its home or in the hands of exactly one user.         *)
(***************************************************************************)
EXTENDS Naturals, Sequences

CONSTANTS Users, BucketNums

VARIABLES queue,  \* the idle objects of each bucket
          home,   \* the bucket of every object made so far
          hands   \* the objects in the hands of each user

vars == <<queue, home, hands>>

Init == /\ queue = [b \in BucketNums |-> <<>>]
        /\ home = <<>>
        /\ hands = [u \in Users |-> {}]

(* A new object joins the end of a queue. *)
New(b) == /\ queue' = [queue EXCEPT ![b] = Append(@, Len(home) + 1)]
          /\ home' = Append(home, b)
          /\ UNCHANGED hands

(* A user takes the oldest idle object of a bucket. *)
Take(u, b) == /\ queue[b] # <<>>
              /\ hands' = [hands EXCEPT ![u] = @ \cup {Head(queue[b])}]
              /\ queue' = [queue EXCEPT ![b] = Tail(@)]
              /\ UNCHANGED home

(* A user gives an object back to its home. *)
Give(u, o) == /\ o \in hands[u]
              /\ hands' = [hands EXCEPT ![u] = @ \ {o}]
              /\ queue' = [queue EXCEPT ![home[o]] = Append(@, o)]
              /\ UNCHANGED home

Next == \/ \E b \in BucketNums : New(b)
        \/ \E u \in Users, b \in BucketNums : Take(u, b)
        \/ \E u \in Users, o \in 1 .. Len(home) : Give(u, o)

Spec == Init /\ [][Next]_vars
=============================================================================
