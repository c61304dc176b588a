---------------------------- MODULE PoolManager ----------------------------
(***************************************************************************)
(* The registry of the object pools (lib/common/PoolManager.cpp): every    *)
(* pool enters it when it is built and leaves it when it is destroyed,     *)
(* while the collector thread walks over it.  The pools of this system are *)
(* static: they are built before main and destroyed after it.              *)
(***************************************************************************)
CONSTANT Pools

VARIABLES pools,      \* PoolManager::pools
          part,       \* how much of a pool exists: none, base, full, gone
          collector   \* the collector thread was started

poolVars == <<pools, part, collector>>

PoolInit ==
    /\ pools = {}
    /\ part = [p \in Pools |-> "none"]
    /\ collector = FALSE

(* PoolManager::registerPool and unregisterPool                             *)
registerPool(p) == pools' = pools \cup {p}
unregisterPool(p) == pools' = pools \ {p}

(* GeneralPoolBase::GeneralPoolBase; getInstance starts the collector.      *)
NewPoolBase(p) ==
    /\ part[p] = "none"
    /\ part' = [part EXCEPT ![p] = "base"]
    /\ collector' = TRUE
    /\ registerPool(p)

(* GeneralPool::GeneralPool after the base and the buckets.                 *)
NewPool(p) ==
    /\ part[p] = "base"
    /\ part' = [part EXCEPT ![p] = "full"]
    /\ registerPool(p)
    /\ UNCHANGED collector

(* GeneralPool::~GeneralPool: after it only the base is left.               *)
DeletePool(p) ==
    /\ part[p] = "full"
    /\ part' = [part EXCEPT ![p] = "gone"]
    /\ unregisterPool(p)
    /\ UNCHANGED collector

(* GeneralPoolBase::~GeneralPoolBase                                        *)
DeletePoolBase(p) ==
    /\ part[p] = "gone"
    /\ part' = [part EXCEPT ![p] = "freed"]
    /\ unregisterPool(p)
    /\ UNCHANGED collector

(* PoolManager::start: one round over the map, under its lock.              *)
Collect ==
    /\ collector
    /\ UNCHANGED poolVars
=============================================================================
