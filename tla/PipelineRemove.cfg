\* The pipeline may come to rest with nothing left to do.
SPECIFICATION Spec
CONSTANTS
  Keys = {k1}
  Values = {v1, v2}
  Clients = {c1, c2}
  Cells = {m1, m2}
  Rqsts = {r1, r2}
  Nil = Nil
  Garbage = Garbage
  Async = Async
  RingSize = 2
  MaxIoBufs = 2
  UintMod = 8
  LbasSize = 2
  MaxLba = 12
  MaxListLen = 4
  Ops = {"PUT", "UPDATE", "UPDATE_ASYNC", "GET", "GET_ASYNC", "REMOVE_DISK"}
  Faults = {}
  Exclusive = TRUE
INVARIANTS GetReturnsStored NoCrash CounterStaysAtHead
PROPERTIES RefinesMap
CHECK_DEADLOCK FALSE
