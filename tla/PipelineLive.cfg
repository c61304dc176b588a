\* The pipeline may come to rest with nothing left to do.
SPECIFICATION FairSpec
CONSTANTS
  Keys = {k1, k2}
  Values = {v1}
  Clients = {c1}
  Cells = {m1, m2}
  Rqsts = {r1, r2}
  Nil = Nil
  Garbage = Garbage
  Async = Async
  RingSize = 2
  MaxIoBufs = 2
  UintMod = 8
  LbasSize = 2
  MaxLba = 6
  MaxListLen = 2
  Ops = {"PUT", "UPDATE", "UPDATE_ASYNC", "UPDATE_ASYNC_MISSING"}
  Faults = {"ENOMEM", "FAIL"}
  Exclusive = TRUE
INVARIANTS BuffersAccounted LbaExclusive AnsweredBeforeReuse
PROPERTIES RefinesMap EveryRequestReturns
CHECK_DEADLOCK FALSE
