\* The pipeline may come to rest with nothing left to do.
SPECIFICATION Spec
CONSTANTS
  Keys = {k1}
  Values = {v1}
  Clients = {c1}
  Cells = {m1, m2}
  Rqsts = {r1, r2}
  Nil = Nil
  Garbage = Garbage
  Async = Async
  RingSize = 2
  MaxIoBufs = 2
  UintMod = 8
  LbasSize = 2
  MaxLba = 6
  MaxListLen = 2
  Ops = {"PUT", "UPDATE", "UPDATE_ASYNC", "GET", "GET_ASYNC", "QUIESCE", "FORCE_ABORT"}
  Faults = {"ENOMEM", "EIO", "FAIL"}
  Exclusive = FALSE
INVARIANTS TypeOK SingleOwner AnsweredAtMostOnce DrainedWhenQuiescent
SYMMETRY Symmetry
CHECK_DEADLOCK FALSE
