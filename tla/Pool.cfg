SPECIFICATION Spec
CONSTANTS
  u1 = u1
  u2 = u2
  Users = {u1, u2}
  NoUser = NoUser
  Buckets = 1
  Slots = 2
  MaxBuffers = 2
  IncCount = 4
  MinInc = 1
  MaxInc = 4
  ObjSize = 2
  CounterMod = 2
  MaxMade = 5
  MaxPoolBuckets = 64
INVARIANTS BlocksGoHome NoSharing AbortsOnlyAtLimit
PROPERTIES RefinesQueues
CHECK_DEADLOCK FALSE
SYMMETRY Symmetry
