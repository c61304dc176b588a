SPECIFICATION Spec
CONSTANTS
  Owners = {o1, o2, o3}
  Sizes = {100, 4096}
  MaxBuckets = 2
  LbasSize = 2
  MaxLba = 20
  Removes = FALSE
  MaxListLen = 7
INVARIANT NoOverlap
CHECK_DEADLOCK FALSE
