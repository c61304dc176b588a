SPECIFICATION FairSpec
CONSTANTS
  p1 = p1
  p2 = p2
  s1 = s1
  s2 = s2
  Prefixes <- MCPrefixes
  Slots <- MCSlots
  Keys <- MCKeys
  Threads = {t1, t2}
  Nodes = {n1}
  Wraps = {x1, x2}
  Cells = {m1, m2}
  Nil = Nil
  Garbage = Garbage
  Ops = {"REMOVE_PMEM"}
  MaxRestarts = 1
INVARIANT OwnValue
PROPERTIES  AllocReturns
\* Nothing has to be stored, and all memory may be used up.
CHECK_DEADLOCK FALSE
