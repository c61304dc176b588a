SPECIFICATION FreeListSpec
CONSTANT MaxLba = 6
INVARIANTS
  SingleHolder
  AbortsOnlyWhenFull
