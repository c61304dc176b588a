SPECIFICATION Spec
CONSTANTS
  NRo = 1
  NFf = 2
  NSub = 1
  MaxIterations = 2
  MaxRetries = 2
  MaxReady = 1
  MaxRing = 1
  MaxOffload = 1
  Modes <- MCModes
INVARIANTS OneFilterPerEvent 
CHECK_DEADLOCK FALSE
 
