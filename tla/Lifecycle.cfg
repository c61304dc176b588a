SPECIFICATION Spec
CONSTANTS
  NumDevices = 2
  Files <- MCFiles
  Missing = Missing
  PciAddr <- MCPciAddr
  IoPoolSize = 5
  Faults = {"thread", "open", "register", "rtree", "conf", "nexus", "app", "lists", "ring", "rpc"}
  Pools = {pool}
  pool = pool
  RqstPollers = {p1}
  p1 = p1
  DhtWorkers = {w1}
  w1 = w1
  MaxRequests = 1
INVARIANTS AcceptedConfigOpens EnabledMeansReady MissingOnlyOutside ClosedDevices 
PROPERTIES OpenReturns CloseReturns
CHECK_DEADLOCK FALSE
