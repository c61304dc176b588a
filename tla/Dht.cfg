SPECIFICATION FairSpec
CONSTANTS
  t1 = t1
  t2 = t2
  t3 = t3
  None = None
  NoThread = NoThread
  Threads = {t1, t2, t3}
  Openers = {t1, t2}
  Seed <- MCSeed
  Home <- MCHome
  Hosts = {0, 1, 2}
  Thin = {2}
  Listed <- MCListed
  Keys <- MCKeys
  Start <- MCStart
  End <- MCStart
  MaskOffset = 0
  MaskLength = 1
  PKeyOffset = 1
  PKeySize = 1
  Values = {v1}
  v1 = v1
  RpcThreads = 2
  MaxReady = 1
  MayEscape = {0}
  MayRefuse = TRUE
  Mixes = FALSE
  Does <- MCDoes
  MaxCalls <- MCMaxCalls
INVARIANTS RequestReachesOwner GetSeesStored AnnouncedAreStored ReqBufferAccounted
PROPERTIES EveryCallReturns
CHECK_DEADLOCK FALSE
