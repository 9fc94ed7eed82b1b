CONSTANTS
  p1 = p1  p2 = p2  p3 = p3
  addr1 = addr1  addr2 = addr2
  Procs <- MCProcs
  Addrs <- MCAddrs
  addr = addr1
  NoProc = NoProc
  InitSema = 0
  MaxPermits = 2
SPECIFICATION FairSpec
INVARIANTS PermitsConserved NoLostWakeup
PROPERTIES ImplementsSemaphore FreePermitTaken
CHECK_DEADLOCK FALSE
