CONSTANTS
  g1 = g1  g2 = g2  g3 = g3
  Procs = {g1, g2, g3}
  Callbacks = {c1}
  Poller = Poller
  Free = Free
  Deadlines = {1}
  Scenes <- SmallScenes
  MaxOpens = 2
SPECIFICATION FdSpec
INVARIANTS FdSafe BlockedForAReason
PROPERTIES CloseReturns
CHECK_DEADLOCK FALSE
