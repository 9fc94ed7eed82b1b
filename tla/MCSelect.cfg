CONSTANTS
  Procs = {g1, g2, g3}
  u = u
  b = b
  Chans = {u, b}
  NoVal = NoVal
  Size = 1
  Cap <- MCCap
  Addr <- MCAddr
  Ops <- SelectOps
SPECIFICATION Spec
INVARIANTS QueueInvariants NobodyLeftBehind ReadiedOnce NoThrow NoLockCycle
PROPERTIES ImplementsChannels
SYMMETRY Symmetry
CHECK_DEADLOCK FALSE
