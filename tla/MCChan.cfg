CONSTANTS
  Procs = {g1, g2, g3}
  u = u
  b = b
  Chans = {b}
  NoVal = NoVal
  Size = 2
  Cap <- MCCap
  Addr <- MCAddr
  Ops <- ChanOps
SPECIFICATION Spec
INVARIANTS DefaultJustified SendDefaultJustified
PROPERTIES ImplementsChannels
SYMMETRY Symmetry
CHECK_DEADLOCK FALSE
