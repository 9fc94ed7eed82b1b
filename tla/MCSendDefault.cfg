CONSTANTS
  Procs = {g1, g2, g3}
  u = u
  b = b
  Chans = {u}
  NoVal = NoVal
  Size = 1
  Cap <- MCCap
  Addr <- MCAddr
  Ops <- DefaultOps
SPECIFICATION Spec
INVARIANTS SendDefaultJustified
SYMMETRY Symmetry
CHECK_DEADLOCK FALSE
