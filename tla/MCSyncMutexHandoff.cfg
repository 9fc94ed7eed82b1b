CONSTANTS
  p1 = p1  p2 = p2  p3 = p3
  Procs <- MCProcs
  NoProc = NoProc
  MaxSpin = 1
SYMMETRY Perms
SPECIFICATION Spec
PROPERTIES HandoffToFront
