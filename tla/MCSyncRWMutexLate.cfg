CONSTANTS
  Procs = {g1, g2, g3}
  NoProc = NoProc
  MaxReaders = 5
SYMMETRY Perms
SPECIFICATION Spec
INVARIANTS LateReadersWait
