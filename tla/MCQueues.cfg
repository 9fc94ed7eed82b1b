CONSTANTS
  Workers = {m, p1, p2}
  Producer = m
  Values = {g1, g2, g3, g4, g5}
  NoVal = NoVal
  Indexes = 4
  InitSize = 1
  Limit = 2
  MaxElts = 3
  Ps = {p1, p2}
  NoP = NoP
  Gs = {g1, g2, g3, g4, g5}
  NoG = NoG
  RingLen = 4
  Wrap = 16
  Start = 14
  MaxCalls = 4
SPECIFICATION Spec
INVARIANTS NothingStranded GoroutinesOnce EmptyNotSpurious
PROPERTIES ImplementsDeque
SYMMETRY Symmetry
CHECK_DEADLOCK FALSE
