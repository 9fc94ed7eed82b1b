CONSTANTS
  Procs = {g1, g2, g3, g4}
  NoProc = NoProc
  MaxReaders = 5
SPECIFICATION FairSpec
INVARIANTS Exclusion NoThrow CountsAgree LastReaderWakes
PROPERTIES WriterServed ReadersServed
