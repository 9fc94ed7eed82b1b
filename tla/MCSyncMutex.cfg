CONSTANTS
  p1 = p1  p2 = p2  p3 = p3
  Procs <- MCProcs
  NoProc = NoProc
  MaxSpin = 1
SPECIFICATION FairSpec
INVARIANTS MutualExclusion NoThrow OneWakeup WaitersCounted NoLostWakeup
PROPERTIES ImplementsLock Progress
