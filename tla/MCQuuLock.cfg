SPECIFICATION FairSpec
CONSTANTS
  p1 = p1
  p2 = p2
  p3 = p3
  Procs <- MCProcs
  Faults <- AllFaults
  MaxDebt = 2
INVARIANTS Mutex Inv FreeUnlessHeld NeverLost
PROPERTY LockReturns
