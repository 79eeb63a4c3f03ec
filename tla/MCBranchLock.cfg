\* Three tests, two on one branch, two workers, one failure.
SPECIFICATION FairSpec
CONSTANTS
  j1 = j1  j2 = j2  j3 = j3  b1 = b1  b2 = b2
  m = m  w = w
  None = None
  Job = {j1, j2, j3}
  Branch = {b1, b2}
  BranchOf <- MCBranchOf
  Worker = {m, w}
  Master = m
  Capacity = 2
  LiveLockMayExpire = FALSE
  MaxBreaks = 1
INVARIANTS TypeOK OneRunPerBranch JobInOnePlace
PROPERTIES LedgerKept LockFreed DeferredWhileHeld
CHECK_DEADLOCK FALSE
