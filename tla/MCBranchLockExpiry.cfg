\* A lock that expires while its test waits for a slot.
SPECIFICATION Spec
CONSTANTS
  j1 = j1  j2 = j2  j3 = j3  b1 = b1  b2 = b2
  m = m  w = w
  None = None
  Job = {j1, j2}
  Branch = {b1}
  BranchOf <- MCBranchOfTwo
  Worker = {m, w}
  Master = m
  Capacity = 2
  LiveLockMayExpire = TRUE
  MaxBreaks = 0
INVARIANT OneRunPerBranch
CHECK_DEADLOCK FALSE
