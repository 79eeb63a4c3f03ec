\* Two sessions, three kill attempts, a `docker ps` that may raise.
CONSTANTS
  c1 = c1
  c2 = c2
  None = None
  Cid = {c1, c2}
  MaxKillAttempts = 3
  ListingFaults = {"raises"}
SPECIFICATION FairSpec
INVARIANTS
  TypeOK
  UntargetedSurvive
  NothingLeftBehind
PROPERTIES
  PromiseKept
  WaiterFreed
CHECK_DEADLOCK FALSE
