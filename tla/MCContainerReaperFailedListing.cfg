\* A `docker ps` that exits with an error.
CONSTANTS
  c1 = c1
  c2 = c2
  None = None
  Cid = {c1, c2}
  MaxKillAttempts = 3
  ListingFaults = {"fails"}
SPECIFICATION Spec
INVARIANT ExitedMeansGone
CHECK_DEADLOCK FALSE
