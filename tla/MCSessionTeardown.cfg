\* Two sessions that share a slot, a crash and a lapse of the registration.
SPECIFICATION FairSpec
CONSTANTS
  s1 = s1  s2 = s2  n1 = n1
  None = None
  Session = {s1, s2}
  Slot = {n1}
  Permits = 2
  MaxRequests = 1
  MaxCrashes = 1
  MaxLapses = 1
INVARIANTS TypeOK LiveHasRecord KillIsRemembered
PROPERTIES NeverVanishes ReconcilerHitsItsOwn TerminationConverges
CHECK_DEADLOCK FALSE
