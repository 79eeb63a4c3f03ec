\* Two sessions that share a slot.
SPECIFICATION Spec
CONSTANTS
  s1 = s1  s2 = s2  n1 = n1
  None = None
  Session = {s1, s2}
  Slot = {n1}
  Permits = 2
  MaxRequests = 1
  MaxCrashes = 0
  MaxLapses = 0
PROPERTY KillHitsItsOwn
CHECK_DEADLOCK FALSE
