\* One session, one request to terminate it.
SPECIFICATION FairSpec
CONSTANTS
  s1 = s1  s2 = s2  n1 = n1
  None = None
  Session = {s1}
  Slot = {n1}
  Permits = 2
  MaxRequests = 1
  MaxCrashes = 0
  MaxLapses = 0
PROPERTY FlaggedRecordGoes
CHECK_DEADLOCK FALSE
