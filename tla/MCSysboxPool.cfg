\* Two slots, two jobs, Docker failing anywhere, containers that die.
CONSTANTS
  s1 = s1
  s2 = s2
  j1 = j1
  j2 = j2
  None = None
  Slot = {s1, s2}
  Job = {j1, j2}
  WarmMaxAttempts = 2
  WarmConcurrency = 2
  SlotReinitAttempts = 2
  DockerMayFail = TRUE
  MaxDeaths = 2
SPECIFICATION FairSpec
INVARIANTS
  TypeOK
  SlotExclusive
  LostOnlyBroken
PROPERTIES
  ConsumersUnblocked
  AcquireServed
CHECK_DEADLOCK FALSE
