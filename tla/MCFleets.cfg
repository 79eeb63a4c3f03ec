\* One workshop with two machines and a change of its booking, or two shared
\* machines, one of which never comes up, and one call of the owner; and one
\* failure anywhere.
SPECIFICATION Spec
CONSTANTS
  Workshop = {w1}
  Machine = {m1, m2}
  Plan <- MCPlan
  PrewarmLead = 1
  TeardownGrace = 1
  Hold = 1
  LeadCap = 2
  HoldCap = 4
  StandingMax = 2
  SeatsPerWorker = 2
  MaxScaleUp = 1
  MaxTime = 2
  MaxUpdates = 1
  MaxFaults = 1
  Nobody = Nobody
  Box = {b1, b2}
  Dud = {b2}
  Seats = 1
  MinFree = 1
  MaxDaily = 2
  PerCall = 4
  MaxFleet = 40
  Sustain = 1
  Loads <- MCLoads
  MaxLent = 0
  MaxTarget = 1
  MaxOwnerCalls = 1
  MaxBlips = 1
INVARIANTS TypeOK DoneHoldsNothing CordonBites
PROPERTIES OnlyTheFinishedAreTorn MachinesComeBack BrakeComesOff
