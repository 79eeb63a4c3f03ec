\* Two requests and two calls at a time, one restart or failure.
SPECIFICATION Spec
CONSTANTS
  r1 = r1  r2 = r2  u1 = u1
  Request = {r1, r2}
  Caller = {u1}
  AskedBy <- MCAskedBy
  Enrolled = {r1}
  PoolQueue = PoolQueue
  SharedQueue = SharedQueue
  Nowhere = Nowhere
  Burst = 1
  MaxWorkers = 2
  MaxEarned = 2
  MaxRestarts = 1
  Learner = {l1}
  Tenant = {Home, Away}
  Home = Home
  NoTenant = NoTenant
  EnvId = {e1, e2}
  Call = {c1, c2}
  MaxCalls = 2
  MaxOutages = 1
INVARIANTS TypeOK NoOvertaking PaceBound SweepIsThorough
PROPERTIES LifeKept ParkedIsAdmitted AskedIsServed EndStopsTagged
CHECK_DEADLOCK FALSE
