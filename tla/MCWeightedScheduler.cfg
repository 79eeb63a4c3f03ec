\* One submission of each class of job.  The lane is configured to nothing,
\* so that only the floor of __init__ keeps heavy jobs admissible; one job
\* costs more than the whole budget.
CONSTANTS
  cnfs = cnfs
  bats = bats
  daemon = daemon
  wide = wide
  oversize = oversize
  NotSet = NotSet
  Job <- MCJob
  Desc <- MCDesc
  Capacity = 3
  BudgetArg = NotSet
  MaxHeavyArg = 0
SPECIFICATION FairSpec
INVARIANTS
  TypeOK
  CountersExact
  NoLostWakeup
PROPERTY EveryJobAdmitted
CHECK_DEADLOCK FALSE
