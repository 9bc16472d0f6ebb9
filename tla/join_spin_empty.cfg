SPECIFICATION FairSpec
CONSTANTS
  c1 = c1
  c2 = c2
  c3 = c3
  Child <- MCChild
  Waits <- LockedWaits
  SpinWithoutTasks = TRUE
  NULL = NULL
CHECK_DEADLOCK FALSE
PROPERTY
  WaitReturns
