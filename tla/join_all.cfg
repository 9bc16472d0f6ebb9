SPECIFICATION FairSpec
CONSTANTS
  c1 = c1
  c2 = c2
  c3 = c3
  Child <- MCChild
  Waits <- AllWaits
  SpinWithoutTasks = FALSE
  NULL = NULL
INVARIANTS
  TypeOK
  Count
  JoinSafe
  NoTouchAfterRecycle
PROPERTY
  WaitReturns
