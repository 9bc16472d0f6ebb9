CONSTANTS
  w1 = w1
  w2 = w2
  w3 = w3
  w4 = w4
  t1 = t1
  t2 = t2
  t3 = t3
  NULL = NULL
  N = 2
  MAX_NVPS = 64
  Worker <- TwoWorkers
  node_of <- TwoNodeOf
  vpid <- TwoVpId
  Task <- TwoTasks
  creator <- TwoCreators
  target <- TwoTargets
  Direct <- None
  args <- TwoArguments
  Broadcaster = NULL
  Thieves <- NoThief
  SafetyLevels <- UnsafeLibrary
SPECIFICATION FairSpec
PROPERTY EveryTaskCompletesAnyway
CHECK_DEADLOCK FALSE
