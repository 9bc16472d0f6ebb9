CONSTANTS
  w1 = w1
  w2 = w2
  w3 = w3
  w4 = w4
  t1 = t1
  t2 = t2
  t3 = t3
  NULL = NULL
  N = 3
  MAX_NVPS = 64
  Worker <- Workers
  node_of <- NodeOf
  vpid <- VpId
  Task <- Tasks
  creator <- Creators
  target <- Targets
  Direct <- DirectTasks
  args <- Arguments
  Broadcaster = w1
  Thieves <- OneThief
  SafetyLevels <- AnyLibrary
SPECIFICATION FairSpec
INVARIANTS TypeOK InputsArrive ResultsArrive FreedOnce NothingLeftOver BroadcastFirst
PROPERTY EveryTaskCompletes
CHECK_DEADLOCK FALSE
