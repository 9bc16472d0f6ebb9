SPECIFICATION Spec
CONSTANTS
  w1 = w1
  w2 = w2
  w3 = w3
  t1 = t1
  t2 = t2
  t3 = t3
  root = root
  N = 2
  Worker <- OnePerNode
  node_of <- OnePerNodeOf
  Main = w1
  Root = root
  Task <- ThreeTasks
  NumLevels = 2
  Calls <- OnlyTasks
  MaxToggles = 0
  NULL = NULL
SYMMETRY TaskSymmetry
INVARIANTS
  OneHolder
  JoinCount
  ParentAlive
