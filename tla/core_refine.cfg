SPECIFICATION Spec
CONSTANTS
  w1 = w1
  w2 = w2
  w3 = w3
  t1 = t1
  t2 = t2
  t3 = t3
  root = root
  N = 2
  Worker <- OnePerNode
  node_of <- OnePerNodeOf
  Main = w1
  Root = root
  Task <- TwoTasks
  NumLevels = 1
  Calls <- AllCalls
  MaxToggles = 1
  NULL = NULL
SYMMETRY TaskSymmetry
PROPERTIES
  ImplementsForkJoin
