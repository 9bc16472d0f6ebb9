SPECIFICATION Spec
CONSTANTS
  w1 = w1
  w2 = w2
  w3 = w3
  t1 = t1
  t2 = t2
  t3 = t3
  root = root
  N = 2
  Worker <- TwoAndOne
  node_of <- TwoAndOneOf
  Main = w1
  Root = root
  Task <- TwoTasks
  NumLevels = 2
  Calls <- Stealing
  MaxToggles = 1
  NULL = NULL
SYMMETRY TaskSymmetry
INVARIANTS
  TypeOK
  OneHolder
  JoinCount
  StealHandshake
