CONSTANTS
  N = 2
  kthreads <- TwoAndOne
  SafetyLevels <- SafeLibrary
  MaxRegistrations = 0
  MaxResets = 1
  MaxCalls = 1
  NULL = NULL
SPECIFICATION Spec
INVARIANT ResetOnce
CHECK_DEADLOCK FALSE
