CONSTANTS
  N = 2
  kthreads <- TwoAndOne
  SafetyLevels <- AnyLibrary
  MaxRegistrations = 2
  MaxResets = 1
  MaxCalls = 3
  NULL = NULL
SPECIFICATION FairSpec
INVARIANTS TypeOK ReadyBeforeUse IdsRoundTrip TablesAgree NoOrphanRequest ExitsTogether NothingUnread
PROPERTY EveryNodeEnds
CHECK_DEADLOCK FALSE
