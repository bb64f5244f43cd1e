CONSTANTS
  Threads = {t1}
  Codes = {e1, e2}
  Any = Any
  ErrorCount = 2
  MaxContexts = 3
  MaxReports = 4
  MaxSequenceId = 5
  Reporters = {r1, r2, r3}
  NoThread = NoThread
  DepthLimit = 3
SPECIFICATION MCSpec
INVARIANTS
  NewestIsCurrent
  ContextFindsError
  OriginationFound
  RecursionIsBounded
  GuardRecovers
CHECK_DEADLOCK FALSE
