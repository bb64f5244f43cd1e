SPECIFICATION Spec
CONSTANTS
  Threads = {t1, t2}
  NoThread = NoThread
  Objects = {o1, o2, o3}
  Watchers = {w1}
  Cell = Cell
  Codes = {e1, e2}
  Failures = {e1}
  OK = OK
  Unhandled = Unhandled
SYMMETRY Symmetry
INVARIANTS
  StopIsReportedOnce
  ReportedResultIsRight
  ListsAreExact
  PointersLeadToData
CHECK_DEADLOCK FALSE
