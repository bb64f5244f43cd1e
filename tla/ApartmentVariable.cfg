SPECIFICATION Spec
CONSTANTS
  m1 = m1
  m2 = m2
  s1 = s1
  mta = mta
  sta = sta
  Threads = {m1, m2, s1}
  Apartments = {mta, sta}
  Vars = {v1, v2}
  Home <- HomeOf
  Mta = mta
  MaxDepth = 2
  MaxIds = 5
  ClearsWhileCreating = FALSE
SYMMETRY Symmetry
INVARIANTS
  HandedOutValuesLive
  ObserversMatchStorage
  ClearAllReachesAll
CHECK_DEADLOCK FALSE
