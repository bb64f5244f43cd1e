CONSTANTS
  p1 = p1
  p2 = p2
  Owner = Owner
  Pool <- MCPool
  Changes = {c1, c2, c3}
SPECIFICATION FairSpec
INVARIANTS
  NoUseAfterFree
PROPERTIES
  ResetReturns
  EveryChangeReported
  KeepsContract
CHECK_DEADLOCK FALSE
