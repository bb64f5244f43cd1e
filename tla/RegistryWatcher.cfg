CONSTANTS
  p1 = p1
  p2 = p2
  Owner = Owner
  NoThread = NoThread
  Pool <- MCPool
SPECIFICATION FairSpec
INVARIANTS
  NoUseAfterFree
PROPERTIES
  ReleaseReturns
  EveryChangeReported
  KeepsContract
