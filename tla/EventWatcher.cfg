CONSTANTS
  p1 = p1
  p2 = p2
  p3 = p3
  Owner = Owner
  Pool <- MCPool
  MaxQueued = 2
  MaxStarts = 3
SPECIFICATION EventFairSpec
INVARIANTS
  EventOneCallPerStart
  EventQuietUnlessArmedLate
PROPERTIES
  EventLastChangeObserved
