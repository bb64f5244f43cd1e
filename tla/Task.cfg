CONSTANTS
  sta1 = sta1
  sta2 = sta2
  mta = mta
  NoContext = NoContext
  Apartments <- MCApartments
  STA <- MCSTA
SPECIFICATION FairSpec
INVARIANTS
  NoUseAfterFree
  AwaiterOutlivesResumer
  BackInApartment
PROPERTIES
  ClientGoesOn
  IsOneShotResult
