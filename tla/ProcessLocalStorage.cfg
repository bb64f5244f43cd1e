CONSTANTS
  Half = 2
  NoSemaphore = NoSemaphore
  Modules = {m1, m2}
  Threads = {t1, t2, t3}
  NoThread = NoThread
  NoModule = NoModule
  Addresses <- MCAddresses
  MaxLoads = 1
SPECIFICATION Spec
INVARIANTS
  NoUseAfterFree
  OneInstance
  RefsCounted
  PublishedIsLive
  NothingLeft
CHECK_DEADLOCK FALSE
