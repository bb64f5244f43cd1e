CONSTANTS
  Threads = {t1, t2, t3}
SPECIFICATION SlimSpec
INVARIANTS
  NoLostWakeup
  OneWaitPerSignal
PROPERTIES
  NobodySleepsOn
