\* Two threads, a closure and two delayed tasks.
CONSTANTS
  Workers = {w1, w2}
  Closures = {c1}
  Timers = {t1, t2}
  MaxDelay = 2
  MaxTime = 3
SPECIFICATION FairSpec
INVARIANTS
  NoLostWakeup
  CleanShutdown
PROPERTIES
  EverythingRuns
  DestructorReturns
CHECK_DEADLOCK FALSE
