CONSTANTS
  Task = {t1, t2, t3, t4}
SPECIFICATION FairSpec
INVARIANTS
  AbortsOnlyEarly
  DestroyedAfterUse
PROPERTIES
  DiesInWindow
  Stops
  CleanWhenIdle
CHECK_DEADLOCK FALSE
