CONSTANTS
  Thread = {t1, t2, t3}
  Conn = {c1, c2, c3}
  PoolSize = 2
  NoConn = NoConn
SPECIFICATION RecoverySpec
INVARIANTS
  Accounting
  Exclusive
  Capacity
  NoStrandedWaiter
  NoUseAfterDestroy
PROPERTIES
  ImplementsLease
  DestructorTerminates
  WaitersServed
  Refilled
CHECK_DEADLOCK FALSE
