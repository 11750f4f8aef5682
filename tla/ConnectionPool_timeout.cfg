CONSTANTS
  Thread = {t1}
  Conn = {c1}
  PoolSize = 1
  NoConn = NoConn
SPECIFICATION FairSpec
PROPERTY GetConnectionReturns
CHECK_DEADLOCK FALSE
