CONSTANTS
  Producer = {p1, p2}
  RingSize = 3
  MaxPush = 2
  Blank = Blank
SPECIFICATION FairSpec
INVARIANTS
  DrainedAtStop
PROPERTIES
  ImplementsQueue
  LogStopReturns
CHECK_DEADLOCK FALSE
