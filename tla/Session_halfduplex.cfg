CONSTANTS
  IOThread = {t1, t2, t3}
  MaxRequests = 4
SPECIFICATION FairSpec
INVARIANTS
  HalfDuplex
  AnswersMatch
  DroppedForCause
PROPERTIES
  Answered
CHECK_DEADLOCK FALSE
