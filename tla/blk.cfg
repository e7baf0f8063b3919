CONSTANTS
  Task = {t1, t2}
  NR_REQUEST = 3
  NBuf = 4
  MAX_ERRORS = 3
  t1 = t1
  t2 = t2
  Calls <- ReaderAndWriter
  Bad <- SecondBad
  Last <- FourthLast
  Fails <- Failing
  None = None
SPECIFICATION FairSpec
CHECK_DEADLOCK FALSE
INVARIANTS RequestsInOrder OneOwnerPerLock
PROPERTIES RequestsEnd
