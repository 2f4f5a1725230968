SPECIFICATION FairSpec
CONSTANTS
  MaxEvents = 4
  MaxFlushes = 2
INVARIANTS LoggerTypeOK PendingAreWritten
PROPERTIES StopReturns
CHECK_DEADLOCK FALSE
