SPECIFICATION FairSpec
CONSTANTS
  MaxFaults = 3
INVARIANTS Pn532TypeOK AnswerIsOwn
PROPERTIES ReaderIsServed
CHECK_DEADLOCK FALSE
