SPECIFICATION Spec
CONSTANTS
  Faults = {}
  MaxQueue = 2
PROPERTY RecvSkipsEvents
CHECK_DEADLOCK FALSE
