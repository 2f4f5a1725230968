SPECIFICATION ListenerFairSpec
CONSTANTS
  Faults = {"late", "gpio"}
  MaxQueue = 3
  Codes = {"Start", "Stop", "Configure", "ConfigureNoData", "ConfigureNotJson", "Unknown"}
  MaxCommands = 3
INVARIANTS ListenerTypeOK ListeningMeansDiscovering
PROPERTIES ImplementsListener StopTurnsOff QuietReaderServes
CHECK_DEADLOCK FALSE
