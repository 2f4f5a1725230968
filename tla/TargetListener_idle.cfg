SPECIFICATION ListenerSpec
CONSTANTS
  Faults = {}
  MaxQueue = 3
  Codes = {"Start", "Stop"}
  MaxCommands = 4
INVARIANT IdleMeansQuiet
