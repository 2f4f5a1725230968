SPECIFICATION UiSpec
CONSTANTS
  Codes = {"Start", "Stop"}
  MaxPosted = 3
INVARIANT WindowAgrees
CHECK_DEADLOCK FALSE
