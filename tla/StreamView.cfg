SPECIFICATION FairSpec
CONSTANTS
  Columns = {"flags", "event"}
  Modes = {"List"}
  Accepts = {{"request"}, {"response"}}
  MaxFrames = 3
  MaxTime = 1
INVARIANTS StreamTypeOK RequestFirst SortedByTime FilteredViewIsRight HeaderAgrees
PROPERTIES EveryFrameIsShown
CHECK_DEADLOCK FALSE
