SPECIFICATION UiFairSpec
CONSTANTS
  Codes = {"Start", "Stop"}
  MaxPosted = 3
INVARIANTS UiTypeOK OneCommandAtATime ButtonsAreCurrent PostFindsApplication
PROPERTIES StopIsAnswered PublishedIsShown
CHECK_DEADLOCK FALSE
