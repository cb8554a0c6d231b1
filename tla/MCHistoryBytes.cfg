SPECIFICATION Spec
CONSTANTS
  Files = {f1}
  NoFile = NoFile
  Dirs = {"Incoming"}
  Size = 1
  Threshold = 1
  MaxEvents = 5
  MaxPending = 0
  MaxCrashes = 0
INVARIANT BytesNotForgotten
CHECK_DEADLOCK FALSE
