SPECIFICATION Spec
CONSTANTS
  Files = {f1}
  NoFile = NoFile
  Dirs = {"Incoming", "Outgoing"}
  Size = 2
  Threshold = 2
  MaxEvents = 4
  MaxPending = 1
  MaxCrashes = 1
INVARIANT ReportMatchesTold
INVARIANT BytesNeverInvented
INVARIANT PurgedIsOver
CHECK_DEADLOCK FALSE
