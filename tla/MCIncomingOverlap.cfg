SPECIFICATION Spec
CONSTANTS
  Files = {f1}
  Conns = {c1, c2}
  NoConn = NoConn
  NoFile = NoFile
  Overlap = TRUE
  Reported = {"Rejected", "Completed", "Failed", "Canceled", "CanceledByPeer"}
  PeerMsgs = {"Close", "Reject", "Error"}
  ApiCalls = {"download"}
  MaxCrashes = 0
  MaxMsgs = 1
INVARIANT DownloadNotForgotten
INVARIANT PausedWhenOffline
PROPERTY VerdictNeverFlips
SYMMETRY ConnSymmetry
CHECK_DEADLOCK FALSE
