SPECIFICATION FairSpec
CONSTANTS
  Files = {f1}
  Conns = {c1}
  NoConn = NoConn
  NoFile = NoFile
  Overlap = FALSE
  Reported = {"Rejected", "Completed", "Failed", "Canceled", "CanceledByPeer"}
  PeerMsgs = {"Close", "Reject", "Error"}
  ApiCalls = {"download", "reject", "cancel", "purge"}
  MaxCrashes = 0
  MaxMsgs = 1
PROPERTY VerdictReported
PROPERTY CancelReported
PROPERTY DownloadTaken
CHECK_DEADLOCK FALSE
