SPECIFICATION FairSpec
CONSTANTS
  Files = {f1, f2}
  NoFile = NoFile
  Permits = 1
  Reported = {"Rejected", "Completed", "Failed", "Canceled", "CanceledByPeer", "TransferFailed"}
  PeerMsgs = {"Done", "Error", "Reject", "Start"}
  ApiCalls = {"reject", "cancel"}
  MaxCrashes = 0
  MaxDials = 2
  MaxMsgs = 2
INVARIANT VerdictConveyed
INVARIANT PausedWhenOffline
PROPERTY VerdictReported
PROPERTY EndReported
PROPERTY ThrottledProceeds
CHECK_DEADLOCK FALSE
