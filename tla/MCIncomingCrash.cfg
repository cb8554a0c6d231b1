SPECIFICATION Spec
CONSTANTS
  Files = {f1}
  Conns = {c1, c2}
  NoConn = NoConn
  NoFile = NoFile
  Overlap = FALSE
  Reported = {"Rejected", "Completed", "Failed", "Canceled", "CanceledByPeer"}
  PeerMsgs = {"Reject", "Cancel"}
  ApiCalls = {"download", "cancel", "purge"}
  MaxCrashes = 1
  MaxMsgs = 1
INVARIANT TypeOK
INVARIANT RestoreFaithful
INVARIANT CompletedOnDisk
INVARIANT ToldVerdictIsFinal
INVARIANT CanceledStaysCanceled
INVARIANT CancelReportedOnce
PROPERTY IsDurable
SYMMETRY ConnSymmetry
CHECK_DEADLOCK FALSE
