SPECIFICATION Spec
CONSTANTS
  Files = {f1}
  NoFile = NoFile
  Permits = 1
  Reported = {"Rejected", "Completed", "Failed", "Canceled", "CanceledByPeer", "TransferFailed"}
  PeerMsgs = {"Close", "Done", "Error", "Reject", "Start", "ReqChsum", "Cancel"}
  ApiCalls = {"reject", "cancel", "purge"}
  MaxCrashes = 2
  MaxDials = 3
  MaxMsgs = 3
INVARIANT RestoreFaithful
INVARIANT OneVerdict
INVARIANT ReceiverNotAbandoned
INVARIANT EndIsFinal
INVARIANT EndReportedOnce
PROPERTY VerdictNeverFlips
PROPERTY IsDurable
CHECK_DEADLOCK FALSE
