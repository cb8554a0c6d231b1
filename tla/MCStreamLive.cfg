CONSTANTS
  Versions = {"v6"}
  Sizes = {3}
  NewLens = {4}
  ApiCalls = {"cancel"}
  Overlap = FALSE
  MaxConns = 2
  MaxMods = 1
  MaxCrashes = 0
SPECIFICATION FairSpec
INVARIANTS PlacedIntact
PROPERTIES CancelCleansUp DownloadSettles
CHECK_DEADLOCK FALSE
