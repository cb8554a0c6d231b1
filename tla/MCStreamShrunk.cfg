CONSTANTS
  Versions = {"v6"}
  Sizes = {3}
  NewLens = {2}
  ApiCalls = {}
  Overlap = FALSE
  MaxConns = 1
  MaxMods = 1
  MaxCrashes = 0
SPECIFICATION FairSpec
PROPERTIES SizeChangeIsReported
CHECK_DEADLOCK FALSE
