CONSTANTS
  Versions = {"v6"}
  Sizes = {2}
  NewLens = {2}
  ApiCalls = {}
  Overlap = TRUE
  MaxConns = 2
  MaxMods = 0
  MaxCrashes = 0
SPECIFICATION Spec
INVARIANTS ValidatedIsPlaced
CHECK_DEADLOCK FALSE
