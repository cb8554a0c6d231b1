CONSTANTS
  Versions = {"v2", "v4", "v6"}
  Sizes = {2, 3}
  NewLens = {3}
  ApiCalls = {"reject", "cancel", "sender_reject"}
  Overlap = FALSE
  MaxConns = 2
  MaxMods = 0
  MaxCrashes = 1
SPECIFICATION Spec
INVARIANTS PlacedIntact DeliveredIsPlaced NoFalseFailure
CHECK_DEADLOCK FALSE
