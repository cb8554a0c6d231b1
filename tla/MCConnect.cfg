CONSTANTS
  Transfers = {"t1"}
  PeerVersions = {{}, {1, 2}, {1, 2, 4, 5}, {1, 2, 4, 5, 6}}
  Retries = 2
  MaxFaults = 2
  MaxRefresh = 1
  MaxRestarts = 1
SPECIFICATION FairSpec
INVARIANTS FailedForAReason BestVersion RetriesLimited
PROPERTIES DroppedIsGone RefreshConnects GoneIsNoticed
CHECK_DEADLOCK FALSE
