SPECIFICATION FairSpec
CONSTANTS
  Log = {1, 3}
  KindOf <- MCKindOf
  TradesOf <- MCTradesOf
  BlockSize = 2
  MaxPushErrors = 1
  MaxLauncherFaults = 0
  MaxWatcherCrashes = 1
  MaxEngineCrashes = 0
PROPERTIES
  StoredLogConcludes
CHECK_DEADLOCK FALSE
