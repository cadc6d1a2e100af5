SPECIFICATION Spec
CONSTANTS
  Log = {1, 2}
  KindOf <- MCKindOf
  TradesOf <- MCTradesOf
  BlockSize = 2
  MaxPushErrors = 0
  MaxLauncherFaults = 1
  MaxWatcherCrashes = 1
  MaxEngineCrashes = 1
INVARIANTS
  ResultsAreMined
  SentOnce
  SentInOrder
  SettledAsReported
  
PROPERTIES
  LifecycleSpec
CHECK_DEADLOCK FALSE
