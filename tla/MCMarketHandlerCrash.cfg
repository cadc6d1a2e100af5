SPECIFICATION FairSpec
CONSTANTS
  s1 = s1
  s2 = s2
  b1 = b1
  b2 = b2
  Order = {s1, s2, b1, b2}
  SideOf <- MCSideOf
  PriceOf <- MCPriceOf
  AmountOf <- MCAmountOf
  NoRow = NoRow
  NoOrder = NoOrder
  Dust = FALSE
  LauncherStops = TRUE
  MaxCrashes = 1
  MaxDbErrors = 0
  MaxRepeats = 0
INVARIANTS
  AmountsMatchTrades
  StatusAgrees
  NeverOverSettled
PROPERTIES
  FinishedIsFinal
  LedgerSpec
  ResultSettlesHashed
CHECK_DEADLOCK FALSE
