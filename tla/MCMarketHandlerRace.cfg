SPECIFICATION FairSpec
CONSTANTS
  s1 = s1
  s2 = s2
  b1 = b1
  b2 = b2
  Order = {s1, s2, b1, b2}
  SideOf <- MCSideOf
  PriceOf <- MCPriceOf
  AmountOf <- MCAmountOf
  NoRow = NoRow
  NoOrder = NoOrder
  Dust = FALSE
  LauncherStops = FALSE
  MaxCrashes = 0
  MaxDbErrors = 0
  MaxRepeats = 0
PROPERTIES
  AllTradesSettle
CHECK_DEADLOCK FALSE
