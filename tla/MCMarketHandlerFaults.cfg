SPECIFICATION Spec
CONSTANTS
  s1 = s1
  s2 = s2
  b1 = b1
  b2 = b2
  Order = {s1, s2, b1, b2}
  SideOf <- MCSideOf
  PriceOf <- MCPriceOf
  AmountOf <- MCAmountOf
  NoRow = NoRow
  NoOrder = NoOrder
  Dust = TRUE
  LauncherStops = FALSE
  MaxCrashes = 1
  MaxDbErrors = 1
  MaxRepeats = 1
INVARIANTS
  AmountsBalanced
  MakersStored
  BookBacked
  NoCrossedBook
CHECK_DEADLOCK FALSE
