SPECIFICATION FairSpec
CONSTANTS
  m1 = m1
  m2 = m2
  a1 = a1
  Market = {m1, m2}
  Admin = {a1}
  NoMarket = NoMarket
  MaxEdits = 2
  MaxOrders = 2
  MaxErrors = 1
  MaxCrashes = 1
INVARIANTS
  NeverSendsOnClosed
  OpenIffPublished
PROPERTIES
  BegunInOrder
  PublishedOpens
  SendEnds
CHECK_DEADLOCK FALSE
