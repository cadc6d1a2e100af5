SPECIFICATION Spec
CONSTANTS
  a1 = a1
  a2 = a2
  m1 = m1
  m2 = m2
  o1 = o1
  o2 = o2
  None = None
  Accounts = {a1, a2}
  Markets = {m1, m2}
  Orders = {o1, o2}
  OwnerOf <- MCOwnerOf
  MarketOf <- MCMarketOf
  PageSize = 2
  MaxRequests = 3
  MaxEvents = 4
INVARIANTS
  ListsFollow
  SessionHasToken
  HistoryOfMarket
CHECK_DEADLOCK FALSE
