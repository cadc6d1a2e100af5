SPECIFICATION Spec
CONSTANTS
  a1 = a1
  a2 = a2
  m1 = m1
  m2 = m2
  t1 = t1
  None = None
  Accounts = {a1, a2}
  Tied = {a2}
  Txs = {t1}
  WatchReads = 2
  Markets <- MCMarkets
  Prices = {0, 3}
  Amounts = {5}
  Leverages = {1, 3}
  Details <- MCDetails
  AmountScale = 2
  Tasks = {1}
  MaxEvents = 4
INVARIANTS
  DerivedAgree
  PlacedBySigner
  TokensCatchUp
CHECK_DEADLOCK FALSE
