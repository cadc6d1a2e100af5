---------------------------- MODULE MCTraderPage ----------------------------
EXTENDS TraderPage, TLC
CONSTANTS a1, a2, m1, m2, o1, o2

MCOwnerOf == o1 :> a1 @@ o2 :> a1
MCMarketOf == o1 :> m1 @@ o2 :> m2
=============================================================================
