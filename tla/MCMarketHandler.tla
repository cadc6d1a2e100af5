--------------------------- MODULE MCMarketHandler ---------------------------
(* Instances of MarketHandler for TLC.                                     *)
EXTENDS MarketHandler

CONSTANTS s1, s2, b1, b2   \* order IDs

\* Two sell and two buy orders on two price levels: every pair but (s2, b2)
\* crosses, b1 can fill two or be filled by two, and two can rest on one side.
MCSideOf   == [o \in Order |-> IF o \in {s1, s2} THEN "sell" ELSE "buy"]
MCPriceOf  == [o \in Order |-> IF o \in {s1, b2} THEN 1 ELSE 2]
MCAmountOf == [o \in Order |-> IF o = b1 THEN 2 ELSE 1]
=============================================================================
