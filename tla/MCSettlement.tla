---------------------------- MODULE MCSettlement ----------------------------
(* Instances of Settlement for TLC.                                        *)
EXTENDS Settlement

\* A match of two trades, an approval and a match of one trade.
MCKindOf   == [l \in Log |-> IF l = 2 THEN "hydroApprove" ELSE "hydroTrade"]
MCTradesOf == [l \in Log |-> IF l = 1 THEN 2 ELSE IF l = 2 THEN 0 ELSE 1]
=============================================================================
