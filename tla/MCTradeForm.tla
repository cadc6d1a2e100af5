---------------------------- MODULE MCTradeForm -----------------------------
EXTENDS TradeForm, TLC
CONSTANTS a1, a2, m1, m2, t1

\* One market with margin and a liquidation rate of 1.5, one without margin.
MCMarkets == m1 :> [fee |-> 3, gas |-> 1, margin |-> TRUE, rate |-> 15, min |-> 2]
          @@ m2 :> [fee |-> 0, gas |-> 0, margin |-> FALSE, rate |-> 0, min |-> 1]
MCDetails == {[assets |-> 4, debts |-> 3]}
=============================================================================
