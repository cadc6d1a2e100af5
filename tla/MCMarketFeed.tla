--------------------------- MODULE MCMarketFeed ---------------------------
(* The feed with two markets and two accounts. *)
EXTENDS MarketFeed
============================================================================
