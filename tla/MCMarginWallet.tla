--------------------------- MODULE MCMarginWallet ---------------------------
(* Two accounts, two operations at a time. *)
EXTENDS MarginWallet
=============================================================================
