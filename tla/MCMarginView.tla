---------------------------- MODULE MCMarginView ----------------------------
(* Two accounts, which are interchangeable, and two markets, which are not: *)
(* the panel starts with the first.                                         *)
EXTENDS MarginView, TLC

\* The collateral and the other asset.
MCReloads == {<<"quote", "base">>}

Symmetry == Permutations(Accounts)
=============================================================================
