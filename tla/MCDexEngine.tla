----------------------------- MODULE MCDexEngine -----------------------------
(* Instances of DexEngine for TLC.                                         *)
EXTENDS DexEngine, TLC

\* Nothing tells one market or one admin request from another.
Symmetry == Permutations(Market)
=============================================================================
