--------------------------- MODULE MCMarginMonitor ---------------------------
(* Instances of MarginMonitor for TLC.                                     *)
EXTENDS MarginMonitor, TLC

Of(a, d) == [assets |-> a, debts |-> d]

\* At a rate of 110: no position, no debt, below the warning ratio and
\* liquidatable.
MCAccount == {Empty, Of(10, 0), Of(13, 10), Of(10, 10)}
=============================================================================
