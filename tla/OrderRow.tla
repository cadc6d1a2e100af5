------------------------------ MODULE OrderRow ------------------------------
(***************************************************************************)
(* One row of the orders table (backend/models/order.go) and the           *)
(* arithmetic the engine does on its four amounts.  Amounts are decimals   *)
(* in the code, with exact addition and subtraction, and may go below      *)
(* zero: here they are integers.                                           *)
(***************************************************************************)
EXTENDS Integers, FiniteSets

OrderStatus == {"pending", "full_filled", "canceled", "partial_filled"}

Row == [amount : Nat, available : Int, pending : Int,
        confirmed : Int, canceled : Int, status : OrderStatus]

\* The order as PlaceOrder puts it in the NEW_ORDER event.
FreshRow(n) == [amount |-> n, available |-> n, pending |-> 0,
                confirmed |-> 0, canceled |-> 0, status |-> "pending"]

-----------------------------------------------------------------------------
\* order.go:51.  The cases are tried in this order.
StatusOf(r) ==
  IF      r.confirmed = r.amount      THEN "full_filled"
  ELSE IF r.canceled = r.amount       THEN "canceled"
  ELSE IF r.available + r.pending > 0 THEN "pending"
  ELSE                                     "partial_filled"

AutoSetStatusByAmounts(r) == [r EXCEPT !.status = StatusOf(r)]

\* One match item of n units, seen from either of its two orders.
Matched(r, n, shouldBeCanceled) ==
  IF shouldBeCanceled
  THEN [r EXCEPT !.available = @ - n, !.canceled = @ + n]
  ELSE [r EXCEPT !.available = @ - n, !.pending = @ + n]

\* MakerOrderIsDone / TakerOrderIsDone: what is neither confirmed nor pending
\* is given up.  The status is left alone.
MutDoneKeepsCanceled(r) == [r EXCEPT !.available = 0]
Done(r) == [r EXCEPT !.canceled = r.amount - (r.confirmed + r.pending),
                     !.available = 0]

\* The row handleCancelOrder saves.
MutCanceledKeepsAvailable(r) ==
  AutoSetStatusByAmounts([r EXCEPT !.canceled = @ + r.available])
MutCanceledNoStatus(r) ==
  [r EXCEPT !.canceled = @ + r.available, !.available = 0]
Canceled(r) ==
  AutoSetStatusByAmounts(
    [r EXCEPT !.canceled = @ + r.available, !.available = 0])

\* A trade of n units of this order has the outcome s.  The status is set when
\* the row is about to be saved.
Settled(r, n, s) ==
  IF s = "successful" THEN [r EXCEPT !.pending = @ - n, !.confirmed = @ + n]
                      ELSE [r EXCEPT !.pending = @ - n, !.canceled = @ + n]

-----------------------------------------------------------------------------
\* Every unit of the order is in exactly one of the four amounts.
Balanced(r) == r.available + r.pending + r.confirmed + r.canceled = r.amount

NonNegative(r) ==
  /\ r.available >= 0
  /\ r.pending >= 0
  /\ r.confirmed >= 0
  /\ r.canceled >= 0

\* The sum of f over its domain, for f with values in Nat, as the size of a set
\* holding f[x] units for each x.  (A recursive sum would be out of the
\* provers' reach.)
Units(f) == UNION {{x} \X (1 .. f[x]) : x \in DOMAIN f}
Total(f) == Cardinality(Units(f))
=============================================================================
