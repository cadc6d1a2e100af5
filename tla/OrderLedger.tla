----------------------------- MODULE OrderLedger -----------------------------
(***************************************************************************)
(* What the engine promises about an order, whatever the events and the    *)
(* crashes: its units only move forward, from available to pending or      *)
(* canceled, from pending to confirmed or canceled, never back, and none   *)
(* is made or lost.                                                        *)
(***************************************************************************)
EXTENDS Integers

CONSTANTS Order, AmountOf, NoRow

VARIABLE ledger     \* the amounts of each order, NoRow before it is stored

Entries(o) ==
  {e \in [available : 0 .. AmountOf[o], pending : 0 .. AmountOf[o],
          confirmed : 0 .. AmountOf[o], canceled : 0 .. AmountOf[o]] :
     e.available + e.pending + e.confirmed + e.canceled = AmountOf[o]}

Init == ledger = [o \in Order |-> NoRow]

(* A stored order may already be partly matched, never confirmed.          *)
Place(o) ==
  /\ ledger[o] = NoRow
  /\ \E e \in Entries(o) : /\ e.confirmed = 0
                           /\ ledger' = [ledger EXCEPT ![o] = e]

(* What becomes confirmed was pending.                                     *)
Advance(o) ==
  /\ ledger[o] # NoRow
  /\ \E e \in Entries(o) :
       /\ e.available <= ledger[o].available
       /\ e.canceled >= ledger[o].canceled
       /\ e.confirmed - ledger[o].confirmed \in 0 .. ledger[o].pending
       /\ ledger' = [ledger EXCEPT ![o] = e]

Next == \E o \in Order : Place(o) \/ Advance(o)

Spec == Init /\ [][Next]_ledger
=============================================================================
