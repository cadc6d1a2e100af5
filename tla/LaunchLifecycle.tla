--------------------------- MODULE LaunchLifecycle ---------------------------
(***************************************************************************)
(* What the launcher, the watcher and the engine together promise about a  *)
(* launch log: it is created, then pending once the chain has accepted a   *)
(* transaction for it, then has a result the chain gave to one of its      *)
(* transactions, and keeps that result.                                    *)
(***************************************************************************)
CONSTANT Log

VARIABLES
  stage,     \* of each launch log
  accepted,  \* launch logs the chain has accepted a transaction for
  results    \* what the chain did with each log's transactions

vars == <<stage, accepted, results>>

Outcome == {"successful", "failed"}

Init ==
  /\ stage = [l \in Log |-> "absent"]
  /\ accepted = {}
  /\ results = [l \in Log |-> {}]

Create(l) ==
  /\ stage[l] = "absent"
  /\ stage' = [stage EXCEPT ![l] = "created"]
  /\ UNCHANGED <<accepted, results>>

Accept(l) ==
  /\ stage[l] = "created"
  /\ accepted' = accepted \cup {l}
  /\ UNCHANGED <<stage, results>>

(* The hash of an accepted transaction is known.                           *)
Track(l) ==
  /\ stage[l] = "created"
  /\ l \in accepted
  /\ stage' = [stage EXCEPT ![l] = "pending"]
  /\ UNCHANGED <<accepted, results>>

(* A block, with transactions of any accepted logs.                        *)
Block ==
  /\ results' \in [Log -> SUBSET Outcome]
  /\ \A l \in Log : /\ results[l] \subseteq results'[l]
                    /\ results'[l] # results[l] => l \in accepted
  /\ UNCHANGED <<stage, accepted>>

Conclude(l) ==
  /\ stage[l] = "pending"
  /\ \E s \in results[l] : stage' = [stage EXCEPT ![l] = s]
  /\ UNCHANGED <<accepted, results>>

Next == Block \/ \E l \in Log : Create(l) \/ Accept(l) \/ Track(l) \/ Conclude(l)

Spec == Init /\ [][Next]_vars
=============================================================================
