---------------------------- MODULE MarginMonitor ----------------------------
(***************************************************************************)
(* The margin monitor (backend/services/marginmonitor/main.go): once in an *)
(* interval it visits the active positions, alerts users whose collateral  *)
(* ratio is low, tells them of significant changes and queues jobs for     *)
(* accounts the contract calls liquidatable.  It runs next to the watcher  *)
(* (module MarginPositions), which writes the table it reads and talks to  *)
(* the same users.                                                         *)
(*                                                                         *)
(* One cycle takes one unit of time; ratios are in percent.                *)
(***************************************************************************)
EXTENDS MarginPositions

CONSTANTS
  NoOne,             \* no position at work
  LiquidateRate,     \* of the market, 110 for 1.1
  Cooldown           \* alertCooldown, in cycles

ASSUME MonitorAssumption ==
  /\ NoOne \notin Position
  /\ LiquidateRate \in Nat
  /\ Cooldown \in Nat

VARIABLES
  mpc,         \* where monitorPositions is
  toVisit,     \* userAddresses not yet visited
  at,          \* the one at work
  seen,        \* its accountDetails
  lastAlerts,  \* cycles since its last alert; Never if it has none
  previous,    \* previousStates: its ratio, and cycles since

  alert,       \* the last MARGIN_ALERT each user was sent
  jobs         \* positions with a job in hydro_liquidation_needed_queue

monitor == <<mpc, toVisit, at, seen, lastAlerts, previous>>
out     == <<alert, jobs>>
vars    == <<positionVars, monitor, out>>

-----------------------------------------------------------------------------
Never == -1

\* Ages are told apart up to what the code compares them with.
MaxAlertAge == Cooldown + 1
MaxStateAge == 2 * Cooldown + 1

NoState == [ratio |-> Never, age |-> 0]

Init ==
  /\ PositionsInit
  /\ mpc = "idle" /\ toVisit = {} /\ at = NoOne /\ seen = NoAccount
  /\ lastAlerts = [p \in Position |-> Never]
  /\ previous = [p \in Position |-> NoState]
  /\ alert = [p \in Position |-> "NONE"]
  /\ jobs = {}

-----------------------------------------------------------------------------
Ratio(a) ==
  IF a.debts > 0 THEN (a.assets * 100) \div a.debts
  ELSE IF a.assets > 0 THEN 12800
  ELSE 0

Critical == (LiquidateRate * 105) \div 100
Warning  == (LiquidateRate * 120) \div 100

Level(a) ==
  CASE Ratio(a) < Critical -> "CRITICAL"
    [] Ratio(a) >= Critical /\ Ratio(a) < Warning -> "WARNING"
    [] OTHER -> "HEALTHY"

(* The contract, external: worth less than the rate asks for.              *)
Liquidatable(a) == a.assets * 100 < a.debts * LiquidateRate

AgeAlert(n) == IF n = Never \/ n = MaxAlertAge THEN n ELSE n + 1

AgeState(s) ==
  IF s = NoState \/ s.age = MaxStateAge THEN s ELSE [s EXCEPT !.age = @ + 1]

Active == {p \in Position : positions[p].isActive}

(* The active users; a read of the tables that fails ends the cycle.       *)
StartCycle(ok) ==
  /\ mpc = "idle"
  /\ Error(ok)
  /\ toVisit' = IF ok THEN Active ELSE {}
  /\ lastAlerts' = [p \in Position |-> AgeAlert(lastAlerts[p])]
  /\ previous' = [p \in Position |-> AgeState(previous[p])]
  /\ mpc' = "visit"
  /\ UNCHANGED <<chain, watcher, update, spoiled, at, seen, out>>

EndCycle ==
  /\ mpc = "visit"
  /\ toVisit = {}
  /\ mpc' = "idle"
  /\ UNCHANGED <<positionVars, toVisit, at, seen, lastAlerts, previous, out>>

(* Its details; a read that fails, or a market without a rate, ends the    *)
(* visit.                                                                  *)
Visit(p, ok) ==
  /\ mpc = "visit"
  /\ p \in toVisit
  /\ Error(ok)
  /\ toVisit' = toVisit \ {p}
  /\ IF ok /\ LiquidateRate > 0
     THEN at' = p /\ seen' = account[p] /\ mpc' = "alert"
     ELSE UNCHANGED <<at, seen, mpc>>
  /\ UNCHANGED <<chain, watcher, update, spoiled, lastAlerts, previous, out>>

MutAlertable(p) == lastAlerts[p] = Never
Alertable(p) == lastAlerts[p] # Never => lastAlerts[p] > Cooldown

(* Alerting Logic.  A message that cannot be published counts as sent.     *)
Send(m, p, content, ok) == IF ok THEN [m EXCEPT ![p] = content] ELSE m

MutAlertAllHealthy(ok) ==
  /\ mpc = "alert"
  /\ Error(ok)
  /\ LET level == Level(seen)
     IN  IF level # "HEALTHY" /\ Alertable(at)
         THEN /\ alert' = Send(alert, at, level, ok)
              /\ lastAlerts' = [lastAlerts EXCEPT ![at] = 0]
         ELSE IF level = "HEALTHY"
         THEN /\ alert' = Send(alert, at, "HEALTHY", ok)
              /\ lastAlerts' = [lastAlerts EXCEPT ![at] = Never]
         ELSE UNCHANGED <<alert, lastAlerts>>
  /\ mpc' = "update"
  /\ UNCHANGED <<chain, watcher, update, spoiled, toVisit, at, seen, previous, jobs>>
Alert(ok) ==
  /\ mpc = "alert"
  /\ Error(ok)
  /\ LET level == Level(seen)
     IN  IF level # "HEALTHY" /\ Alertable(at)
         THEN /\ alert' = Send(alert, at, level, ok)
              /\ lastAlerts' = [lastAlerts EXCEPT ![at] = 0]
         ELSE IF level = "HEALTHY" /\ lastAlerts[at] # Never
         THEN /\ alert' = Send(alert, at, "HEALTHY", ok)
              /\ lastAlerts' = [lastAlerts EXCEPT ![at] = Never]
         ELSE UNCHANGED <<alert, lastAlerts>>
  /\ mpc' = "update"
  /\ UNCHANGED <<chain, watcher, update, spoiled, toVisit, at, seen, previous, jobs>>

(* A twentieth of the ratio, and never when the ratio is 0.                *)
Abs(n) == IF n < 0 THEN -n ELSE n

Significant(old, new) ==
  old # Never /\ new > 0 /\ 100 * Abs(new - old) >= 5 * new

MutDue(p, r) == previous[p].ratio = Never \/ Significant(previous[p].ratio, r)
Due(p, r) ==
  \/ previous[p].ratio = Never
  \/ Significant(previous[p].ratio, r)
  \/ previous[p].age > 2 * Cooldown

Update(ok) ==
  /\ mpc = "update"
  /\ Error(ok)
  /\ IF Due(at, Ratio(seen))
     THEN /\ update' = Send(update, at, seen, ok)
          /\ previous' = [previous EXCEPT ![at] = [ratio |-> Ratio(seen), age |-> 0]]
     ELSE UNCHANGED <<update, previous>>
  /\ mpc' = "liquidate"
  /\ UNCHANGED <<chain, watcher, spoiled, toVisit, at, seen, lastAlerts, out>>

(* A job that cannot be prepared or pushed is logged.                      *)
MutLiquidateUnalerted(ok) ==
  /\ mpc = "liquidate"
  /\ Error(ok)
  /\ jobs' = IF ok /\ Liquidatable(seen) /\ lastAlerts[at] = Never
             THEN jobs \cup {at} ELSE jobs
  /\ at' = NoOne
  /\ seen' = NoAccount
  /\ mpc' = "visit"
  /\ UNCHANGED <<chain, watcher, update, spoiled, toVisit, lastAlerts, previous,
                 alert>>
Liquidate(ok) ==
  /\ mpc = "liquidate"
  /\ Error(ok)
  /\ jobs' = IF ok /\ Liquidatable(seen) THEN jobs \cup {at} ELSE jobs
  /\ at' = NoOne
  /\ seen' = NoAccount
  /\ mpc' = "visit"
  /\ UNCHANGED <<chain, watcher, update, spoiled, toVisit, lastAlerts, previous,
                 alert>>

(* Whatever takes the jobs from the queue, external.                       *)
TakeJob(p) ==
  /\ p \in jobs
  /\ jobs' = jobs \ {p}
  /\ UNCHANGED <<positionVars, monitor, alert>>

MonitorCrash ==
  /\ mpc # "down"
  /\ Crash
  /\ mpc' = "down"
  /\ toVisit' = {}
  /\ at' = NoOne
  /\ seen' = NoAccount
  /\ lastAlerts' = [p \in Position |-> Never]
  /\ previous' = [p \in Position |-> NoState]
  /\ UNCHANGED <<chain, watcher, told, out>>

MonitorStart ==
  /\ mpc = "down"
  /\ mpc' = "idle"
  /\ UNCHANGED <<positionVars, toVisit, at, seen, lastAlerts, previous, out>>

-----------------------------------------------------------------------------
MonitorStep(ok) ==
  \/ StartCycle(ok)
  \/ \E p \in toVisit : Visit(p, ok)
  \/ Alert(ok)
  \/ Update(ok)
  \/ Liquidate(ok)

MonitorAdvances == MonitorStep(TRUE) \/ EndCycle \/ MonitorStart

MonitorNext ==
  \/ \E ok \in BOOLEAN : MonitorStep(ok)
  \/ EndCycle
  \/ MonitorCrash
  \/ MonitorStart
  \/ \E p \in Position : TakeJob(p)

Next ==
  \/ PositionsNext /\ UNCHANGED <<monitor, out>>
  \/ MonitorNext

Spec == Init /\ [][Next]_vars

(* Both processes are scheduled and started again when they end.           *)
FairSpec ==
  /\ Spec
  /\ WF_vars(WatcherAdvances /\ UNCHANGED <<monitor, out>>)
  /\ WF_vars(MonitorAdvances)
-----------------------------------------------------------------------------
TypeOK ==
  /\ PositionsTypeOK
  /\ mpc \in {"idle", "visit", "alert", "update", "liquidate", "down"}
  /\ toVisit \subseteq Position
  /\ at \in Position \cup {NoOne}
  /\ mpc \in {"alert", "update", "liquidate"} => at \in Position /\ seen \in Account
  /\ lastAlerts \in [Position -> {Never} \cup 0 .. MaxAlertAge]
  /\ \A p \in Position : /\ previous[p].ratio \in {Never} \cup {Ratio(a) : a \in Account}
                         /\ previous[p].age \in 0 .. MaxStateAge
  /\ alert \in [Position -> {"NONE", "CRITICAL", "WARNING", "HEALTHY"}]
  /\ jobs \subseteq Position

Watched(p) == p \notin spoiled /\ account[p].debts > 0

(* A user in danger is told so, sooner or later, unless the danger passes: *)
(* not even a warning just before, a restart or errors hold that back.     *)
DangerIsTold ==
  \A p \in Position :
    (Watched(p) /\ Level(account[p]) = "CRITICAL")
      ~> (alert[p] = "CRITICAL" \/ ~Watched(p) \/ Level(account[p]) # "CRITICAL")

(* An account the contract calls liquidatable gets a job.                  *)
InDanger(p) == Watched(p) /\ Liquidatable(account[p])

LiquidationQueued ==
  \A p \in Position :
    InDanger(p) ~> (p \in jobs \/ ~InDanger(p))

(* What a user with a debt was told last does not stay different from what *)
(* the chain says, although two processes read and publish on their own.   *)
OutOfDate(p) == Watched(p) /\ update[p] # account[p]

UpdatesCatchUp ==
  \A p \in Position : OutOfDate(p) ~> ~OutOfDate(p)

(* The good news is told only to those who had the bad, unless that was    *)
(* lost on its way.                                                        *)
HealthyAfterAlert ==
  [][\A p \in Position :
       alert'[p] = "HEALTHY" /\ errors = 0 => alert[p] # "NONE"]_vars
=============================================================================
