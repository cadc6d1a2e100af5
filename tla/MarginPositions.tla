--------------------------- MODULE MarginPositions ---------------------------
(***************************************************************************)
(* Which margin positions are active: the margin contract emits an event   *)
(* for each change of an account, and the watcher's                        *)
(* MarginContractEventHandler (backend/cli/watcher/main.go) keeps table    *)
(* margin_active_positions (backend/models/margin_active_position.go) and  *)
(* tells the user.  Some events it trusts (IncreaseCollateral, Borrow),    *)
(* for others it asks the chain, which may have moved on.                  *)
(*                                                                         *)
(* An account is what its assets and its debts are worth; only whether     *)
(* there are any, and their ratio, is told apart.                          *)
(***************************************************************************)
EXTENDS Integers, Sequences, FiniteSets

CONSTANTS
  Position,    \* users, in one market
  Account,     \* the accounts they may have
  NoAccount,   \* no account known
  MaxChanges, MaxFaults   \* bounds

Empty == [assets |-> 0, debts |-> 0]

ASSUME AccountAssumption ==
  /\ Account \subseteq [assets : Nat, debts : Nat]
  /\ Empty \in Account
  /\ NoAccount \notin Account

ASSUME PositionsBoundAssumption ==
  /\ MaxChanges \in Nat
  /\ MaxFaults \in Nat

VARIABLES
  account,    \* the chain: each position's account
  log,        \* the chain: the contract's events, in order
  changes,    \* how often an account has changed

  positions,  \* table margin_active_positions
  wpc,        \* watcher: where Handle is
  next,       \* the event it is at
  flag,       \* the flag it is about to save
  details,    \* accountDetails

  update,     \* the last MARGIN_ACCOUNT_UPDATE each user got
  spoiled,    \* positions with an event or a read that was lost
  errors,     \* how many calls have failed
  crashes     \* how often the watcher or the monitor has stopped

chain   == <<account, log, changes>>
watcher == <<positions, wpc, next, flag, details>>
faults  == <<errors, crashes>>
told    == <<update, spoiled>>
positionVars == <<chain, watcher, told, faults>>

-----------------------------------------------------------------------------
Kind == {"IncreaseCollateral", "DecreaseCollateral", "Borrow", "Repay"}

Event == [kind : Kind, position : Position]

Inactive == [hasCollateral |-> FALSE, hasDebt |-> FALSE, isActive |-> FALSE]

PositionsInit ==
  /\ account = [p \in Position |-> Empty]
  /\ log = <<>>
  /\ changes = 0
  /\ positions = [p \in Position |-> Inactive]
  /\ wpc = "scan" /\ next = 1 /\ flag = FALSE /\ details = NoAccount
  /\ update = [p \in Position |-> NoAccount]
  /\ spoiled = {}
  /\ errors = 0 /\ crashes = 0

-----------------------------------------------------------------------------
(* The contract, external.  Collateral is put in before anything is        *)
(* borrowed, and prices move without an event.                             *)
KindOf(a, b) ==
  CASE a.debts < b.debts -> "Borrow"
    [] a.debts > b.debts -> "Repay"
    [] a.debts = b.debts /\ a.assets < b.assets -> "IncreaseCollateral"
    [] OTHER -> "DecreaseCollateral"

Change(p, a) ==
  /\ changes < MaxChanges
  /\ changes' = changes + 1
  /\ a # account[p]
  /\ a.debts # account[p].debts => a.assets > 0 /\ account[p].assets > 0
  /\ account' = [account EXCEPT ![p] = a]
  /\ log' = Append(log, [kind |-> KindOf(account[p], a), position |-> p])
  /\ UNCHANGED <<watcher, told, faults>>

PriceMoves(p, a) ==
  /\ changes < MaxChanges
  /\ changes' = changes + 1
  /\ a.debts = account[p].debts
  /\ a.assets # account[p].assets
  /\ a.assets > 0 /\ account[p].assets > 0
  /\ account' = [account EXCEPT ![p] = a]
  /\ UNCHANGED <<log, watcher, told, faults>>

-----------------------------------------------------------------------------
(* The watcher's Handle, event by event.                                   *)
At == log[next]

Here == At.position

Error(ok) ==
  /\ ~ok => errors + crashes < MaxFaults
  /\ errors' = IF ok THEN errors ELSE errors + 1
  /\ crashes' = crashes

Crash ==
  /\ errors + crashes < MaxFaults
  /\ crashes' = crashes + 1
  /\ errors' = errors

(* The new value of the flag the event is about: true without a look at    *)
(* the chain, or what it says now; what cannot be read counts as none.     *)
TakeEvent(ok) ==
  /\ wpc = "scan"
  /\ next <= Len(log)
  /\ Error(ok)
  /\ ~ok => At.kind \in {"DecreaseCollateral", "Repay"}
  /\ flag' = CASE At.kind = "DecreaseCollateral" -> ok /\ account[Here].assets > 0
               [] At.kind = "Repay"              -> ok /\ account[Here].debts > 0
               [] OTHER                          -> TRUE
  /\ spoiled' = IF ok THEN spoiled ELSE spoiled \cup {Here}
  /\ wpc' = "save"
  /\ UNCHANGED <<chain, positions, next, details, update>>

IsCollateral(e) == e.kind \in {"IncreaseCollateral", "DecreaseCollateral"}

(* GetOrCreate and UpdateActivity.                                         *)
MutUpdatedClearsOther(row) ==
  [hasCollateral |-> IsCollateral(At) /\ flag,
   hasDebt       |-> ~IsCollateral(At) /\ flag,
   isActive      |-> flag]
Updated(row) ==
  LET c == IF IsCollateral(At) THEN flag ELSE row.hasCollateral
      d == IF IsCollateral(At) THEN row.hasDebt ELSE flag
  IN  [hasCollateral |-> c, hasDebt |-> d, isActive |-> c \/ d]

UpdateActivity(ok) ==
  /\ wpc = "save"
  /\ Error(ok)
  /\ positions' = IF ok THEN [positions EXCEPT ![Here] = Updated(@)] ELSE positions
  /\ spoiled' = IF ok THEN spoiled ELSE spoiled \cup {Here}
  /\ flag' = FALSE
  /\ wpc' = "details"
  /\ UNCHANGED <<chain, next, details, update>>

(* The account as the chain has it now, nothing if it cannot be read.      *)
GetAccountDetails(ok) ==
  /\ wpc = "details"
  /\ Error(ok)
  /\ details' = IF ok THEN account[Here] ELSE NoAccount
  /\ wpc' = "publish"
  /\ UNCHANGED <<chain, positions, next, flag, told>>

(* A failed publication is logged and the event done.                      *)
PublishUpdate(ok) ==
  /\ wpc = "publish"
  /\ Error(ok)
  /\ update' = IF ok THEN [update EXCEPT ![Here] = details] ELSE update
  /\ details' = NoAccount
  /\ next' = next + 1
  /\ wpc' = "scan"
  /\ UNCHANGED <<chain, positions, flag, spoiled>>

WatcherCrash ==
  /\ wpc # "down"
  /\ Crash
  /\ wpc' = "down"
  /\ flag' = FALSE
  /\ details' = NoAccount
  /\ UNCHANGED <<chain, positions, next, told>>

RestartsAt == {n \in 1 .. next + 1 : n <= Len(log) + 1}

(* A settled trade saves the number of its block (TxHandlerFunc), margin    *)
(* events save none.  The watcher goes on after the last block saved: that *)
(* of any event before the one at work, or its own.                        *)
WatcherStart(n) ==
  /\ wpc = "down"
  /\ wpc' = "scan"
  /\ next' = n
  /\ spoiled' = IF n <= next THEN spoiled ELSE spoiled \cup {Here}
  /\ UNCHANGED <<chain, positions, flag, details, update, faults>>

-----------------------------------------------------------------------------
WatcherStep(ok) ==
  \/ TakeEvent(ok)
  \/ UpdateActivity(ok)
  \/ GetAccountDetails(ok)
  \/ PublishUpdate(ok)

WatcherAdvances ==
  \/ WatcherStep(TRUE)
  \/ \E n \in RestartsAt : WatcherStart(n)

PositionsNext ==
  \/ \E p \in Position, a \in Account : Change(p, a) \/ PriceMoves(p, a)
  \/ \E ok \in BOOLEAN : WatcherStep(ok)
  \/ WatcherCrash
  \/ \E n \in RestartsAt : WatcherStart(n)

-----------------------------------------------------------------------------
Row == [hasCollateral : BOOLEAN, hasDebt : BOOLEAN, isActive : BOOLEAN]

PositionsTypeOK ==
  /\ account \in [Position -> Account]
  /\ log \in Seq(Event)
  /\ changes \in 0 .. MaxChanges
  /\ positions \in [Position -> Row]
  /\ wpc \in {"scan", "save", "details", "publish", "down"}
  /\ next \in 1 .. Len(log) + 1
  /\ wpc \in {"save", "details", "publish"} => next <= Len(log)
  /\ flag \in BOOLEAN
  /\ details \in Account \cup {NoAccount}
  /\ update \in [Position -> Account \cup {NoAccount}]
  /\ spoiled \subseteq Position
  /\ errors \in Nat /\ crashes \in Nat /\ errors + crashes <= MaxFaults

(* The flags of a position are what the chain says, or an event that will  *)
(* correct them is on its way: events that are trusted, reads that run     *)
(* ahead of the events and blocks that are scanned again never leave a     *)
(* wrong flag behind.                                                      *)
Coming(p, kinds) ==
  \E i \in next .. Len(log) : log[i].position = p /\ log[i].kind \in kinds

FlagsFollow ==
  \A p \in Position \ spoiled :
    /\ positions[p].hasCollateral # (account[p].assets > 0) =>
         Coming(p, {"IncreaseCollateral", "DecreaseCollateral"})
    /\ positions[p].hasDebt # (account[p].debts > 0) =>
         Coming(p, {"Borrow", "Repay"})
=============================================================================
