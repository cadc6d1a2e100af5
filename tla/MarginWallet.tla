---------------------------- MODULE MarginWallet ----------------------------
(***************************************************************************)
(* The margin operations of the web client that end in a transaction       *)
(* (actions/marginActions.js), the flags marginReducer keeps of them, the  *)
(* buttons these flags disable, and the banner that tells the outcome.     *)
(*                                                                         *)
(* An operation asks the API for an unsigned transaction, has the wallet   *)
(* sign it and broadcasts it.  All operations share the same flags, and    *)
(* nothing keeps two of them from being under way at the same time.        *)
(***************************************************************************)
EXTENDS Naturals

CONSTANTS
    Accounts,
    Tasks,        \* calls of an operation that may be under way together
    None,
    MaxStarts,    \* bound on the operations started
    MaxAlerts     \* bound on the alerts the server sends

PanelOps == {"deposit", "withdraw", "borrow", "repay"}
Ops == PanelOps \cup {"open", "close"}

ASSUME WalletAssumption ==
    /\ None \notin Accounts \cup Ops
    /\ MaxStarts \in Nat /\ MaxAlerts \in Nat

VARIABLES
    ui,         \* the part of the margin state about operations
    task,       \* the thunks under way: operation, account, stage
    account,    \* the account the client shows
    signer,     \* the account window.ethereum signs with, None without a wallet
    banner,     \* notifications.currentAlert
    timer,      \* the alert the timer of MarginAlertDisplay is set for
    refreshing, \* the accounts whose margin data is being loaded again
    hidden,     \* history: a flag went down while its operation went on
    starts, alerts

walletVars == <<ui, task, account, signer, banner, timer, refreshing, hidden, starts, alerts>>

\* The reducer knows no action of repayLoanAction: it imports other names.
Reduced(op) == op # "repay"

---------------------------------------------------------------------------
(* marginReducer *)

Request(op, u) ==
    IF Reduced(op)
    THEN [u EXCEPT !.loading = @ \cup {op}, !.unsigned = None, !.error = None, !.signing = FALSE]
    ELSE u

UnsignedTxReceived(op, u) ==
    IF Reduced(op) THEN [u EXCEPT !.loading = @ \ {op}, !.unsigned = op] ELSE u

Failure(op, u) ==
    IF Reduced(op)
    THEN [u EXCEPT !.loading = @ \ {op}, !.signing = FALSE, !.error = op, !.unsigned = None]
    ELSE u

SigningPending(u) == [u EXCEPT !.signing = TRUE, !.error = None]
SigningComplete(u) == [u EXCEPT !.signing = FALSE]
BroadcastRequest(u) == [u EXCEPT !.broadcasting = TRUE, !.signing = FALSE, !.error = None]

\* MutBroadcasted: the broadcasting flag is left up.
MutBroadcasted(u) == [u EXCEPT !.unsigned = None, !.signing = FALSE, !.loading = {}]

\* The end of a broadcast takes down the flags of every operation.
Broadcasted(u) ==
    [u EXCEPT !.broadcasting = FALSE, !.unsigned = None, !.signing = FALSE, !.loading = {}]
BroadcastFailure(u) == [Broadcasted(u) EXCEPT !.error = "broadcast"]

---------------------------------------------------------------------------
(* The banner *)

Alert(id, level, auto) == [id |-> id, level |-> level, autoDismiss |-> auto]
NextId == IF banner = None THEN 1 ELSE (banner.id % 3) + 1

\* MutSetupDismissTimer: the timer of the alert before is left running.
MutSetupDismissTimer(alert) ==
    IF alert # None /\ alert.autoDismiss THEN alert.id ELSE timer

\* setupDismissTimer: any timer is cleared, and one is set if the alert asks for it.
SetupDismissTimer(alert) ==
    IF alert # None /\ alert.autoDismiss THEN alert.id ELSE None

Display(alert) == banner' = alert /\ timer' = SetupDismissTimer(alert)

\* SHOW_MARGIN_ALERT replaces the alert, HIDE_MARGIN_ALERT clears whatever is shown.
ShowMarginAlert(level, auto) == Display(Alert(NextId, level, auto))
HideMarginAlert == Display(None)

---------------------------------------------------------------------------
(* Tasks *)

Idle == [op |-> None, account |-> None, stage |-> "idle"]
At(stage) == {t \in Tasks : task[t].stage = stage}
InFlight(op) == {t \in Tasks : task[t].op = op}
Move(t, stage) == task' = [task EXCEPT ![t].stage = stage]
End(t) == task' = [task EXCEPT ![t] = Idle]

\* A flag is down though a task of the next state is where it should be up.
FlagDown ==
    \E t \in Tasks :
        \/ task'[t].stage = "api" /\ task'[t].op \notin ui'.loading
        \/ task'[t].stage = "wallet" /\ ~ui'.signing
        \/ task'[t].stage = "broadcast" /\ ~ui'.broadcasting
Watch == hidden' = (hidden \/ FlagDown)

\* MutBusy: the button does not look at the signature the wallet waits for.
MutBusy == "close" \in ui.loading \/ ui.broadcasting

\* What disables "Settle & Withdraw" of the list of open positions.
Busy == "close" \in ui.loading \/ ui.signing \/ ui.broadcasting

\* A button of the panel is disabled by the loading flag of its own operation.
PanelDisabled(op) == op \in ui.loading

---------------------------------------------------------------------------
Init ==
    /\ ui = [loading |-> {}, signing |-> FALSE, broadcasting |-> FALSE, error |-> None,
             unsigned |-> None]
    /\ task = [t \in Tasks |-> Idle]
    /\ account \in Accounts /\ signer \in Accounts \cup {None}
    /\ banner = None /\ timer = None /\ refreshing = {} /\ hidden = FALSE
    /\ starts = 0 /\ alerts = 0

Started == starts < MaxStarts /\ starts' = starts + 1

\* handleDeposit, handleWithdraw, handleBorrow, handleRepay of the panel: the thunk gets
\* three of its five arguments, and the amount it has to format is missing.
Panel(op) ==
    /\ Started
    /\ ~PanelDisabled(op)
    /\ ui' = Failure(op, Request(op, ui))
    /\ UNCHANGED task /\ Watch
    /\ UNCHANGED <<account, signer, banner, timer, refreshing, alerts>>

Begin(t, op) ==
    /\ Started
    /\ task[t] = Idle
    /\ task' = [task EXCEPT ![t] = [op |-> op, account |-> account, stage |-> "api"]]
    /\ ui' = Request(op, ui)
    /\ Watch
    /\ UNCHANGED <<account, signer, banner, timer, refreshing, alerts>>

\* The thunks, called with the arguments they declare.
OpenMarginPosition(t) == Begin(t, "open")
DepositCollateral(t) == Begin(t, "deposit")
WithdrawCollateral(t) == Begin(t, "withdraw")
BorrowLoanAction(t) == Begin(t, "borrow")
RepayLoanAction(t) == Begin(t, "repay")

\* The button of a flat position: initiateCloseMarginPosition.
Settle(t) == ~Busy /\ Begin(t, "close")

\* The API refuses the operation or cannot be reached: the failure is dispatched twice.
ApiFails(t) ==
    /\ t \in At("api")
    /\ ui' = Failure(task[t].op, Failure(task[t].op, ui))
    /\ End(t) /\ Watch
    /\ UNCHANGED <<account, signer, banner, timer, refreshing, starts, alerts>>

\* The unsigned transaction: the wallet is asked to sign it.
ApiAnswers(t) ==
    /\ t \in At("api")
    /\ ui' = SigningPending(UnsignedTxReceived(task[t].op, ui))
    /\ Move(t, "wallet") /\ Watch
    /\ UNCHANGED <<account, signer, banner, timer, refreshing, starts, alerts>>

SignError(t) ==
    /\ ui' = SigningComplete(Failure(task[t].op, ui))
    /\ End(t) /\ Watch
    /\ UNCHANGED <<account, signer, banner, timer, refreshing, starts, alerts>>

\* signTransaction throws: no wallet, another account in it, or the user refuses.
WalletRefuses(t) == t \in At("wallet") /\ SignError(t)

\* The wallet signs.  The panel's thunks then look the market up in state.market.markets,
\* which no Immutable map has: what was signed ends as a signing error.
WalletSigns(t) ==
    /\ t \in At("wallet")
    /\ signer = task[t].account
    /\ IF task[t].op \in PanelOps
       THEN SignError(t)
       ELSE /\ ui' = BroadcastRequest(ui)
            /\ Move(t, "broadcast") /\ Watch
            /\ UNCHANGED <<account, signer, banner, timer, refreshing, starts, alerts>>

BroadcastSucceeds(t) ==
    /\ t \in At("broadcast")
    /\ ui' = SigningComplete(Broadcasted(ui))
    /\ ShowMarginAlert("success", TRUE)
    /\ refreshing' = refreshing \cup {task[t].account}
    /\ End(t) /\ Watch
    /\ UNCHANGED <<account, signer, starts, alerts>>

\* The broadcast fails: an error thrown for the answer is caught and told a second time.
BroadcastFails(t) ==
    /\ t \in At("broadcast")
    /\ ui' = SigningComplete(BroadcastFailure(ui))
    /\ ShowMarginAlert("error", FALSE)
    /\ End(t) /\ Watch
    /\ UNCHANGED <<account, signer, refreshing, starts, alerts>>

\* refreshAllMarginDataForUserAndMarket ends.
Refreshed(a) ==
    /\ a \in refreshing /\ refreshing' = refreshing \ {a}
    /\ UNCHANGED <<ui, task, account, signer, banner, timer, hidden, starts, alerts>>

---------------------------------------------------------------------------
(* The banner and the accounts *)

\* A MARGIN_ALERT of the server's second socket.
MarginAlert ==
    /\ alerts < MaxAlerts /\ alerts' = alerts + 1
    /\ ShowMarginAlert("critical", FALSE)
    /\ UNCHANGED <<ui, task, account, signer, refreshing, hidden, starts>>

\* The timer fires: hideMarginAlert hides the alert there is.
DismissTimer ==
    /\ timer # None
    /\ HideMarginAlert
    /\ UNCHANGED <<ui, task, account, signer, refreshing, hidden, starts, alerts>>

\* The banner is rendered when there is an alert, with a button that dismisses it.
Visible == banner # None

HandleManualDismiss ==
    /\ Visible
    /\ HideMarginAlert
    /\ UNCHANGED <<ui, task, account, signer, refreshing, hidden, starts, alerts>>

\* The user selects another account in the client or in the wallet extension.
SelectAccount(a) ==
    /\ a # account /\ account' = a
    /\ UNCHANGED <<ui, task, signer, banner, timer, refreshing, hidden, starts, alerts>>
SelectSigner(a) ==
    /\ signer # None /\ a # signer /\ signer' = a
    /\ UNCHANGED <<ui, task, account, banner, timer, refreshing, hidden, starts, alerts>>

Answers(t) ==
    \/ ApiFails(t) \/ ApiAnswers(t)
    \/ BroadcastSucceeds(t) \/ BroadcastFails(t)

Next ==
    \/ \E op \in PanelOps : Panel(op)
    \/ \E t \in Tasks :
           \/ OpenMarginPosition(t) \/ Settle(t)
           \/ DepositCollateral(t) \/ WithdrawCollateral(t)
           \/ BorrowLoanAction(t) \/ RepayLoanAction(t)
           \/ Answers(t)
           \/ WalletRefuses(t) \/ WalletSigns(t)
    \/ \E a \in Accounts : Refreshed(a) \/ SelectAccount(a) \/ SelectSigner(a)
    \/ MarginAlert \/ DismissTimer \/ HandleManualDismiss

\* A request ends in the browser, with an answer or as a network error.
Fairness == \A t \in Tasks : WF_walletVars(Answers(t))
Spec == Init /\ [][Next]_walletVars /\ Fairness

---------------------------------------------------------------------------
(* Properties *)

Stages == {"idle", "api", "wallet", "broadcast"}

\* Type invariant.
TypeOK ==
    /\ ui \in [loading : SUBSET (Ops \ {"repay"}), signing : BOOLEAN, broadcasting : BOOLEAN,
               error : Ops \cup {"broadcast", None}, unsigned : (Ops \ {"repay"}) \cup {None}]
    /\ task \in [Tasks -> [op : Ops \cup {None}, account : Accounts \cup {None}, stage : Stages]]
    /\ account \in Accounts /\ signer \in Accounts \cup {None}
    /\ banner \in [id : 1..3, level : {"success", "error", "critical"}, autoDismiss : BOOLEAN]
                    \cup {None}
    /\ timer \in 1..3 \cup {None} /\ refreshing \subseteq Accounts /\ hidden \in BOOLEAN

\* No flag outlives the operations: each flag that is up has an operation under way that put
\* it there, so that whatever is left when the operations are over, no button stays disabled
\* (marginReducer's cases taken over every interleaving of the thunks).
FlagsHaveOwner ==
    /\ \A op \in ui.loading : \E t \in At("api") : task[t].op = op
    /\ ui.signing => At("wallet") # {}
    /\ ui.broadcasting => At("broadcast") # {}
    /\ ui.unsigned # None => \E t \in At("wallet") \cup At("broadcast") : task[t].op = ui.unsigned

\* "Settle & Withdraw" is not pressed twice: a settlement starts while another is under way
\* only if an operation has taken down the flag of one that goes on (the button of
\* OpenPositionsList, disabled by three flags that every operation writes).
PressedOnce ==
    [][(\E t \in Tasks : task[t].op = None /\ task'[t].op = "close") /\ InFlight("close") # {}
           => hidden]_walletVars

\* The timer is set for the alert that is shown, and only for one that dismisses itself: an
\* error or a margin alert that took the place of a success is never hidden by the timer of
\* that success, which hides whatever is shown (HIDE_MARGIN_ALERT ignores the id it is given).
TimerOfBanner == timer # None => banner # None /\ banner.id = timer /\ banner.autoDismiss

\* Once no operation waits in the wallet for good, the buttons come back.
ButtonsComeBack == []<>(At("wallet") = {}) => [](Busy => <>~Busy)
=============================================================================
