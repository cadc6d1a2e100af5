------------------------- MODULE MarginWalletProofs -------------------------
(***************************************************************************)
(* Theorems about MarginWallet for every set of accounts, any number of    *)
(* operations under way and any number started: types, no flag left over,  *)
(* "Settle & Withdraw" pressed once, and the timer of the banner.          *)
(***************************************************************************)
EXTENDS MarginWallet, TLAPS

Ui == [loading : SUBSET (Ops \ {"repay"}), signing : BOOLEAN, broadcasting : BOOLEAN,
       error : Ops \cup {"broadcast", None}, unsigned : (Ops \ {"repay"}) \cup {None}]
Banners == [id : 1..3, level : {"success", "error", "critical"}, autoDismiss : BOOLEAN]

---------------------------------------------------------------------------
(* Lemmas about the reducer *)

\* The cases of marginReducer for one operation keep the type of its state.
LEMMA OperationKeepsType ==
    ASSUME NEW u \in Ui, NEW op \in Ops
    PROVE  Request(op, u) \in Ui /\ UnsignedTxReceived(op, u) \in Ui /\ Failure(op, u) \in Ui
  BY DEF Ui, Request, UnsignedTxReceived, Failure, Reduced

\* And so do those every operation shares.
LEMMA SharedKeepsType ==
    ASSUME NEW u \in Ui
    PROVE  /\ SigningPending(u) \in Ui /\ SigningComplete(u) \in Ui
           /\ BroadcastRequest(u) \in Ui /\ Broadcasted(u) \in Ui /\ BroadcastFailure(u) \in Ui
<1>1. SigningPending(u) \in Ui /\ SigningComplete(u) \in Ui /\ BroadcastRequest(u) \in Ui
  BY DEF Ui, SigningPending, SigningComplete, BroadcastRequest
<1>2. Broadcasted(u) \in Ui /\ BroadcastFailure(u) \in Ui
  BY DEF Ui, Broadcasted, BroadcastFailure
<1> QED
  BY <1>1, <1>2

\* What the cases of marginReducer do to the flags.
LEMMA RequestFlags ==
    ASSUME NEW u \in Ui, NEW op \in Ops
    PROVE  /\ Request(op, u).loading = IF op = "repay" THEN u.loading ELSE u.loading \cup {op}
           /\ Request(op, u).broadcasting = u.broadcasting
           /\ Request(op, u).signing => u.signing
           /\ Request(op, u).unsigned \in {None, u.unsigned}
  BY DEF Ui, Request, Reduced

\* An unsigned transaction is kept, and loading ends.
LEMMA UnsignedTxReceivedFlags ==
    ASSUME NEW u \in Ui, NEW op \in Ops
    PROVE  /\ UnsignedTxReceived(op, u).loading = u.loading \ {op}
           /\ UnsignedTxReceived(op, u).broadcasting = u.broadcasting
           /\ UnsignedTxReceived(op, u).unsigned \in {op, u.unsigned}
  BY DEF Ui, UnsignedTxReceived, Reduced

\* A failure takes down what its operation put up, save that of repay.
LEMMA FailureFlags ==
    ASSUME NEW u \in Ui, NEW op \in Ops
    PROVE  /\ Failure(op, u).loading = u.loading \ {op}
           /\ Failure(op, u).broadcasting = u.broadcasting
           /\ Failure(op, u).signing => u.signing
           /\ Failure(op, u).unsigned \in {None, u.unsigned}
           /\ op # "repay" => Failure(op, u).unsigned = None
  BY DEF Ui, Failure, Reduced

\* The signing flag, for whichever operation.
LEMMA SigningFlags ==
    ASSUME NEW u \in Ui
    PROVE  /\ SigningPending(u).loading = u.loading
           /\ SigningPending(u).broadcasting = u.broadcasting
           /\ SigningPending(u).signing
           /\ SigningPending(u).unsigned = u.unsigned
           /\ SigningComplete(u).loading = u.loading
           /\ SigningComplete(u).broadcasting = u.broadcasting
           /\ ~SigningComplete(u).signing
           /\ SigningComplete(u).unsigned = u.unsigned
  BY DEF Ui, SigningPending, SigningComplete

\* The flags of a broadcast, for whichever operation.
LEMMA BroadcastFlags ==
    ASSUME NEW u \in Ui
    PROVE  /\ BroadcastRequest(u).loading = u.loading
           /\ BroadcastRequest(u).broadcasting /\ ~BroadcastRequest(u).signing
           /\ BroadcastRequest(u).unsigned = u.unsigned
           /\ Broadcasted(u).loading = {} /\ BroadcastFailure(u).loading = {}
           /\ ~Broadcasted(u).broadcasting /\ ~BroadcastFailure(u).broadcasting
           /\ ~Broadcasted(u).signing /\ ~BroadcastFailure(u).signing
           /\ Broadcasted(u).unsigned = None /\ BroadcastFailure(u).unsigned = None
  BY DEF Ui, BroadcastRequest, Broadcasted, BroadcastFailure

---------------------------------------------------------------------------
(* The inductive invariant *)

TaskRec == [op : Ops \cup {None}, account : Accounts \cup {None}, stage : Stages]

TaskTypes == task \in [Tasks -> TaskRec] /\ ui \in Ui /\ hidden \in BOOLEAN
OtherTypes == account \in Accounts /\ signer \in Accounts \cup {None} /\ refreshing \subseteq Accounts
BannerTypes == banner \in Banners \cup {None} /\ timer \in 1..3 \cup {None}

\* A call that is under way has an operation and an account.
IdleHasNoOp ==
    \A t \in Tasks : /\ task[t].stage = "idle" <=> task[t].op = None
                     /\ task[t].stage # "idle" => task[t].account \in Accounts

\* Until a flag goes down under its operation, the flags of every call are up.
FlagsUp ==
    ~hidden =>
        \A t \in Tasks : /\ task[t].stage = "api" => task[t].op \in ui.loading
                         /\ task[t].stage = "wallet" => ui.signing
                         /\ task[t].stage = "broadcast" => ui.broadcasting

Flags == TaskTypes /\ IdleHasNoOp /\ FlagsHaveOwner /\ FlagsUp
Banner == BannerTypes /\ TimerOfBanner
WalletInv == Flags /\ Banner /\ OtherTypes

\* The invariant has the types of TypeOK.
LEMMA InvHasTypes == ASSUME WalletInv PROVE TypeOK
  BY DEF WalletInv, Flags, Banner, TaskTypes, OtherTypes, BannerTypes, TypeOK, Ui, Banners, TaskRec

---------------------------------------------------------------------------
(* The flags *)

\* Watch records every flag that went down: what it has not recorded is up.
LEMMA WatchKeepsFlagsUp == ASSUME TaskTypes', Watch PROVE FlagsUp'
  BY DEF TaskTypes, Watch, FlagDown, FlagsUp

\* A step that changes neither the flags nor a call.
LEMMA FlagsUnchanged == ASSUME Flags, UNCHANGED <<ui, task, hidden>> PROVE Flags'
  BY DEF Flags, TaskTypes, IdleHasNoOp, FlagsHaveOwner, FlagsUp, At

\* A thunk of the panel, which fails at once.
LEMMA PanelKeepsFlags ==
    ASSUME Flags, NEW op \in PanelOps, Panel(op) PROVE Flags'
<1>0. op \in Ops /\ ui \in Ui
  BY DEF Flags, TaskTypes, Ops
<1> DEFINE u == Request(op, ui)
<1>1. u \in Ui /\ ui' = Failure(op, u) /\ ui' \in Ui
  BY <1>0, OperationKeepsType DEF Panel
<1>2. TaskTypes'
  BY <1>1 DEF Flags, TaskTypes, Panel, Watch, FlagDown
<1>3. IdleHasNoOp'
  BY DEF Flags, IdleHasNoOp, Panel
<1>4. /\ u.loading = IF op = "repay" THEN ui.loading ELSE ui.loading \cup {op}
      /\ u.broadcasting = ui.broadcasting
      /\ u.signing => ui.signing
      /\ u.unsigned \in {None, ui.unsigned}
  BY <1>0, RequestFlags
<1>5. /\ ui'.loading \subseteq ui.loading
      /\ ui'.broadcasting = ui.broadcasting
      /\ ui'.signing => ui.signing
      /\ ui'.unsigned \in {None, ui.unsigned}
  <2> HIDE DEF u
  <2>1. /\ Failure(op, u).loading = u.loading \ {op}
        /\ Failure(op, u).broadcasting = u.broadcasting
        /\ Failure(op, u).signing => u.signing
        /\ Failure(op, u).unsigned \in {None, u.unsigned}
    BY <1>0, <1>1, FailureFlags
  <2> QED
    BY <1>1, <1>4, <2>1
<1>6. FlagsHaveOwner'
  BY <1>5 DEF Flags, FlagsHaveOwner, At, Panel
<1> QED
  BY <1>2, <1>3, <1>6, WatchKeepsFlagsUp DEF Flags, Panel

\* A call that begins.
LEMMA BeginKeepsFlags ==
    ASSUME Flags, account \in Accounts, NEW t \in Tasks, NEW op \in Ops, Begin(t, op) PROVE Flags'
<1>1. ui \in Ui /\ task \in [Tasks -> TaskRec] /\ ui' = Request(op, ui)
  BY DEF Flags, TaskTypes, Begin
<1>2. /\ task' \in [Tasks -> TaskRec]
      /\ task'[t].op = op /\ task'[t].stage = "api" /\ task'[t].account = account
      /\ \A s \in Tasks \ {t} : task'[s] = task[s]
  BY <1>1 DEF Begin, TaskRec, Stages
<1>3. TaskTypes'
  BY <1>1, <1>2, OperationKeepsType DEF TaskTypes, Flags, Begin, Watch, FlagDown
<1>4. IdleHasNoOp'
  BY <1>2, WalletAssumption DEF Flags, IdleHasNoOp
<1>5. task[t].stage = "idle"
  BY DEF Begin, Idle
<1>6. /\ ui'.loading \subseteq ui.loading \cup {op}
      /\ ui'.broadcasting = ui.broadcasting
      /\ ui'.signing => ui.signing
      /\ ui'.unsigned \in {None, ui.unsigned}
  BY <1>1, RequestFlags
<1>7. FlagsHaveOwner'
  BY <1>2, <1>5, <1>6 DEF Flags, FlagsHaveOwner, At
<1> QED
  BY <1>3, <1>4, <1>7, WatchKeepsFlagsUp DEF Flags, Begin

\* A call that moves on to a stage: what the flags may be afterwards.
LEMMA StageKeepsFlags ==
    ASSUME Flags, NEW t \in Tasks, NEW stage \in {"wallet", "broadcast"},
           task[t].stage # "idle", Move(t, stage), Watch, ui' \in Ui,
           ui'.loading \subseteq ui.loading,
           task[t].stage = "api" => task[t].op \notin ui'.loading,
           ui'.signing => stage = "wallet" \/ (ui.signing /\ task[t].stage # "wallet"),
           ui'.broadcasting => stage = "broadcast" \/ (ui.broadcasting /\ task[t].stage # "broadcast"),
           ui'.unsigned \in {None, ui.unsigned, task[t].op}
    PROVE  Flags'
<1>1. task \in [Tasks -> TaskRec]
  BY DEF Flags, TaskTypes
<1>2. /\ task' \in [Tasks -> TaskRec]
      /\ task'[t].op = task[t].op /\ task'[t].stage = stage
      /\ task'[t].account = task[t].account
      /\ \A s \in Tasks \ {t} : task'[s] = task[s]
  BY <1>1 DEF Move, TaskRec, Stages
<1>3. TaskTypes'
  BY <1>2 DEF TaskTypes, Flags, Watch, FlagDown
<1>4. IdleHasNoOp'
  BY <1>2 DEF Flags, IdleHasNoOp
<1>5. \A op \in ui'.loading : \E s \in Tasks : task'[s].stage = "api" /\ task'[s].op = op
  BY <1>2 DEF Flags, FlagsHaveOwner, At
<1>6. /\ ui'.signing => \E s \in Tasks : task'[s].stage = "wallet"
      /\ ui'.broadcasting => \E s \in Tasks : task'[s].stage = "broadcast"
  BY <1>2 DEF Flags, FlagsHaveOwner, At
<1>7. ui'.unsigned # None =>
        \E s \in Tasks : task'[s].stage \in {"wallet", "broadcast"} /\ task'[s].op = ui'.unsigned
  BY <1>2 DEF Flags, FlagsHaveOwner, At
<1>8. FlagsHaveOwner'
  BY <1>5, <1>6, <1>7 DEF FlagsHaveOwner, At
<1> QED
  BY <1>3, <1>4, <1>8, WatchKeepsFlagsUp DEF Flags

\* A call that ends.
LEMMA EndKeepsFlags ==
    ASSUME Flags, NEW t \in Tasks, task[t].stage # "idle", End(t), Watch, ui' \in Ui,
           ui'.loading \subseteq ui.loading,
           task[t].stage = "api" => task[t].op \notin ui'.loading,
           ui'.signing => ui.signing /\ task[t].stage # "wallet",
           ui'.broadcasting => ui.broadcasting /\ task[t].stage # "broadcast",
           ui'.unsigned \in {None, ui.unsigned},
           ui'.unsigned # None => ui'.unsigned # task[t].op
    PROVE  Flags'
<1>1. task \in [Tasks -> TaskRec]
  BY DEF Flags, TaskTypes
<1>2. /\ task' \in [Tasks -> TaskRec]
      /\ task'[t].op = None /\ task'[t].stage = "idle"
      /\ \A s \in Tasks \ {t} : task'[s] = task[s]
  BY <1>1 DEF End, Idle, TaskRec, Stages
<1>3. TaskTypes'
  BY <1>2 DEF TaskTypes, Flags, Watch, FlagDown
<1>4. IdleHasNoOp'
  BY <1>2 DEF Flags, IdleHasNoOp
<1>5. \A op \in ui'.loading : \E s \in Tasks : task'[s].stage = "api" /\ task'[s].op = op
  BY <1>2 DEF Flags, FlagsHaveOwner, At
<1>6. /\ ui'.signing => \E s \in Tasks : task'[s].stage = "wallet"
      /\ ui'.broadcasting => \E s \in Tasks : task'[s].stage = "broadcast"
  BY <1>2 DEF Flags, FlagsHaveOwner, At
<1>7. ui'.unsigned # None =>
        \E s \in Tasks : task'[s].stage \in {"wallet", "broadcast"} /\ task'[s].op = ui'.unsigned
  BY <1>2 DEF Flags, FlagsHaveOwner, At
<1>8. FlagsHaveOwner'
  BY <1>5, <1>6, <1>7 DEF FlagsHaveOwner, At
<1> QED
  BY <1>3, <1>4, <1>8, WatchKeepsFlagsUp DEF Flags

\* An answer of the API moves the call on to the wallet.
LEMMA ApiAnswersKeepsFlags ==
    ASSUME Flags, NEW t \in Tasks, ApiAnswers(t) PROVE Flags'
<1> DEFINE op == task[t].op
           u == UnsignedTxReceived(op, ui)
<1>1. ui \in Ui /\ op \in Ops /\ task[t].stage = "api"
  BY DEF Flags, TaskTypes, IdleHasNoOp, ApiAnswers, At, TaskRec
<1>2. u \in Ui /\ u.loading = ui.loading \ {op} /\ u.broadcasting = ui.broadcasting
      /\ u.unsigned \in {op, ui.unsigned}
  BY <1>1, OperationKeepsType, UnsignedTxReceivedFlags
<1>3. ui' = SigningPending(u) /\ Move(t, "wallet") /\ Watch
  BY DEF ApiAnswers
<1> HIDE DEF u
<1>4. /\ ui' \in Ui /\ ui'.loading = u.loading /\ ui'.broadcasting = u.broadcasting
      /\ ui'.unsigned = u.unsigned
  BY <1>1, <1>2, <1>3, SharedKeepsType, SigningFlags
<1> QED
  BY <1>1, <1>2, <1>3, <1>4, StageKeepsFlags

\* A refusal of the API ends the call: its failure is reduced twice.
LEMMA ApiFailsKeepsFlags ==
    ASSUME Flags, NEW t \in Tasks, ApiFails(t) PROVE Flags'
<1> DEFINE op == task[t].op
           u == Failure(op, ui)
<1>1. ui \in Ui /\ op \in Ops /\ task[t].stage = "api"
  BY DEF Flags, TaskTypes, IdleHasNoOp, ApiFails, At, TaskRec
<1>2. /\ u \in Ui /\ u.loading = ui.loading \ {op} /\ u.broadcasting = ui.broadcasting
      /\ u.signing => ui.signing
      /\ u.unsigned \in {None, ui.unsigned}
      /\ op # "repay" => u.unsigned = None
  BY <1>1, OperationKeepsType, FailureFlags
<1>3. ui' = Failure(op, u) /\ End(t) /\ Watch
  BY DEF ApiFails
<1> HIDE DEF u
<1>4. /\ ui' \in Ui /\ ui'.loading = u.loading \ {op} /\ ui'.broadcasting = u.broadcasting
      /\ ui'.signing => u.signing
      /\ ui'.unsigned \in {None, u.unsigned}
  BY <1>1, <1>2, <1>3, OperationKeepsType, FailureFlags
<1>5. ui'.unsigned # None => ui'.unsigned # op
  BY <1>1, <1>2, <1>4 DEF Ui
<1> QED
  BY <1>1, <1>2, <1>3, <1>4, <1>5, EndKeepsFlags

\* An error of the wallet, or of what follows the signature, ends the call.
LEMMA SignErrorKeepsFlags ==
    ASSUME Flags, NEW t \in Tasks, t \in At("wallet"), SignError(t) PROVE Flags'
<1> DEFINE op == task[t].op
           u == Failure(op, ui)
<1>1. ui \in Ui /\ op \in Ops /\ task[t].stage = "wallet"
  BY DEF Flags, TaskTypes, IdleHasNoOp, At, TaskRec
<1>2. /\ u \in Ui /\ u.loading = ui.loading \ {op} /\ u.broadcasting = ui.broadcasting
      /\ u.unsigned \in {None, ui.unsigned}
      /\ op # "repay" => u.unsigned = None
  BY <1>1, OperationKeepsType, FailureFlags
<1>3. ui' = SigningComplete(u) /\ End(t) /\ Watch
  BY DEF SignError
<1> HIDE DEF u
<1>4. /\ ui' \in Ui /\ ui'.loading = u.loading /\ ui'.broadcasting = u.broadcasting
      /\ ~ui'.signing
      /\ ui'.unsigned = u.unsigned
  BY <1>1, <1>2, <1>3, SharedKeepsType, SigningFlags
<1>5. ui'.unsigned # None => ui'.unsigned # op
  BY <1>1, <1>2, <1>4 DEF Ui
<1> QED
  BY <1>1, <1>2, <1>3, <1>4, <1>5, EndKeepsFlags

\* A signature moves the call on to its broadcast, or ends it as an error.
LEMMA WalletSignsKeepsFlags ==
    ASSUME Flags, NEW t \in Tasks, WalletSigns(t) PROVE Flags'
<1>1. CASE task[t].op \in PanelOps
  BY <1>1, SignErrorKeepsFlags DEF WalletSigns
<1>2. CASE task[t].op \notin PanelOps
  <2>1. ui \in Ui /\ task[t].stage = "wallet"
    BY DEF Flags, TaskTypes, WalletSigns, At
  <2>2. ui' = BroadcastRequest(ui) /\ Move(t, "broadcast") /\ Watch
    BY <1>2 DEF WalletSigns
  <2>3. /\ ui' \in Ui /\ ui'.loading = ui.loading /\ ~ui'.signing
        /\ ui'.unsigned = ui.unsigned
    BY <2>1, <2>2, SharedKeepsType, BroadcastFlags
  <2> QED
    BY <2>1, <2>2, <2>3, StageKeepsFlags
<1> QED
  BY <1>1, <1>2

\* The end of a broadcast, whichever it is, takes every flag down.
LEMMA BroadcastEndKeepsFlags ==
    ASSUME Flags, NEW t \in Tasks, t \in At("broadcast"), End(t), Watch,
           NEW STATE u, u \in {Broadcasted(ui), BroadcastFailure(ui)}, ui' = SigningComplete(u)
    PROVE  Flags'
<1>1. ui \in Ui /\ task[t].stage = "broadcast"
  BY DEF Flags, TaskTypes, At
<1>2. u \in Ui /\ u.loading = {} /\ ~u.broadcasting /\ u.unsigned = None
  <2>1. CASE u = Broadcasted(ui)
    BY <1>1, <2>1, SharedKeepsType, BroadcastFlags
  <2>2. CASE u = BroadcastFailure(ui)
    BY <1>1, <2>2, SharedKeepsType, BroadcastFlags
  <2> QED
    BY <2>1, <2>2
<1>3. /\ ui' \in Ui /\ ui'.loading = u.loading /\ ui'.broadcasting = u.broadcasting
      /\ ~ui'.signing
      /\ ui'.unsigned = u.unsigned
  BY <1>2, SharedKeepsType, SigningFlags
<1> QED
  BY <1>1, <1>2, <1>3, EndKeepsFlags

---------------------------------------------------------------------------
(* The banner and the rest *)

\* An alert is numbered 1, 2, 3, 1, ...
LEMMA NextIdInRange == ASSUME BannerTypes PROVE NextId \in 1..3
<1>1. CASE banner = None
  BY <1>1 DEF NextId
<1>2. CASE banner # None
  <2>1. banner.id \in 1..3
    BY <1>2 DEF BannerTypes, Banners
  <2>2. (banner.id % 3) + 1 \in 1..3
    BY <2>1
  <2> QED
    BY <1>2, <2>2 DEF NextId
<1> QED
  BY <1>1, <1>2

\* A new alert takes the timer with it.
LEMMA ShowKeepsBanner ==
    ASSUME Banner, NEW level \in {"success", "error", "critical"}, NEW auto \in BOOLEAN,
           ShowMarginAlert(level, auto)
    PROVE  Banner'
<1> DEFINE a == Alert(NextId, level, auto)
<1>1. NextId \in 1..3
  BY NextIdInRange DEF Banner
<1>2. a \in Banners /\ a.id = NextId /\ a.autoDismiss = auto
  BY <1>1 DEF Alert, Banners
<1>3. banner' = a /\ timer' = SetupDismissTimer(a)
  BY DEF ShowMarginAlert, Display
<1> HIDE DEF a
<1>4. timer' = IF a # None /\ a.autoDismiss THEN a.id ELSE None
  BY <1>3 DEF SetupDismissTimer
<1> QED
  BY <1>1, <1>2, <1>3, <1>4 DEF Banner, BannerTypes, TimerOfBanner

\* Without an alert there is no timer.
LEMMA HideKeepsBanner == ASSUME HideMarginAlert PROVE Banner'
  BY DEF HideMarginAlert, Display, SetupDismissTimer, Banner, BannerTypes, TimerOfBanner

\* A step that is not about the banner.
LEMMA BannerUnchanged == ASSUME Banner, UNCHANGED <<banner, timer>> PROVE Banner'
  BY DEF Banner, BannerTypes, TimerOfBanner

---------------------------------------------------------------------------
(* The invariant *)

\* It holds at the start.
LEMMA InitInv == Init => WalletInv
<1> SUFFICES ASSUME Init PROVE WalletInv
  OBVIOUS
<1>1. ui \in Ui /\ task \in [Tasks -> TaskRec] /\ \A t \in Tasks : task[t] = Idle
  BY DEF Init, Ui, TaskRec, Idle, Stages
<1>2. Flags
  BY <1>1 DEF Init, Flags, TaskTypes, IdleHasNoOp, FlagsHaveOwner, FlagsUp, Idle
<1>3. Banner /\ OtherTypes
  BY DEF Init, Banner, BannerTypes, TimerOfBanner, OtherTypes
<1> QED
  BY <1>2, <1>3 DEF WalletInv

\* Every action keeps it.
LEMMA NextInv == WalletInv /\ [Next]_walletVars => WalletInv'
<1> SUFFICES ASSUME WalletInv, [Next]_walletVars PROVE WalletInv'
  OBVIOUS
<1> USE DEF WalletInv
<1>0. account \in Accounts
  BY DEF OtherTypes
<1>1. ASSUME NEW op \in PanelOps, Panel(op) PROVE WalletInv'
  <2>1. Flags' BY <1>1, PanelKeepsFlags
  <2>2. Banner' BY <1>1, BannerUnchanged DEF Panel
  <2> QED BY <1>1, <2>1, <2>2 DEF Panel, OtherTypes
<1>2. ASSUME NEW t \in Tasks, NEW op \in Ops, Begin(t, op) PROVE WalletInv'
  <2>1. Flags' BY <1>0, <1>2, BeginKeepsFlags
  <2>2. Banner' BY <1>2, BannerUnchanged DEF Begin
  <2> QED BY <1>2, <2>1, <2>2 DEF Begin, OtherTypes
<1>3. ASSUME NEW t \in Tasks, ApiFails(t) PROVE WalletInv'
  <2>1. Flags' BY <1>3, ApiFailsKeepsFlags
  <2>2. Banner' BY <1>3, BannerUnchanged DEF ApiFails
  <2> QED BY <1>3, <2>1, <2>2 DEF ApiFails, OtherTypes
<1>4. ASSUME NEW t \in Tasks, ApiAnswers(t) PROVE WalletInv'
  <2>1. Flags' BY <1>4, ApiAnswersKeepsFlags
  <2>2. Banner' BY <1>4, BannerUnchanged DEF ApiAnswers
  <2> QED BY <1>4, <2>1, <2>2 DEF ApiAnswers, OtherTypes
<1>5. ASSUME NEW t \in Tasks, WalletRefuses(t) PROVE WalletInv'
  <2>1. Flags' BY <1>5, SignErrorKeepsFlags DEF WalletRefuses
  <2>2. Banner' BY <1>5, BannerUnchanged DEF WalletRefuses, SignError
  <2> QED BY <1>5, <2>1, <2>2 DEF WalletRefuses, SignError, OtherTypes
<1>6. ASSUME NEW t \in Tasks, WalletSigns(t) PROVE WalletInv'
  <2>1. Flags' BY <1>6, WalletSignsKeepsFlags
  <2>2. UNCHANGED <<account, signer, banner, timer, refreshing>>
    BY <1>6 DEF WalletSigns, SignError
  <2>3. Banner' BY <2>2, BannerUnchanged
  <2> QED BY <2>1, <2>2, <2>3 DEF OtherTypes
<1>7. ASSUME NEW t \in Tasks, BroadcastSucceeds(t) PROVE WalletInv'
  <2>1. Flags' BY <1>7, BroadcastEndKeepsFlags DEF BroadcastSucceeds
  <2>2. Banner' BY <1>7, ShowKeepsBanner DEF BroadcastSucceeds
  <2>4. task[t].account \in Accounts
    BY <1>7 DEF BroadcastSucceeds, At, Flags, IdleHasNoOp
  <2> QED BY <1>7, <2>1, <2>2, <2>4 DEF BroadcastSucceeds, OtherTypes
<1>8. ASSUME NEW t \in Tasks, BroadcastFails(t) PROVE WalletInv'
  <2>1. Flags' BY <1>8, BroadcastEndKeepsFlags DEF BroadcastFails
  <2>2. Banner' BY <1>8, ShowKeepsBanner DEF BroadcastFails
  <2> QED BY <1>8, <2>1, <2>2 DEF BroadcastFails, OtherTypes
<1>9. ASSUME NEW a \in Accounts, Refreshed(a) \/ SelectAccount(a) \/ SelectSigner(a)
      PROVE WalletInv'
  <2>1. Flags' BY <1>9, FlagsUnchanged DEF Refreshed, SelectAccount, SelectSigner
  <2>2. Banner' BY <1>9, BannerUnchanged DEF Refreshed, SelectAccount, SelectSigner
  <2> QED BY <1>9, <2>1, <2>2 DEF Refreshed, SelectAccount, SelectSigner, OtherTypes
<1>10. CASE MarginAlert
  <2>1. Flags' BY <1>10, FlagsUnchanged DEF MarginAlert
  <2>2. Banner' BY <1>10, ShowKeepsBanner DEF MarginAlert
  <2> QED BY <1>10, <2>1, <2>2 DEF MarginAlert, OtherTypes
<1>11. CASE DismissTimer \/ HandleManualDismiss
  <2>1. Flags' BY <1>11, FlagsUnchanged DEF DismissTimer, HandleManualDismiss
  <2>2. Banner' BY <1>11, HideKeepsBanner DEF DismissTimer, HandleManualDismiss
  <2> QED BY <1>11, <2>1, <2>2 DEF DismissTimer, HandleManualDismiss, OtherTypes
<1>12. CASE UNCHANGED walletVars
  <2>1. Flags' BY <1>12, FlagsUnchanged DEF walletVars
  <2>2. Banner' BY <1>12, BannerUnchanged DEF walletVars
  <2> QED BY <1>12, <2>1, <2>2 DEF walletVars, OtherTypes
<1>13. ASSUME NEW t \in Tasks,
              \/ OpenMarginPosition(t) \/ Settle(t)
              \/ DepositCollateral(t) \/ WithdrawCollateral(t)
              \/ BorrowLoanAction(t) \/ RepayLoanAction(t)
       PROVE WalletInv'
  <2>1. \E op \in Ops : Begin(t, op)
    BY <1>13 DEF OpenMarginPosition, Settle, DepositCollateral, WithdrawCollateral,
                 BorrowLoanAction, RepayLoanAction, Ops, PanelOps
  <2> QED BY <1>2, <2>1
<1> QED
  BY <1>1, <1>3, <1>4, <1>5, <1>6, <1>7, <1>8, <1>9, <1>10, <1>11, <1>12, <1>13
  DEF Next, Answers

\* It holds always.
LEMMA SpecInv == Spec => []WalletInv
<1> QED
  BY InitInv, NextInv, PTL DEF Spec

---------------------------------------------------------------------------
(* The theorems *)

\* Types: the state of marginReducer, the calls under way and the banner.
THEOREM WalletTypeCorrect == Spec => []TypeOK
<1> QED
  BY SpecInv, InvHasTypes, PTL

\* No flag of marginReducer outlives the operations, whatever their number and order.
THEOREM FlagsAreOwned == Spec => []FlagsHaveOwner
<1>1. WalletInv => FlagsHaveOwner
  BY DEF WalletInv, Flags
<1> QED
  BY <1>1, SpecInv, PTL

\* The timer of MarginAlertDisplay is never that of an alert that is not shown.
THEOREM TimerFollowsBanner == Spec => []TimerOfBanner
<1>1. WalletInv => TimerOfBanner
  BY DEF WalletInv, Banner
<1> QED
  BY <1>1, SpecInv, PTL

\* A step that leaves the operations, or ends one, starts none.
LEMMA KeepsOperations ==
    ASSUME task \in [Tasks -> TaskRec], NEW t \in Tasks, NEW s \in Tasks, NEW stage \in Stages,
           Move(s, stage) \/ End(s) \/ UNCHANGED task
    PROVE  task'[t].op \in {task[t].op, None}
  BY DEF Move, End, Idle, TaskRec

\* Only the button starts a settlement.
LEMMA StartsSettle ==
    ASSUME task \in [Tasks -> TaskRec], Next,
           NEW t \in Tasks, task[t].op = None, task'[t].op = "close"
    PROVE  Settle(t)
<1>1. ASSUME NEW s \in Tasks, NEW stage \in Stages, Move(s, stage) \/ End(s) \/ UNCHANGED task
      PROVE  FALSE
  BY <1>1, KeepsOperations, WalletAssumption DEF Ops
<1>2. Tasks # {} /\ "wallet" \in Stages /\ "broadcast" \in Stages
  BY DEF Stages
<1>3. ASSUME UNCHANGED task PROVE FALSE
  BY <1>1, <1>2, <1>3
<1>4. ASSUME NEW s \in Tasks, NEW op \in Ops, Begin(s, op) PROVE s = t /\ op = "close"
  BY <1>4, WalletAssumption DEF Begin, TaskRec, Ops
<1>5. \/ \E s \in Tasks, op \in PanelOps \cup {"open"} : Begin(s, op)
      \/ \E s \in Tasks : Settle(s)
      \/ \E s \in Tasks, stage \in Stages : Move(s, stage) \/ End(s)
      \/ UNCHANGED task
  <2>1. ASSUME NEW s \in Tasks, Answers(s) \/ WalletRefuses(s) \/ WalletSigns(s)
        PROVE  Move(s, "wallet") \/ Move(s, "broadcast") \/ End(s)
    BY <2>1 DEF Answers, ApiFails, ApiAnswers, BroadcastSucceeds, BroadcastFails, WalletRefuses,
                WalletSigns, SignError
  <2>2. ASSUME NEW s \in Tasks,
               \/ OpenMarginPosition(s)
               \/ DepositCollateral(s) \/ WithdrawCollateral(s)
               \/ BorrowLoanAction(s) \/ RepayLoanAction(s)
        PROVE  \E op \in PanelOps \cup {"open"} : Begin(s, op)
    BY <2>2 DEF OpenMarginPosition, DepositCollateral, WithdrawCollateral, BorrowLoanAction,
                RepayLoanAction, PanelOps
  <2>3. ASSUME \/ \E op \in PanelOps : Panel(op)
               \/ \E a \in Accounts : Refreshed(a) \/ SelectAccount(a) \/ SelectSigner(a)
               \/ MarginAlert \/ DismissTimer \/ HandleManualDismiss
        PROVE  UNCHANGED task
    BY <2>3 DEF Panel, Refreshed, SelectAccount, SelectSigner, MarginAlert, DismissTimer,
                HandleManualDismiss
  <2> QED
    BY <1>2, <2>1, <2>2, <2>3 DEF Next
<1> QED
  BY <1>1, <1>3, <1>4, <1>5 DEF Settle, Ops, PanelOps

\* "Settle & Withdraw" of OpenPositionsList is not pressed twice, unless an operation has
\* taken down the flag of one that goes on.
THEOREM SettlePressedOnce == Spec => PressedOnce
<1> DEFINE Again == (\E t \in Tasks : task[t].op = None /\ task'[t].op = "close")
                        /\ InFlight("close") # {}
<1>1. WalletInv /\ [Next]_walletVars => [Again => hidden]_walletVars
  <2> SUFFICES ASSUME WalletInv, Next, Again PROVE hidden
    OBVIOUS
  <2>1. task \in [Tasks -> TaskRec]
    BY DEF WalletInv, Flags, TaskTypes
  <2>2. PICK t \in Tasks : task[t].op = None /\ task'[t].op = "close"
    OBVIOUS
  <2>3. PICK s \in Tasks : task[s].op = "close"
    BY DEF InFlight
  <2>4. Settle(t)
    BY <2>1, <2>2, StartsSettle
  <2>5. ~Busy
    BY <2>4 DEF Settle
  <2>6. CASE ~hidden
    <3>1. task[s].stage # "idle"
      BY <2>3, WalletAssumption DEF WalletInv, Flags, IdleHasNoOp, Ops, PanelOps
    <3>2. task[s].stage \in {"api", "wallet", "broadcast"}
      BY <2>1, <3>1 DEF TaskRec, Stages
    <3> QED
      BY <2>3, <2>5, <2>6, <3>2 DEF WalletInv, Flags, FlagsUp, Busy
  <2> QED
    BY <2>6 DEF WalletInv, Flags, TaskTypes
<1> QED
  BY <1>1, SpecInv, PTL DEF Spec, PressedOnce
=============================================================================
