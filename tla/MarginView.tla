----------------------------- MODULE MarginView -----------------------------
(***************************************************************************)
(* What the web client shows of a margin account: the fetches of           *)
(* actions/marginActions.js, what marginReducer keeps of their answers,    *)
(* the panel and the lists of open positions and of active loans that ask  *)
(* for them, and the updates the server pushes.                            *)
(*                                                                         *)
(* The store keeps the data by market and never by account, so an answer   *)
(* is shown to whoever is selected when it comes.  A slot is one place of  *)
(* the store that is loaded as a whole; what is in it is abstracted to the *)
(* accounts it is about.                                                   *)
(***************************************************************************)
EXTENDS Naturals, Sequences

CONSTANTS
    Accounts,
    Markets,      \* the markets with borrowing enabled
    None,         \* no account, no market; the market of the list of positions
    Reloads,      \* the assets an operation names for its refresh: one or two, in order
    MaxEvents     \* bound on what the user does, the broadcasts and the updates, together

ASSUME ViewAssumption ==
    /\ None \notin Accounts \cup Markets /\ Markets # {}
    /\ Reloads \subseteq {<<"base">>, <<"quote">>, <<"base", "quote">>, <<"quote", "base">>}
    /\ MaxEvents \in Nat

VARIABLES
    user,      \* the selected account
    panel,     \* MarginAccountPanel: mounted or not, the market it shows
    list,      \* whether OpenPositionsList is mounted
    loanList,  \* whether ActiveLoansList is mounted, for the first market
    data,      \* slot -> the accounts what it holds is about
    loading,   \* the slots whose loading flag is up
    error,     \* the slots with an error
    pending,   \* slot, account -> fetches of the components not answered yet
    refresh,   \* the refreshAllMarginDataForUserAndMarket under way
    foreign,   \* history: slots last written by a fetch for another account, or by an
               \* update whose account nobody looked at
    events

viewVars == <<user, panel, list, loanList, data, loading, error, pending, refresh, foreign,
              events>>

---------------------------------------------------------------------------
(* Slots *)

Details(m) == <<"details", m>>
Loans(m) == <<"loans", m>>
Spendable(m, asset) == <<asset, m>>
Positions == <<"positions", None>>

FirstMarket == CHOOSE m \in Markets : TRUE

\* What ActiveLoansList shows.
Listed == Loans(FirstMarket)

Slots == {Details(m) : m \in Markets} \cup {Loans(m) : m \in Markets}
             \cup {Spendable(m, asset) : m \in Markets, asset \in {"base", "quote"}}
             \cup {Positions}

\* A refresh under way: the account, and the slots it has still to load.
Refreshing == [user : Accounts, todo : Seq(Slots)]

ASSUME NoneAssumption == None \notin Refreshing

\* The components fetch these, the refresh all of them.
Fetched == {Details(m) : m \in Markets} \cup {Loans(m) : m \in Markets} \cup {Positions}

---------------------------------------------------------------------------
(* What the components show *)

\* The selectors of the panel: the details are hidden while they load and after an error.
ShownDetails(m) == Details(m) \notin loading \cup error /\ data[Details(m)] # {}

\* The debts are part of the details.
ShownLoans(m) == ShownDetails(m) /\ Loans(m) \notin loading \cup error /\ data[Loans(m)] # {}

ShownPositions == Positions \notin loading \cup error /\ data[Positions] # {}

Shown ==
    {Details(m) : m \in {n \in Markets : panel.market = n /\ ShownDetails(n)}}
    \cup {Loans(m) : m \in {n \in Markets : panel.market = n /\ ShownLoans(n)}}
    \cup {slot \in {Positions} : list /\ ShownPositions}

\* ActiveLoansList looks at the error of the operations, not at that of the loans.
ShownLoanList == loanList /\ Listed \notin loading /\ data[Listed] # {}

---------------------------------------------------------------------------
(* The fetches *)

Rest == [loading |-> loading, error |-> error, pending |-> pending]

\* X_REQUEST of each slot, and the request.
Fetch(slots, u, s) ==
    [loading |-> s.loading \cup slots, error |-> s.error \ slots,
     pending |-> [s.pending EXCEPT ![u] = [slot \in Slots |-> IF slot \in slots THEN @[slot] + 1
                                                              ELSE @[slot]]]]
Become(s) == loading' = s.loading /\ error' = s.error /\ pending' = s.pending

\* The effect of the panel on its market and the user.
PanelFetch(m, u, s) ==
    IF m # None /\ u # None THEN Fetch({Details(m), Loans(m)}, u, s) ELSE s

\* componentDidMount and componentDidUpdate of the list.
ListFetch(mounted, u, s) == IF mounted /\ u # None THEN Fetch({Positions}, u, s) ELSE s

\* fetchUserLoans, when ActiveLoansList is mounted and when the account changes.
FetchUserLoans(mounted, u, s) == IF mounted /\ u # None THEN Fetch({Listed}, u, s) ELSE s

\* X_SUCCESS: the answer replaces what the slot held, an error stays.
Success(slot, u) ==
    /\ data' = [data EXCEPT ![slot] = {u}]
    /\ foreign' = IF u = user THEN foreign \ {slot} ELSE foreign \cup {slot}
    /\ loading' = loading \ {slot} /\ UNCHANGED error

\* MutFail: the failure is forgotten.
MutFail(slot) == loading' = loading \ {slot} /\ UNCHANGED <<error, data, foreign>>

Fail(slot) ==
    loading' = loading \ {slot} /\ error' = error \cup {slot} /\ UNCHANGED <<data, foreign>>

---------------------------------------------------------------------------
ViewInit ==
    /\ user \in Accounts \cup {None}
    /\ panel = [mounted |-> FALSE, market |-> None] /\ list = FALSE /\ loanList = FALSE
    /\ data = [slot \in Slots |-> {}]
    /\ loading = {} /\ error = {} /\ foreign = {}
    /\ pending = [a \in Accounts |-> [slot \in Slots |-> 0]]
    /\ refresh = None
    /\ events = 0

Counted == events < MaxEvents /\ events' = events + 1

\* The first effect of the panel: the first market for a user, no market without one.
PanelMarket(u) ==
    IF ~panel.mounted \/ u = None THEN None
    ELSE IF panel.market = None THEN FirstMarket ELSE panel.market

\* The user selects another account, or none: the components fetch for the new one.
SelectAccount(u) ==
    /\ Counted /\ u # user
    /\ user' = u
    /\ panel' = [panel EXCEPT !.market = PanelMarket(u)]
    /\ Become(FetchUserLoans(loanList, u, ListFetch(list, u, PanelFetch(PanelMarket(u), u, Rest))))
    /\ UNCHANGED <<list, loanList, data, refresh, foreign>>

\* The margin tab of the wallet mounts the panel: it starts with the first market.
MountPanel ==
    /\ Counted /\ ~panel.mounted
    /\ panel' = [mounted |-> TRUE, market |-> IF user = None THEN None ELSE FirstMarket]
    /\ Become(PanelFetch(panel'.market, user, Rest))
    /\ UNCHANGED <<user, list, loanList, data, refresh, foreign>>
UnmountPanel ==
    /\ Counted /\ panel.mounted
    /\ panel' = [mounted |-> FALSE, market |-> None]
    /\ UNCHANGED <<user, list, loanList, data, loading, error, pending, refresh, foreign>>

HandleMarketChange(m) ==
    /\ Counted /\ panel.market \notin {None, m}
    /\ panel' = [panel EXCEPT !.market = m]
    /\ Become(PanelFetch(m, user, Rest))
    /\ UNCHANGED <<user, list, loanList, data, refresh, foreign>>

\* The list of open positions is mounted or unmounted.
ToggleList ==
    /\ Counted
    /\ list' = ~list
    /\ Become(ListFetch(list', user, Rest))
    /\ UNCHANGED <<user, panel, loanList, data, refresh, foreign>>

\* So is the list of active loans.
ToggleLoanList ==
    /\ Counted
    /\ loanList' = ~loanList
    /\ Become(FetchUserLoans(loanList', user, Rest))
    /\ UNCHANGED <<user, panel, list, data, refresh, foreign>>

---------------------------------------------------------------------------
(* Answers *)

\* The answer to a fetch for the account u, whoever is selected now.
Answer(slot, u) ==
    /\ pending[u][slot] > 0
    /\ pending' = [pending EXCEPT ![u][slot] = @ - 1]
    /\ Success(slot, u) \/ Fail(slot)
    /\ UNCHANGED <<user, panel, list, loanList, refresh, events>>

---------------------------------------------------------------------------
(* refreshAllMarginDataForUserAndMarket, after a broadcast *)

\* The account details, the spendable balances of the assets, the positions, the loans.
RefreshSlots(m, assets) ==
    <<Details(m)>> \o [i \in 1..Len(assets) |-> Spendable(m, assets[i])]
        \o <<Positions, Loans(m)>>

Requested(slot) == loading' = loading \cup {slot} /\ error' = error \ {slot}

\* A broadcast of the user u was accepted: a closed position names one asset to reload, any
\* other operation the collateral and the other asset.
StartRefresh(u, m, assets) ==
    /\ refresh = None
    /\ Counted
    /\ refresh' = [user |-> u, todo |-> RefreshSlots(m, assets)]
    /\ Requested(Details(m))
    /\ UNCHANGED <<user, panel, list, loanList, data, pending, foreign>>

\* The answer comes and the next fetch of the refresh starts.
RefreshAnswer ==
    /\ refresh # None
    /\ LET slot == Head(refresh.todo)
           todo == Tail(refresh.todo)
           down == loading \ {slot}
       IN /\ data' = [data EXCEPT ![slot] = {refresh.user}]
          /\ foreign' = IF refresh.user = user THEN foreign \ {slot} ELSE foreign \cup {slot}
          /\ IF todo = <<>>
             THEN refresh' = None /\ loading' = down /\ UNCHANGED error
             ELSE /\ refresh' = [refresh EXCEPT !.todo = todo]
                  /\ loading' = down \cup {Head(todo)} /\ error' = error \ {Head(todo)}
    /\ UNCHANGED <<user, panel, list, loanList, pending, events>>

\* A fetch that fails ends the refresh: what it had still to load keeps its old data.
RefreshFails ==
    /\ refresh # None
    /\ Fail(Head(refresh.todo))
    /\ refresh' = None
    /\ UNCHANGED <<user, panel, list, loanList, pending, events>>

---------------------------------------------------------------------------
\* MutAddressed: the account an update is about is not looked at.
MutAddressed(u) == TRUE

\* The connector passes on an update that names the selected account.
Addressed(u) == u = user

\* MARGIN_ACCOUNT_UPDATE is merged into the details of the market, whose ever they are.
Merge(m, u) == data' = [data EXCEPT ![Details(m)] = @ \cup {u}]

AccountUpdate(m, u) ==
    /\ Counted
    /\ Addressed(u)
    /\ Merge(m, u)
    /\ UNCHANGED <<user, panel, list, loanList, loading, error, pending, refresh, foreign>>

\* The second socket, which index.js opens beside the connector's, passes on every update;
\* so does the connector one that names no account.
OnWebSocketMessage(m, u) ==
    /\ Counted
    /\ Merge(m, u)
    /\ foreign' = IF user \in {None, u} THEN foreign ELSE foreign \cup {Details(m)}
    /\ UNCHANGED <<user, panel, list, loanList, loading, error, pending, refresh>>

ViewNext ==
    \/ \E u \in Accounts \cup {None} : SelectAccount(u)
    \/ MountPanel \/ UnmountPanel \/ ToggleList \/ ToggleLoanList
    \/ \E m \in Markets : HandleMarketChange(m)
    \/ \E u \in Accounts, m \in Markets :
           \/ \E assets \in Reloads : StartRefresh(u, m, assets)
           \/ AccountUpdate(m, u) \/ OnWebSocketMessage(m, u)
    \/ \E u \in Accounts, slot \in Fetched : Answer(slot, u)
    \/ RefreshAnswer \/ RefreshFails

ViewSpec == ViewInit /\ [][ViewNext]_viewVars

---------------------------------------------------------------------------
(* Properties *)

\* Type invariant.
ViewTypeOK ==
    /\ user \in Accounts \cup {None}
    /\ panel \in [mounted : BOOLEAN, market : Markets \cup {None}] /\ list \in BOOLEAN
    /\ loanList \in BOOLEAN
    /\ data \in [Slots -> SUBSET Accounts]
    /\ loading \subseteq Slots /\ error \subseteq Slots /\ foreign \subseteq Slots
    /\ pending \in [Accounts -> [Slots -> Nat]]
    /\ refresh = None \/ (refresh \in Refreshing /\ refresh.todo # <<>>)

\* The selected account is shown its own data and nobody else's, unless a fetch for another
\* account was answered after its own, or an update of another account came by the second
\* socket, which does not look at the account: the data of the account before is hidden by
\* the loading flag, or by the error when the fetch fails (the list of active loans does not
\* look at that error), until its own data has come.
ShownIsOwn ==
    user # None =>
        /\ \A slot \in Shown : data[slot] \subseteq {user} \/ slot \in foreign
        /\ ShownLoanList => data[Listed] \subseteq {user} \/ Listed \in foreign \cup error

\* A refresh that ends early leaves an error in the place it could not load: what it did not
\* reload is never stale in silence.
RefreshEndsOrTells ==
    [][refresh # None /\ refresh' = None
           => Len(refresh.todo) = 1 \/ Head(refresh.todo) \in error']_viewVars
=============================================================================
