----------------------------- MODULE TraderPage -----------------------------
(***************************************************************************)
(* The page of a trader: the session of the selected account, the market   *)
(* shown, and the lists of its open orders, its trades and the trades of   *)
(* the market.  A list is loaded when it appears, when the account logs in *)
(* and when the market changes; in between it lives on the messages of the *)
(* websocket, and nothing orders those with the answers of the API.        *)
(*                                                                         *)
(* The orders and what the engine does with them, and the channel of the   *)
(* account at the websocket server, stand for the backend: MarketHandler   *)
(* and MarketFeed have them in detail.                                     *)
(***************************************************************************)
EXTENDS Naturals, Sequences, FiniteSets

CONSTANTS
    Accounts, Markets, Orders,
    OwnerOf, MarketOf,   \* order -> its account, its market
    None,
    PageSize,            \* how many rows a request for a list returns
    MaxRequests,         \* bound on the requests under way
    MaxEvents            \* bound on what users, the network and the engine do

ASSUME PageAssumption ==
    /\ OwnerOf \in [Orders -> Accounts] /\ MarketOf \in [Orders -> Markets]
    /\ None \notin Accounts \cup Markets \cup {"orders", "trades"} /\ Markets # {}
    /\ PageSize \in Nat \ {0} /\ MaxRequests \in Nat /\ MaxEvents \in Nat

VARIABLES
    page,      \* market, account, loggedIn, saved (tokens in localStorage), layout, view
    orders,    \* the store's orders: order -> status, or "none"
    trades,    \* the store's trades: order -> status of its trade, or "none"
    history,   \* the markets of the trades in the trade history
    guests,    \* accounts whose logout hangs on the requests without a token
    signing,   \* accounts asked to sign the login message
    requests,  \* requests to the API
    book,      \* order -> what became of it in the engine
    canceling, \* orders with a cancel event in the engine's queue
    follows,   \* accounts whose channel the connection has
    feed,      \* messages on their way to the page, in order
    agreed,    \* history: the lists that agreed with the engine when last loaded
    events

pageVars == <<page, orders, trades, history, guests, signing, requests, book,
              canceling, follows, feed, agreed, events>>

Nothing == [o \in Orders |-> "none"]
Pending == {"open", "matched"}
Lists == {"orders", "trades"}

\* The four layouts of App in two: desktop and laptop always show Orders, tablet and mobile
\* only in the tab of that name.
Layouts == {"wide", "tabbed"}

\* What may be in view: Orders begins with the open orders.
Mounted(layout) == IF layout = "wide" THEN {"orders"} ELSE {"orders", None}

---------------------------------------------------------------------------
(* The reducers *)

\* ORDER_UPDATE: a pending order is put in or replaced, any other is deleted.
OrderUpdate(list, o, status) == [list EXCEPT ![o] = IF status \in Pending THEN status ELSE "none"]

CancelOrder(list, o) == [list EXCEPT ![o] = "none"]

TradeUpdate(list, o, status) == [list EXCEPT ![o] = status]

\* MutOnOrders: the market of the order is not compared.
MutOnOrders(list, m) == IF m.about = "orders" THEN OrderUpdate(list, m.id, m.status) ELSE list

\* onmessage takes the messages about the market shown.
OnOrders(list, m) ==
    IF m.about = "orders" /\ MarketOf[m.id] = page.market THEN OrderUpdate(list, m.id, m.status) ELSE list
OnTrades(list, m) ==
    IF m.about = "trades" /\ MarketOf[m.id] = page.market THEN TradeUpdate(list, m.id, m.status) ELSE list

---------------------------------------------------------------------------
(* The engine's side *)

Mine(p) == {o \in Orders : OwnerOf[o] = p.account /\ MarketOf[o] = p.market}

Select(S) == [o \in Orders |-> IF o \in S THEN book[o] ELSE "none"]

\* The rows a request finds.
Rows(list, p) ==
    {o \in Mine(p) : book[o] \in IF list = "orders" THEN Pending ELSE {"matched", "settled"}}

Message(list, o, status) == [about |-> list, id |-> o, status |-> status]

---------------------------------------------------------------------------
(* What the tables show *)

\* Open orders without an amount left are not shown.
OpenRows(list) == {o \in Orders : list[o] = "open"}

\* All trades of the list are shown, whatever their status.
TradeRows(list) == {o \in Orders : list[o] # "none"}

\* The messages on their way about an order, for a list.
Heard(list, o) == {i \in DOMAIN feed : feed[i].about = list /\ feed[i].id = o}

\* What a list will be when the messages on their way have been taken: the last about an
\* order decides on its row.
Coming(list, base) ==
    [o \in Orders |->
        LET heard == Heard(list, o)
            last  == feed[CHOOSE i \in heard : \A j \in heard : j <= i]
        IN IF heard = {} THEN base[o]
           ELSE IF list = "orders" THEN OnOrders(base, last)[o] ELSE OnTrades(base, last)[o]]

OrdersFollow(base) ==
    LET rows == OpenRows(Coming("orders", base))
    IN /\ \A o \in Mine(page) \ canceling : o \in rows <=> book[o] = "open"
       /\ \A o \in rows : MarketOf[o] = page.market

TradesFollow(base) ==
    LET list == Coming("trades", base)
    IN /\ \A o \in Mine(page) : list[o] = IF book[o] \in {"matched", "settled"} THEN book[o] ELSE "none"
       /\ \A o \in TradeRows(list) : MarketOf[o] = page.market

---------------------------------------------------------------------------
(* Session and requests *)

HasToken(p) == p.account # None /\ p.account \in p.saved
LoggedIn(p) == p.account # None /\ p.account \in p.loggedIn

\* A request of the API module: without a token of the account its answers run the
\* hooks of every account that made one like it.
Request(op, subject, p, g) ==
    [op |-> op, about |-> subject, account |-> p.account, market |-> p.market,
     hooks |-> IF HasToken(p) THEN {p.account} ELSE (g \cup {p.account}) \ {None},
     answer |-> None]

\* The requests are made for the page p.
Ask(ops, p) ==
    /\ requests' = requests \cup {Request(op[1], op[2], p, guests) : op \in ops}
    /\ Cardinality(requests') <= MaxRequests
    /\ guests' = IF ops = {} \/ HasToken(p) THEN guests ELSE (guests \cup {p.account}) \ {None}

\* The list in view is loaded when it is mounted and when the page changes from p to q.
LoadOnMount(q) == IF LoggedIn(q) /\ q.view # None THEN {<<q.view, None>>} ELSE {}
LoadOnUpdate(p, q) ==
    IF LoggedIn(q) /\ q.view # None /\ (~LoggedIn(p) \/ p.market # q.market)
    THEN {<<q.view, None>>} ELSE {}

\* App loads the trade history of a market that is new to it.
HistoryOf(m) == {<<"history", m>>}

\* LOGIN; the locked balances login asks for belong to TokenInfo.
Login(p, a) == [p EXCEPT !.loggedIn = @ \cup {a}]

\* LOGOUT, and the tokens are forgotten.
Logout(p, S) == [p EXCEPT !.loggedIn = @ \ S, !.saved = @ \ S]

Event == events < MaxEvents /\ events' = events + 1
Changed(lists) == agreed' = [l \in Lists |-> agreed[l] /\ l \notin lists]

---------------------------------------------------------------------------
FirstMarket == CHOOSE m \in Markets : TRUE

Init ==
    /\ page \in [market : {None}, account : Accounts \cup {None}, loggedIn : {{}},
                 saved : SUBSET Accounts, layout : Layouts, view : {"orders", None}]
    /\ page.layout = "wide" <=> page.view = "orders"
    /\ orders = Nothing /\ trades = Nothing /\ history = {}
    /\ guests = {} /\ signing = {} /\ requests = {}
    /\ book = Nothing /\ canceling = {} /\ follows = {} /\ feed = <<>>
    /\ agreed = [l \in Lists |-> FALSE]
    /\ events = 0

\* The markets are loaded and the page appears: the header logs the account in when a
\* token is saved, which loads the list in view.
LoadMarkets ==
    /\ page.market = None
    /\ LET p == [page EXCEPT !.market = FirstMarket]
           q == IF HasToken(p) THEN Login(p, p.account) ELSE p
       IN /\ page' = q
          /\ Ask(HistoryOf(FirstMarket) \cup LoadOnMount(q), q)
    /\ UNCHANGED <<orders, trades, history, signing, book, canceling, follows, feed,
                   agreed, events>>

\* UPDATE_CURRENT_MARKET, and the updates of App and of the list in view.
SelectMarket(m) ==
    /\ Event
    /\ page.market \notin {None, m}
    /\ LET q == [page EXCEPT !.market = m]
       IN page' = q /\ Ask(HistoryOf(m) \cup LoadOnUpdate(page, q), q)
    /\ history' = {}
    /\ Changed(Lists)
    /\ UNCHANGED <<orders, trades, signing, book, canceling, follows, feed>>

\* The wallet selects an account: with a token saved the header logs it in.  The lists are
\* updated before and after.
SelectAccount(a) ==
    /\ Event
    /\ page.account # a
    /\ LET p == [page EXCEPT !.account = a]
           q == IF page.market # None /\ HasToken(p) THEN Login(p, a) ELSE p
       IN /\ page' = q
          /\ IF page.market = None THEN UNCHANGED <<requests, guests>>
             ELSE Ask(LoadOnUpdate(page, p) \cup LoadOnUpdate(p, q), q)
    /\ Changed(Lists)
    /\ UNCHANGED <<orders, trades, history, signing, book, canceling, follows, feed>>

\* A list comes into view, or goes out of it.
Show(layout, view) ==
    /\ Event
    /\ page.market # None
    /\ LET q == [page EXCEPT !.layout = layout, !.view = view]
       IN page' = q /\ Ask(LoadOnMount(q), q)
    /\ UNCHANGED <<orders, trades, history, signing, book, canceling, follows, feed,
                   agreed>>

\* The tabs of the mobile layout, and of Fold in the tablet's.
SelectTab ==
    /\ page.layout = "tabbed"
    /\ Show("tabbed", IF page.view = None THEN "orders" ELSE None)

\* The selector of Orders: open orders or trades.
SelectList ==
    /\ page.view # None
    /\ Show(page.layout, IF page.view = "orders" THEN "trades" ELSE "orders")

\* The window is resized: another layout is mounted.
Resize(layout) ==
    /\ page.layout # layout
    /\ \E view \in Mounted(layout) : Show(layout, view)

\* The connect button: loginRequest asks the wallet of the selected account to sign.
LoginRequest ==
    /\ Event
    /\ page.market # None /\ page.account # None /\ ~LoggedIn(page)
    /\ signing' = signing \cup {page.account}
    /\ UNCHANGED <<page, orders, trades, history, guests, requests, book, canceling,
                   follows, feed, agreed>>

\* MutSigned: the session begins and the token is not saved.
MutSigned(a) ==
    /\ a \in signing
    /\ signing' = signing \ {a}
    /\ LET q == Login(page, a)
       IN page' = q /\ Ask(LoadOnUpdate(page, q), q)
    /\ UNCHANGED <<orders, trades, history, book, canceling, follows, feed, agreed, events>>

\* The token is saved and the account that signed is logged in, whoever is selected now.
Signed(a) ==
    /\ a \in signing
    /\ signing' = signing \ {a}
    /\ LET q == Login([page EXCEPT !.saved = @ \cup {a}], a)
       IN page' = q /\ Ask(LoadOnUpdate(page, q), q)
    /\ UNCHANGED <<orders, trades, history, book, canceling, follows, feed, agreed, events>>

Refused(a) ==
    /\ a \in signing
    /\ signing' = signing \ {a}
    /\ UNCHANGED <<page, orders, trades, history, guests, requests, book, canceling,
                   follows, feed, agreed, events>>

\* The cancel button of a row.
AskCancel(o) ==
    /\ Event
    /\ page.view = "orders" /\ o \in OpenRows(orders)
    /\ Ask({<<"cancel", o>>}, page)
    /\ UNCHANGED <<page, orders, trades, history, signing, book, canceling, follows, feed,
                   agreed>>

---------------------------------------------------------------------------
(* The API answers *)

\* The API reads the rows of the account the token is of, and no more than a page of them.
ServeList(r) ==
    /\ r.op \in Lists
    /\ \E S \in SUBSET Rows(r.op, r) :
           /\ S = Rows(r.op, r) \/ Cardinality(S) = PageSize
           /\ Cardinality(S) <= PageSize
           /\ requests' = (requests \ {r}) \cup {[r EXCEPT !.answer = Select(S)]}
    /\ UNCHANGED canceling

\* A cancel of a pending order is queued for the engine.
ServeCancel(r) ==
    /\ r.op = "cancel"
    /\ canceling' = IF book[r.about] \in Pending THEN canceling \cup {r.about} ELSE canceling
    /\ requests' = (requests \ {r}) \cup {[r EXCEPT !.answer = Nothing]}

Serve(r) ==
    /\ r \in requests /\ r.answer = None
    /\ ServeList(r) \/ ServeCancel(r)
    /\ UNCHANGED <<page, orders, trades, history, guests, signing, book, follows, feed,
                   agreed, events>>

Answered(r) ==
    /\ r \in requests
    /\ r.answer # None \/ r.op = "history"
    /\ requests' = requests \ {r}

\* LOAD_ORDERS and LOAD_TRADES put the answer in the place of the list, whichever account
\* and market it was asked for.
LoadOrders(r) ==
    /\ Answered(r) /\ r.op = "orders"
    /\ orders' = r.answer
    /\ agreed' = [agreed EXCEPT !.orders = OrdersFollow(r.answer)]
    /\ UNCHANGED <<page, trades, history, guests, signing, book, canceling, follows,
                   feed, events>>

LoadTrades(r) ==
    /\ Answered(r) /\ r.op = "trades"
    /\ trades' = r.answer
    /\ agreed' = [agreed EXCEPT !.trades = TradesFollow(r.answer)]
    /\ UNCHANGED <<page, orders, history, guests, signing, book, canceling, follows,
                   feed, events>>

\* MutLoadTradeHistory: the market is not compared.
MutLoadTradeHistory(r) ==
    /\ Answered(r) /\ r.op = "history"
    /\ history' = {r.about}
    /\ UNCHANGED <<page, orders, trades, guests, signing, book, canceling, follows, feed,
                   agreed, events>>

\* The trade history is taken when the market is still the one shown.
LoadTradeHistory(r) ==
    /\ Answered(r) /\ r.op = "history"
    /\ history' = IF page.market = r.about THEN {r.about} ELSE history
    /\ UNCHANGED <<page, orders, trades, guests, signing, book, canceling, follows, feed,
                   agreed, events>>

\* A cancel that was accepted takes the order off the list before the engine has done it.
Canceled(r) ==
    /\ Answered(r) /\ r.op = "cancel"
    /\ orders' = CancelOrder(orders, r.about)
    /\ UNCHANGED <<page, trades, history, guests, signing, book, canceling, follows, feed,
                   agreed, events>>

\* The request fails, or the API answers with an error.
Failed(r) ==
    /\ Event
    /\ r \in requests /\ requests' = requests \ {r}
    /\ UNCHANGED <<page, orders, trades, history, guests, signing, book, canceling,
                   follows, feed, agreed>>

\* The status -11: every hook of the request logs its account out and forgets the token.
Rejected(r) ==
    /\ Event
    /\ r \in requests /\ r.op # "history" /\ r.answer = None
    /\ requests' = requests \ {r}
    /\ page' = Logout(page, r.hooks)
    /\ UNCHANGED <<orders, trades, history, guests, signing, book, canceling, follows,
                   feed, agreed>>

---------------------------------------------------------------------------
(* The engine and the websocket server *)

\* The order gets a status; its account is told when the connection has its channel.
Becomes(o, status, lists) ==
    LET told == OwnerOf[o] \in follows
        about == IF lists = Lists THEN <<"orders", "trades">> ELSE <<"orders">>
    IN /\ book' = [book EXCEPT ![o] = status]
       /\ feed' = IF told THEN feed \o [i \in 1..Len(about) |-> Message(about[i], o, status)] ELSE feed
       /\ Changed(IF told \/ o \notin Mine(page) THEN {} ELSE lists)

EngineSteps(o) ==
    \/ book[o] = "none" /\ Becomes(o, "open", {"orders"})
    \/ book[o] = "open" /\ Becomes(o, "matched", Lists)
    \/ book[o] = "matched" /\ Becomes(o, "settled", Lists)

Engine(o) ==
    /\ Event
    /\ EngineSteps(o)
    /\ UNCHANGED <<page, orders, trades, history, guests, signing, requests, canceling,
                   follows>>

\* The engine takes the cancel: what is left of the order is canceled, and the account told.
EngineCancels(o) ==
    /\ o \in canceling
    /\ canceling' = canceling \ {o}
    /\ Becomes(o, IF book[o] = "open" THEN "canceled" ELSE book[o], {"orders"})
    /\ UNCHANGED <<page, orders, trades, history, guests, signing, requests, follows,
                   events>>

\* The server has read a subscription, or that the channel of another account is not wanted.
Subscribed ==
    /\ LoggedIn(page) /\ page.account \notin follows
    /\ follows' = follows \cup {page.account}
    /\ UNCHANGED <<page, orders, trades, history, guests, signing, requests, book,
                   canceling, feed, agreed, events>>
Unsubscribed(a) ==
    /\ a \in follows /\ ~(LoggedIn(page) /\ page.account = a)
    /\ follows' = follows \ {a}
    /\ UNCHANGED <<page, orders, trades, history, guests, signing, requests, book,
                   canceling, feed, agreed, events>>

\* The connection ends: its channels and the messages on their way are gone.
Drop ==
    /\ Event
    /\ follows # {}
    /\ follows' = {} /\ feed' = <<>>
    /\ Changed({feed[i].about : i \in DOMAIN feed})
    /\ UNCHANGED <<page, orders, trades, history, guests, signing, requests, book,
                   canceling>>

OnMessage ==
    /\ feed # <<>>
    /\ orders' = OnOrders(orders, Head(feed))
    /\ trades' = OnTrades(trades, Head(feed))
    /\ feed' = Tail(feed)
    /\ UNCHANGED <<page, history, guests, signing, requests, book, canceling, follows,
                   agreed, events>>

---------------------------------------------------------------------------
Next ==
    \/ LoadMarkets
    \/ \E m \in Markets : SelectMarket(m)
    \/ \E a \in Accounts \cup {None} : SelectAccount(a)
    \/ SelectTab \/ SelectList \/ \E layout \in Layouts : Resize(layout)
    \/ LoginRequest \/ \E a \in Accounts : Signed(a) \/ Refused(a) \/ Unsubscribed(a)
    \/ \E o \in Orders : AskCancel(o) \/ Engine(o) \/ EngineCancels(o)
    \/ \E r \in requests :
           \/ Serve(r) \/ Failed(r) \/ Rejected(r)
           \/ LoadOrders(r) \/ LoadTrades(r) \/ LoadTradeHistory(r) \/ Canceled(r)
    \/ Subscribed \/ Drop \/ OnMessage

Spec == Init /\ [][Next]_pageVars

---------------------------------------------------------------------------
(* Properties *)

\* Type invariant.
TypeOK ==
    /\ page \in [market : Markets \cup {None}, account : Accounts \cup {None},
                 loggedIn : SUBSET Accounts, saved : SUBSET Accounts, layout : Layouts,
                 view : Lists \cup {None}]
    /\ page.layout = "wide" => page.view # None
    /\ orders \in [Orders -> {"none"} \cup Pending]
    /\ trades \in [Orders -> {"none", "matched", "settled"}]
    /\ history \subseteq Markets
    /\ guests \subseteq Accounts /\ signing \subseteq Accounts
    /\ canceling \subseteq Orders /\ follows \subseteq Accounts
    /\ agreed \in [Lists -> BOOLEAN]

\* A list that agreed with the engine when it was loaded goes on agreeing, whatever the
\* engine, a cancel and other requests do and in whatever order they are heard of, until
\* the account or the market changes or the feed misses something: once the messages on
\* their way are taken, the open orders shown of the account are those open in the engine
\* (cancels not done yet aside), and so for its trades.
ListsFollow ==
    /\ agreed.orders => OrdersFollow(orders)
    /\ agreed.trades => TradesFollow(trades)

\* An account that is logged in has a token saved, through logins that come late and
\* sessions ended by the answer to another request.
SessionHasToken == page.loggedIn \subseteq page.saved

\* The trade history is of the market shown, although it is loaded by the one shown before.
HistoryOfMarket == history \subseteq {page.market}
=============================================================================
