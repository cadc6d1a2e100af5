# Hydro scaffold DEX in TLA+

This directory is a verification project for the decentralised exchange in
`src/`: a Go backend (matching engine, API, admin API, launcher, watcher, margin
monitor) and a React front end. Orders are matched off the chain, matches are
settled by transactions, and the result of a transaction comes back to the rows
of its orders and trades.

    orders ──> API ─┐                             ┌─> orders, trades,
    admin ──> admin ┼─> Redis queue ─> dex engine ┤   transactions,
    chain ─> watcher┘       ^                     └─> launch_logs
                            │                               │
                   watcher <── blocks <── node <── launcher <┘

## The system

| component | state | operations | talks to |
|---|---|---|---|
| market handler `dex_engine/market_handler.go` | in-memory book; tables `orders`, `trades`, `transactions`, `launch_logs` | NEW_ORDER, CANCEL_ORDER, CONFIRM_TRANSACTION; rebuilding the book at the start | dispatcher (channel), launcher and API (tables), web (messages) |
| dex engine `dex_engine/engine.go` | handlers and their channels | dispatch, OPEN_MARKET, CLOSE_MARKET, start, end | queue, market handlers, table `markets` |
| launcher `cli/launcher`, `models/helper.go` | nonce (library), `launch_logs` | poll, sign and send, store the hash in log, transaction and trades | node, tables |
| watcher `cli/watcher` | cached block number; `margin_active_positions` | per transaction: find the log, report the result; per contract event: position flags, messages | node, queue, tables |
| admin API `admin/api` | `markets` | create, edit (publish, unpublish), approve, cancel an order, restart | queue, `launch_logs` |
| order API `api/orders_service.go` | order cache (60 s) | build, place, cancel | queue, node (balances) |
| margin API `api/*_service.go` | none | prepares unsigned transactions | node |
| margin monitor `services/marginmonitor` | last alerts, previous states, prices | a cycle over markets and users | node, user queues, liquidation queue |
| websocket connector `web/src/components/WebsocketConnector`, on the vendored `reconnecting-websocket` | the connection, the channels last asked for, what waits to be said | say on a change of market or account, repeat after a reconnect, hand messages to the store | websocket server, store |
| market and account state `web/src/actions`, `reducers/account.js`, `reducers/market.js`, `lib` | session and tokens of localStorage, lists of orders and trades, trade history, balances | login, logout, load a list, cancel, select a market or an account | API, node, wallet |
| order form `web/src/components/Trade` | fields, derived totals, leverage | enter, compute, validate, submit: build, sign, place | API, wallet |
| margin state `web/src/actions/marginActions.js`, `reducers/marginReducer.js` | loading flags, the unsigned transaction, alerts, details, loans, balances and positions | six operations through API, wallet and broadcast; fetches and refreshes | API, wallet, user messages |

Every process runs on its own and is started again when it ends (`restart:
always` in the compose files). They share the tables, the Redis queue and the
cached block number, and nothing spans two of their writes: the code uses no
database transaction. That is where the hard behaviours come from:

* a handler makes many writes for one event, and a crash, a panic (recovered by
  `handleEvent`) or a failed write leaves the first of them;
* an event is gone once popped;
* the launcher and the watcher act on rows the engine is still writing;
* sending a transaction and storing its hash are two steps;
* a watcher that is restarted scans some blocks again, and others not at all;
* markets are opened and closed while events for them are on their way.

The web client has one thread and no lock to forget, but every `await` lets all
the rest happen: the account, the market or the connection changes between a
request and its answer, and operations of several buttons write the same flags.

What makes the components correct:

* **market handler**: no unit of an order is made or lost; a row says what was
  matched, settled and canceled, and its trades agree; the book is what the rows
  say; a result counts once;
* **dex engine**: published markets are served, an event goes to a handler that
  is running, in order, one at a time for each market;
* **launcher, watcher, engine together**: a launch log is sent once and in order,
  only what the chain did is reported, and every log is concluded;
* **margin events and monitor together**: the flags of a position end as the
  chain has them, a user in danger is told and the account queued;
* **websocket connector**: the server ends with the channels of what is shown;
* **market and account state**: lists, history and balances are those of the
  market and the account shown, whatever is answered late; who is logged in has
  a token;
* **order form**: what is shown and allowed follows from the inputs, an order is
  placed by whom it was built for;
* **margin state**: an operation is not started twice, no flag or alert is left
  over or hidden, the data of one account is not shown to another.

## Modules

| module | models | correspondence |
|---|---|---|
| `OrderRow` | `models/order.go`, and the row arithmetic of the handlers | one operator for each change of an order's amounts |
| `MarketHandler` | `market_handler.go`, with `service.go` and the DAOs it calls | one action for each database write; `pc` is the place in the handler, `row`, `match`, `todo`, `due` its locals. `launch` is the launcher in `UpdateLaunchLogToPending`: launch log, transaction and each trade are writes of their own (`LaunchLog`, `LaunchTransaction`, `LaunchTrade`), and it may stop between them. `Matches` says what the library's book may return |
| `OrderLedger` | abstract: what an order's row promises | `MarketHandler` implements it (`LedgerSpec`) |
| `Settlement` | `launcher/main.go`, `helper.go`, `watcher/main.go`, `handleTransactionResult` across processes | one action for each write, push, send or read that another process can come before or a crash can part: launch log and trades of a match, maker's row, trade and taker's row of a result |
| `LaunchLifecycle` | abstract: the life of a launch log | `Settlement` implements it (`LifecycleSpec`) |
| `DexEngine` | `engine.go`, `EditMarketHandler` | dispatcher, one record for each handler goroutine, one process for each admin request |
| `MarginPositions` | `watcher/main.go` (`MarginContractEventHandler`), `margin_active_position.go` | one action for each read of the chain, write and message of `Handle`; contract and prices are actions of the chain |
| `MarginMonitor` | `marginmonitor/main.go` | extends it with the monitor: one action for each part of a visit (read, alert, update, liquidation), between which the chain and the watcher move |
| `MarketFeed` | `WebsocketConnector`, `reconnecting-websocket@1.0.0.js` | `socket` is the reconnecting socket, `connector` the component's fields, `toServer` and `toPage` what is on its way; one action for each callback |
| `TraderPage` | `App.js`, `Header`, `Orders`, `actions/account.js`, `actions/markets.js`, `api.js`, `session.js`, the account and market reducers | one action for each thing the user does, each answer and each message; a request carries the account, market and hooks it was made with. `follows` stands for `MarketFeed`, `book` for `MarketHandler` |
| `TokenInfo` | `lib/wallet.js`, the token half of `actions/account.js`, `Wallet` | one action for each transaction step, poll and read; a balance is the version of the token it has seen |
| `TradeForm` | `components/Trade/index.js`, `tradeCalculator.js`, `actions/trade.js` | extends `TokenInfo`; each change of an input is followed by the update that computes, a submission has one action for each `await`; fields and totals outlive the component (`Unmount`, `Mount`), `computed` remembers what was computed last |
| `MarginWallet` | `marginActions.js` (operations), `marginReducer.js`, `MarginAccountPanel`, `OpenPositionsList`, `MarginAlertDisplay` | a `task` is a thunk between two awaits, `ui` the flags of the reducer, `banner` and `timer` the alert |
| `MarginView` | `marginActions.js` (fetches, refresh), `marginReducer.js`, the panel and the two lists, MARGIN_ACCOUNT_UPDATE of `WebsocketConnector` and of `websocketHandlers.js` | a `slot` is a place of the store data is fetched for; `pending` counts requests by account and slot. `AccountUpdate` is a message whose account was compared, `OnWebSocketMessage` one whose was not: by the socket `index.js` opens, or without an address |
| `MC*` | | constants and symmetry for TLC |
| `MarketHandlerProofs`, `DexEngineProofs`, `SettlementProofs` | | theorems about the pipeline of an order |
| `MarginProofs` | | theorems about the margin side: watcher, monitor and the data the client shows |
| `MarketFeedProofs`, `TraderPageProofs`, `TradeFormProofs`, `MarginWalletProofs` | | theorems about the client |

The first three concrete modules look at the same rows from different sides.
`MarketHandler` has the rows of orders, with what is matched and settled in them, and
the watcher as results that come at any time; `Settlement` has launcher, chain and
watcher, with of an order only whether a trade's amount has left pending; `DexEngine` leaves out what
handlers do. There, `"omitted"` stands for a request without the field
`isPublished`. `MarginMonitor` is apart: watcher and monitor share the table of
positions and the user's messages, and nothing with the orders. An account there
is what its assets and debts are worth, a ratio is in percent, time is counted
in cycles and ages only up to what the code compares them with; `update` is
MARGIN_ACCOUNT_UPDATE, the request to refresh that follows it carries nothing.
The monitor logs that a market without a rate skips its alerts; it skips its
updates and liquidations too (`Visit`). Amounts and prices are naturals: the code's decimals are exact and
only added, subtracted and compared. In the web modules market objects are read both as plain and as Immutable
objects; the representation is left out. Definitions named `Mut...` are faults a
change to the code could bring in; no specification uses them, they show that
the property next to them would notice.

The library (`hydro-sdk-backend`), the node and the block scanner are not in the
repository. They are modelled from how the code uses them: the book matches
crossing orders best price first, oldest or not, and with `Dust = TRUE` may
cancel a match or declare an order done, as the result's fields allow; the node
accepts transactions in order of nonce and mines them in that order; the scanner
hands over a block's transactions one after the other. The queue is a list that
neither loses nor repeats what it holds. `RunTillExitFromBlock(0)`, the start
with an empty cache, is taken to scan from the first block.

## Runs

| run | question | bounds |
|---|---|---|
| `crash` | do amounts, statuses and trades of the rows agree, move only forward, and does a result settle every trade that has the hash by then, if the engine stops between any two writes, and the launcher too? | 4 orders that cross at two prices, an exact book, 1 crash |
| `faults` | is a unit of an order ever made or lost, and is the book what the rows say, when writes fail, results are repeated and the book cancels matches? | the same orders, `Dust`, 1 crash, 1 failed write, 1 repeated result |
| `launch_race` | (violated) are all trades settled? | the same orders, no fault |
| `settlement` | is only what the chain did reported, each log sent once and in order, and each trade settled as often as its result was pushed at most, with its three rows in agreement? | 2 logs (a match of two trades, an approval), blocks of 2, 1 crash of each process, where a failed send counts as one of the launcher |
| `settlement_live` | is a log settled with its trades, if it is stored with them before the watcher comes past its transaction? | 2 logs (matches of two trades and of one), blocks of 2, 1 crash of the watcher, 1 lost push |
| `events` | are events sent to running handlers, in order, are the published markets the open ones, does a send end? | 2 markets, 1 administrator, 2 edits, 2 order events, 1 error, 1 crash |
| `margin` | do the flags of a position follow the contract, is danger told and queued, and does the user end with the newest message? | 1 user, 4 accounts around the two thresholds, 3 changes, 1 fault of any kind (a call that fails, a process that stops), a cooldown of 1 cycle |
| `feed` | does the server end with the channels of what is shown, and does the connection come back? | 2 markets, 2 accounts, 2 lost connections, 3 changes, 1 message published for each channel |
| `margin_wallet` | is a settlement started once, do buttons come back, does a timer only hide its own alert? | 2 accounts, 2 operations at a time, 3 in all, 1 alert of the monitor |
| `margin_view` | is margin data shown to whom it belongs, and does a refresh end in data or in an error? | 2 accounts, 2 markets, 4 events |
| `trader_page` | do the lists follow the engine through answers and messages in any order, has who is logged in a token, is the history that of the market? | 2 accounts, 2 markets, 2 orders, a page of 2 rows, 4 events, at most 3 requests under way |
| `trade_form` | do totals follow the inputs, is an order placed by whom it was built for, are balances up to date after a transaction? | a market with margin and one without, one set of margin details, 2 accounts, 1 transaction, 1 submission, 4 events |

Why these bounds: a match needs a taker and two makers for one of them to be
left over, for a second write to fail and for one of two trades to miss its
hash; a fourth order gives the book two price levels on a side. A launch log of
two trades, one approval and one of one trade are the shapes
`UpdateLaunchLogToPending` distinguishes, and two transactions in a block are the
least the watcher can leave in the middle. Two markets are the least that can
block one another, two edits of one market the least that close and reopen it.
Positions do not touch one another, neither in the watcher nor in the monitor
but for the order of visits, so one user is enough; three changes put collateral
in, borrow, and bring the account below the rate, with a fourth before it leaves
again. In the client, two accounts and two markets are the least in which something
of one can reach the other, two orders fill the page of two rows, and two operations
under way are the least that share a flag; the third can start when one has ended.
`MaxEvents` counts what users, engine and network begin, not what follows from it:
four are a request, a change of account or market, a change at the engine and a lost
connection or a failed answer, in any order. Each fault can strike once, at
every step. Deadlock is not checked: an exchange without orders, logs or edits
left to come is at rest.

Assumptions that are part of a run, not of the code: in `TokenInfo` a read
that is older than a watch is answered before the last read of the watch, 27
seconds later in the code (2 reads instead of 10 in the run); an account in
`Tied` has all of the token locked in orders.

Some properties state their condition themselves, and the run goes past it:

* `AmountsMatchTrades` needs an engine that has not stopped: a crash leaves a
  match without its trades. The trades of canceled matches (`market_handler.go:236`)
  are in the model with `Dust`, and the property is not checked there, as the code
  does not have it;
* `ResultSettlesHashed` speaks of the trades that have the hash when the result comes,
  and of an engine that does not stop: what gets the hash later is never settled
  (`launch_race`), nor what a crash left;
* `SettledAsReported` counts reports, of which the code pushes one in each life of the
  watcher: a second report is a second settlement, as nothing in
  `handleTransactionResult` looks at what was settled before;
* `SettledIffFinal` says for an engine that has stopped only which row is ahead;
* `StoredLogConcludes` speaks of launch logs stored with all their trades before the
  watcher comes past the transaction, and excuses a crash of the engine, a lost push,
  and a crash of the watcher when the block has other transactions: what the watcher
  finds without a launch log, or what these lose, is never settled;
* `BookBacked` and `NoCrossedBook` need writes that succeed: a failed write leaves
  the row behind the book. `BookBacked` speaks of every order only as long as the
  book leaves no dust and no result is repeated, and otherwise of those that rest
  in the book or are pending: a match that the book cancels is a trade all the
  same, so its result can drive a pending amount below zero, the status then says
  that an order is over which has some available, and a restart leaves it out;
* `OpenIffPublished` and `PublishedOpens` need approvals and events that succeed,
  or a restart: `EditMarketHandler` saves the market first, and nothing opens it
  afterwards. They are checked with one request at a time, as two requests save
  over each other's row;
* the margin properties leave out a position in `spoiled`: one with an event that
  was skipped by a restart, or handled with a read or a write that failed. No
  later step repairs its flags.

* `ListsFollow` speaks of lists that agreed when they were loaded (`agreed`): the
  API returns 20 rows, and what another account loaded is not replaced at a
  change of account. A list replaced by an answer older than a message taken before
  it is not `agreed` either, and stays wrong: only an answer newer than messages
  still to come is covered;
* `ShownIsOwn` leaves out slots in `foreign`, where a fetch for another account
  was answered after that for the one shown, or an update of another account came
  by the second socket: nothing compares them;
* `DerivedAgree` compares totals with the market they were last computed for
  (`computed`), and totals and decision with what is shown once something was
  computed since the component was mounted;
* `PressedOnce` leaves out the time after one operation has taken down the flag of
  another (`hidden`), which the code does;
* `TokensCatchUp` leaves out accounts in `missed`: a read failed, or the polling of
  a receipt, which nothing repeats.

Fairness: weak, of the steps a scheduled goroutine or a polling process takes by
itself (dispatcher, handler, launcher loop, watcher loop, the engine's
settlement, the monitor's cycle), of a started admin request going on, of
restarting, and of the chain mining what it accepted. The compose files restart
every process; the margin monitor is not in them and is taken to be restarted
too. In `MarketFeed`: of a socket that
opens or closes, of its timer, and of messages that are delivered. In
`MarginWallet`: of answers of API and broadcast; that the user answers the wallet
is a premise of `ButtonsComeBack`. Nothing is assumed of crashes, errors, users,
prices, the network and administrators.

## Proofs

Each proof goes through an inductive invariant: one lemma for each action, which
are put together in `Init => Inv` and `Inv /\ [Next]_vars => Inv'`. They rest on
nothing but the named assumptions about the constants (`OrderAssumption`,
`BoundAssumption`, `DexEngineAssumption`, `LogAssumption`, `ChainAssumption`,
`AccountAssumption`, `PositionsBoundAssumption`, `MonitorAssumption`,
`FeedAssumption`, `PageAssumption`, `TokenAssumption`, `FormAssumption`,
`WalletAssumption`, `ViewAssumption`, `NoneAssumption`), which TLC evaluates in the
runs, and on the hypotheses named below; the bounds on faults, requests
and events may be any number. The client's models assume that there is a market to
show (`Markets # {}`), as the page shows nothing before the markets are loaded.

`MarketHandlerProofs`, for every set of orders, every price and amount:

* `TypeCorrect`: `Spec => []TypeOK`;
* `Conservation`: `Spec => []AmountsBalanced`, every row's available, pending,
  confirmed and canceled amounts add up to its amount;
* `NoMakerLost`: `Spec => []MakersStored`, after the matching loop every maker of
  the match has a row, so that `SaveMakerAgain` and `NewTrade` meet one.

* `BookNeverCrossed`, `BookIsBacked`: `Spec => []NoCrossedBook` and
  `Spec => []BookBacked`;
* `StatusIsExact`: `Spec => [](~Dust /\ dbErrors = 0 => StatusAgrees)`;
* `SettledOnlyOnce`, `AmountsAreTrades`:
  `Spec => [](~Dust /\ dbErrors = 0 /\ repeats = 0 => ...)` of `NeverOverSettled`
  and `AmountsMatchTrades`;
* `FinishedForGood`, `ImplementsLedger`: `Spec => FinishedIsFinal` and
  `Spec => LedgerSpec`, assuming `~Dust`, `MaxDbErrors = 0` and `MaxRepeats = 0`,
  which are the constants of the run that checks them. The number of crashes is
  any number in all of them.

The conditions are what the code needs, not what the proof needs: of the last four
properties, with dust, with a failed write and with a repeated result, each without the
others, TLC finds each violated. `StatusAgrees` fails with dust; with a
failed write no instance was found where it does, nor a proof that it does not.

`AmountsBalanced` speaks of the table only, but a handler writes back rows it
read or was given before. `BalanceInv` therefore adds that the row in memory is
balanced as well (`RowAtWork`) and has the amount of its order, that the locals
are what the place in the handler implies (`LocalsKnown`), and `MakersStored`.
The lemmas about rows (`OrderRow`'s operators keep a row balanced), sequences
with one element changed, and the book come first.

`HandlerInv` puts four more parts to `BalanceInv`:

* `Structure`: trades, transactions, launch logs and rows refer to each other as
  the handlers made them (a trade's transaction is one there is, a transaction has
  one taker and its orders are placed), and the locals of a handler agree with the
  event it works on;
* `BookInv`: book and table say the same of an order, where each handler that is
  under way is allowed what it has yet to save, and the orders that rest in the
  book, or that a restart would put there, do not cross (`NewMarketHandler`
  re-inserts without matching);
* `StatusInv`: what `AutoSetStatusByAmounts` would say of a row, for the rows that
  are saved without it;
* `ExactInv`: `LiveInv` (an order that is over has nothing pending, in memory,
  table or book), `PendingInv` (the pending amount of a row is at least that of
  the trades whose result is still to come, as a crash between rows and trades
  leaves some pending for no trade) and `CountInv` (what is confirmed is covered by
  trades counted once each; without a crash both are equal).

A volume is the number of units of a set of trades (`Total` in `OrderRow`), so what
is said of sums follows from the library's facts about cardinality and no induction
over the trades is needed: an element added or removed, a part of a set, two sets
with the same amounts (`SumAdd`, `SumRemove`, `SumMonotone`, `SumSame`).
`ImplementsLedger` then needs, for each write of a row, the step of the ledger it
is: `LedgerStep` has one case for each action.

`DexEngineProofs`, for any finite set of markets and any administrators:

* `EngineTypeCorrect`: `Spec => []TypeOK`;
* `NoSendOnClosed`: `Spec => []NeverSendsOnClosed`. `Inv` adds where the map
  points: a market in `marketHandlerMap` has an open handler of its own
  (`MapPoints`), and so has the market of the event on its way
  (`SendsSomewhere`);
* `EventsBegunInOrder`: `Spec => []BegunInOrder`. `OrderInv` adds the order of
  the events that are still in the queue or in the dispatcher's hands;
* `ServedIfPublished`: `Spec => []OpenIffPublished`, for one administrator, any
  number of edits, crashes and restarts. `ToldInv` says at all times, not only at
  rest, who knows of a market: the last event in the queue that names it says
  whether it is published (`QueueTells`), with none in the queue the map of handlers
  does (`MapTells`), and between the row and the event `EditMarketHandler` has still
  to say it (`EditAtWork`). The hypothesis is needed: two requests for a market save
  over each other's row.

`SettlementProofs`, for any launch logs, block size and speed of the chain:

* `SettlementTypeCorrect`: `Spec => []TypeOK`;
* `ResultsAreTheChains`: `Spec => []ResultsAreMined`. `ConfirmLog` writes a
  result found by the hash of the *transaction* into the *launch log*, two rows
  the launcher fills in one after the other. `ResultInv` therefore says that
  the two hashes are the same once the transaction has one (`SameHash`), that a
  launch log still created has a transaction without (`UnsentHasNoHash`), and
  that the launcher between its writes is at such a one (`LauncherAtWork`);
* `SettlementsInOrder`: `Spec => []SentInOrder`. `OrderInv` says that whatever is
  still to be sent, in the batch or in the table, comes after what was sent, and
  what was created during a batch after that batch;
* `ImplementsLifecycle`: `Spec => LifecycleSpec`, the refinement: initial states
  map to initial states (`InitLife`), each step to a step of one launch log, to a
  block, or to a stutter (`LifeStep`). `OwnerInv` adds that a hash belongs to the
  launch log it was got for, so that a result concludes one log and never changes
  one concluded before;
* `LaunchSentOnce`: `Spec => []SentOnce`, by counting: one that can still be sent was
  sent only in attempts that ended in a crash or an error, and one whose hash the
  launcher holds or has stored can be sent no more (`OnceInv`);
* `SettledMeansFinal`: `Spec => []SettledIffFinal`. The launcher writes "pending" into
  a trade and could take a result back; `TradesInv` says that a trade has no hash
  before that write and nothing settles one without (`Finals`), what the rows of
  maker, trade and taker may differ by at each place of the engine (`Accounts`,
  `Lists`), and that a match under way has its trades still to insert (`Inserting`);
* `SettlementsAsReported`: `Spec => []SettledAsReported`, with no hypothesis on how fast
  the engine is. `ReportInv` counts: the results of a hash in the queue, with the one
  at work and the times its trades left pending, are no more than those pushed
  (`Reports`), a result pushed has a hash that is stored (`HashesKnown`), and in one
  life of the watcher none is pushed twice, as the block it is in only grows
  (`ReportedInLives`).

`MarketFeedProofs`, for any markets and accounts, any changes of the page and any
number of lost connections:

* `FeedTypeCorrect`: `Spec => []TypeOK`;
* `FeedSubscribedToCurrent`: `Spec => []SubscribedToCurrent`. The property speaks of
  an open connection; what it will be told when it opens is said while it is closed.
  `FeedInv` therefore says at all times that each channel wanted is *covered*
  (`Covers`): an open connection has it or will, and what waits in `preEvents`, said
  after the connection has opened and asked for it, does not take it away again. It adds that nothing waits once the socket is open (`Ready`), that the
  connector last asked for the market shown (`Shown`), and that who is logged in is
  in the storage the connector reads (`Session`). Lemmas about the last message of
  a sequence that concerns a channel come first;
* `FeedHistoryIsCurrent`: `Spec => []HistoryOfCurrentMarket`, which no run checks apart.

`TraderPageProofs`, for any accounts, markets and orders, and any number of requests
answered in any order:

* `LoggedInHasToken`: `Spec => []SessionHasToken`, and `HistoryIsOfMarket`:
  `Spec => []HistoryOfMarket`. `PageInv` is the two with the type of the page, and
  that a request for a trade history is about a market;
* `ListsFollowEngine`: `Spec => []ListsFollow`. What the page will hear of an order
  (`Coming`) is decided by the last message that is about it and of interest to the
  list (`LastHeard`, `ComingIs`); that there is a last one is the least-number
  principle on the natural numbers, from the library. `ListInv` adds
  that what is shown, answered or told of an order has been in the engine (`Born`,
  `RequestOK`, `FeedOK`), that an order whose cancel was accepted has it in the queue
  or is over (`RequestOK`), and that nothing is asked for before the markets are loaded
  (`Blank`). Each step of the page is
  then one of few kinds: a list starts again, a message is added, the first one is
  taken, messages are dropped with the list they were for;
* `PageTypeCorrect`: `Spec => []TypeOK`.

`TradeFormProofs`, for any markets, fees, rates, prices and amounts:

* `FormDerivedAgree`: `Spec => []DerivedAgree`. The form computes only when one of
  some fields has changed; the proof shows for each input that what is not computed
  again would have come out the same, or leaves a field empty, and for a component
  that comes and goes what of it is kept (`SameFormInv`, `MountInv`);
* `OrdersPlacedBySigner`: `Spec => []PlacedBySigner`. `OrderInv` adds that what waits
  for its signature or its request was built for the account that signs;
* `TokensAreCurrent`: `Spec => []TokensCatchUp`, for any number of accounts,
  transactions and reads. `WalletInv` says why an answer that a transaction has
  overtaken does no harm: that transaction is not told of yet, or the answer is older
  than the watch and comes before its last read (`OvertakenIsDue`); and what is shown
  and out of date is about to be read, or a transaction is due (`OldIsRead`).

`MarginWalletProofs`, for any accounts and any number of operations at a time:

* `WalletTypeCorrect`: `Spec => []TypeOK`;
* `FlagsAreOwned`: `Spec => []FlagsHaveOwner`, which no run checks apart;
* `SettlePressedOnce`: `Spec => PressedOnce`. The converse of `FlagsHaveOwner` is
  needed, that an operation under way has its flag up (`FlagsUp`); it holds until an
  operation takes down the flag of another (`hidden`), which is the exception the
  property names;
* `TimerFollowsBanner`: `Spec => []TimerOfBanner`.

`MarginProofs`, for any positions, accounts, prices, thresholds and faults:

* `FlagsFollowAccounts`: `Spec => []FlagsFollow`, the watcher and the monitor composed.
  The watcher takes an "increase" or a "borrow" on trust and reads the account for a
  "decrease" or a "repay", when the account may be ahead of the event. `FlagsInv` says
  for both kinds the same: an event in the log, the flag the watcher holds between its
  read and its write, and the row are right, or a later event of that kind will correct
  them (`EventsTell`, `FlagTells`, `RowsTell`). A restart only moves the place the
  watcher is at, and spoils what it skips;
* `MonitorTypeCorrect`: `Spec => []TypeOK`;
* `HealthyTellsAlerted`: `Spec => HealthyAfterAlert`. `AlertedInv`: whoever is in
  `lastAlertTimes` was told, unless a message was lost;

and for any accounts, markets and answers of the client:

* `ViewShowsOwn`: `ViewSpec => []ShownIsOwn`. `ViewInv` says of every slot the mounted
  components look at that it is the selected account's, was written for another one
  (`foreign`), or is hidden by its loading flag or its error;
* `RefreshTells`: `ViewSpec => RefreshEndsOrTells`. `TodoInv`: a refresh under way has
  something left to load.

So every invariant and every action property of the passing runs is proved, under the
hypotheses named, and so are the two refinements. Only model-checked are the liveness properties, as fairness
and ENABLED are out of the prover's reach: `ResultSettlesHashed`,
`StoredLogConcludes`, `PublishedOpens`, `SendEnds`, `DangerIsTold`,
`LiquidationQueued`, `UpdatesCatchUp`, `FeedRecovers`, `ButtonsComeBack`; and whether
the fairness in a specification is needed for them. What the theorems say is of the
models: that they say what the code does rests on the correspondence above.

## Disagreements

`launch_race` ends in a violation: it states what a comment says and finds the
code doing otherwise; `PROJECT.json` quotes it. Other places where the code does
not do what its words say, met while modelling and not run:

Backend:

* a trade is inserted and pending for every match item, canceled ones too, whose
  amounts the transaction does not have (`market_handler.go:236`);
* a watcher restarted between the push and the block number reports the result again,
  and the engine settles the trades a second time (`watcher/main.go:352`);
* a watcher restarted inside a block never reports the rest of the block, and one
  that is faster than the launcher's writes drops the result
  (`watcher/main.go:311,357`);
* a market closed and opened again has two handlers at a time (`engine.go:148`);
* an alert is not withdrawn when the position is closed, as only active ones are
  visited (`marginmonitor/main.go:138`).

Web client, which does not build as it stands: `actions/market`, `getAllMarkets`,
`getAddress`, `getMarketDetails`, `initiateRepayLoan` and other names are imported
and nowhere exported, `utils` and `prevState` in `Trade/index.js` and `data` in the
level2 branches of `WebsocketConnector` are undefined, so that the orderbook is
never filled. The modules take such a name as its use shows it. Beyond that:

* "load all my pending orders" (`actions/account.js:158`) loads one page of 20, and
  `LOAD_ORDERS` stores what was asked for another account or market;
* an order submitted before the login is created in the market and account selected
  after it (`Trade/index.js:376`); the total is compared with a balance in another
  unit (`:628`); the HOT discount is never applied;
* the response hooks pile up on the shared axios (`lib/api.js:22`), so that one
  expired session ends others;
* the polling of a receipt ends at the first network error (`lib/wallet.js:144`);
* the socket that `index.js:29-30` opens beside the connector's passes on
  MARGIN_ACCOUNT_UPDATE of any account (`websocketHandlers.js:33`), and the connector
  one without an address (`WebsocketConnector/index.js:252`);
* a form that is mounted again keeps fields and totals (`Trade/index.js:665`), also
  those of a market left meanwhile, and allows a margin order it has not computed
  (`:120`);
* "Store by effectiveUserAddress" (`marginActions.js:340`) stores by market;
* `ActiveLoansList` looks at `marginActionError`, not at the error of the loans
  (`:212`), and shows those of the account before after a failed fetch;
* `OpenPositionsList` prefills the order form with `amount` and `price`, and
  `uiReducer` reads `sizeToClose` and `closePriceSuggestion`;
* lists are not loaded again after a reconnect, and `LOAD_TRADE_HISTORY` replaces
  trades that came by websocket meanwhile;
* the chart drops a change of market that comes while it loads (`Charts/index.js:62`).

`OpenPositionsList`, `ActiveLoansList` and `Trade/Trade.js` are written and not
mounted by `App`; the first two are modelled as what they are for.

## Plan

1. Done: the pipeline of an order (`OrderRow`, `MarketHandler`, `OrderLedger`;
   `Settlement`, `LaunchLifecycle`; `DexEngine`), the margin side
   (`MarginPositions`, `MarginMonitor`), the web client (`MarketFeed`, `TraderPage`,
   `TokenInfo`, `TradeForm`, `MarginWallet`, `MarginView`) and the proofs above.
2. Proofs that say more than the runs: for two administrators, that a market is
   served as one of the last two requests left it; with a failed write,
   `StatusAgrees`.
3. `OrderApi` (`api/orders_service.go`, `models/balance.go`): build, cache, place
   and cancel on the server's side; the order that outlives its placement in the
   cache. `TradeForm` has of it what a client can see.
4. Fees and trade bars of the API against reference definitions.

Not modelled: the orderbook of the client (never filled), charts (state of one
component that nothing reads), auctions and the global notification (a value
fetched and shown), `Trade/Trade.js` and the prefilled form (not mounted). Request routing and validation of parameters,
packing of contract calls, the websocket server (the library's), the bots, the
CLI, rendering, vendored files. They keep no state, or are not in the
repository.
