---------------------------- MODULE MarketHandler ----------------------------
(***************************************************************************)
(* The handler of one market in the dex engine                             *)
(* (backend/dex_engine/market_handler.go): a goroutine that takes the      *)
(* market's events one at a time and works on the in-memory book and on    *)
(* the tables orders, transactions, trades and launch_logs.  Every         *)
(* database write of a handler is a step of its own, so that a crash, a    *)
(* failed write, the launcher and the readers of the tables can come       *)
(* between any two of them.                                                *)
(*                                                                         *)
(* The launcher is here with the writes by which it hands the hash to a    *)
(* transaction and its trades; module Settlement has the rest of it.  The  *)
(* book's matching is external: Matches says what HandleNewOrder may       *)
(* return.                                                                 *)
(***************************************************************************)
EXTENDS OrderRow, Sequences

CONSTANTS
  Order,        \* order IDs: the hash of the signed order, so that the ID
  SideOf,       \* fixes the order's side,
  PriceOf,      \* its price
  AmountOf,     \* and its amount
  NoRow,        \* no row with that ID
  NoOrder,      \* no taker at work
  Dust,         \* may the book cancel a match or declare an order done early?
  LauncherStops, \* may the launcher stop between two of its writes?
  MaxCrashes, MaxDbErrors, MaxRepeats  \* bounds on faults

ASSUME OrderAssumption ==
  /\ Order # {}
  /\ IsFiniteSet(Order)
  /\ SideOf \in [Order -> {"buy", "sell"}]
  /\ PriceOf \in [Order -> Nat]
  /\ AmountOf \in [Order -> Nat \ {0}]
  /\ NoOrder \notin Order
  /\ NoRow \notin Row
  /\ NoRow \notin [available : Int, pending : Int, confirmed : Int, canceled : Int]

ASSUME BoundAssumption ==
  /\ Dust \in BOOLEAN
  /\ LauncherStops \in BOOLEAN
  /\ MaxCrashes \in Nat
  /\ MaxDbErrors \in Nat
  /\ MaxRepeats \in Nat

VARIABLES
  orders,       \* table orders: a row or NoRow for each ID
  txs,          \* tables transactions and launch_logs: transaction i is
                \* txs[i], its launch log's status is txs[i].log
  trades,       \* table trades
  book,         \* hydroEngine's resting amount of each order, 0 if none
  placed,       \* orders whose NEW_ORDER event has been popped
  launch,       \* the launcher in UpdateLaunchLogToPending: its next write,
                \* its transaction, the trades it has still to save

  pc,           \* where the handler is; "down" when the engine is not running
  taker,        \* handleNewOrder: eventOrder's ID; also the taker of the
                \* transaction at work in handleTransactionResult
  row,          \* the in-memory row of taker
  match,        \* matchResult
  todo,         \* makers the loop at work has not reached
  unsaved,      \* makers whose row the loop failed to save
  due,          \* trades handleTransactionResult has not reached
  tx,           \* the transaction at work
  outcome,      \* event.Status

  crashes, dbErrors, repeats  \* faults so far

db      == <<orders, txs, trades>>
locals  == <<taker, row, match, todo, unsaved, due, tx, outcome>>
faults  == <<crashes, dbErrors, repeats>>
vars    == <<db, book, placed, launch, pc, locals, faults>>

-----------------------------------------------------------------------------
Outcome == {"successful", "failed"}

TxStatus == {"pending"} \cup Outcome

LogStatus == {"none", "created"} \cup TxStatus

Tx == [status : TxStatus, hashed : BOOLEAN, log : LogStatus]

Trade == [tx : Nat, maker : Order, taker : Order, amount : Nat,
          status : TxStatus, hashed : BOOLEAN]

Launching == [step : {"poll", "saveTx", "saveTrades"}, tx : Nat, todo : SUBSET Nat]

Polling == [step |-> "poll", tx |-> 0, todo |-> {}]

PC == {"idle", "down", "makers", "insertTx", "insertLog", "insertTrades",
       "insertTaker", "confirmLog", "readTrades", "settleMaker", "settleTrade",
       "settleTaker"}

NoMatch == [fill |-> [m \in Order |-> 0], canceled |-> {}, done |-> {}]

Match == [fill : [Order -> Nat], canceled : SUBSET Order, done : SUBSET Order]

Makers(r) == {m \in Order : r.fill[m] > 0}

TypeOK ==
  /\ orders \in [Order -> Row \cup {NoRow}]
  /\ txs \in Seq(Tx)
  /\ trades \in Seq(Trade)
  /\ book \in [Order -> Nat]
  /\ placed \subseteq Order
  /\ launch \in Launching
  /\ pc \in PC
  /\ taker \in Order \cup {NoOrder}
  /\ row \in Row
  /\ match \in Match
  /\ todo \subseteq Order
  /\ unsaved \subseteq Order
  /\ due \subseteq DOMAIN trades
  /\ tx \in 0 .. Len(txs)
  /\ outcome \in Outcome
  /\ crashes \in 0 .. MaxCrashes
  /\ dbErrors \in 0 .. MaxDbErrors
  /\ repeats \in 0 .. MaxRepeats

LocalsReset ==
  /\ taker' = NoOrder
  /\ row' = FreshRow(0)
  /\ match' = NoMatch
  /\ todo' = {}
  /\ unsaved' = {}
  /\ due' = {}
  /\ tx' = 0
  /\ outcome' = "successful"

Init ==
  /\ orders = [o \in Order |-> NoRow]
  /\ txs = <<>>
  /\ trades = <<>>
  /\ book = [o \in Order |-> 0]
  /\ placed = {}
  /\ launch = Polling
  /\ pc = "idle"
  /\ taker = NoOrder
  /\ row = FreshRow(0)
  /\ match = NoMatch
  /\ todo = {}
  /\ unsaved = {}
  /\ due = {}
  /\ tx = 0
  /\ outcome = "successful"
  /\ crashes = 0
  /\ dbErrors = 0
  /\ repeats = 0

-----------------------------------------------------------------------------
(* The end of an event: a return, or a panic that handleEvent recovers.    *)
Return == pc' = "idle" /\ LocalsReset

(* A database call that succeeds or fails.                                 *)
Db(ok) ==
  /\ ok \in BOOLEAN
  /\ ~ok => dbErrors < MaxDbErrors
  /\ dbErrors' = IF ok THEN dbErrors ELSE dbErrors + 1
  /\ UNCHANGED <<crashes, repeats>>

(* `_ = UpdateOrder(order)`: the error is dropped.                         *)
UpdateOrder(o, r, ok) ==
  orders' = IF ok THEN [orders EXCEPT ![o] = r] ELSE orders

-----------------------------------------------------------------------------
(* hydroEngine.HandleNewOrder, external.  A sell order meets buy orders at *)
(* its price or above, a buy order sell orders at its price or below; the  *)
(* best price is matched first, and each match takes what both orders have. *)
Crossing(o) ==
  {m \in Order :
     /\ book[m] > 0
     /\ SideOf[m] # SideOf[o]
     /\ IF SideOf[o] = "sell" THEN PriceOf[m] >= PriceOf[o]
                              ELSE PriceOf[m] <= PriceOf[o]}

Better(m, n) ==
  IF SideOf[m] = "buy" THEN PriceOf[m] > PriceOf[n] ELSE PriceOf[m] < PriceOf[n]

Fills(o) ==
  {f \in [Order -> 0 .. AmountOf[o]] :
     /\ \A m \in Order : f[m] <= IF m \in Crossing(o) THEN book[m] ELSE 0
     /\ \/ Total(f) = AmountOf[o]
        \/ Total(f) < AmountOf[o] /\ \A m \in Crossing(o) : f[m] = book[m]
     /\ \A m, n \in Crossing(o) :
          f[n] > 0 /\ Better(m, n) => f[m] = book[m]
     /\ \A m, n \in Crossing(o) :
          0 < f[m] /\ f[m] < book[m] /\ 0 < f[n] /\ f[n] < book[n] => m = n}

(* What the taker leaves in the book.                                      *)
Leftover(o, f) == AmountOf[o] - Total(f)

Exhausted(o, f) ==
  {m \in Order : f[m] > 0 /\ f[m] = book[m]} \cup
  (IF Leftover(o, f) = 0 THEN {o} ELSE {})

Matches(o) ==
  {r \in [fill : Fills(o), canceled : SUBSET Crossing(o),
           done : SUBSET (Crossing(o) \cup {o})] :
     /\ r.canceled \subseteq Makers(r)
     /\ r.done \subseteq Makers(r) \cup {o}
     /\ Exhausted(o, r.fill) \subseteq r.done
     /\ Makers(r) = {} => r.done = {}
     /\ ~Dust => r.canceled = {} /\ r.done = Exhausted(o, r.fill)}

MutBookAfterLeavesMakers(o, r) ==
  [m \in Order |-> IF m = o THEN Leftover(o, r.fill) ELSE book[m]]
BookAfter(o, r) ==
  [m \in Order |-> IF m \in r.done THEN 0
                   ELSE IF m = o THEN Leftover(o, r.fill)
                   ELSE book[m] - r.fill[m]]

-----------------------------------------------------------------------------
(* handleNewOrder.                                                         *)
HandleNewOrder(o) ==
  /\ pc = "idle"
  /\ o \notin placed
  /\ placed' = placed \cup {o}
  /\ \E r \in Matches(o) :
       /\ book' = BookAfter(o, r)
       /\ match' = r
       /\ todo' = Makers(r)
       /\ pc' = IF Makers(r) = {} THEN "insertTaker" ELSE "makers"
  /\ taker' = o
  /\ row' = FreshRow(AmountOf[o])
  /\ UNCHANGED <<db, launch, unsaved, due, tx, outcome, faults>>

(* One round of the loop over the match items, best price first.           *)
MakerAfter(m) ==
  LET r == Matched(orders[m], match.fill[m], m \in match.canceled)
  IN  IF m \in match.done THEN Done(r) ELSE r

UpdateMaker(m, ok) ==
  /\ pc = "makers"
  /\ m \in todo
  /\ \A n \in todo : ~Better(n, m)
  /\ orders[m] # NoRow
  /\ UpdateOrder(m, MakerAfter(m), ok)
  /\ row' = Matched(row, match.fill[m], m \in match.canceled)
  /\ todo' = todo \ {m}
  /\ unsaved' = IF ok THEN unsaved ELSE unsaved \cup {m}
  /\ Db(ok)
  /\ UNCHANGED <<txs, trades, book, placed, launch, pc, taker, match, due, tx, outcome>>

(* A maker of the book without a row: the loop runs into a nil pointer.    *)
MutMakerMissingSkipped(m) ==
  /\ pc = "makers"
  /\ m \in todo
  /\ orders[m] = NoRow
  /\ todo' = todo \ {m}
  /\ UNCHANGED <<db, book, placed, launch, pc, taker, row, match, unsaved, due, tx,
                 outcome, faults>>
MakerMissing(m) ==
  /\ pc = "makers"
  /\ m \in todo
  /\ \A n \in todo : ~Better(n, m)
  /\ orders[m] = NoRow
  /\ Return
  /\ UNCHANGED <<db, book, placed, launch, faults>>

(* After the loop: TakerOrderIsDone, ExistMatchToBeExecuted.               *)
FinishTaker ==
  /\ pc = "makers"
  /\ todo = {}
  /\ row' = IF taker \in match.done THEN Done(row) ELSE row
  /\ pc' = IF Makers(match) \subseteq match.canceled THEN "insertTaker"
                                                    ELSE "insertTx"
  /\ UNCHANGED <<db, book, placed, launch, taker, match, todo, unsaved, due, tx, outcome,
                 faults>>

(* processTransactionAndLaunchLog saves the makers it settles once more:   *)
(* only a save that failed in the loop makes a difference.                 *)
SaveMakerAgain(m, ok) ==
  /\ pc = "insertTx"
  /\ m \in unsaved \ match.canceled
  /\ UpdateOrder(m, MakerAfter(m), ok)
  /\ unsaved' = unsaved \ {m}
  /\ Db(ok)
  /\ UNCHANGED <<txs, trades, book, placed, launch, pc, taker, row, match, todo, due, tx,
                 outcome>>

InsertTransaction(ok) ==
  /\ pc = "insertTx"
  /\ unsaved \subseteq match.canceled
  /\ Db(ok)
  /\ \/ /\ ok
        /\ txs' = Append(txs, [status |-> "pending", hashed |-> FALSE,
                               log |-> "none"])
        /\ tx' = Len(txs) + 1
        /\ pc' = "insertLog"
        /\ UNCHANGED <<taker, row, match, todo, unsaved, due, outcome>>
     \/ /\ ~ok
        /\ Return
        /\ UNCHANGED txs
  /\ UNCHANGED <<orders, trades, book, placed, launch>>

InsertLaunchLog(ok) ==
  /\ pc = "insertLog"
  /\ Db(ok)
  /\ \/ /\ ok
        /\ txs' = [txs EXCEPT ![tx].log = "created"]
        /\ todo' = Makers(match)
        /\ pc' = "insertTrades"
        /\ UNCHANGED <<taker, row, match, unsaved, due, tx, outcome>>
     \/ /\ ~ok
        /\ Return
        /\ UNCHANGED txs
  /\ UNCHANGED <<orders, trades, book, placed, launch>>

MutNewTradeWholeMaker(m) ==
  [tx |-> tx, maker |-> m, taker |-> taker, amount |-> AmountOf[m],
   status |-> "pending", hashed |-> FALSE]
NewTrade(m) == [tx |-> tx, maker |-> m, taker |-> taker,
                amount |-> match.fill[m], status |-> "pending",
                hashed |-> FALSE]

InsertTrade(m, ok) ==
  /\ pc = "insertTrades"
  /\ m \in todo
  /\ \A n \in todo : ~Better(n, m)
  /\ trades' = IF ok THEN Append(trades, NewTrade(m)) ELSE trades
  /\ todo' = todo \ {m}
  /\ Db(ok)
  /\ UNCHANGED <<orders, txs, book, placed, launch, pc, taker, row, match,
                 unsaved, due, tx, outcome>>

(* InsertOrder of the taker, last.                                         *)
InsertTaker(ok) ==
  /\ \/ pc = "insertTaker"
     \/ pc = "insertTrades" /\ todo = {}
  /\ UpdateOrder(taker, row, ok)
  /\ Return
  /\ Db(ok)
  /\ UNCHANGED <<txs, trades, book, placed, launch>>

-----------------------------------------------------------------------------
(* handleCancelOrder.  The row is written whatever the book says.          *)
HandleCancelOrder(o, ok) ==
  /\ pc = "idle"
  /\ orders[o] # NoRow
  /\ book' = [book EXCEPT ![o] = 0]
  /\ UpdateOrder(o, Canceled(orders[o]), ok)
  /\ Db(ok)
  /\ UNCHANGED <<txs, trades, placed, launch, pc, locals>>

-----------------------------------------------------------------------------
(* handleTransactionResult of the transaction t with outcome s.  The       *)
(* watcher sends the event while the launch log is pending; sent again, it *)
(* may be handled after the log has left that status.  A mined transaction *)
(* keeps its outcome.                                                      *)
HandleTransactionResult(t, s, ok) ==
  /\ pc = "idle"
  /\ txs[t].hashed
  /\ {txs[t].status, txs[t].log} \subseteq {"pending", s}
  /\ txs[t].log # "pending" => repeats < MaxRepeats
  /\ repeats' = IF txs[t].log = "pending" THEN repeats ELSE repeats + 1
  /\ ~ok => dbErrors < MaxDbErrors
  /\ dbErrors' = IF ok THEN dbErrors ELSE dbErrors + 1
  /\ txs' = IF ok THEN [txs EXCEPT ![t].status = s] ELSE txs
  /\ tx' = t
  /\ outcome' = s
  /\ pc' = "confirmLog"
  /\ UNCHANGED <<orders, trades, book, placed, launch, taker, row, match, todo,
                 unsaved, due, crashes>>

MutLaunchLogStaysPending(ok) ==
  /\ pc = "confirmLog"
  /\ pc' = "readTrades"
  /\ Db(ok)
  /\ UNCHANGED <<db, book, placed, launch, locals>>
UpdateLaunchLogsStatus(ok) ==
  /\ pc = "confirmLog"
  /\ txs' = IF ok THEN [txs EXCEPT ![tx].log = outcome] ELSE txs
  /\ pc' = "readTrades"
  /\ Db(ok)
  /\ UNCHANGED <<orders, trades, book, placed, launch, locals>>

TradesByHash(t) == {i \in DOMAIN trades : trades[i].tx = t /\ trades[i].hashed}

(* trades[0] of no trades, and a taker without a row, are panics.          *)
ReadTrades ==
  /\ pc = "readTrades"
  /\ LET found == TradesByHash(tx)
         o     == trades[CHOOSE i \in found : TRUE].taker
     IN  IF found = {} \/ orders[o] = NoRow
         THEN Return
         ELSE /\ due' = found
              /\ taker' = o
              /\ row' = orders[o]
              /\ pc' = "settleMaker"
              /\ UNCHANGED <<match, todo, unsaved, tx, outcome>>
  /\ UNCHANGED <<db, book, placed, launch, faults>>

(* One round of the loop over the trades, newest first: the maker's row,   *)
(* then the trade's.  The maker has a row (MakersStored).                  *)
Newest(i) == i \in due /\ \A j \in due : j <= i

SettleMaker(i, ok) ==
  LET m == trades[i].maker
      n == trades[i].amount
  IN  /\ pc = "settleMaker"
      /\ Newest(i)
      /\ Db(ok)
      /\ row' = Settled(row, n, outcome)
      /\ UpdateOrder(m, AutoSetStatusByAmounts(Settled(orders[m], n, outcome)), ok)
      /\ pc' = "settleTrade"
      /\ UNCHANGED <<txs, trades, book, placed, launch, taker, match, todo,
                     unsaved, due, tx, outcome>>

MutSettleTradeFirstOnly(i, ok) ==
  /\ pc = "settleTrade"
  /\ Newest(i)
  /\ trades' = [trades EXCEPT ![i].status = outcome]
  /\ due' = {}
  /\ pc' = "settleMaker"
  /\ Db(ok)
  /\ UNCHANGED <<orders, txs, book, placed, launch, taker, row, match, todo,
                 unsaved, tx, outcome>>
SettleTrade(i, ok) ==
  /\ pc = "settleTrade"
  /\ Newest(i)
  /\ trades' = IF ok THEN [trades EXCEPT ![i].status = outcome] ELSE trades
  /\ due' = due \ {i}
  /\ pc' = "settleMaker"
  /\ Db(ok)
  /\ UNCHANGED <<orders, txs, book, placed, launch, taker, row, match, todo,
                 unsaved, tx, outcome>>

SettleTaker(ok) ==
  /\ pc = "settleMaker"
  /\ due = {}
  /\ UpdateOrder(taker, AutoSetStatusByAmounts(row), ok)
  /\ Return
  /\ Db(ok)
  /\ UNCHANGED <<txs, trades, book, placed, launch>>

-----------------------------------------------------------------------------
(* UpdateLaunchLogToPending, when the launcher has sent the transaction:   *)
(* the launch log first, then the transaction, then one trade after the    *)
(* other of those the transaction has by then.  Each is a write of its own, *)
(* and the launcher may stop before any of them: on an error it panics.    *)
LaunchLog(t) ==
  /\ launch.step = "poll"
  /\ txs[t].log = "created"
  /\ txs' = [txs EXCEPT ![t].log = "pending"]
  /\ launch' = [step |-> "saveTx", tx |-> t, todo |-> {}]
  /\ UNCHANGED <<orders, trades, book, placed, pc, locals, faults>>

LaunchTransaction(t) ==
  /\ launch.step = "saveTx"
  /\ t = launch.tx
  /\ txs' = [txs EXCEPT ![t].hashed = TRUE]
  /\ LET found == {i \in DOMAIN trades : trades[i].tx = t}
     IN  launch' = IF found = {} THEN Polling
                   ELSE [step |-> "saveTrades", tx |-> t, todo |-> found]
  /\ UNCHANGED <<orders, trades, book, placed, pc, locals, faults>>

LaunchTrade(i) ==
  /\ launch.step = "saveTrades"
  /\ i \in launch.todo
  /\ \A j \in launch.todo : i <= j
  /\ trades' = [trades EXCEPT ![i].hashed = TRUE]
  /\ launch' = IF launch.todo = {i} THEN Polling
               ELSE [launch EXCEPT !.todo = @ \ {i}]
  /\ UNCHANGED <<orders, txs, book, placed, pc, locals, faults>>

LauncherStep ==
  \/ \E t \in DOMAIN txs : LaunchLog(t) \/ LaunchTransaction(t)
  \/ \E i \in DOMAIN trades : LaunchTrade(i)

LauncherStop ==
  /\ LauncherStops
  /\ launch.step # "poll"
  /\ launch' = Polling
  /\ UNCHANGED <<db, book, placed, pc, locals, faults>>

(* The engine stops anywhere: the book, the handler's locals and the event *)
(* it had popped are gone.                                                 *)
Crash ==
  /\ pc # "down"
  /\ crashes < MaxCrashes
  /\ crashes' = crashes + 1
  /\ pc' = "down"
  /\ LocalsReset
  /\ book' = [o \in Order |-> 0]
  /\ UNCHANGED <<db, placed, launch, dbErrors, repeats>>

(* NewMarketHandler: re-insert the orders with status pending.             *)
MutReinsertWholeAmount ==
  /\ pc = "down"
  /\ book' = [o \in Order |->
                IF orders[o] # NoRow /\ orders[o].status = "pending"
                THEN orders[o].amount ELSE 0]
  /\ pc' = "idle"
  /\ UNCHANGED <<db, placed, launch, locals, faults>>
NewMarketHandler ==
  /\ pc = "down"
  /\ book' = [o \in Order |->
                IF orders[o] = NoRow THEN 0
                ELSE IF orders[o].status = "pending" /\ orders[o].available > 0
                     THEN orders[o].available
                     ELSE 0]
  /\ pc' = "idle"
  /\ UNCHANGED <<db, placed, launch, locals, faults>>

-----------------------------------------------------------------------------
(* The rest of an event's handling once it has been taken.                 *)
HandlerStep ==
  \/ \E m \in Order : MakerMissing(m)
  \/ FinishTaker
  \/ ReadTrades
  \/ \E ok \in BOOLEAN :
       \/ \E m \in Order : UpdateMaker(m, ok) \/ SaveMakerAgain(m, ok)
                              \/ InsertTrade(m, ok)
       \/ InsertTransaction(ok)
       \/ InsertLaunchLog(ok)
       \/ InsertTaker(ok)
       \/ UpdateLaunchLogsStatus(ok)
       \/ \E i \in due : SettleMaker(i, ok) \/ SettleTrade(i, ok)
       \/ SettleTaker(ok)

Confirm(t) ==
  \E s \in Outcome, ok \in BOOLEAN : HandleTransactionResult(t, s, ok)

Next ==
  \/ \E o \in Order : HandleNewOrder(o)
  \/ \E o \in Order, ok \in BOOLEAN : HandleCancelOrder(o, ok)
  \/ \E t \in DOMAIN txs : Confirm(t)
  \/ LauncherStep
  \/ LauncherStop
  \/ HandlerStep
  \/ Crash
  \/ NewMarketHandler

Spec == Init /\ [][Next]_vars

(* The goroutine keeps running, the launcher polls for ever and the watcher *)
(* reports every mined transaction.                                        *)
Fairness ==
  /\ WF_vars(HandlerStep)
  /\ WF_vars(NewMarketHandler)
  /\ WF_vars(LauncherStep)
  /\ \A t \in 1 .. Cardinality(Order) : WF_vars(t \in DOMAIN txs /\ Confirm(t))

FairSpec == Spec /\ Fairness
-----------------------------------------------------------------------------
Present == {o \in Order : orders[o] # NoRow}

\* Units of o in trades with one of the statuses S, as maker or as taker.
Traded(o, S) ==
  Total([i \in {j \in DOMAIN trades : /\ o \in {trades[j].maker, trades[j].taker}
                                      /\ trades[j].status \in S}
           |-> trades[i].amount])

(* No step of any handler creates or loses a unit of an order: the four    *)
(* amounts add up to the signed amount, whatever crashes, whatever writes  *)
(* fail and however often a result is reported.                            *)
AmountsBalanced == \A o \in Present : Balanced(orders[o])

(* What makes AmountsBalanced inductive: the row the handler works on in   *)
(* memory is balanced as well, and belongs to an order.                    *)
RowAtWork == Balanced(row)

LocalsKnown ==
  /\ pc \in {"makers", "insertTx", "insertLog", "insertTrades", "insertTaker"} =>
       taker \in Order
  /\ pc \in {"insertLog", "insertTrades", "confirmLog"} => tx \in 1 .. Len(txs)

(* No handler meets a maker without a row once its match or its trade is   *)
(* under way: the nil pointer is met in the matching loop or not at all.   *)
Stored(S) == \A m \in S : orders[m] # NoRow

MakersStored ==
  /\ pc = "makers" => Stored(Makers(match) \ todo)
  /\ pc \in {"insertTx", "insertLog"} => Stored(Makers(match))
  /\ pc = "insertTrades" => Stored(todo)
  /\ Stored(unsaved)
  /\ \A i \in DOMAIN trades : orders[trades[i].maker] # NoRow

BalanceInv == TypeOK /\ LocalsKnown /\ RowAtWork /\ MakersStored /\ AmountsBalanced

\* The row of o as the loop over the makers leaves it.
Rests(o) == IF pc = "makers" /\ o \in todo THEN MakerAfter(o) ELSE orders[o]

(* While the engine runs, an order that rests in the in-memory book, or    *)
(* that a restart would look at, has in the book what the orders table     *)
(* says is available, at every point of every handler except for the       *)
(* makers the matching loop has yet to save; the two are written by        *)
(* different calls and the book is rebuilt from the table on a restart.    *)
(* A write that failed parts them until the next restart.  Every order is  *)
(* meant while no match was canceled and no result reported again: those   *)
(* can drive a pending amount below zero, the status then says the order   *)
(* is over, and a restart leaves out what it still has available.          *)
BookBacked ==
  pc # "down" /\ dbErrors = 0 =>
    \A o \in Present :
      (~Dust /\ repeats = 0) \/ Rests(o).status = "pending" \/ book[o] > 0
        => book[o] = Rests(o).available

(* The book never rests crossed, not even after a restart in the middle of *)
(* a match: re-inserted orders are not matched with each other, so a       *)
(* crossed book would stay crossed.  (After a write that failed it may.)   *)
NoCrossedBook ==
  dbErrors = 0 => \A o \in Order : book[o] > 0 => Crossing(o) = {}

(* With no fault in the way an order's pending amount is what it has in    *)
(* unsettled trades and its confirmed amount what it has in successful     *)
(* ones, whenever the handler is between two events.                       *)
AmountsMatchTrades ==
  pc = "idle" /\ crashes = 0 =>
    \A o \in Present : /\ orders[o].pending = Traded(o, {"pending"})
                       /\ orders[o].confirmed = Traded(o, {"successful"})

(* An order is never confirmed, nor locked and confirmed together, for     *)
(* more than it was matched for, wherever the engine crashes and restarts. *)
NeverOverSettled ==
  \A o \in Present :
    /\ orders[o].pending >= 0
    /\ orders[o].confirmed <= Traded(o, {"pending", "successful"})

(* The status column, by which the locked balance is summed and the book   *)
(* rebuilt, is the one the amounts call for.                               *)
StatusAgrees ==
  \A o \in Present : orders[o].status = StatusOf(orders[o])

(* A finished order is never written again with other amounts or another   *)
(* status: neither a late cancel nor a late result reopens it.             *)
FinishedIsFinal ==
  [][\A o \in Present : orders[o].status # "pending" => orders'[o] = orders[o]]_vars

(* The four amounts only move forward (module OrderLedger), under every    *)
(* crash and restart.                                                      *)
Ledger == INSTANCE OrderLedger WITH
  ledger <- [o \in Order |->
               IF orders[o] = NoRow THEN NoRow
               ELSE [available |-> orders[o].available,
                     pending   |-> orders[o].pending,
                     confirmed |-> orders[o].confirmed,
                     canceled  |-> orders[o].canceled]]

LedgerSpec == Ledger!Spec

\* Every trade takes a unit of two orders.
MaxTrades == Total(AmountOf) \div 2

(* A result settles every trade of its transaction that has the hash when  *)
(* the result comes, whatever the launcher is still writing, unless the    *)
(* engine stops.  (The trades that get the hash later stay pending:        *)
(* AllTradesSettle.)                                                       *)
ResultSettlesHashed ==
  \A i \in 1 .. MaxTrades :
    (i \in DOMAIN trades /\ trades[i].hashed /\ pc = "confirmLog" /\ tx = trades[i].tx)
      ~> \/ i \in DOMAIN trades /\ trades[i].status = txs[trades[i].tx].status
         \/ crashes > 0

(* Every trade is settled in the end.  The code does not have this: the    *)
(* launch log can be sent before the trades of its transaction are         *)
(* inserted, and those never get the hash.                                 *)
AllTradesSettle ==
  \A i \in 1 .. MaxTrades :
    (i \in DOMAIN trades) ~> (i \in DOMAIN trades /\ trades[i].status # "pending")
=============================================================================
