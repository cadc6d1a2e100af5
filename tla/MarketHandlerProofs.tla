------------------------- MODULE MarketHandlerProofs -------------------------
(***************************************************************************)
(* What holds of MarketHandler for every set of orders, every fault budget *)
(* and every behaviour of the book.                                        *)
(***************************************************************************)
EXTENDS MarketHandler, FiniteSetTheorems, SequenceTheorems, TLAPS

-----------------------------------------------------------------------------
(* The arithmetic of one row: every operation keeps a row a row, and keeps *)
(* it balanced.                                                            *)
LEMMA StatusOfType ==
  ASSUME NEW r \in Row
  PROVE  StatusOf(r) \in OrderStatus
  BY DEF StatusOf, OrderStatus

LEMMA FreshRowBalanced ==
  ASSUME NEW n \in Nat
  PROVE  FreshRow(n) \in Row /\ Balanced(FreshRow(n))
  BY DEF FreshRow, Row, OrderStatus, Balanced

LEMMA RowUpdates ==
  ASSUME NEW r \in Row, NEW a \in Int, NEW b \in Int
  PROVE  /\ [r EXCEPT !.available = a, !.pending = b] \in Row
         /\ [r EXCEPT !.available = a, !.canceled = b] \in Row
         /\ [r EXCEPT !.canceled = a, !.available = 0] \in Row
         /\ [r EXCEPT !.pending = a, !.confirmed = b] \in Row
         /\ [r EXCEPT !.pending = a, !.canceled = b] \in Row
<1>1. [r EXCEPT !.available = a, !.pending = b] \in Row
  BY DEF Row
<1>2. [r EXCEPT !.available = a, !.canceled = b] \in Row
  BY DEF Row
<1>3. [r EXCEPT !.canceled = a, !.available = 0] \in Row
  <2>1. ASSUME NEW c \in Int
        PROVE  [r EXCEPT !.canceled = a, !.available = c] \in Row
    BY DEF Row
  <2>2. 0 \in Int
    OBVIOUS
  <2>3. QED
    BY <2>1, <2>2, Zenon
<1>4. [r EXCEPT !.pending = a, !.confirmed = b] \in Row
  BY DEF Row
<1>5. [r EXCEPT !.pending = a, !.canceled = b] \in Row
  BY DEF Row
<1>6. QED
  BY <1>1, <1>2, <1>3, <1>4, <1>5

LEMMA RowAmounts ==
  ASSUME NEW r \in Row
  PROVE  /\ r.amount \in Nat
         /\ r.available \in Int
         /\ r.pending \in Int
         /\ r.confirmed \in Int
         /\ r.canceled \in Int
  BY DEF Row

LEMMA MatchedBalanced ==
  ASSUME NEW r \in Row, Balanced(r), NEW n \in Nat, NEW b
  PROVE  Matched(r, n, b) \in Row /\ Balanced(Matched(r, n, b))
<1>1. /\ r.available - n \in Int
      /\ r.pending + n \in Int
      /\ r.canceled + n \in Int
  BY RowAmounts
<1>2. CASE b
  <2> DEFINE u == [r EXCEPT !.available = @ - n, !.canceled = @ + n]
  <2>1. u \in Row
    BY <1>1, RowUpdates
  <2>2. Balanced(u)
    BY DEF Row, Balanced
  <2>3. Matched(r, n, b) = u
    BY <1>2 DEF Matched
  <2>4. QED
    BY <2>1, <2>2, <2>3
<1>3. CASE ~b
  <2> DEFINE u == [r EXCEPT !.available = @ - n, !.pending = @ + n]
  <2>1. u \in Row
    BY <1>1, RowUpdates
  <2>2. Balanced(u)
    BY DEF Row, Balanced
  <2>3. Matched(r, n, b) = u
    BY <1>3 DEF Matched
  <2>4. QED
    BY <2>1, <2>2, <2>3
<1>4. QED
  BY <1>2, <1>3

LEMMA DoneBalanced ==
  ASSUME NEW r \in Row
  PROVE  Done(r) \in Row /\ Balanced(Done(r))
<1>1. r.amount - (r.confirmed + r.pending) \in Int
  BY RowAmounts
<1>2. Done(r) \in Row
  BY <1>1, RowUpdates DEF Done
<1>3. Balanced(Done(r))
  BY DEF Done, Row, Balanced
<1>4. QED
  BY <1>2, <1>3

LEMMA AutoSetStatusBalanced ==
  ASSUME NEW r \in Row, Balanced(r)
  PROVE  AutoSetStatusByAmounts(r) \in Row /\ Balanced(AutoSetStatusByAmounts(r))
  BY StatusOfType DEF AutoSetStatusByAmounts, Row, Balanced

LEMMA CanceledBalanced ==
  ASSUME NEW r \in Row, Balanced(r)
  PROVE  Canceled(r) \in Row /\ Balanced(Canceled(r))
<1> DEFINE c == [r EXCEPT !.canceled = @ + r.available, !.available = 0]
<1>1. r.canceled + r.available \in Int
  BY RowAmounts
<1>2. c \in Row
  BY <1>1, RowUpdates
<1>3. Balanced(c)
  BY DEF Row, Balanced
<1>4. QED
  BY <1>2, <1>3, AutoSetStatusBalanced DEF Canceled

LEMMA SettledBalanced ==
  ASSUME NEW r \in Row, Balanced(r), NEW n \in Nat, NEW s \in Outcome
  PROVE  Settled(r, n, s) \in Row /\ Balanced(Settled(r, n, s))
<1>1. /\ r.pending - n \in Int
      /\ r.confirmed + n \in Int
      /\ r.canceled + n \in Int
  BY RowAmounts
<1>2. Settled(r, n, s) \in Row
  BY <1>1, RowUpdates DEF Settled
<1>3. Balanced(Settled(r, n, s))
  BY DEF Settled, Row, Balanced
<1>4. QED
  BY <1>2, <1>3

-----------------------------------------------------------------------------
(* The book after a match holds no negative amount.                        *)
LEMMA TotalOfFill ==
  ASSUME NEW n \in Nat, NEW f \in [Order -> 0 .. n]
  PROVE  Total(f) \in Nat
<1>1. IsFiniteSet(1 .. n)
  BY FS_Interval
<1>2. IsFiniteSet(Order \X (1 .. n))
  BY <1>1, FS_Product, OrderAssumption
<1>3. Units(f) \in SUBSET (Order \X (1 .. n))
  <2> SUFFICES ASSUME NEW u \in Units(f)
               PROVE  u \in Order \X (1 .. n)
    OBVIOUS
  <2>1. PICK x \in Order : u \in {x} \X (1 .. f[x])
    BY DEF Units
  <2>2. f[x] \in 0 .. n
    OBVIOUS
  <2>3. QED
    BY <2>1, <2>2
<1>4. QED
  BY <1>2, <1>3, FS_Subset, FS_CardinalityType DEF Total

LEMMA BookAfterType ==
  ASSUME TypeOK, NEW o \in Order, NEW r \in Matches(o)
  PROVE  /\ BookAfter(o, r) \in [Order -> Nat]
         /\ r \in Match
         /\ Makers(r) \subseteq Order
<1>1. AmountOf[o] \in Nat
  BY OrderAssumption
<1>2. r.fill \in Fills(o) /\ r.canceled \subseteq Order /\ r.done \subseteq Order
  BY DEF Matches, Crossing
<1>3. r.fill \in [Order -> 0 .. AmountOf[o]]
  BY <1>2 DEF Fills
<1>4. Total(r.fill) \in Nat
  BY <1>1, <1>3, TotalOfFill
<1>5. Leftover(o, r.fill) \in Nat
  BY <1>1, <1>2, <1>4 DEF Fills, Leftover
<1>6. ASSUME NEW m \in Order
      PROVE  book[m] - r.fill[m] \in Nat
  <2>1. r.fill[m] \in Nat /\ book[m] \in Nat
    BY <1>1, <1>3 DEF TypeOK
  <2>2. r.fill[m] <= IF m \in Crossing(o) THEN book[m] ELSE 0
    BY <1>2 DEF Fills
  <2>3. QED
    BY <2>1, <2>2
<1>7. BookAfter(o, r) \in [Order -> Nat]
  BY <1>5, <1>6 DEF BookAfter
<1>8. r \in Match
  <2>1. r \in [fill : Fills(o), canceled : SUBSET Order, done : SUBSET Order]
    BY DEF Matches, Crossing
  <2>2. r.fill \in [Order -> Nat]
    BY <1>1, <1>3
  <2>3. QED
    BY <2>1, <2>2 DEF Match
<1>9. QED
  BY <1>7, <1>8 DEF Makers
-----------------------------------------------------------------------------
(* BalanceInv is inductive.                                                *)
LEMMA ResetType ==
  ASSUME LocalsReset
  PROVE  /\ taker' \in Order \cup {NoOrder}
         /\ row' \in Row
         /\ Balanced(row')
         /\ match' \in Match
         /\ todo' = {}
         /\ unsaved' = {}
         /\ due' = {}
         /\ tx' = 0
         /\ outcome' \in Outcome
<1>1. row' \in Row /\ Balanced(row')
  BY FreshRowBalanced DEF LocalsReset
<1>2. match' \in Match
  BY DEF LocalsReset, NoMatch, Match
<1>3. QED
  BY <1>1, <1>2 DEF LocalsReset, Outcome

LEMMA DbType ==
  ASSUME TypeOK, NEW ok \in BOOLEAN, Db(ok)
  PROVE  /\ dbErrors' \in 0 .. MaxDbErrors
         /\ crashes' \in 0 .. MaxCrashes
         /\ repeats' \in 0 .. MaxRepeats
  BY BoundAssumption DEF TypeOK, Db

LEMMA UpdateOrderBalanced ==
  ASSUME TypeOK, AmountsBalanced,
         NEW o, NEW r \in Row, Balanced(r), NEW ok \in BOOLEAN,
         UpdateOrder(o, r, ok)
  PROVE  /\ orders' \in [Order -> Row \cup {NoRow}]
         /\ AmountsBalanced'
         /\ \A p \in Order : orders[p] # NoRow => orders'[p] # NoRow
<1>1. orders' = orders \/ orders' = [orders EXCEPT ![o] = r]
  BY DEF UpdateOrder
<1>2. orders' \in [Order -> Row \cup {NoRow}]
  BY <1>1 DEF TypeOK
<1>3. ASSUME NEW p \in Order, orders'[p] # NoRow
      PROVE  Balanced(orders'[p])
  BY <1>1, <1>3 DEF TypeOK, AmountsBalanced, Present
<1>4. ASSUME NEW p \in Order, orders[p] # NoRow
      PROVE  orders'[p] # NoRow
  BY <1>1, <1>4, OrderAssumption DEF TypeOK
<1>5. QED
  BY <1>2, <1>3, <1>4 DEF AmountsBalanced, Present

LEMMA TxsUpdate ==
  ASSUME TypeOK, NEW t \in 1 .. Len(txs), NEW e \in Tx
  PROVE  /\ [txs EXCEPT ![t] = e] \in Seq(Tx)
         /\ Len([txs EXCEPT ![t] = e]) = Len(txs)
  BY ExceptSeq DEF TypeOK

LEMMA TxsUpdated ==
  ASSUME TypeOK, NEW t \in 1 .. Len(txs), NEW e \in Tx,
         txs' = txs \/ txs' = [txs EXCEPT ![t] = e]
  PROVE  txs' \in Seq(Tx) /\ Len(txs') = Len(txs)
<1>1. txs \in Seq(Tx)
  BY DEF TypeOK
<1>2. QED
  BY <1>1, TxsUpdate

LEMMA TradesUpdate ==
  ASSUME TypeOK, NEW i \in 1 .. Len(trades), NEW e \in Trade
  PROVE  /\ [trades EXCEPT ![i] = e] \in Seq(Trade)
         /\ Len([trades EXCEPT ![i] = e]) = Len(trades)
  BY ExceptSeq DEF TypeOK

LEMMA TxOf ==
  ASSUME TypeOK, NEW t \in 1 .. Len(txs)
  PROVE  txs[t] \in Tx
  BY ElementOfSeq DEF TypeOK

LEMMA TradesUpdated ==
  ASSUME TypeOK, NEW i \in 1 .. Len(trades), NEW e \in Trade,
         trades' = trades \/ trades' = [trades EXCEPT ![i] = e]
  PROVE  trades' \in Seq(Trade) /\ Len(trades') = Len(trades)
<1>1. trades \in Seq(Trade)
  BY DEF TypeOK
<1>2. QED
  BY <1>1, TradesUpdate

LEMMA TxFields ==
  ASSUME NEW t \in Tx
  PROVE  /\ \A s \in TxStatus : [t EXCEPT !.status = s] \in Tx
         /\ \A s \in LogStatus : [t EXCEPT !.log = s] \in Tx
         /\ \A s \in LogStatus, h \in BOOLEAN :
              [t EXCEPT !.log = s, !.hashed = h] \in Tx
  BY DEF Tx

LEMMA TradeFields ==
  ASSUME TypeOK, NEW i \in DOMAIN trades
  PROVE  /\ i \in 1 .. Len(trades)
         /\ trades[i] \in Trade
         /\ trades[i].maker \in Order
         /\ trades[i].taker \in Order
         /\ trades[i].amount \in Nat
         /\ trades[i].tx \in Nat
<1>1. trades \in Seq(Trade)
  BY DEF TypeOK
<1>2. i \in 1 .. Len(trades) /\ trades[i] \in Trade
  BY <1>1
<1>3. QED
  BY <1>2 DEF Trade

LEMMA BalanceInit == Init => BalanceInv
<1> SUFFICES ASSUME Init
             PROVE  BalanceInv
  OBVIOUS
<1>1. row \in Row /\ Balanced(row)
  BY FreshRowBalanced DEF Init
<1>2. match \in Match
  BY DEF Init, NoMatch, Match
<1>3. TypeOK
  <2>1. launch \in Launching
    BY DEF Init, Polling, Launching
  <2> QED
    BY <1>1, <1>2, <2>1, BoundAssumption DEF Init, TypeOK, PC, Outcome
<1>4. AmountsBalanced
  BY DEF Init, AmountsBalanced, Present
<1>5. LocalsKnown
  BY DEF Init, LocalsKnown
<1>6. MakersStored
  BY DEF Init, MakersStored, Stored
<1>7. QED
  BY <1>1, <1>3, <1>4, <1>5, <1>6 DEF BalanceInv, RowAtWork

LEMMA BalanceNewOrder ==
  ASSUME BalanceInv, NEW o \in Order, HandleNewOrder(o)
  PROVE  BalanceInv'
<1> USE DEF BalanceInv
<1>1. PICK r \in Matches(o) :
        /\ book' = BookAfter(o, r)
        /\ match' = r
        /\ todo' = Makers(r)
        /\ pc' = IF Makers(r) = {} THEN "insertTaker" ELSE "makers"
  BY DEF HandleNewOrder
<1>2. book' \in [Order -> Nat] /\ match' \in Match /\ todo' \subseteq Order
  BY <1>1, BookAfterType
<1>3. row' \in Row /\ Balanced(row')
  BY FreshRowBalanced, OrderAssumption DEF HandleNewOrder
<1>4. TypeOK'
  BY <1>1, <1>2, <1>3 DEF HandleNewOrder, TypeOK, PC, db, faults
<1>5. LocalsKnown' /\ AmountsBalanced'
  BY DEF HandleNewOrder, LocalsKnown, AmountsBalanced, Present, db
<1>6. MakersStored'
  BY <1>1 DEF HandleNewOrder, MakersStored, Stored, db
<1>7. QED
  BY <1>3, <1>4, <1>5, <1>6 DEF RowAtWork

LEMMA MakerAfterBalanced ==
  ASSUME BalanceInv, NEW m \in Order, orders[m] # NoRow
  PROVE  /\ MakerAfter(m) \in Row
         /\ Balanced(MakerAfter(m))
<1> USE DEF BalanceInv
<1> DEFINE r == Matched(orders[m], match.fill[m], m \in match.canceled)
<1>1. orders[m] \in Row /\ Balanced(orders[m])
  BY DEF TypeOK, AmountsBalanced, Present
<1>2. match.fill[m] \in Nat
  BY DEF TypeOK, Match
<1>3. r \in Row /\ Balanced(r)
  BY <1>1, <1>2, MatchedBalanced
<1> HIDE DEF r
<1>4. MakerAfter(m) = IF m \in match.done THEN Done(r) ELSE r
  BY DEF MakerAfter, r
<1>5. QED
  BY <1>3, <1>4, DoneBalanced

LEMMA BalanceUpdateMaker ==
  ASSUME BalanceInv, NEW m \in Order, NEW ok \in BOOLEAN, UpdateMaker(m, ok)
  PROVE  BalanceInv'
<1> USE DEF BalanceInv
<1>1. /\ orders' \in [Order -> Row \cup {NoRow}]
      /\ AmountsBalanced'
      /\ \A p \in Order : orders[p] # NoRow => orders'[p] # NoRow
  BY MakerAfterBalanced, UpdateOrderBalanced DEF UpdateMaker
<1>2. match.fill[m] \in Nat
  BY DEF TypeOK, Match
<1>3. row' \in Row /\ Balanced(row')
  BY <1>2, MatchedBalanced DEF UpdateMaker, TypeOK, RowAtWork
<1>4. TypeOK'
  BY <1>1, <1>3, DbType DEF UpdateMaker, TypeOK
<1>5. LocalsKnown'
  BY DEF UpdateMaker, LocalsKnown
<1>6. MakersStored'
  BY <1>1, TradeFields DEF UpdateMaker, TypeOK, MakersStored, Stored, Makers
<1>7. QED
  BY <1>1, <1>3, <1>4, <1>5, <1>6 DEF RowAtWork

LEMMA BalanceFinishTaker ==
  ASSUME BalanceInv, FinishTaker
  PROVE  BalanceInv'
<1> USE DEF BalanceInv
<1>1. row' \in Row /\ Balanced(row')
  BY DoneBalanced DEF FinishTaker, TypeOK, RowAtWork
<1>2. TypeOK'
  BY <1>1 DEF FinishTaker, TypeOK, PC, db, faults
<1>3. LocalsKnown' /\ AmountsBalanced'
  BY DEF FinishTaker, LocalsKnown, AmountsBalanced, Present, db
<1>4. MakersStored'
  BY DEF FinishTaker, MakersStored, Stored, db
<1>5. QED
  BY <1>1, <1>2, <1>3, <1>4 DEF RowAtWork

LEMMA BalanceSaveMakerAgain ==
  ASSUME BalanceInv, NEW m \in Order, NEW ok \in BOOLEAN, SaveMakerAgain(m, ok)
  PROVE  BalanceInv'
<1> USE DEF BalanceInv
<1>1. orders[m] # NoRow
  BY DEF SaveMakerAgain, MakersStored, Stored
<1>2. /\ orders' \in [Order -> Row \cup {NoRow}]
      /\ AmountsBalanced'
      /\ \A p \in Order : orders[p] # NoRow => orders'[p] # NoRow
  BY <1>1, MakerAfterBalanced, UpdateOrderBalanced DEF SaveMakerAgain
<1>3. TypeOK'
  BY <1>2, DbType DEF SaveMakerAgain, TypeOK
<1>4. MakersStored'
  BY <1>2, TradeFields DEF SaveMakerAgain, MakersStored, Stored, Makers, TypeOK
<1>5. QED
  BY <1>2, <1>3, <1>4 DEF SaveMakerAgain, LocalsKnown, RowAtWork

(* A handler that gives up or finishes without a further write.            *)
LEMMA BalanceReturn ==
  ASSUME BalanceInv, Return, UNCHANGED <<db, placed, launch>>, book' \in [Order -> Nat],
         /\ dbErrors' \in 0 .. MaxDbErrors
         /\ crashes' \in 0 .. MaxCrashes
         /\ repeats' \in 0 .. MaxRepeats
  PROVE  BalanceInv'
<1> USE DEF BalanceInv
<1>1. TypeOK'
  BY ResetType DEF Return, TypeOK, PC, db
<1>2. LocalsKnown' /\ AmountsBalanced' /\ RowAtWork'
  BY ResetType DEF Return, LocalsKnown, AmountsBalanced, Present, RowAtWork, db
<1>3. MakersStored'
  BY ResetType DEF Return, MakersStored, Stored, db
<1>4. QED
  BY <1>1, <1>2, <1>3

LEMMA BalanceMakerMissing ==
  ASSUME BalanceInv, NEW m \in Order, MakerMissing(m)
  PROVE  BalanceInv'
  BY BalanceReturn DEF MakerMissing, BalanceInv, TypeOK, faults, db

LEMMA BalanceInsertTransaction ==
  ASSUME BalanceInv, NEW ok \in BOOLEAN, InsertTransaction(ok)
  PROVE  BalanceInv'
<1> USE DEF BalanceInv
<1>1. CASE ok
  <2> DEFINE t == [status |-> "pending", hashed |-> FALSE, log |-> "none"]
  <2>1. t \in Tx
    BY DEF Tx, TxStatus, LogStatus
  <2>2. /\ txs' = Append(txs, t)
        /\ tx' = Len(txs) + 1
        /\ pc' = "insertLog"
        /\ UNCHANGED <<orders, trades, book, placed, launch, taker, row, match, todo,
                       unsaved, due, outcome>>
    BY <1>1 DEF InsertTransaction
  <2>3. txs' \in Seq(Tx) /\ tx' \in 0 .. Len(txs')
    BY <2>1, <2>2 DEF TypeOK
  <2>4. TypeOK'
    BY <2>2, <2>3, DbType DEF InsertTransaction, TypeOK, PC
  <2>5. MakersStored'
    BY <2>2 DEF InsertTransaction, MakersStored, Stored, Makers
  <2>6. QED
    BY <2>2, <2>4, <2>5
       DEF InsertTransaction, LocalsKnown, RowAtWork, AmountsBalanced, Present
<1>2. CASE ~ok
  BY <1>2, DbType, BalanceReturn DEF InsertTransaction, TypeOK, db
<1>3. QED
  BY <1>1, <1>2

LEMMA BalanceInsertLaunchLog ==
  ASSUME BalanceInv, NEW ok \in BOOLEAN, InsertLaunchLog(ok)
  PROVE  BalanceInv'
<1> USE DEF BalanceInv
<1>1. CASE ok
  <2>1. /\ txs' = [txs EXCEPT ![tx].log = "created"]
        /\ todo' = Makers(match)
        /\ pc = "insertLog"
        /\ pc' = "insertTrades"
        /\ UNCHANGED <<orders, trades, book, placed, launch, taker, row, match, unsaved,
                       due, tx, outcome>>
    BY <1>1 DEF InsertLaunchLog
  <2>2. txs' \in Seq(Tx) /\ Len(txs') = Len(txs)
    <3>1. tx \in 1 .. Len(txs)
      BY <2>1 DEF LocalsKnown
    <3>2. txs[tx] \in Tx /\ "created" \in LogStatus
      BY <3>1, TxOf DEF LogStatus
    <3>3. [txs[tx] EXCEPT !.log = "created"] \in Tx
      BY <3>2, TxFields, Zenon
    <3>4. txs' = [txs EXCEPT ![tx] = [txs[tx] EXCEPT !.log = "created"]]
      BY <2>1
    <3>5. QED
      BY <3>1, <3>3, <3>4, TxsUpdate
  <2>3. TypeOK'
    BY <2>1, <2>2, DbType DEF InsertLaunchLog, TypeOK, PC, Makers
  <2>4. MakersStored'
    BY <2>1 DEF MakersStored, Stored
  <2>5. QED
    BY <2>1, <2>3, <2>4
       DEF LocalsKnown, RowAtWork, AmountsBalanced, Present
<1>2. CASE ~ok
  BY <1>2, DbType, BalanceReturn DEF InsertLaunchLog, TypeOK, db
<1>3. QED
  BY <1>1, <1>2

LEMMA BalanceInsertTrade ==
  ASSUME BalanceInv, NEW m \in Order, NEW ok \in BOOLEAN, InsertTrade(m, ok)
  PROVE  BalanceInv'
<1> USE DEF BalanceInv
<1>1. taker \in Order /\ orders[m] # NoRow
  BY DEF InsertTrade, LocalsKnown, MakersStored, Stored
<1>2. match.fill[m] \in Nat /\ tx \in Nat
  BY DEF TypeOK, Match
<1>3. NewTrade(m) \in Trade
  BY <1>1, <1>2 DEF NewTrade, Trade, TxStatus
<1>4. trades' = trades \/ trades' = Append(trades, NewTrade(m))
  BY DEF InsertTrade
<1>5. trades' \in Seq(Trade) /\ Len(trades) <= Len(trades')
  <2>1. trades \in Seq(Trade)
    BY DEF TypeOK
  <2>2. QED
    BY <1>3, <1>4, <2>1, AppendProperties
<1>6. TypeOK'
  BY <1>5, DbType DEF InsertTrade, TypeOK
<1>7. \A i \in DOMAIN trades' : orders[trades'[i].maker] # NoRow
  <2>1. NewTrade(m).maker = m
    BY DEF NewTrade
  <2>2. CASE trades' = trades
    BY <2>2 DEF MakersStored
  <2>3. CASE trades' = Append(trades, NewTrade(m))
    BY <1>1, <1>3, <2>1, <2>3 DEF MakersStored, TypeOK
  <2>4. QED
    BY <1>4, <2>2, <2>3
<1>8. MakersStored'
  BY <1>7 DEF InsertTrade, MakersStored, Stored
<1>9. QED
  BY <1>6, <1>8 DEF InsertTrade, LocalsKnown, RowAtWork, AmountsBalanced, Present

(* A handler that ends with a last write of an order.                      *)
LEMMA BalanceLastWrite ==
  ASSUME BalanceInv, NEW o, NEW r \in Row, Balanced(r), NEW ok \in BOOLEAN,
         UpdateOrder(o, r, ok), Return, Db(ok),
         UNCHANGED <<txs, trades, book, placed, launch>>
  PROVE  BalanceInv'
<1> USE DEF BalanceInv
<1>1. /\ orders' \in [Order -> Row \cup {NoRow}]
      /\ AmountsBalanced'
      /\ \A p \in Order : orders[p] # NoRow => orders'[p] # NoRow
  BY UpdateOrderBalanced
<1>2. TypeOK'
  BY <1>1, ResetType, DbType DEF Return, TypeOK, PC
<1>3. LocalsKnown' /\ RowAtWork'
  BY ResetType DEF Return, LocalsKnown, RowAtWork
<1>4. MakersStored'
  BY <1>1, ResetType, TradeFields DEF Return, MakersStored, Stored
<1>5. QED
  BY <1>1, <1>2, <1>3, <1>4

LEMMA BalanceInsertTaker ==
  ASSUME BalanceInv, NEW ok \in BOOLEAN, InsertTaker(ok)
  PROVE  BalanceInv'
  BY BalanceLastWrite DEF InsertTaker, BalanceInv, TypeOK, RowAtWork

LEMMA BalanceCancelOrder ==
  ASSUME BalanceInv, NEW o \in Order, NEW ok \in BOOLEAN, HandleCancelOrder(o, ok)
  PROVE  BalanceInv'
<1> USE DEF BalanceInv
<1>1. Canceled(orders[o]) \in Row /\ Balanced(Canceled(orders[o]))
  BY CanceledBalanced DEF HandleCancelOrder, TypeOK, AmountsBalanced, Present
<1>2. /\ orders' \in [Order -> Row \cup {NoRow}]
      /\ AmountsBalanced'
      /\ \A p \in Order : orders[p] # NoRow => orders'[p] # NoRow
  BY <1>1, UpdateOrderBalanced DEF HandleCancelOrder
<1>3. TypeOK'
  BY <1>2, DbType DEF HandleCancelOrder, TypeOK, locals
<1>4. MakersStored'
  BY <1>2, TradeFields
     DEF HandleCancelOrder, MakersStored, Stored, Makers, locals, TypeOK
<1>5. QED
  BY <1>2, <1>3, <1>4 DEF HandleCancelOrder, LocalsKnown, RowAtWork, locals

LEMMA BalanceTransactionResult ==
  ASSUME BalanceInv, NEW t \in DOMAIN txs, NEW s \in Outcome, NEW ok \in BOOLEAN,
         HandleTransactionResult(t, s, ok)
  PROVE  BalanceInv'
<1> USE DEF BalanceInv
<1>1. t \in 1 .. Len(txs) /\ s \in TxStatus
  BY DEF TypeOK, TxStatus
<1>2. [txs[t] EXCEPT !.status = s] \in Tx
  BY <1>1, TxOf, TxFields, Zenon
<1>3. txs' = txs \/ txs' = [txs EXCEPT ![t] = [txs[t] EXCEPT !.status = s]]
  BY DEF HandleTransactionResult
<1>4. txs' \in Seq(Tx) /\ Len(txs') = Len(txs)
  BY <1>1, <1>2, <1>3, TxsUpdated, Zenon
<1>5. dbErrors' \in 0 .. MaxDbErrors /\ repeats' \in 0 .. MaxRepeats
  BY BoundAssumption DEF HandleTransactionResult, TypeOK
<1>6. TypeOK'
  BY <1>1, <1>4, <1>5 DEF HandleTransactionResult, TypeOK, PC
<1>7. MakersStored'
  BY DEF HandleTransactionResult, MakersStored, Stored
<1>8. QED
  BY <1>1, <1>4, <1>6, <1>7
     DEF HandleTransactionResult, LocalsKnown, RowAtWork, AmountsBalanced, Present

LEMMA BalanceUpdateLaunchLogsStatus ==
  ASSUME BalanceInv, NEW ok \in BOOLEAN, UpdateLaunchLogsStatus(ok)
  PROVE  BalanceInv'
<1> USE DEF BalanceInv
<1>1. txs' \in Seq(Tx) /\ Len(txs') = Len(txs)
  <2>1. tx \in 1 .. Len(txs) /\ outcome \in LogStatus
    BY DEF UpdateLaunchLogsStatus, LocalsKnown, TypeOK, LogStatus, TxStatus
  <2>2. [txs[tx] EXCEPT !.log = outcome] \in Tx
    BY <2>1, TxOf, TxFields, Zenon
  <2>3. txs' = txs \/ txs' = [txs EXCEPT ![tx] = [txs[tx] EXCEPT !.log = outcome]]
    BY DEF UpdateLaunchLogsStatus
  <2>4. QED
    BY <2>1, <2>2, <2>3, TxsUpdated, Zenon
<1>2. TypeOK'
  BY <1>1, DbType DEF UpdateLaunchLogsStatus, TypeOK, PC, locals
<1>3. MakersStored'
  BY DEF UpdateLaunchLogsStatus, MakersStored, Stored, locals
<1>4. QED
  BY <1>1, <1>2, <1>3 DEF UpdateLaunchLogsStatus, LocalsKnown, RowAtWork, AmountsBalanced,
                    Present, locals

LEMMA BalanceReadTrades ==
  ASSUME BalanceInv, ReadTrades
  PROVE  BalanceInv'
<1> USE DEF BalanceInv
<1> DEFINE found == TradesByHash(tx)
           o     == trades[CHOOSE i \in found : TRUE].taker
<1>1. found \subseteq DOMAIN trades
  BY DEF TradesByHash
<1> HIDE DEF found
<1>2. CASE found = {} \/ orders[o] = NoRow
  <2>1. Return /\ UNCHANGED <<db, book, placed, launch, faults>>
    BY <1>2 DEF ReadTrades, found
  <2>2. QED
    BY <2>1, BalanceReturn DEF TypeOK, faults
<1>3. CASE ~(found = {} \/ orders[o] = NoRow)
  <2>1. /\ due' = found
        /\ taker' = o
        /\ row' = orders[o]
        /\ pc' = "settleMaker"
        /\ UNCHANGED <<match, todo, unsaved, tx, outcome, db, book, placed, launch, faults>>
    BY <1>3 DEF ReadTrades, found
  <2>2. o \in Order
    <3>1. (CHOOSE i \in found : TRUE) \in DOMAIN trades
      BY <1>1, <1>3
    <3>2. QED
      BY <3>1, TradeFields
  <2>3. row' \in Row /\ Balanced(row')
    BY <1>3, <2>1, <2>2 DEF TypeOK, AmountsBalanced, Present
  <2>4. TypeOK'
    BY <1>1, <2>1, <2>2, <2>3 DEF TypeOK, PC, db, faults
  <2>5. MakersStored'
    BY <2>1 DEF MakersStored, Stored, db
  <2>6. QED
    BY <2>1, <2>3, <2>4, <2>5
       DEF LocalsKnown, RowAtWork, AmountsBalanced, Present, db
<1>4. QED
  BY <1>2, <1>3

LEMMA BalanceSettleMaker ==
  ASSUME BalanceInv, NEW i \in due, NEW ok \in BOOLEAN, SettleMaker(i, ok)
  PROVE  BalanceInv'
<1> USE DEF BalanceInv
<1> DEFINE m == trades[i].maker
           n == trades[i].amount
<1>1. i \in DOMAIN trades
  BY DEF TypeOK
<1>2. m \in Order /\ n \in Nat /\ orders[m] # NoRow
  BY <1>1, TradeFields DEF MakersStored
<1>3. orders[m] \in Row /\ Balanced(orders[m])
  BY <1>2 DEF TypeOK, AmountsBalanced, Present
<1> HIDE DEF m, n
<1> DEFINE r == AutoSetStatusByAmounts(Settled(orders[m], n, outcome))
<1>4. r \in Row /\ Balanced(r)
  BY <1>2, <1>3, SettledBalanced, AutoSetStatusBalanced DEF TypeOK
<1>5. row' = Settled(row, n, outcome) /\ UpdateOrder(m, r, ok)
  BY DEF SettleMaker, m, n
<1> HIDE DEF r
<1>6. row' \in Row /\ Balanced(row')
  BY <1>2, <1>5, SettledBalanced DEF TypeOK, RowAtWork
<1>7. /\ orders' \in [Order -> Row \cup {NoRow}]
      /\ AmountsBalanced'
      /\ \A p \in Order : orders[p] # NoRow => orders'[p] # NoRow
  BY <1>4, <1>5, UpdateOrderBalanced
<1>8. /\ pc' = "settleTrade"
      /\ Db(ok)
      /\ UNCHANGED <<txs, trades, book, placed, launch, taker, match, todo, unsaved, due,
                     tx, outcome>>
  BY DEF SettleMaker
<1>9. TypeOK'
  BY <1>6, <1>7, <1>8, DbType DEF TypeOK, PC
<1>10. MakersStored'
  BY <1>7, <1>8, TradeFields DEF MakersStored, Stored, TypeOK
<1>11. QED
  BY <1>6, <1>7, <1>8, <1>9, <1>10 DEF LocalsKnown, RowAtWork

LEMMA BalanceSettleTrade ==
  ASSUME BalanceInv, NEW i \in due, NEW ok \in BOOLEAN, SettleTrade(i, ok)
  PROVE  BalanceInv'
<1> USE DEF BalanceInv
<1> DEFINE e == [trades[i] EXCEPT !.status = outcome]
<1>1. i \in DOMAIN trades /\ outcome \in TxStatus
  BY DEF TypeOK, TxStatus
<1>2. i \in 1 .. Len(trades) /\ trades[i] \in Trade
  BY <1>1, TradeFields
<1>3. e \in Trade /\ e.maker = trades[i].maker
  BY <1>1, <1>2 DEF Trade
<1>4. trades' = trades \/ trades' = [trades EXCEPT ![i] = e]
  BY DEF SettleTrade
<1> HIDE DEF e
<1>5. trades' \in Seq(Trade) /\ Len(trades') = Len(trades)
  BY <1>2, <1>3, <1>4, TradesUpdated, Zenon
<1>6. DOMAIN trades' = DOMAIN trades
  BY <1>4
<1>7. TypeOK'
  BY <1>5, <1>6, DbType DEF SettleTrade, TypeOK, PC
<1>8. \A j \in DOMAIN trades' : trades'[j].maker = trades[j].maker
  BY <1>3, <1>4
<1>9. MakersStored'
  BY <1>6, <1>8 DEF SettleTrade, MakersStored, Stored
<1>10. QED
  BY <1>7, <1>9
     DEF SettleTrade, LocalsKnown, RowAtWork, AmountsBalanced, Present

LEMMA BalanceSettleTaker ==
  ASSUME BalanceInv, NEW ok \in BOOLEAN, SettleTaker(ok)
  PROVE  BalanceInv'
<1>1. /\ AutoSetStatusByAmounts(row) \in Row
      /\ Balanced(AutoSetStatusByAmounts(row))
  BY AutoSetStatusBalanced DEF BalanceInv, TypeOK, RowAtWork
<1>2. QED
  BY <1>1, BalanceLastWrite DEF SettleTaker

\* A step that leaves the parties and amounts of the trades alone.
TradesKept ==
  /\ DOMAIN trades' = DOMAIN trades
  /\ \A i \in DOMAIN trades : /\ trades'[i].tx = trades[i].tx
                              /\ trades'[i].maker = trades[i].maker
                              /\ trades'[i].taker = trades[i].taker
                              /\ trades'[i].amount = trades[i].amount

(* What the launcher does to the tables.                                   *)
Launcher == LauncherStep \/ LauncherStop

LEMMA LauncherWrites ==
  ASSUME TypeOK, Launcher
  PROVE  /\ txs' \in Seq(Tx) /\ Len(txs') = Len(txs)
         /\ trades' \in Seq(Trade) /\ Len(trades') = Len(trades)
         /\ launch' \in Launching
         /\ UNCHANGED <<orders, book, placed, pc, locals, faults>>
<1>6. Polling \in Launching
  BY DEF Polling, Launching
<1>0. /\ txs \in Seq(Tx) /\ DOMAIN txs = 1 .. Len(txs)
      /\ trades \in Seq(Trade) /\ DOMAIN trades = 1 .. Len(trades)
      /\ launch \in Launching
  BY DEF TypeOK
<1>1. ASSUME NEW t \in DOMAIN txs, LaunchLog(t)
      PROVE  /\ txs' \in Seq(Tx) /\ Len(txs') = Len(txs) /\ trades' = trades
             /\ launch' \in Launching
  <2>1. [txs[t] EXCEPT !.log = "pending"] \in Tx
    BY <1>0, <1>1, TxOf DEF Tx, LogStatus, TxStatus
  <2>2. txs' = [txs EXCEPT ![t] = [txs[t] EXCEPT !.log = "pending"]]
    BY <1>1 DEF LaunchLog
  <2>3. txs' \in Seq(Tx) /\ Len(txs') = Len(txs)
    BY <1>0, <2>1, <2>2, TxsUpdated
  <2>4. t \in Nat
    BY <1>0
  <2> QED
    BY <1>1, <2>3, <2>4 DEF LaunchLog, Launching
<1>2. ASSUME NEW t \in DOMAIN txs, LaunchTransaction(t)
      PROVE  /\ txs' \in Seq(Tx) /\ Len(txs') = Len(txs) /\ trades' = trades
             /\ launch' \in Launching
  <2>1. [txs[t] EXCEPT !.hashed = TRUE] \in Tx
    BY <1>0, <1>2, TxOf DEF Tx
  <2>2. txs' = [txs EXCEPT ![t] = [txs[t] EXCEPT !.hashed = TRUE]]
    BY <1>2 DEF LaunchTransaction
  <2>3. txs' \in Seq(Tx) /\ Len(txs') = Len(txs)
    BY <1>0, <2>1, <2>2, TxsUpdated
  <2> DEFINE found == {i \in DOMAIN trades : trades[i].tx = t}
  <2>4. t \in Nat /\ found \in SUBSET Nat
    BY <1>0
  <2>5. launch' = Polling \/ launch' = [step |-> "saveTrades", tx |-> t, todo |-> found]
    BY <1>2 DEF LaunchTransaction
  <2> HIDE DEF found
  <2> QED
    BY <1>2, <1>6, <2>3, <2>4, <2>5 DEF LaunchTransaction, Launching
<1>3. ASSUME NEW i \in DOMAIN trades, LaunchTrade(i)
      PROVE  /\ txs' = txs /\ trades' \in Seq(Trade) /\ Len(trades') = Len(trades)
             /\ launch' \in Launching
  <2>1. [trades[i] EXCEPT !.hashed = TRUE] \in Trade
    BY <1>0, <1>3, TradeFields DEF Trade
  <2>2. trades' = [trades EXCEPT ![i] = [trades[i] EXCEPT !.hashed = TRUE]]
    BY <1>3 DEF LaunchTrade
  <2>3. trades' \in Seq(Trade) /\ Len(trades') = Len(trades)
    BY <1>0, <2>1, <2>2, TradesUpdated
  <2>4. launch' \in Launching
    BY <1>0, <1>3, <1>6 DEF LaunchTrade, Launching
  <2> QED
    BY <1>3, <2>3, <2>4 DEF LaunchTrade
<1>4. ASSUME LauncherStop
      PROVE  UNCHANGED <<txs, trades>> /\ launch' \in Launching
  BY <1>4, <1>6 DEF LauncherStop, db
<1>5. UNCHANGED <<orders, book, placed, pc, locals, faults>>
  BY DEF Launcher, LauncherStep, LauncherStop, LaunchLog, LaunchTransaction, LaunchTrade, db
<1> QED
  BY <1>0, <1>1, <1>2, <1>3, <1>4, <1>5 DEF Launcher, LauncherStep

LEMMA LaunchKeeps ==
  ASSUME TypeOK, Launcher
  PROVE  /\ TradesKept /\ DOMAIN txs' = DOMAIN txs
         /\ \A j \in DOMAIN trades : trades'[j].status = trades[j].status
         /\ \A u \in DOMAIN txs : \/ txs'[u].log = txs[u].log
                                  \/ (txs[u].log = "created" /\ txs'[u].log = "pending")
<1>1. \A j \in DOMAIN trades : trades[j] \in Trade
  BY TradeFields
<1>2. \A u \in DOMAIN txs : txs[u] \in Tx
  BY TxOf DEF TypeOK
<1>3. TradesKept /\ \A j \in DOMAIN trades : trades'[j].status = trades[j].status
  <2>1. CASE trades' = trades
    BY <2>1 DEF TradesKept
  <2>2. ASSUME NEW i \in DOMAIN trades,
               trades' = [trades EXCEPT ![i] = [trades[i] EXCEPT !.hashed = TRUE]]
        PROVE  TradesKept /\ \A j \in DOMAIN trades : trades'[j].status = trades[j].status
    <3>1. /\ [trades[i] EXCEPT !.hashed = TRUE].tx = trades[i].tx
          /\ [trades[i] EXCEPT !.hashed = TRUE].maker = trades[i].maker
          /\ [trades[i] EXCEPT !.hashed = TRUE].taker = trades[i].taker
          /\ [trades[i] EXCEPT !.hashed = TRUE].amount = trades[i].amount
          /\ [trades[i] EXCEPT !.hashed = TRUE].status = trades[i].status
      BY <1>1 DEF Trade
    <3> QED
      BY <2>2, <3>1 DEF TradesKept
  <2> QED
    BY <2>1, <2>2
       DEF Launcher, LauncherStep, LauncherStop, LaunchLog, LaunchTransaction, LaunchTrade, db
<1>4. /\ DOMAIN txs' = DOMAIN txs
      /\ \A u \in DOMAIN txs : \/ txs'[u].log = txs[u].log
                               \/ (txs[u].log = "created" /\ txs'[u].log = "pending")
  <2>1. CASE txs' = txs
    BY <2>1
  <2>2. ASSUME NEW t \in DOMAIN txs, LaunchLog(t)
        PROVE  /\ DOMAIN txs' = DOMAIN txs
               /\ \A u \in DOMAIN txs \ {t} : txs'[u] = txs[u]
               /\ txs[t].log = "created" /\ txs'[t].log = "pending"
    <3>1. [txs[t] EXCEPT !.log = "pending"].log = "pending"
      BY <1>2 DEF Tx
    <3> QED
      BY <2>2, <3>1 DEF LaunchLog
  <2>3. ASSUME NEW t \in DOMAIN txs, LaunchTransaction(t)
        PROVE  /\ DOMAIN txs' = DOMAIN txs
               /\ \A u \in DOMAIN txs \ {t} : txs'[u] = txs[u]
               /\ txs'[t].log = txs[t].log
    <3>1. [txs[t] EXCEPT !.hashed = TRUE].log = txs[t].log
      BY <1>2 DEF Tx
    <3> QED
      BY <2>3, <3>1 DEF LaunchTransaction
  <2>4. \/ txs' = txs
        \/ \E t \in DOMAIN txs : LaunchLog(t) \/ LaunchTransaction(t)
    BY DEF Launcher, LauncherStep, LauncherStop, LaunchTrade, db
  <2>5. CASE \E t \in DOMAIN txs : LaunchLog(t) \/ LaunchTransaction(t)
    BY <2>2, <2>3, <2>5
  <2> QED
    BY <2>1, <2>4, <2>5
<1> QED
  BY <1>3, <1>4

LEMMA BalanceLauncher ==
  ASSUME BalanceInv, Launcher
  PROVE  BalanceInv'
<1> USE DEF BalanceInv
<1>1. /\ txs' \in Seq(Tx) /\ Len(txs') = Len(txs)
      /\ trades' \in Seq(Trade) /\ Len(trades') = Len(trades)
      /\ launch' \in Launching
      /\ UNCHANGED <<orders, book, placed, pc, locals, faults>>
  BY LauncherWrites
<1>2. DOMAIN trades' = DOMAIN trades
  BY <1>1 DEF TypeOK
<1>3. TypeOK'
  BY <1>1, <1>2 DEF TypeOK, locals, faults
<1>4. MakersStored'
  BY <1>1, <1>2, LaunchKeeps DEF MakersStored, Stored, locals, TradesKept
<1> QED
  BY <1>1, <1>3, <1>4 DEF LocalsKnown, RowAtWork, AmountsBalanced, Present, locals

LEMMA BalanceCrash ==
  ASSUME BalanceInv, Crash
  PROVE  BalanceInv'
<1> USE DEF BalanceInv
<1>1. TypeOK'
  BY ResetType, BoundAssumption DEF Crash, TypeOK, PC, db
<1>2. LocalsKnown' /\ RowAtWork' /\ MakersStored' /\ AmountsBalanced'
  BY ResetType
     DEF Crash, LocalsKnown, RowAtWork, MakersStored, Stored, AmountsBalanced,
         Present, db
<1>3. QED
  BY <1>1, <1>2

LEMMA BalanceNewMarketHandler ==
  ASSUME BalanceInv, NewMarketHandler
  PROVE  BalanceInv'
<1> USE DEF BalanceInv
<1>1. ASSUME NEW o \in Order, orders[o] # NoRow, orders[o].available > 0
      PROVE  orders[o].available \in Nat
  BY <1>1, RowAmounts DEF TypeOK
<1>2. book' \in [Order -> Nat]
  BY <1>1 DEF NewMarketHandler
<1>3. TypeOK'
  BY <1>2 DEF NewMarketHandler, TypeOK, PC, db, locals, faults
<1>4. LocalsKnown' /\ RowAtWork' /\ MakersStored' /\ AmountsBalanced'
  BY DEF NewMarketHandler, LocalsKnown, RowAtWork, MakersStored, Stored,
         AmountsBalanced, Present, db, locals
<1>5. QED
  BY <1>3, <1>4

LEMMA BalanceHandlerStep ==
  ASSUME BalanceInv, HandlerStep
  PROVE  BalanceInv'
<1>1. ASSUME NEW m \in Order, MakerMissing(m)
      PROVE  BalanceInv'
  BY <1>1, BalanceMakerMissing
<1>2. CASE FinishTaker
  BY <1>2, BalanceFinishTaker
<1>3. CASE ReadTrades
  BY <1>3, BalanceReadTrades
<1>4. ASSUME NEW ok \in BOOLEAN, NEW m \in Order,
             UpdateMaker(m, ok) \/ SaveMakerAgain(m, ok) \/ InsertTrade(m, ok)
      PROVE  BalanceInv'
  BY <1>4, BalanceUpdateMaker, BalanceSaveMakerAgain, BalanceInsertTrade
<1>5. ASSUME NEW ok \in BOOLEAN,
             \/ InsertTransaction(ok)
             \/ InsertLaunchLog(ok)
             \/ InsertTaker(ok)
             \/ UpdateLaunchLogsStatus(ok)
             \/ SettleTaker(ok)
      PROVE  BalanceInv'
  BY <1>5, BalanceInsertTransaction, BalanceInsertLaunchLog, BalanceInsertTaker,
     BalanceUpdateLaunchLogsStatus, BalanceSettleTaker
<1>6. ASSUME NEW ok \in BOOLEAN, NEW i \in due,
             SettleMaker(i, ok) \/ SettleTrade(i, ok)
      PROVE  BalanceInv'
  BY <1>6, BalanceSettleMaker, BalanceSettleTrade
<1>7. QED
  BY <1>1, <1>2, <1>3, <1>4, <1>5, <1>6 DEF HandlerStep

LEMMA BalanceNext ==
  ASSUME BalanceInv, [Next]_vars
  PROVE  BalanceInv'
<1>1. ASSUME NEW o \in Order, HandleNewOrder(o)
      PROVE  BalanceInv'
  BY <1>1, BalanceNewOrder
<1>2. ASSUME NEW o \in Order, NEW ok \in BOOLEAN, HandleCancelOrder(o, ok)
      PROVE  BalanceInv'
  BY <1>2, BalanceCancelOrder
<1>3. ASSUME Launcher \/ \E t \in DOMAIN txs : Confirm(t)
      PROVE  BalanceInv'
  BY <1>3, BalanceTransactionResult, BalanceLauncher DEF Confirm
<1>4. CASE HandlerStep
  BY <1>4, BalanceHandlerStep
<1>5. CASE Crash
  BY <1>5, BalanceCrash
<1>6. CASE NewMarketHandler
  BY <1>6, BalanceNewMarketHandler
<1>7. CASE UNCHANGED vars
  BY <1>7 DEF BalanceInv, TypeOK, LocalsKnown, RowAtWork, MakersStored, Stored,
              AmountsBalanced, Present, vars, db, locals, faults
<1>8. QED
  BY <1>1, <1>2, <1>3, <1>4, <1>5, <1>6, <1>7 DEF Next, Launcher

-----------------------------------------------------------------------------
(* The inductive invariant holds of every behaviour.                       *)
THEOREM BalanceInvariant == Spec => []BalanceInv
<1>1. Init => BalanceInv
  BY BalanceInit
<1>2. BalanceInv /\ [Next]_vars => BalanceInv'
  BY BalanceNext
<1>3. QED
  BY <1>1, <1>2, PTL DEF Spec

(* The variables keep their types: in particular the book never holds a     *)
(* negative amount, whatever the book matches, cancels or re-inserts.      *)
THEOREM TypeCorrect == Spec => []TypeOK
<1>1. BalanceInv => TypeOK
  BY DEF BalanceInv
<1>2. QED
  BY <1>1, BalanceInvariant, PTL

(* No step of handleNewOrder, handleCancelOrder or handleTransactionResult *)
(* makes or loses a unit of an order, for any number of crashes, failed    *)
(* writes and repeated results.                                            *)
THEOREM Conservation == Spec => []AmountsBalanced
<1>1. BalanceInv => AmountsBalanced
  BY DEF BalanceInv
<1>2. QED
  BY <1>1, BalanceInvariant, PTL

(* Neither processTransactionAndLaunchLog nor handleTransactionResult meets *)
(* a maker without a row.                                                  *)
THEOREM NoMakerLost == Spec => []MakersStored
<1>1. BalanceInv => MakersStored
  BY DEF BalanceInv
<1>2. QED
  BY <1>1, BalanceInvariant, PTL

-----------------------------------------------------------------------------
(* Volumes. Total counts the units of a function, Sum those of its part on *)
(* a set S.                                                                *)
Sum(g, S) == Total([x \in S |-> g[x]])

\* The units are those of the elements, and finitely many.
LEMMA UnitsFinite ==
  ASSUME NEW S, IsFiniteSet(S), NEW g, \A x \in S : g[x] \in Nat
  PROVE  /\ IsFiniteSet(Units([x \in S |-> g[x]]))
         /\ Sum(g, S) \in Nat
<1> DEFINE block == [x \in S |-> {x} \X (1 .. g[x])]
           blocks == {block[x] : x \in S}
<1>1. IsFiniteSet(blocks)
  <2>1. block \in Surjection(S, blocks)
    BY DEF Surjection
  <2>2. QED
    BY <2>1, FS_Surjection
<1>2. \A b \in blocks : IsFiniteSet(b)
  <2> SUFFICES ASSUME NEW x \in S
               PROVE  IsFiniteSet({x} \X (1 .. g[x]))
    OBVIOUS
  <2>1. IsFiniteSet({x})
    BY FS_Singleton
  <2>a. g[x] \in Int /\ 1 \in Int
    OBVIOUS
  <2>b. IsFiniteSet(1 .. g[x])
    BY <2>a, FS_Interval
  <2>2. QED
    BY <2>1, <2>b, FS_Product
<1>3. IsFiniteSet(UNION blocks)
  BY <1>1, <1>2, FS_UNION
<1>4. Units([x \in S |-> g[x]]) = UNION blocks
  BY DEF Units
<1>5. QED
  BY <1>3, <1>4, FS_CardinalityType DEF Sum, Total

\* The total of one element.
LEMMA SumOfOne ==
  ASSUME NEW g, NEW x, g[x] \in Nat
  PROVE  Sum(g, {x}) = g[x]
<1>1. Units([y \in {x} |-> g[y]]) = {x} \X (1 .. g[x])
  BY DEF Units
<1>2. IsFiniteSet({x}) /\ Cardinality({x}) = 1
  BY FS_Singleton
<1> DEFINE n == g[x]
<1>a. n \in Nat /\ 1 \in Int
  OBVIOUS
<1>3. IsFiniteSet(1 .. n) /\ Cardinality(1 .. n) = n
  <2> HIDE DEF n
  <2> QED
    BY <1>a, FS_Interval
<1>4. Cardinality({x} \X (1 .. n)) = Cardinality({x}) * Cardinality(1 .. n)
  BY <1>2, <1>3, FS_Product
<1>5. Cardinality({x} \X (1 .. n)) = n
  <2> n \in Nat
    OBVIOUS
  <2> HIDE DEF n
  <2> QED
    BY <1>2, <1>3, <1>4
<1>6. QED
  BY <1>1, <1>5 DEF Sum, Total

\* The total of two sets without a common element.
LEMMA SumOfUnion ==
  ASSUME NEW S, IsFiniteSet(S), NEW T, IsFiniteSet(T), S \cap T = {},
         NEW g, \A x \in S \cup T : g[x] \in Nat
  PROVE  Sum(g, S \cup T) = Sum(g, S) + Sum(g, T)
<1> DEFINE u == Units([x \in S |-> g[x]])
           v == Units([x \in T |-> g[x]])
           w == Units([x \in S \cup T |-> g[x]])
<1>1. IsFiniteSet(u) /\ IsFiniteSet(v)
  BY UnitsFinite
<1>2. w = u \cup v
  BY DEF Units
<1>3. u \cap v = {}
  BY DEF Units
<1>4. Cardinality(u \cap v) = 0
  BY <1>3, FS_EmptySet
<1>5. Cardinality(u) \in Nat /\ Cardinality(v) \in Nat
  BY <1>1, FS_CardinalityType
<1> HIDE DEF u, v, w
<1>6. Cardinality(u \cup v) = Cardinality(u) + Cardinality(v) - Cardinality(u \cap v)
  BY <1>1, FS_Union
<1>7. Cardinality(w) = Cardinality(u) + Cardinality(v)
  BY <1>2, <1>4, <1>5, <1>6
<1>8. QED
  BY <1>7 DEF Sum, Total, u, v, w

LEMMA SumEmpty == ASSUME NEW g PROVE Sum(g, {}) = 0
<1>1. Units([x \in {} |-> g[x]]) = {}
  BY DEF Units
<1>2. QED
  BY <1>1, FS_EmptySet DEF Sum, Total

LEMMA SumAdd ==
  ASSUME NEW S, IsFiniteSet(S), NEW e, e \notin S,
         NEW g, \A x \in S \cup {e} : g[x] \in Nat
  PROVE  Sum(g, S \cup {e}) = Sum(g, S) + g[e]
<1>1. IsFiniteSet({e}) /\ S \cap {e} = {}
  BY FS_Singleton
<1>2. Sum(g, {e}) = g[e]
  BY SumOfOne
<1>3. QED
  BY <1>1, <1>2, SumOfUnion

LEMMA SumRemove ==
  ASSUME NEW S, IsFiniteSet(S), NEW e \in S,
         NEW g, \A x \in S : g[x] \in Nat
  PROVE  Sum(g, S) = Sum(g, S \ {e}) + g[e]
<1>1. IsFiniteSet(S \ {e})
  BY FS_Subset
<1>2. S = (S \ {e}) \cup {e}
  OBVIOUS
<1>3. QED
  BY <1>1, <1>2, SumAdd

LEMMA SumMonotone ==
  ASSUME NEW T, IsFiniteSet(T), NEW S \in SUBSET T,
         NEW g, \A x \in T : g[x] \in Nat
  PROVE  Sum(g, S) <= Sum(g, T)
<1>1. IsFiniteSet(S) /\ IsFiniteSet(T \ S)
  BY FS_Subset
<1>2. Sum(g, S) \in Nat /\ Sum(g, T \ S) \in Nat
  BY <1>1, UnitsFinite
<1>3. T = S \cup (T \ S) /\ S \cap (T \ S) = {}
  OBVIOUS
<1>4. Sum(g, T) = Sum(g, S) + Sum(g, T \ S)
  BY <1>1, <1>3, SumOfUnion
<1>5. QED
  BY <1>2, <1>4

LEMMA SumSame ==
  ASSUME NEW S, NEW g, NEW h, \A x \in S : g[x] = h[x]
  PROVE  Sum(g, S) = Sum(h, S)
<1>1. [x \in S |-> g[x]] = [x \in S |-> h[x]]
  OBVIOUS
<1>2. QED
  BY <1>1 DEF Sum

\* What is zero does not count.
LEMMA SumOfPositive ==
  ASSUME NEW D, NEW g \in [D -> Nat], NEW S \in SUBSET D,
         \A x \in D \ S : g[x] = 0
  PROVE  Total(g) = Sum(g, S)
<1>1. Units(g) = Units([x \in S |-> g[x]])
  <2>1. ASSUME NEW u, u \in Units(g)
        PROVE  u \in Units([x \in S |-> g[x]])
    <3>1. PICK x \in D : u \in {x} \X (1 .. g[x])
      BY <2>1 DEF Units
    <3>2. x \in S
      BY <3>1
    <3>3. QED
      BY <3>1, <3>2 DEF Units
  <2>2. ASSUME NEW u, u \in Units([x \in S |-> g[x]])
        PROVE  u \in Units(g)
    BY <2>2 DEF Units
  <2>3. QED
    BY <2>1, <2>2
<1>2. QED
  BY <1>1 DEF Sum, Total

-----------------------------------------------------------------------------
(* The fields of a row after each operation.                               *)
LEMMA MatchedFields ==
  ASSUME NEW r \in Row, NEW n \in Nat, NEW b
  PROVE  /\ Matched(r, n, b).amount = r.amount
         /\ Matched(r, n, b).status = r.status
         /\ Matched(r, n, b).available = r.available - n
         /\ Matched(r, n, b).pending = IF b THEN r.pending ELSE r.pending + n
         /\ Matched(r, n, b).confirmed = r.confirmed
         /\ Matched(r, n, b).canceled = IF b THEN r.canceled + n ELSE r.canceled
<1>1. CASE b
  BY <1>1 DEF Matched, Row
<1>2. CASE ~b
  BY <1>2 DEF Matched, Row
<1>3. QED
  BY <1>1, <1>2

LEMMA DoneFields ==
  ASSUME NEW r \in Row, Balanced(r)
  PROVE  /\ Done(r).amount = r.amount
         /\ Done(r).status = r.status
         /\ Done(r).available = 0
         /\ Done(r).pending = r.pending
         /\ Done(r).confirmed = r.confirmed
         /\ Done(r).canceled = r.canceled + r.available
  BY DEF Done, Row, Balanced

LEMMA AutoSetStatusFields ==
  ASSUME NEW r \in Row
  PROVE  /\ AutoSetStatusByAmounts(r).amount = r.amount
         /\ AutoSetStatusByAmounts(r).status = StatusOf(r)
         /\ AutoSetStatusByAmounts(r).available = r.available
         /\ AutoSetStatusByAmounts(r).pending = r.pending
         /\ AutoSetStatusByAmounts(r).confirmed = r.confirmed
         /\ AutoSetStatusByAmounts(r).canceled = r.canceled
  BY StatusOfType DEF AutoSetStatusByAmounts, Row

LEMMA SettledFields ==
  ASSUME NEW r \in Row, NEW n \in Nat, NEW s \in Outcome
  PROVE  /\ Settled(r, n, s).amount = r.amount
         /\ Settled(r, n, s).status = r.status
         /\ Settled(r, n, s).available = r.available
         /\ Settled(r, n, s).pending = r.pending - n
         /\ Settled(r, n, s).confirmed =
              IF s = "successful" THEN r.confirmed + n ELSE r.confirmed
         /\ Settled(r, n, s).canceled =
              IF s = "successful" THEN r.canceled ELSE r.canceled + n
<1>1. CASE s = "successful"
  BY <1>1 DEF Settled, Row
<1>2. CASE s # "successful"
  BY <1>2 DEF Settled, Row
<1>3. QED
  BY <1>1, <1>2

\* What handleCancelOrder saves, with the status of its amounts.
LEMMA CanceledFields ==
  ASSUME NEW r \in Row
  PROVE  /\ Canceled(r).amount = r.amount
         /\ Canceled(r).available = 0
         /\ Canceled(r).pending = r.pending
         /\ Canceled(r).confirmed = r.confirmed
         /\ Canceled(r).canceled = r.canceled + r.available
         /\ Canceled(r).status = StatusOf(Canceled(r))
<1> DEFINE c == [r EXCEPT !.canceled = @ + r.available, !.available = 0]
<1>1. r.canceled + r.available \in Int
  BY RowAmounts
<1>2. c \in Row
  BY <1>1, RowUpdates
<1>3. /\ c.amount = r.amount /\ c.available = 0 /\ c.pending = r.pending
      /\ c.confirmed = r.confirmed /\ c.canceled = r.canceled + r.available
  BY DEF Row
<1>4. Canceled(r) = AutoSetStatusByAmounts(c)
  BY DEF Canceled
<1> HIDE DEF c
<1>5. StatusOf(AutoSetStatusByAmounts(c)) = StatusOf(c)
  BY <1>2, AutoSetStatusFields DEF StatusOf
<1>6. QED
  BY <1>2, <1>3, <1>4, <1>5, AutoSetStatusFields

\* The status saved is the one the amounts call for.
LEMMA StatusSaved ==
  ASSUME NEW r \in Row
  PROVE  StatusOf(AutoSetStatusByAmounts(r)) = AutoSetStatusByAmounts(r).status
  BY AutoSetStatusFields DEF StatusOf

LEMMA MakerAfterFields ==
  ASSUME BalanceInv, NEW m \in Order, orders[m] # NoRow
  PROVE  /\ orders[m] \in Row /\ Balanced(orders[m]) /\ match.fill[m] \in Nat
         /\ MakerAfter(m).amount = orders[m].amount
         /\ MakerAfter(m).status = orders[m].status
         /\ MakerAfter(m).confirmed = orders[m].confirmed
         /\ MakerAfter(m).available =
              IF m \in match.done THEN 0 ELSE orders[m].available - match.fill[m]
         /\ MakerAfter(m).pending =
              IF m \in match.canceled THEN orders[m].pending
                                      ELSE orders[m].pending + match.fill[m]
         /\ Balanced(MakerAfter(m)) /\ MakerAfter(m) \in Row
<1> DEFINE r == Matched(orders[m], match.fill[m], m \in match.canceled)
<1>1. orders[m] \in Row /\ Balanced(orders[m])
  BY DEF BalanceInv, TypeOK, AmountsBalanced, Present
<1>2. match.fill[m] \in Nat
  BY DEF BalanceInv, TypeOK, Match
<1>3. r \in Row /\ Balanced(r)
  BY <1>1, <1>2, MatchedBalanced
<1>4. /\ r.amount = orders[m].amount
      /\ r.status = orders[m].status
      /\ r.available = orders[m].available - match.fill[m]
      /\ r.confirmed = orders[m].confirmed
      /\ r.pending = IF m \in match.canceled THEN orders[m].pending
                                             ELSE orders[m].pending + match.fill[m]
  <2> DEFINE u == orders[m]
             n == match.fill[m]
  <2>1. u \in Row /\ n \in Nat
    BY <1>1, <1>2
  <2> HIDE DEF u, n
  <2>2. CASE m \in match.canceled
    BY <2>1, <2>2 DEF r, u, n, Matched, Row
  <2>3. CASE m \notin match.canceled
    BY <2>1, <2>3 DEF r, u, n, Matched, Row
  <2>4. QED
    BY <2>2, <2>3
<1> HIDE DEF r
<1>5. MakerAfter(m) = IF m \in match.done THEN Done(r) ELSE r
  BY DEF MakerAfter, r
<1>6. QED
  BY <1>1, <1>2, <1>3, <1>4, <1>5, DoneFields, MakerAfterBalanced

-----------------------------------------------------------------------------
(* Structure: which orders, trades and transactions belong together, and   *)
(* what the handler has in its locals at each of its points. It needs no   *)
(* condition: it holds whatever fails.                                     *)
AtNewOrder == pc \in {"makers", "insertTx", "insertLog", "insertTrades", "insertTaker"}
AtSettle == pc \in {"settleMaker", "settleTrade"}

\* The trades of an order, as maker or as taker.
Of(o) == {i \in DOMAIN trades : o \in {trades[i].maker, trades[i].taker}}

\* A trade is between two sides, for an amount, and of a transaction there is.
TradesKnown ==
  \A i \in DOMAIN trades : /\ trades[i].tx \in DOMAIN txs
                           /\ SideOf[trades[i].maker] # SideOf[trades[i].taker]
                           /\ trades[i].maker \in placed /\ trades[i].taker \in placed
                           /\ trades[i].amount > 0

OneTaker ==
  \A i, j \in DOMAIN trades :
    trades[i].tx = trades[j].tx => trades[i].taker = trades[j].taker

RowsKnown ==
  \A o \in Order : /\ orders[o] # NoRow => o \in placed /\ orders[o].amount = AmountOf[o]
                   /\ book[o] > 0 => o \in placed

IdleLocals == (~AtNewOrder => unsaved = {}) /\ (~AtSettle => due = {})

\* handleNewOrder: its order has no row yet, and of trades only those it inserts.
NewOrderKnown ==
  AtNewOrder =>
    /\ taker \in placed /\ orders[taker] = NoRow /\ row.amount = AmountOf[taker]
    /\ todo \subseteq Makers(match) /\ unsaved \subseteq Makers(match)
    /\ \A m \in Makers(match) : SideOf[m] # SideOf[taker] /\ m \in placed

NewTrades ==
  /\ AtNewOrder /\ pc # "insertTrades" => Of(taker) = {}
  /\ pc \in {"insertTx", "insertLog", "insertTaker"} => todo = {}
  /\ pc = "insertTaker" => Makers(match) \subseteq match.canceled
  /\ pc = "insertLog" => \A i \in DOMAIN trades : trades[i].tx # tx
  /\ pc = "insertTrades" =>
       /\ \A i \in DOMAIN trades : trades[i].tx = tx => trades[i].taker = taker
       /\ \A i \in Of(taker) : trades[i].tx = tx
       /\ txs[tx].log \in {"created", "pending"}

\* handleTransactionResult: its trades are those of one transaction and one taker.
SettleKnown ==
  AtSettle =>
    /\ taker \in Order /\ orders[taker] # NoRow /\ row.amount = AmountOf[taker]
    /\ \A i \in due : trades[i].taker = taker /\ trades[i].tx = tx
    /\ pc = "settleTrade" => due # {}

Structure ==
  /\ TradesKnown /\ OneTaker /\ RowsKnown /\ IdleLocals
  /\ NewOrderKnown /\ NewTrades /\ SettleKnown

LEMMA KeptTrades ==
  ASSUME TradesKept, TradesKnown, OneTaker, DOMAIN txs \subseteq DOMAIN txs',
         placed \subseteq placed'
  PROVE  TradesKnown' /\ OneTaker' /\ \A o : Of(o)' = Of(o)
<1>1. TradesKnown' /\ OneTaker'
  BY DEF TradesKept, TradesKnown, OneTaker
<1>2. \A o : Of(o)' = Of(o)
  BY DEF TradesKept, Of
<1>3. QED
  BY <1>1, <1>2

LEMMA SameTradesKept == ASSUME trades' = trades PROVE TradesKept
  BY DEF TradesKept

\* No step but InsertOrder of the taker makes a row.
RowsKept ==
  \A o \in Order : /\ (orders'[o] = NoRow) <=> (orders[o] = NoRow)
                   /\ orders[o] # NoRow => orders'[o].amount = orders[o].amount

LEMMA WriteKeepsRows ==
  ASSUME TypeOK, NEW o \in Order, orders[o] # NoRow, NEW r \in Row,
         r.amount = orders[o].amount, NEW ok, UpdateOrder(o, r, ok)
  PROVE  RowsKept
  BY OrderAssumption DEF UpdateOrder, TypeOK, RowsKept

LEMMA SameRowsKept == ASSUME orders' = orders PROVE RowsKept
  BY DEF RowsKept

-----------------------------------------------------------------------------
(* Structure is inductive: one lemma for each action.                      *)
LEMMA StructureInit == Init => Structure
  BY DEF Init, Structure, TradesKnown, OneTaker, RowsKnown, IdleLocals, NewOrderKnown,
         NewTrades, SettleKnown, AtNewOrder, AtSettle

LEMMA StructureNewOrder ==
  ASSUME BalanceInv, Structure, NEW o \in Order, HandleNewOrder(o)
  PROVE  Structure'
<1> USE DEF Structure
<1>1. PICK r \in Matches(o) :
        /\ book' = BookAfter(o, r)
        /\ match' = r
        /\ todo' = Makers(r)
        /\ pc' = IF Makers(r) = {} THEN "insertTaker" ELSE "makers"
  BY DEF HandleNewOrder
<1>2. /\ taker' = o /\ row' = FreshRow(AmountOf[o]) /\ o \notin placed
      /\ placed' = placed \cup {o} /\ pc = "idle"
      /\ UNCHANGED <<orders, txs, trades, unsaved, due, tx, outcome>>
  BY DEF HandleNewOrder, db
<1>3. TradesKnown' /\ OneTaker' /\ \A p : Of(p)' = Of(p)
  BY <1>2, KeptTrades, SameTradesKept, Zenon
<1>4. /\ r.fill \in [Order -> 0 .. AmountOf[o]]
      /\ \A m \in Order : r.fill[m] <= IF m \in Crossing(o) THEN book[m] ELSE 0
      /\ r.done \subseteq Makers(r) \cup {o}
  BY DEF Matches, Fills
<1>5. \A m \in Makers(r) : /\ m \in Crossing(o) /\ m \in Order
                           /\ book[m] > 0 /\ SideOf[m] # SideOf[o]
  <2> SUFFICES ASSUME NEW m \in Makers(r)
               PROVE  /\ m \in Crossing(o) /\ m \in Order
                      /\ book[m] > 0 /\ SideOf[m] # SideOf[o]
    OBVIOUS
  <2>1. m \in Order /\ r.fill[m] > 0
    BY DEF Makers
  <2>2. r.fill[m] \in Nat
    BY <1>4, <2>1, OrderAssumption
  <2>3. m \in Crossing(o)
    BY <1>4, <2>1, <2>2
  <2>4. QED
    BY <2>1, <2>3 DEF Crossing
<1>6. RowsKnown'
  <2>1. \A p \in Order : book'[p] > 0 => p = o \/ book[p] > 0
    <3> SUFFICES ASSUME NEW p \in Order, book'[p] > 0, p # o
                 PROVE  book[p] > 0
      OBVIOUS
    <3>1. book'[p] = 0 \/ book'[p] = book[p] - r.fill[p]
      BY <1>1, Zenon DEF BookAfter
    <3>2. book[p] \in Nat
      BY Zenon DEF BalanceInv, TypeOK
    <3>3. AmountOf[o] \in Nat \ {0}
      BY OrderAssumption
    <3>4. r.fill[p] \in Nat
      BY <1>4, <3>3
    <3>5. QED
      BY <3>1, <3>2, <3>4
  <2>2. QED
    BY <1>2, <2>1 DEF RowsKnown
<1>7. IdleLocals'
  BY <1>1, <1>2 DEF IdleLocals, AtNewOrder, AtSettle
<1>8. row'.amount = AmountOf[o]
  BY <1>2 DEF FreshRow
<1>9. NewOrderKnown'
  BY <1>1, <1>2, <1>5, <1>7, <1>8
     DEF NewOrderKnown, AtNewOrder, RowsKnown, IdleLocals, AtNewOrder, Makers
<1>10. NewTrades'
  <2>1. Of(o) = {}
    BY <1>2 DEF Of, TradesKnown
  <2>2. QED
    BY <1>1, <1>2, <1>3, <2>1 DEF NewTrades, AtNewOrder, Makers
<1>11. SettleKnown'
  BY <1>1 DEF SettleKnown, AtSettle
<1>12. QED
  BY <1>3, <1>6, <1>7, <1>9, <1>10, <1>11

\* A step of the handler that leaves trades, transactions and the existence of rows alone.
LEMMA StructureQuiet ==
  ASSUME BalanceInv, Structure, RowsKept, UNCHANGED <<txs, trades, placed>>,
         \A o \in Order : book'[o] > 0 => book[o] > 0 \/ orders[o] # NoRow
  PROVE  TradesKnown' /\ OneTaker' /\ RowsKnown' /\ \A o : Of(o)' = Of(o)
<1>1. TradesKnown' /\ OneTaker' /\ \A o : Of(o)' = Of(o)
  BY KeptTrades, SameTradesKept, Zenon DEF Structure
<1>2. RowsKnown'
  BY DEF Structure, RowsKnown, RowsKept
<1>3. QED
  BY <1>1, <1>2

\* A handler that ends.
LEMMA StructureReturn ==
  ASSUME BalanceInv, Structure, LocalsReset, pc' \in {"idle", "down"},
         RowsKept, UNCHANGED <<txs, trades, placed>>,
         \A o \in Order : book'[o] > 0 => book[o] > 0 \/ orders[o] # NoRow
  PROVE  Structure'
<1>1. TradesKnown' /\ OneTaker' /\ RowsKnown'
  BY StructureQuiet
<1>2. IdleLocals' /\ NewOrderKnown' /\ NewTrades' /\ SettleKnown'
  BY ResetType DEF IdleLocals, NewOrderKnown, NewTrades, SettleKnown, AtNewOrder, AtSettle
<1>3. QED
  BY <1>1, <1>2 DEF Structure

LEMMA StructureUpdateMaker ==
  ASSUME BalanceInv, Structure, NEW m \in Order, NEW ok \in BOOLEAN, UpdateMaker(m, ok)
  PROVE  Structure'
<1>1. RowsKept
  BY MakerAfterFields, WriteKeepsRows DEF UpdateMaker, BalanceInv
<1>2. TradesKnown' /\ OneTaker' /\ RowsKnown' /\ \A o : Of(o)' = Of(o)
  BY <1>1, StructureQuiet DEF UpdateMaker
<1>3. row'.amount = row.amount
  <2>1. row \in Row /\ match.fill[m] \in Nat
    BY DEF BalanceInv, TypeOK, Match
  <2>2. QED
    BY <2>1, MatchedFields DEF UpdateMaker
<1>4. IdleLocals' /\ SettleKnown' /\ NewTrades'
  BY <1>2 DEF UpdateMaker, Structure, IdleLocals, SettleKnown, NewTrades, AtNewOrder, AtSettle
<1>5. NewOrderKnown'
  <2>1. taker \in Order /\ orders'[taker] = NoRow
    BY <1>1 DEF UpdateMaker, Structure, NewOrderKnown, AtNewOrder, RowsKept, BalanceInv, LocalsKnown
  <2>2. QED
    BY <1>3, <2>1
     DEF UpdateMaker, Structure, NewOrderKnown, AtNewOrder, Makers
<1>6. QED
  BY <1>2, <1>4, <1>5 DEF Structure

LEMMA StructureMakerMissing ==
  ASSUME BalanceInv, Structure, NEW m \in Order, MakerMissing(m)
  PROVE  Structure'
  BY StructureReturn, SameRowsKept DEF MakerMissing, Return, db

LEMMA StructureFinishTaker ==
  ASSUME BalanceInv, Structure, FinishTaker
  PROVE  Structure'
<1>1. UNCHANGED <<orders, txs, trades, book, placed, taker, match, todo, unsaved, due, tx>>
  BY DEF FinishTaker, db
<1>2. TradesKnown' /\ OneTaker' /\ RowsKnown' /\ \A o : Of(o)' = Of(o)
  BY <1>1, SameRowsKept, StructureQuiet
<1>3. row'.amount = row.amount
  BY DoneFields DEF FinishTaker, BalanceInv, TypeOK, RowAtWork
<1>4. IdleLocals' /\ SettleKnown' /\ NewTrades'
  BY <1>1, <1>2 DEF FinishTaker, Structure, IdleLocals, SettleKnown, NewTrades, AtNewOrder, AtSettle, Makers
<1>5. NewOrderKnown'
  BY <1>1, <1>3 DEF FinishTaker, Structure, NewOrderKnown, AtNewOrder, Makers
<1>6. QED
  BY <1>2, <1>4, <1>5 DEF Structure

LEMMA StructureSaveMakerAgain ==
  ASSUME BalanceInv, Structure, NEW m \in Order, NEW ok \in BOOLEAN, SaveMakerAgain(m, ok)
  PROVE  Structure'
<1>1. RowsKept
  <2>1. orders[m] # NoRow
    BY DEF SaveMakerAgain, BalanceInv, MakersStored, Stored
  <2>2. QED
    BY <2>1, MakerAfterFields, WriteKeepsRows DEF SaveMakerAgain, BalanceInv
<1>2. TradesKnown' /\ OneTaker' /\ RowsKnown' /\ \A o : Of(o)' = Of(o)
  BY <1>1, StructureQuiet DEF SaveMakerAgain
<1>3. IdleLocals' /\ SettleKnown' /\ NewTrades'
  BY <1>2 DEF SaveMakerAgain, Structure, IdleLocals, SettleKnown, NewTrades, AtNewOrder, AtSettle
<1>4. NewOrderKnown'
  <2>1. taker \in Order /\ orders'[taker] = NoRow
    BY <1>1 DEF SaveMakerAgain, Structure, NewOrderKnown, AtNewOrder, RowsKept, BalanceInv, LocalsKnown
  <2>2. QED
    BY <2>1 DEF SaveMakerAgain, Structure, NewOrderKnown, AtNewOrder, Makers
<1>5. QED
  BY <1>2, <1>3, <1>4 DEF Structure

LEMMA StructureInsertTransaction ==
  ASSUME BalanceInv, Structure, NEW ok \in BOOLEAN, InsertTransaction(ok)
  PROVE  Structure'
<1>1. CASE ~ok
  BY <1>1, StructureReturn, SameRowsKept DEF InsertTransaction, Return
<1>2. CASE ok
  <2>1. /\ pc = "insertTx" /\ pc' = "insertLog" /\ tx' = Len(txs) + 1
        /\ UNCHANGED <<orders, trades, book, placed, taker, row, match, todo, unsaved, due>>
    BY <1>2 DEF InsertTransaction
  <2>2. DOMAIN txs = 1 .. Len(txs) /\ DOMAIN txs' = 1 .. (Len(txs) + 1) /\ Len(txs) \in Nat
    BY <1>2 DEF InsertTransaction, BalanceInv, TypeOK
  <2>3. TradesKnown' /\ OneTaker' /\ \A o : Of(o)' = Of(o)
    <3>1. DOMAIN txs \subseteq DOMAIN txs'
      BY <2>2
    <3>2. QED
      BY <2>1, <3>1, KeptTrades, SameTradesKept DEF Structure
  <2>4. \A i \in DOMAIN trades : trades[i].tx # tx'
    BY <2>1, <2>2 DEF Structure, TradesKnown
  <2>5. RowsKnown' /\ IdleLocals' /\ NewOrderKnown' /\ SettleKnown'
    BY <2>1 DEF Structure, RowsKnown, IdleLocals, NewOrderKnown, SettleKnown, AtNewOrder,
                AtSettle, Makers
  <2>6. NewTrades'
    BY <2>1, <2>3, <2>4 DEF Structure, NewTrades, AtNewOrder
  <2>7. QED
    BY <2>3, <2>5, <2>6 DEF Structure
<1>3. QED
  BY <1>1, <1>2

LEMMA StructureInsertLaunchLog ==
  ASSUME BalanceInv, Structure, NEW ok \in BOOLEAN, InsertLaunchLog(ok)
  PROVE  Structure'
<1>1. CASE ~ok
  BY <1>1, StructureReturn, SameRowsKept DEF InsertLaunchLog, Return
<1>2. CASE ok
  <2>1. /\ pc = "insertLog" /\ pc' = "insertTrades" /\ todo' = Makers(match)
        /\ txs' = [txs EXCEPT ![tx].log = "created"]
        /\ UNCHANGED <<orders, trades, book, placed, taker, row, match, unsaved, due, tx>>
    BY <1>2 DEF InsertLaunchLog
  <2>2. DOMAIN txs' = DOMAIN txs
    BY <2>1
  <2>3. TradesKnown' /\ OneTaker' /\ \A o : Of(o)' = Of(o)
    BY <2>1, <2>2, KeptTrades, SameTradesKept DEF Structure
  <2>4. txs'[tx].log = "created"
    <3>1. tx \in 1 .. Len(txs)
      BY <2>1 DEF BalanceInv, LocalsKnown
    <3>2. txs[tx] \in Tx /\ DOMAIN txs = 1 .. Len(txs)
      BY <3>1, TxOf DEF BalanceInv, TypeOK
    <3>3. QED
      BY <2>1, <3>1, <3>2 DEF Tx
  <2>5. RowsKnown' /\ IdleLocals' /\ NewOrderKnown' /\ SettleKnown'
    BY <2>1 DEF Structure, RowsKnown, IdleLocals, NewOrderKnown, SettleKnown, AtNewOrder,
                AtSettle, Makers
  <2>6. NewTrades'
    BY <2>1, <2>3, <2>4 DEF Structure, NewTrades, AtNewOrder
  <2>7. QED
    BY <2>3, <2>5, <2>6 DEF Structure
<1>3. QED
  BY <1>1, <1>2

LEMMA StructureInsertTrade ==
  ASSUME BalanceInv, Structure, NEW m \in Order, NEW ok \in BOOLEAN, InsertTrade(m, ok)
  PROVE  Structure'
<1>1. /\ pc = "insertTrades" /\ m \in todo /\ todo' = todo \ {m}
      /\ UNCHANGED <<orders, txs, book, placed, pc, taker, row, match, unsaved, due, tx>>
      /\ trades' = IF ok THEN Append(trades, NewTrade(m)) ELSE trades
  BY DEF InsertTrade
<1>2. RowsKnown' /\ IdleLocals' /\ NewOrderKnown' /\ SettleKnown'
  BY <1>1 DEF Structure, RowsKnown, IdleLocals, NewOrderKnown, SettleKnown, AtNewOrder,
              AtSettle, Makers
<1>3. CASE ~ok
  <2>1. TradesKnown' /\ OneTaker' /\ \A o : Of(o)' = Of(o)
    BY <1>1, <1>3, KeptTrades, SameTradesKept DEF Structure
  <2>2. NewTrades'
    BY <1>1, <1>3, <2>1 DEF Structure, NewTrades, AtNewOrder
  <2>3. QED
    BY <1>2, <2>1, <2>2 DEF Structure
<1>4. CASE ok
  <2> DEFINE n == Len(trades) + 1
  <2>1. /\ NewTrade(m).tx = tx /\ NewTrade(m).maker = m /\ NewTrade(m).taker = taker
        /\ NewTrade(m).amount = match.fill[m]
    BY DEF NewTrade
  <2>2. /\ DOMAIN trades = 1 .. Len(trades) /\ DOMAIN trades' = 1 .. n
        /\ \A i \in DOMAIN trades : trades'[i] = trades[i]
        /\ trades'[n] = NewTrade(m)
        /\ n \notin DOMAIN trades /\ DOMAIN trades' = DOMAIN trades \cup {n}
    BY <1>1, <1>4 DEF BalanceInv, TypeOK
  <2> HIDE DEF n
  <2>3. /\ m \in Makers(match) /\ SideOf[m] # SideOf[taker] /\ m \in placed /\ taker \in placed
        /\ tx \in DOMAIN txs
    BY <1>1 DEF Structure, NewOrderKnown, AtNewOrder, BalanceInv, LocalsKnown, TypeOK
  <2>4. match.fill[m] > 0
    BY <2>3 DEF Makers
  <2>5. TradesKnown'
    BY <1>1, <2>1, <2>2, <2>3, <2>4 DEF Structure, TradesKnown
  <2>6. \A i \in DOMAIN trades : trades[i].tx = tx => trades[i].taker = taker
    BY <1>1 DEF Structure, NewTrades
  <2>7. OneTaker'
    <3> SUFFICES ASSUME NEW i \in DOMAIN trades', NEW j \in DOMAIN trades',
                        trades'[i].tx = trades'[j].tx
                 PROVE  trades'[i].taker = trades'[j].taker
      BY DEF OneTaker
    <3>1. CASE i = n \/ j = n
      BY <2>1, <2>2, <2>6, <3>1
    <3>2. CASE i # n /\ j # n
      BY <2>2, <3>2 DEF Structure, OneTaker
    <3>3. QED
      BY <3>1, <3>2
  <2>8. NewTrades'
    <3>1. \A i \in DOMAIN trades' : trades'[i].tx = tx => trades'[i].taker = taker
      BY <2>1, <2>2, <2>6
    <3>2. \A i \in Of(taker)' : trades'[i].tx = tx
      BY <1>1, <2>1, <2>2 DEF Structure, NewTrades, Of
    <3>3. QED
      BY <1>1, <3>1, <3>2 DEF Structure, NewTrades, AtNewOrder, Of
  <2>9. QED
    BY <1>2, <2>5, <2>7, <2>8 DEF Structure
<1>5. QED
  BY <1>3, <1>4

LEMMA StructureInsertTaker ==
  ASSUME BalanceInv, Structure, NEW ok \in BOOLEAN, InsertTaker(ok)
  PROVE  Structure'
<1>1. /\ AtNewOrder /\ LocalsReset /\ pc' = "idle"
      /\ UNCHANGED <<txs, trades, book, placed>> /\ UpdateOrder(taker, row, ok)
  BY DEF InsertTaker, AtNewOrder, Return
<1>2. TradesKnown' /\ OneTaker'
  BY <1>1, KeptTrades, SameTradesKept DEF Structure
<1>3. taker \in Order /\ taker \in placed /\ row \in Row /\ row.amount = AmountOf[taker]
  BY <1>1 DEF Structure, NewOrderKnown, AtNewOrder, BalanceInv, LocalsKnown, TypeOK
<1>4. RowsKnown'
  BY <1>1, <1>3 DEF Structure, RowsKnown, UpdateOrder, BalanceInv, TypeOK
<1>5. IdleLocals' /\ NewOrderKnown' /\ NewTrades' /\ SettleKnown'
  BY <1>1, ResetType DEF IdleLocals, NewOrderKnown, NewTrades, SettleKnown, AtNewOrder, AtSettle
<1>6. QED
  BY <1>2, <1>4, <1>5 DEF Structure

LEMMA StructureCancelOrder ==
  ASSUME BalanceInv, Structure, NEW o \in Order, NEW ok \in BOOLEAN, HandleCancelOrder(o, ok)
  PROVE  Structure'
<1>1. orders[o] \in Row /\ Balanced(orders[o])
  BY DEF HandleCancelOrder, BalanceInv, TypeOK, AmountsBalanced, Present
<1>2. Canceled(orders[o]) \in Row /\ Canceled(orders[o]).amount = orders[o].amount
  BY <1>1, CanceledBalanced, CanceledFields
<1>3. RowsKept
  BY <1>2, WriteKeepsRows DEF HandleCancelOrder, BalanceInv
<1>4. book' = [book EXCEPT ![o] = 0] /\ book \in [Order -> Nat]
  BY DEF HandleCancelOrder, BalanceInv, TypeOK
<1>5. TradesKnown' /\ OneTaker' /\ RowsKnown'
  BY <1>3, <1>4, StructureQuiet DEF HandleCancelOrder
<1>6. IdleLocals' /\ NewOrderKnown' /\ NewTrades' /\ SettleKnown'
  BY DEF HandleCancelOrder, Structure, IdleLocals, NewOrderKnown, NewTrades, SettleKnown,
         AtNewOrder, AtSettle, locals
<1>7. QED
  BY <1>5, <1>6 DEF Structure

LEMMA StructureTransactionResult ==
  ASSUME BalanceInv, Structure, NEW t \in DOMAIN txs, NEW s \in Outcome, NEW ok \in BOOLEAN,
         HandleTransactionResult(t, s, ok)
  PROVE  Structure'
<1>1. /\ pc = "idle" /\ pc' = "confirmLog" /\ DOMAIN txs' = DOMAIN txs
      /\ UNCHANGED <<orders, trades, book, placed, unsaved, due>>
  BY DEF HandleTransactionResult
<1>2. TradesKnown' /\ OneTaker'
  BY <1>1, KeptTrades, SameTradesKept DEF Structure
<1>3. RowsKnown' /\ IdleLocals' /\ NewOrderKnown' /\ NewTrades' /\ SettleKnown'
  BY <1>1 DEF Structure, RowsKnown, IdleLocals, NewOrderKnown, NewTrades, SettleKnown,
              AtNewOrder, AtSettle
<1>4. QED
  BY <1>2, <1>3 DEF Structure

LEMMA StructureUpdateLaunchLogsStatus ==
  ASSUME BalanceInv, Structure, NEW ok \in BOOLEAN, UpdateLaunchLogsStatus(ok)
  PROVE  Structure'
<1>1. /\ pc = "confirmLog" /\ pc' = "readTrades" /\ DOMAIN txs' = DOMAIN txs
      /\ UNCHANGED <<orders, trades, book, placed, unsaved, due>>
  BY DEF UpdateLaunchLogsStatus, locals
<1>2. TradesKnown' /\ OneTaker'
  BY <1>1, KeptTrades, SameTradesKept DEF Structure
<1>3. RowsKnown' /\ IdleLocals' /\ NewOrderKnown' /\ NewTrades' /\ SettleKnown'
  BY <1>1 DEF Structure, RowsKnown, IdleLocals, NewOrderKnown, NewTrades, SettleKnown,
              AtNewOrder, AtSettle
<1>4. QED
  BY <1>2, <1>3 DEF Structure

\* What ReadTrades finds: the trades of the transaction, all of the same taker.
LEMMA ReadTradesCases ==
  ASSUME BalanceInv, Structure, ReadTrades
  PROVE  \/ Return /\ UNCHANGED <<db, book, placed, faults>>
         \/ \E o \in Order :
              /\ orders[o] # NoRow /\ TradesByHash(tx) # {}
              /\ \A i \in TradesByHash(tx) : /\ i \in DOMAIN trades /\ trades[i].taker = o
                                             /\ trades[i].tx = tx
              /\ due' = TradesByHash(tx) /\ taker' = o /\ row' = orders[o]
              /\ pc = "readTrades" /\ pc' = "settleMaker"
              /\ UNCHANGED <<match, todo, unsaved, tx, outcome, db, book, placed, faults>>
<1> DEFINE found == TradesByHash(tx)
           i0 == CHOOSE i \in found : TRUE
           o  == trades[i0].taker
<1>1. \A i \in found : i \in DOMAIN trades /\ trades[i].tx = tx
  BY DEF TradesByHash
<1>2. CASE found = {} \/ orders[o] = NoRow
  BY <1>2 DEF ReadTrades
<1>3. CASE ~(found = {} \/ orders[o] = NoRow)
  <2>1. i0 \in found
    BY <1>3
  <2>2. o \in Order /\ orders[o] # NoRow
    BY <1>1, <1>3, <2>1, TradeFields DEF BalanceInv
  <2>3. \A i \in found : trades[i].taker = o
    BY <1>1, <2>1 DEF Structure, OneTaker
  <2>4. /\ due' = found /\ taker' = o /\ row' = orders[o]
        /\ pc = "readTrades" /\ pc' = "settleMaker"
        /\ UNCHANGED <<match, todo, unsaved, tx, outcome, db, book, placed, faults>>
    BY <1>3 DEF ReadTrades
  <2> HIDE DEF o, found
  <2>5. QED
    BY <1>1, <1>3, <2>2, <2>3, <2>4 DEF found
<1>4. QED
  BY <1>2, <1>3

LEMMA StructureReadTrades ==
  ASSUME BalanceInv, Structure, ReadTrades
  PROVE  Structure'
<1>1. CASE Return /\ UNCHANGED <<db, book, placed, faults>>
  BY <1>1, StructureReturn, SameRowsKept DEF Return, db
<1>2. ASSUME NEW o \in Order,
             /\ orders[o] # NoRow /\ TradesByHash(tx) # {}
             /\ \A i \in TradesByHash(tx) : /\ i \in DOMAIN trades /\ trades[i].taker = o
                                            /\ trades[i].tx = tx
             /\ due' = TradesByHash(tx) /\ taker' = o /\ row' = orders[o]
             /\ pc = "readTrades" /\ pc' = "settleMaker"
             /\ UNCHANGED <<match, todo, unsaved, tx, outcome, db, book, placed, faults>>
      PROVE  Structure'
  <2>1. TradesKnown' /\ OneTaker' /\ RowsKnown'
    BY <1>2, SameRowsKept, StructureQuiet DEF db
  <2>2. SettleKnown'
    BY <1>2 DEF SettleKnown, AtSettle, Structure, RowsKnown, db
  <2>3. IdleLocals' /\ NewOrderKnown' /\ NewTrades'
    BY <1>2 DEF Structure, IdleLocals, NewOrderKnown, NewTrades, AtNewOrder, AtSettle
  <2>4. QED
    BY <2>1, <2>2, <2>3 DEF Structure
<1>3. QED
  BY <1>1, <1>2, ReadTradesCases

\* The two orders of a trade that is settled.
LEMMA SettledTrade ==
  ASSUME BalanceInv, Structure, AtSettle, NEW i \in due
  PROVE  /\ i \in DOMAIN trades /\ trades[i].maker \in Order /\ trades[i].maker # taker
         /\ orders[trades[i].maker] # NoRow
         /\ trades[i].amount \in Nat /\ trades[i].amount > 0
         /\ trades[i].taker = taker
<1>1. i \in DOMAIN trades
  BY DEF BalanceInv, TypeOK
<1>2. trades[i].maker \in Order /\ trades[i].amount \in Nat
  BY <1>1, TradeFields DEF BalanceInv
<1>3. trades[i].taker = taker /\ SideOf[trades[i].maker] # SideOf[trades[i].taker]
  BY <1>1 DEF Structure, SettleKnown, TradesKnown
<1>4. orders[trades[i].maker] # NoRow /\ trades[i].amount > 0
  BY <1>1 DEF Structure, TradesKnown, BalanceInv, MakersStored
<1>5. QED
  BY <1>1, <1>2, <1>3, <1>4

\* What SettleMaker writes to the maker's row, and what becomes of the taker's in memory.
LEMMA SettleMakerWrites ==
  ASSUME BalanceInv, Structure, NEW i \in due, NEW ok \in BOOLEAN, SettleMaker(i, ok)
  PROVE  LET m == trades[i].maker
             n == trades[i].amount
             u == AutoSetStatusByAmounts(Settled(orders[m], n, outcome))
         IN  /\ orders[m] \in Row /\ Balanced(orders[m])
             /\ u \in Row /\ Balanced(u) /\ u.amount = orders[m].amount
             /\ u.available = orders[m].available
             /\ u.pending = orders[m].pending - n
             /\ u.confirmed = IF outcome = "successful" THEN orders[m].confirmed + n
                                                        ELSE orders[m].confirmed
             /\ u.canceled = IF outcome = "successful" THEN orders[m].canceled
                                                       ELSE orders[m].canceled + n
             /\ u.status = StatusOf(u)
             /\ UpdateOrder(m, u, ok)
             /\ row'.amount = row.amount /\ row'.available = row.available
             /\ row'.pending = row.pending - n
             /\ row'.confirmed = IF outcome = "successful" THEN row.confirmed + n
                                                           ELSE row.confirmed
             /\ row'.canceled = IF outcome = "successful" THEN row.canceled
                                                          ELSE row.canceled + n
<1> DEFINE m == trades[i].maker
           n == trades[i].amount
           v == Settled(orders[m], n, outcome)
           u == AutoSetStatusByAmounts(v)
<1>1. m \in Order /\ orders[m] # NoRow /\ n \in Nat
  BY SettledTrade DEF SettleMaker, AtSettle
<1>2. orders[m] \in Row /\ Balanced(orders[m]) /\ outcome \in Outcome /\ row \in Row
  BY <1>1 DEF BalanceInv, TypeOK, AmountsBalanced, Present
<1>3. row' = Settled(row, n, outcome) /\ UpdateOrder(m, u, ok)
  BY DEF SettleMaker
<1> HIDE DEF m, n
<1>4. v \in Row /\ Balanced(v)
  BY <1>1, <1>2, SettledBalanced
<1>5. /\ v.amount = orders[m].amount
      /\ v.available = orders[m].available
      /\ v.pending = orders[m].pending - n
      /\ v.confirmed = IF outcome = "successful" THEN orders[m].confirmed + n
                                                 ELSE orders[m].confirmed
      /\ v.canceled = IF outcome = "successful" THEN orders[m].canceled
                                                ELSE orders[m].canceled + n
  BY <1>1, <1>2, SettledFields
<1> HIDE DEF v
<1>6. /\ u \in Row /\ Balanced(u) /\ u.status = StatusOf(u) /\ u.amount = v.amount
      /\ u.available = v.available /\ u.pending = v.pending
      /\ u.confirmed = v.confirmed /\ u.canceled = v.canceled
  BY <1>4, AutoSetStatusBalanced, AutoSetStatusFields, StatusSaved
<1>7. /\ row'.amount = row.amount /\ row'.available = row.available
      /\ row'.pending = row.pending - n
      /\ row'.confirmed = IF outcome = "successful" THEN row.confirmed + n ELSE row.confirmed
      /\ row'.canceled = IF outcome = "successful" THEN row.canceled ELSE row.canceled + n
  BY <1>1, <1>2, <1>3, SettledFields
<1> HIDE DEF u
<1>8. QED
  BY <1>2, <1>3, <1>5, <1>6, <1>7 DEF m, n, u, v

LEMMA StructureSettleMaker ==
  ASSUME BalanceInv, Structure, NEW i \in due, NEW ok \in BOOLEAN, SettleMaker(i, ok)
  PROVE  Structure'
<1> DEFINE m == trades[i].maker
<1>1. /\ pc = "settleMaker" /\ pc' = "settleTrade"
      /\ UNCHANGED <<txs, trades, book, placed, taker, match, todo, unsaved, due, tx>>
  BY DEF SettleMaker
<1>2. m \in Order /\ orders[m] # NoRow
  BY SettledTrade DEF SettleMaker, AtSettle
<1>3. PICK r \in Row : r.amount = orders[m].amount /\ UpdateOrder(m, r, ok)
  BY SettleMakerWrites
<1> HIDE DEF m
<1>4. RowsKept
  BY <1>2, <1>3, WriteKeepsRows DEF BalanceInv
<1>5. row'.amount = row.amount
  BY SettleMakerWrites
<1>6. TradesKnown' /\ OneTaker' /\ RowsKnown'
  BY <1>1, <1>4, StructureQuiet
<1>7. IdleLocals' /\ NewOrderKnown' /\ NewTrades'
  BY <1>1 DEF Structure, IdleLocals, NewOrderKnown, NewTrades, AtNewOrder, AtSettle
<1>8. SettleKnown'
  BY <1>1, <1>4, <1>5 DEF Structure, SettleKnown, AtSettle, RowsKept
<1>9. QED
  BY <1>6, <1>7, <1>8 DEF Structure

LEMMA SettleTradeKeeps ==
  ASSUME BalanceInv, NEW i \in due, NEW ok \in BOOLEAN, SettleTrade(i, ok)
  PROVE  /\ TradesKept
         /\ \A j \in DOMAIN trades :
              trades'[j].status = IF ok /\ j = i THEN outcome ELSE trades[j].status
<1>1. i \in DOMAIN trades
  BY DEF BalanceInv, TypeOK
<1>2. trades[i] \in Trade
  BY <1>1, TradeFields DEF BalanceInv
<1>3. trades' = IF ok THEN [trades EXCEPT ![i].status = outcome] ELSE trades
  BY DEF SettleTrade
<1>4. QED
  BY <1>1, <1>2, <1>3 DEF TradesKept, Trade

LEMMA StructureSettleTrade ==
  ASSUME BalanceInv, Structure, NEW i \in due, NEW ok \in BOOLEAN, SettleTrade(i, ok)
  PROVE  Structure'
<1>1. /\ pc = "settleTrade" /\ pc' = "settleMaker" /\ due' = due \ {i}
      /\ UNCHANGED <<orders, txs, book, placed, taker, row, match, todo, unsaved, tx>>
  BY DEF SettleTrade
<1>2. TradesKept
  BY SettleTradeKeeps
<1>3. TradesKnown' /\ OneTaker'
  BY <1>1, <1>2, KeptTrades DEF Structure
<1>4. RowsKnown' /\ IdleLocals' /\ NewOrderKnown' /\ NewTrades'
  BY <1>1 DEF Structure, RowsKnown, IdleLocals, NewOrderKnown, NewTrades, AtNewOrder, AtSettle
<1>5. SettleKnown'
  BY <1>1, <1>2 DEF Structure, SettleKnown, AtSettle, TradesKept, BalanceInv, TypeOK
<1>6. QED
  BY <1>3, <1>4, <1>5 DEF Structure

LEMMA StructureSettleTaker ==
  ASSUME BalanceInv, Structure, NEW ok \in BOOLEAN, SettleTaker(ok)
  PROVE  Structure'
<1>1. AutoSetStatusByAmounts(row) \in Row /\ AutoSetStatusByAmounts(row).amount = row.amount
  BY AutoSetStatusBalanced, AutoSetStatusFields DEF BalanceInv, TypeOK, RowAtWork
<1>2. taker \in Order /\ orders[taker] # NoRow /\ row.amount = orders[taker].amount
  BY DEF SettleTaker, Structure, SettleKnown, RowsKnown, AtSettle
<1>3. RowsKept
  BY <1>1, <1>2, WriteKeepsRows DEF SettleTaker, BalanceInv
<1>4. QED
  BY <1>3, StructureReturn DEF SettleTaker, Return

LEMMA StructureLauncher ==
  ASSUME BalanceInv, Structure, Launcher
  PROVE  Structure'
<1>1. UNCHANGED <<orders, book, placed, pc, taker, row, match, todo, unsaved, due, tx>>
  BY LauncherWrites DEF BalanceInv, locals
<1>2. TradesKept /\ DOMAIN txs' = DOMAIN txs
  BY LaunchKeeps DEF BalanceInv
<1>3. TradesKnown' /\ OneTaker' /\ \A o : Of(o)' = Of(o)
  BY <1>1, <1>2, KeptTrades DEF Structure
<1>4. RowsKnown' /\ IdleLocals' /\ NewOrderKnown'
  BY <1>1 DEF Structure, RowsKnown, IdleLocals, NewOrderKnown, AtNewOrder, AtSettle, Makers
<1>5. NewTrades'
  <2>1. pc = "insertTrades" => txs'[tx].log \in {"created", "pending"}
    BY LaunchKeeps DEF Structure, NewTrades, BalanceInv, LocalsKnown, TypeOK
  <2>2. QED
    BY <1>1, <1>2, <1>3, <2>1
       DEF Structure, NewTrades, AtNewOrder, TradesKept, Of, Makers
<1>6. SettleKnown'
  BY <1>1, <1>2 DEF Structure, SettleKnown, AtSettle, TradesKept, BalanceInv, TypeOK
<1>7. QED
  BY <1>3, <1>4, <1>5, <1>6 DEF Structure

LEMMA StructureCrash ==
  ASSUME BalanceInv, Structure, Crash
  PROVE  Structure'
<1>1. \A o \in Order : book'[o] = 0
  BY DEF Crash
<1>2. QED
  BY <1>1, StructureReturn, SameRowsKept DEF Crash, db

LEMMA StructureNewMarketHandler ==
  ASSUME BalanceInv, Structure, NewMarketHandler
  PROVE  Structure'
<1>1. /\ pc = "down" /\ pc' = "idle"
      /\ UNCHANGED <<orders, txs, trades, placed, taker, row, match, todo, unsaved, due, tx>>
  BY DEF NewMarketHandler, db, locals
<1>2. \A o \in Order : book'[o] > 0 => orders[o] # NoRow
  BY DEF NewMarketHandler
<1>3. TradesKnown' /\ OneTaker' /\ RowsKnown'
  BY <1>1, <1>2, SameRowsKept, StructureQuiet
<1>4. IdleLocals' /\ NewOrderKnown' /\ NewTrades' /\ SettleKnown'
  BY <1>1 DEF Structure, IdleLocals, NewOrderKnown, NewTrades, SettleKnown, AtNewOrder, AtSettle
<1>5. QED
  BY <1>3, <1>4 DEF Structure

LEMMA StructureHandlerStep ==
  ASSUME BalanceInv, Structure, HandlerStep
  PROVE  Structure'
<1>1. ASSUME NEW m \in Order, MakerMissing(m)
      PROVE  Structure'
  BY <1>1, StructureMakerMissing
<1>2. CASE FinishTaker
  BY <1>2, StructureFinishTaker
<1>3. CASE ReadTrades
  BY <1>3, StructureReadTrades
<1>4. ASSUME NEW ok \in BOOLEAN, NEW m \in Order,
             UpdateMaker(m, ok) \/ SaveMakerAgain(m, ok) \/ InsertTrade(m, ok)
      PROVE  Structure'
  BY <1>4, StructureUpdateMaker, StructureSaveMakerAgain, StructureInsertTrade
<1>5. ASSUME NEW ok \in BOOLEAN,
             \/ InsertTransaction(ok)
             \/ InsertLaunchLog(ok)
             \/ InsertTaker(ok)
             \/ UpdateLaunchLogsStatus(ok)
             \/ SettleTaker(ok)
      PROVE  Structure'
  BY <1>5, StructureInsertTransaction, StructureInsertLaunchLog, StructureInsertTaker,
     StructureUpdateLaunchLogsStatus, StructureSettleTaker
<1>6. ASSUME NEW ok \in BOOLEAN, NEW i \in due,
             SettleMaker(i, ok) \/ SettleTrade(i, ok)
      PROVE  Structure'
  BY <1>6, StructureSettleMaker, StructureSettleTrade
<1>7. QED
  BY <1>1, <1>2, <1>3, <1>4, <1>5, <1>6 DEF HandlerStep

LEMMA StructureNext ==
  ASSUME BalanceInv, Structure, [Next]_vars
  PROVE  Structure'
<1>1. ASSUME NEW o \in Order, HandleNewOrder(o)
      PROVE  Structure'
  BY <1>1, StructureNewOrder
<1>2. ASSUME NEW o \in Order, NEW ok \in BOOLEAN, HandleCancelOrder(o, ok)
      PROVE  Structure'
  BY <1>2, StructureCancelOrder
<1>3. ASSUME Launcher \/ \E t \in DOMAIN txs : Confirm(t)
      PROVE  Structure'
  BY <1>3, StructureTransactionResult, StructureLauncher DEF Confirm
<1>4. CASE HandlerStep
  BY <1>4, StructureHandlerStep
<1>5. CASE Crash
  BY <1>5, StructureCrash
<1>6. CASE NewMarketHandler
  BY <1>6, StructureNewMarketHandler
<1>7. CASE UNCHANGED vars
  <2>1. UNCHANGED <<orders, txs, trades, book, placed, pc, taker, row, match, todo, unsaved,
                    due, tx>>
    BY <1>7 DEF vars, db, locals
  <2>2. TradesKnown' /\ OneTaker' /\ \A o : Of(o)' = Of(o)
    BY <2>1, KeptTrades, SameTradesKept DEF Structure
  <2>3. QED
    BY <2>1, <2>2 DEF Structure, RowsKnown, IdleLocals, NewOrderKnown, NewTrades, SettleKnown,
                      AtNewOrder, AtSettle, Makers
<1>8. QED
  BY <1>1, <1>2, <1>3, <1>4, <1>5, <1>6, <1>7 DEF Next, Launcher

-----------------------------------------------------------------------------
(* BookInv: while every write succeeds, what rests in the book is what the *)
(* rows say is available, the locals of a match add up to what the rows    *)
(* will lose, and neither the book nor what a restart would make of the    *)
(* table is crossed.                                                       *)
\* What rests, and what is open by its status, is as the rows have it.
Backed ==
  pc # "down" =>
    \A o \in Present :
      Rests(o).status = "pending" \/ book[o] > 0 => book[o] = Rests(o).available

\* Only an order with a row rests in the book, or the one at work.
OnlyStored ==
  pc # "down" =>
    \A o \in Order : book[o] > 0 => o \in Present \/ (AtNewOrder /\ o = taker)

\* A maker the loop has not reached has a row, with enough in it for the match.
TodoFits ==
  pc = "makers" =>
    \A m \in todo : /\ m \in Present
                    /\ orders[m].available >= match.fill[m]
                    /\ MakerAfter(m).available = book[m]

\* What row has left, and what the book has of it.
TakerFits ==
  AtNewOrder =>
    /\ row.status = "pending" /\ row.confirmed = 0
    /\ row.canceled >= 0 /\ row.available >= 0
    /\ Total(match.fill) <= AmountOf[taker]
    /\ pc = "makers" =>
         /\ row.available = Leftover(taker, match.fill) + Sum(match.fill, todo)
         /\ book[taker] = IF taker \in match.done THEN 0 ELSE Leftover(taker, match.fill)
    /\ pc # "makers" => book[taker] = row.available

\* A row whose status may be other than "pending".
Sunk(r) == r.available = 0 \/ r.available + r.pending <= 0

\* Three of the amounts never go below zero; pending may, where dust is.
RowSigns ==
  \A o \in Present :
    /\ orders[o].available >= 0 /\ orders[o].confirmed >= 0 /\ orders[o].canceled >= 0
    /\ orders[o].status # "pending" => Sunk(orders[o])

\* The row in memory has settled what the stored one has not.
SettleFits ==
  AtSettle => /\ row.available = orders[taker].available
              /\ row.confirmed >= orders[taker].confirmed
              /\ row.canceled >= orders[taker].canceled

\* o and m would match.
Crosses(o, m) ==
  /\ SideOf[m] # SideOf[o]
  /\ IF SideOf[o] = "sell" THEN PriceOf[m] >= PriceOf[o] ELSE PriceOf[m] <= PriceOf[o]

Uncrossed == \A o, m \in Order : book[o] > 0 /\ book[m] > 0 => ~Crosses(o, m)

\* What a restart would put in the book.
Reinserted(o) == orders[o].status = "pending" /\ orders[o].available > 0

TableUncrossed ==
  \A o, m \in Present : Reinserted(o) /\ Reinserted(m) => ~Crosses(o, m)

BookFits == unsaved = {} /\ Backed /\ OnlyStored /\ TodoFits /\ TakerFits /\ SettleFits
TableFits == RowSigns /\ Uncrossed /\ TableUncrossed
BookInv == dbErrors = 0 => BookFits /\ TableFits

\* Two orders cross each other or neither the other.
LEMMA CrossesBoth ==
  ASSUME NEW o \in Order, NEW m \in Order, Crosses(o, m)
  PROVE  Crosses(m, o)
<1>1. /\ SideOf[o] \in {"buy", "sell"} /\ SideOf[m] \in {"buy", "sell"}
      /\ PriceOf[o] \in Nat /\ PriceOf[m] \in Nat
  BY OrderAssumption
<1>2. QED
  BY <1>1 DEF Crosses

LEMMA DbSaved ==
  ASSUME TypeOK, NEW ok \in BOOLEAN, Db(ok), dbErrors' = 0
  PROVE  ok /\ dbErrors = 0
  BY BoundAssumption DEF Db, TypeOK

\* The status is "pending" when, and only when, there is something left to do.
LEMMA PendingStatus ==
  ASSUME NEW r \in Row, Balanced(r), r.confirmed >= 0, r.canceled >= 0
  PROVE  StatusOf(r) = "pending" <=> r.available + r.pending > 0
  BY RowAmounts DEF StatusOf, Balanced

LEMMA SameTable ==
  ASSUME orders' = orders, book' = book, TableFits
  PROVE  TableFits'
  BY DEF TableFits, RowSigns, Present, Sunk, Uncrossed, TableUncrossed, Reinserted

\* A write of one row that re-opens nothing.
LEMMA TableWrite ==
  ASSUME TypeOK, TableFits, NEW o \in Present, NEW u \in Row,
         orders' = [orders EXCEPT ![o] = u],
         u.available >= 0, u.confirmed >= 0, u.canceled >= 0,
         u.status # "pending" => Sunk(u),
         u.status = "pending" /\ u.available > 0 => Reinserted(o),
         \A p \in Order : book'[p] > 0 => book[p] > 0
  PROVE  TableFits'
<1>1. o \in Order /\ orders \in [Order -> Row \cup {NoRow}] /\ u # NoRow
  BY OrderAssumption DEF Present, TypeOK
<1>2. /\ Present' = Present /\ orders'[o] = u
      /\ \A p \in Present : p # o => orders'[p] = orders[p]
  BY <1>1 DEF Present
<1>3. RowSigns'
  BY <1>2 DEF RowSigns, TableFits, Sunk
<1>4. Uncrossed'
  BY DEF Uncrossed, TableFits
<1>5. \A p \in Present : Reinserted(p)' => Reinserted(p)
  BY <1>2 DEF Reinserted
<1>6. TableUncrossed'
  BY <1>2, <1>5 DEF TableUncrossed, TableFits
<1>7. QED
  BY <1>3, <1>4, <1>6 DEF TableFits

\* Outside the matching loop, a step that changes neither book nor rows.
LEMMA SameBook ==
  ASSUME orders' = orders, book' = book, BookFits, unsaved' = unsaved,
         pc \notin {"makers", "down"}, pc' \notin {"makers", "down"}
  PROVE  Backed' /\ unsaved' = {} /\ TodoFits'
  BY DEF BookFits, Backed, Rests, Present, TodoFits

LEMMA BookInit == Init => BookFits /\ TableFits
  BY DEF Init, BookFits, TableFits, Backed, OnlyStored, TodoFits, TakerFits, SettleFits,
         AtNewOrder, AtSettle, RowSigns, Uncrossed, TableUncrossed, Present

-----------------------------------------------------------------------------
(* BookInv is inductive: one lemma for each action.                        *)
LEMMA BookNewOrder ==
  ASSUME BalanceInv, Structure, BookFits, TableFits, NEW o \in Order, HandleNewOrder(o)
  PROVE  BookFits' /\ TableFits'
<1>1. PICK r \in Matches(o) :
        /\ book' = BookAfter(o, r)
        /\ match' = r
        /\ todo' = Makers(r)
        /\ pc' = IF Makers(r) = {} THEN "insertTaker" ELSE "makers"
  BY DEF HandleNewOrder
<1>2. /\ taker' = o /\ row' = FreshRow(AmountOf[o]) /\ pc = "idle" /\ o \notin placed
      /\ UNCHANGED <<orders, unsaved>>
  BY DEF HandleNewOrder, db
<1>3. orders[o] = NoRow
  BY <1>2 DEF Structure, RowsKnown
<1>4. /\ r.fill \in [Order -> 0 .. AmountOf[o]]
      /\ \A m \in Order : r.fill[m] <= IF m \in Crossing(o) THEN book[m] ELSE 0
      /\ \/ Total(r.fill) = AmountOf[o]
         \/ Total(r.fill) < AmountOf[o] /\ \A m \in Crossing(o) : r.fill[m] = book[m]
      /\ r.done \subseteq Makers(r) \cup {o}
      /\ Exhausted(o, r.fill) \subseteq r.done
      /\ Makers(r) = {} => r.done = {}
  BY DEF Matches, Fills
<1>5. AmountOf[o] \in Nat /\ AmountOf[o] > 0 /\ Total(r.fill) \in Nat
  BY <1>4, OrderAssumption, TotalOfFill
<1>6. book \in [Order -> Nat]
  BY DEF BalanceInv, TypeOK
<1>7. \A m \in Order : book'[m] = IF m \in r.done THEN 0
                                  ELSE IF m = o THEN Leftover(o, r.fill)
                                  ELSE book[m] - r.fill[m]
  BY <1>1 DEF BookAfter
<1>8. \A m \in Makers(r) : /\ m \in Order /\ m \in Present /\ m # o
                           /\ r.fill[m] \in Nat /\ r.fill[m] > 0 /\ r.fill[m] <= book[m]
                           /\ orders[m].available = book[m]
  <2> SUFFICES ASSUME NEW m \in Makers(r)
               PROVE  /\ m \in Order /\ m \in Present /\ m # o
                      /\ r.fill[m] \in Nat /\ r.fill[m] > 0 /\ r.fill[m] <= book[m]
                      /\ orders[m].available = book[m]
    OBVIOUS
  <2>1. m \in Order /\ r.fill[m] > 0
    BY DEF Makers
  <2>2. r.fill[m] \in Nat
    BY <1>4, <1>5, <2>1
  <2>3. m \in Crossing(o)
    BY <1>4, <2>1, <2>2
  <2>4. r.fill[m] <= book[m] /\ book[m] > 0 /\ m # o
    BY <1>4, <2>1, <2>3 DEF Crossing
  <2>5. m \in Present /\ book[m] = orders[m].available
    BY <1>2, <2>1, <2>4 DEF BookFits, OnlyStored, Backed, Rests, AtNewOrder
  <2>6. QED
    BY <2>1, <2>2, <2>4, <2>5
<1>9. \A p \in Order : p \notin Makers(r) => r.fill[p] = 0
  BY <1>4, <1>5 DEF Makers
<1>10. unsaved' = {}
  BY <1>2 DEF BookFits
<1>11. \A m \in Makers(r) : MakerAfter(m)'.available = book'[m]
  <2> SUFFICES ASSUME NEW m \in Makers(r)
               PROVE  MakerAfter(m)'.available = book'[m]
    OBVIOUS
  <2> DEFINE u == orders[m]
             n == r.fill[m]
  <2>1. u \in Row /\ n \in Nat /\ orders' = orders
    BY <1>2, <1>8 DEF Present, BalanceInv, TypeOK
  <2>2. MakerAfter(m)' = LET v == Matched(u, n, m \in r.canceled)
                         IN  IF m \in r.done THEN Done(v) ELSE v
    BY <1>1, <2>1 DEF MakerAfter
  <2>3. book'[m] = IF m \in r.done THEN 0 ELSE u.available - n
    BY <1>7, <1>8
  <2> HIDE DEF u, n
  <2>4. CASE m \in r.canceled
    BY <2>1, <2>2, <2>3, <2>4 DEF Matched, Done, Row
  <2>5. CASE m \notin r.canceled
    BY <2>1, <2>2, <2>3, <2>5 DEF Matched, Done, Row
  <2>6. QED
    BY <2>4, <2>5
<1>12. Backed'
  <2> SUFFICES ASSUME NEW p \in Present
               PROVE  (Rests(p).status = "pending" \/ book[p] > 0
                         => book[p] = Rests(p).available)'
    BY <1>2 DEF Backed, Present
  <2>1. CASE p \in Makers(r)
    <3>1. Makers(r) # {}
      BY <2>1
    <3>2. Rests(p)' = MakerAfter(p)'
      BY <1>1, <2>1, <3>1 DEF Rests
    <3>3. QED
      BY <1>11, <2>1, <3>2
  <2>2. CASE p \notin Makers(r)
    <3>1. p \in Order /\ p # o
      BY <1>3 DEF Present
    <3>2. book'[p] = book[p]
      BY <1>4, <1>6, <1>7, <1>9, <2>2, <3>1
    <3>3. Rests(p)' = orders[p] /\ Rests(p) = orders[p]
      BY <1>1, <1>2, <2>2 DEF Rests
    <3>4. QED
      BY <1>2, <3>2, <3>3 DEF BookFits, Backed
  <2>3. QED
    BY <2>1, <2>2
<1>13. OnlyStored'
  <2>1. \A p \in Order : book'[p] > 0 => p = o \/ book[p] > 0
    BY <1>4, <1>6, <1>7, <1>5
  <2>2. \A p \in Order : book[p] > 0 => p \in Present
    BY <1>2 DEF BookFits, OnlyStored, AtNewOrder
  <2>3. AtNewOrder'
    BY <1>1 DEF AtNewOrder
  <2>4. QED
    BY <1>2, <2>1, <2>2, <2>3 DEF OnlyStored, Present
<1>14. TodoFits'
  BY <1>1, <1>2, <1>8, <1>11 DEF TodoFits, Present
<1>15. TakerFits'
  <2>1. /\ row'.status = "pending" /\ row'.confirmed = 0 /\ row'.canceled = 0
        /\ row'.available = AmountOf[o]
    BY <1>2 DEF FreshRow
  <2>2. Total(r.fill) <= AmountOf[o]
    BY <1>4, <1>5
  <2>3. Total(r.fill) = Sum(r.fill, Makers(r))
    <3>1. r.fill \in [Order -> Nat] /\ Makers(r) \in SUBSET Order
      BY <1>4, <1>5 DEF Makers
    <3>2. QED
      BY <1>9, <3>1, SumOfPositive
  <2>4. Leftover(o, r.fill) = AmountOf[o] - Total(r.fill)
    BY DEF Leftover
  <2>5. book'[o] = IF o \in r.done THEN 0 ELSE Leftover(o, r.fill)
    BY <1>7
  <2>6. CASE Makers(r) = {}
    <3>1. Total(r.fill) = 0
      BY <2>3, <2>6, SumEmpty
    <3>2. book'[o] = AmountOf[o] /\ pc' = "insertTaker"
      BY <1>1, <1>4, <1>5, <2>4, <2>5, <2>6, <3>1
    <3>3. QED
      BY <1>1, <1>2, <1>5, <2>1, <2>2, <3>2 DEF TakerFits
  <2>7. CASE Makers(r) # {}
    <3>1. pc' = "makers" /\ todo' = Makers(r) /\ match'.fill = r.fill
      BY <1>1, <2>7
    <3>2. AmountOf[o] = Leftover(o, r.fill) + Sum(r.fill, Makers(r))
      BY <1>5, <2>3, <2>4
    <3>3. QED
      BY <1>1, <1>2, <1>5, <2>1, <2>2, <2>5, <3>1, <3>2 DEF TakerFits
  <2>8. QED
    BY <2>6, <2>7
<1>16. SettleFits'
  BY <1>1 DEF SettleFits, AtSettle
<1>17. RowSigns' /\ TableUncrossed'
  BY <1>2 DEF TableFits, RowSigns, Present, Sunk, TableUncrossed, Reinserted
<1>18. Uncrossed'
  <2>1. ASSUME NEW q \in Order, Crosses(o, q), book'[q] > 0, book'[o] > 0
        PROVE  FALSE
    <3>1. o \notin r.done /\ Leftover(o, r.fill) > 0
      BY <1>7, <2>1
    <3>2. Total(r.fill) # AmountOf[o]
      BY <1>5, <3>1 DEF Leftover
    <3>3. q # o
      BY <2>1 DEF Crosses
    <3>4. book[q] > 0 /\ q \notin r.done
      BY <1>4, <1>5, <1>6, <1>7, <2>1, <3>3
    <3>5. q \in Crossing(o)
      BY <2>1, <3>4 DEF Crossing, Crosses
    <3>6. r.fill[q] = book[q]
      BY <1>4, <3>2, <3>5
    <3>7. q \in Exhausted(o, r.fill)
      BY <3>4, <3>6 DEF Exhausted
    <3>8. QED
      BY <1>4, <3>4, <3>7
  <2> SUFFICES ASSUME NEW p \in Order, NEW q \in Order, book'[p] > 0, book'[q] > 0,
                      Crosses(p, q)
               PROVE  FALSE
    BY DEF Uncrossed
  <2>2. CASE p = o \/ q = o
    BY <2>1, <2>2, CrossesBoth
  <2>3. CASE p # o /\ q # o
    <3>1. book[p] > 0 /\ book[q] > 0
      BY <1>4, <1>5, <1>6, <1>7, <2>3
    <3>2. QED
      BY <3>1 DEF TableFits, Uncrossed
  <2>4. QED
    BY <2>2, <2>3
<1>20. QED
  BY <1>10, <1>12, <1>13, <1>14, <1>15, <1>16, <1>17, <1>18 DEF BookFits, TableFits

LEMMA BookUpdateMaker ==
  ASSUME BalanceInv, Structure, BookFits, TableFits, dbErrors' = 0,
         NEW m \in Order, NEW ok \in BOOLEAN, UpdateMaker(m, ok)
  PROVE  BookFits' /\ TableFits'
<1> DEFINE u == MakerAfter(m)
           n == match.fill[m]
<1>1. /\ pc = "makers" /\ pc' = "makers" /\ m \in todo /\ orders[m] # NoRow
      /\ todo' = todo \ {m} /\ UpdateOrder(m, u, ok) /\ Db(ok)
      /\ row' = Matched(row, n, m \in match.canceled)
      /\ unsaved' = (IF ok THEN unsaved ELSE unsaved \cup {m})
      /\ UNCHANGED <<book, taker, match>>
  BY DEF UpdateMaker
<1>2. ok
  BY <1>1, DbSaved DEF BalanceInv
<1>3. orders' = [orders EXCEPT ![m] = u] /\ unsaved' = {}
  BY <1>1, <1>2 DEF UpdateOrder, BookFits
<1>4. /\ orders[m] \in Row /\ Balanced(orders[m]) /\ n \in Nat
      /\ u.amount = orders[m].amount
      /\ u.status = orders[m].status
      /\ u.confirmed = orders[m].confirmed
      /\ u.available = IF m \in match.done THEN 0 ELSE orders[m].available - n
      /\ u.pending = IF m \in match.canceled THEN orders[m].pending
                                             ELSE orders[m].pending + n
      /\ Balanced(u) /\ u \in Row
  BY <1>1, MakerAfterFields
<1>5. /\ m \in Present /\ orders[m].available >= n /\ n > 0
      /\ u.available = book[m]
  BY <1>1 DEF BookFits, TodoFits, Structure, NewOrderKnown, AtNewOrder, Makers
<1>6. \A p \in todo \ {m} : MakerAfter(p)' = MakerAfter(p) /\ orders'[p] = orders[p]
  <2>1. todo \subseteq Order /\ orders \in [Order -> Row \cup {NoRow}]
    BY DEF BalanceInv, TypeOK
  <2>2. \A p \in todo \ {m} : orders'[p] = orders[p]
    BY <1>3, <2>1
  <2>3. QED
    BY <1>1, <2>2 DEF MakerAfter
<1>7. Present' = Present /\ orders'[m] = u /\ \A p \in Present : p # m => orders'[p] = orders[p]
  <2>1. u # NoRow /\ orders \in [Order -> Row \cup {NoRow}]
    BY <1>4, OrderAssumption DEF BalanceInv, TypeOK
  <2> HIDE DEF u
  <2>2. QED
    BY <1>1, <1>3, <2>1 DEF Present
<1>8. /\ orders[m].available >= 0 /\ orders[m].confirmed >= 0 /\ orders[m].canceled >= 0
      /\ orders[m].status # "pending" => Sunk(orders[m])
  BY <1>5 DEF TableFits, RowSigns
<1> HIDE DEF u, n
<1>9. u.available >= 0 /\ u.confirmed >= 0 /\ u.canceled >= 0
  BY <1>4, <1>5, <1>8, RowAmounts DEF Balanced
<1>10. u.status # "pending" => Sunk(u)
  BY <1>4, <1>5, <1>8, RowAmounts DEF Sunk
<1>11. TableFits'
  <2>1. u.status = "pending" /\ u.available > 0 => Reinserted(m)
    BY <1>4, <1>5, RowAmounts DEF Reinserted
  <2>2. TypeOK
    BY DEF BalanceInv
  <2>3. QED
    BY <1>1, <1>3, <1>4, <1>5, <1>9, <1>10, <2>1, <2>2, TableWrite
<1>12. Backed'
  <2>1. \A p \in Present : Rests(p)' = Rests(p)
    <3> SUFFICES ASSUME NEW p \in Present PROVE Rests(p)' = Rests(p)
      OBVIOUS
    <3>1. CASE p = m
      BY <1>1, <1>7, <3>1 DEF Rests, u
    <3>2. CASE p # m
      BY <1>1, <1>6, <1>7, <3>2 DEF Rests
    <3>3. QED
      BY <3>1, <3>2
  <2>2. QED
    BY <1>1, <1>7, <2>1 DEF Backed, BookFits
<1>13. OnlyStored' /\ SettleFits'
  BY <1>1, <1>7 DEF OnlyStored, BookFits, AtNewOrder, SettleFits, AtSettle
<1>14. TodoFits'
  BY <1>1, <1>6, <1>7 DEF TodoFits, BookFits
<1>15. TakerFits'
  <2>1. row \in Row /\ AtNewOrder /\ taker \in Order
    BY <1>1 DEF BalanceInv, TypeOK, AtNewOrder, LocalsKnown
  <2>2. /\ row'.status = row.status /\ row'.confirmed = row.confirmed
        /\ row'.available = row.available - n
        /\ row'.canceled = row.canceled \/ row'.canceled = row.canceled + n
    <3>1. CASE m \in match.canceled
      BY <1>1, <1>4, <2>1, <3>1 DEF Matched, Row
    <3>2. CASE m \notin match.canceled
      BY <1>1, <1>4, <2>1, <3>2 DEF Matched, Row
    <3>3. QED
      BY <3>1, <3>2
  <2>3. Sum(match.fill, todo) = Sum(match.fill, todo \ {m}) + n
        /\ Sum(match.fill, todo \ {m}) \in Nat
    <3>1. todo \subseteq Order /\ match.fill \in [Order -> Nat] /\ IsFiniteSet(todo)
          /\ IsFiniteSet(todo \ {m})
      BY OrderAssumption, FS_Subset DEF BalanceInv, TypeOK, Match
    <3>2. QED
      BY <1>1, <3>1, SumRemove, UnitsFinite DEF n
  <2>4. /\ row.status = "pending" /\ row.confirmed = 0
        /\ row.canceled >= 0 /\ row.available >= 0
        /\ Total(match.fill) <= AmountOf[taker]
        /\ row.available = Leftover(taker, match.fill) + Sum(match.fill, todo)
        /\ book[taker] = IF taker \in match.done THEN 0 ELSE Leftover(taker, match.fill)
    BY <1>1, <2>1 DEF BookFits, TakerFits
  <2>5. Leftover(taker, match.fill) \in Nat
    <3>1. Total(match.fill) \in Nat /\ AmountOf[taker] \in Nat
      <4>1. match.fill \in [Order -> Nat] /\ IsFiniteSet(Order)
        BY OrderAssumption DEF BalanceInv, TypeOK, Match
      <4>2. Total(match.fill) = Sum(match.fill, Order)
        BY <4>1, SumOfPositive
      <4>3. QED
        BY <2>1, <4>1, <4>2, UnitsFinite, OrderAssumption
    <3>2. QED
      BY <2>4, <3>1 DEF Leftover
  <2>6. row'.available >= 0 /\ row'.canceled >= 0
    BY <1>4, <2>1, <2>2, <2>3, <2>4, <2>5, RowAmounts
  <2>7. row'.available = Leftover(taker, match.fill) + Sum(match.fill, todo')
    BY <1>1, <1>4, <2>2, <2>3, <2>4, <2>5
  <2>8. QED
    BY <1>1, <2>2, <2>4, <2>6, <2>7 DEF TakerFits
<1>16. QED
  BY <1>3, <1>11, <1>12, <1>13, <1>14, <1>15 DEF BookFits

LEMMA BookFinishTaker ==
  ASSUME BalanceInv, Structure, BookFits, TableFits, FinishTaker
  PROVE  BookFits' /\ TableFits'
<1>1. /\ pc = "makers" /\ todo = {} /\ pc' \in {"insertTaker", "insertTx"}
      /\ row' = (IF taker \in match.done THEN Done(row) ELSE row)
      /\ UNCHANGED <<orders, book, taker, match, todo, unsaved>>
  BY DEF FinishTaker, db
<1>2. TableFits'
  BY <1>1, SameTable
<1>3. row \in Row /\ Balanced(row) /\ AtNewOrder /\ AtNewOrder'
  BY <1>1 DEF BalanceInv, TypeOK, RowAtWork, AtNewOrder
<1>4. /\ row.status = "pending" /\ row.confirmed = 0
      /\ row.canceled >= 0 /\ row.available >= 0
      /\ Total(match.fill) <= AmountOf[taker]
      /\ row.available = Leftover(taker, match.fill) + 0
      /\ book[taker] = IF taker \in match.done THEN 0 ELSE Leftover(taker, match.fill)
  BY <1>1, <1>3, SumEmpty DEF BookFits, TakerFits
<1>5. TakerFits'
  <2>1. CASE taker \in match.done
    <3>1. /\ row'.status = "pending" /\ row'.confirmed = 0 /\ row'.available = 0
          /\ row'.canceled = row.canceled + row.available
      BY <1>1, <1>3, <1>4, <2>1, DoneFields
    <3>2. row'.canceled >= 0
      BY <1>3, <1>4, <3>1, RowAmounts
    <3>3. QED
      BY <1>1, <1>4, <2>1, <3>1, <3>2 DEF TakerFits
  <2>2. CASE taker \notin match.done
    <3>1. Leftover(taker, match.fill) = row.available
      <4>1. Total(match.fill) \in Nat /\ AmountOf[taker] \in Nat
        <5>1. match.fill \in [Order -> Nat] /\ IsFiniteSet(Order) /\ taker \in Order
          BY <1>1, OrderAssumption DEF BalanceInv, TypeOK, Match, LocalsKnown
        <5>2. Total(match.fill) = Sum(match.fill, Order)
          BY <5>1, SumOfPositive
        <5>3. QED
          BY <5>1, <5>2, UnitsFinite, OrderAssumption
      <4>2. QED
        BY <1>4, <4>1 DEF Leftover
    <3>2. QED
      BY <1>1, <1>4, <2>2, <3>1 DEF TakerFits
  <2>3. QED
    BY <2>1, <2>2
<1>6. Backed' /\ OnlyStored' /\ TodoFits' /\ SettleFits' /\ unsaved' = {}
  BY <1>1, <1>3 DEF BookFits, Backed, Rests, Present, OnlyStored, TodoFits, SettleFits, AtSettle
<1>7. QED
  BY <1>2, <1>5, <1>6 DEF BookFits

\* The steps that leave the rows and the book alone.
LEMMA BookQuiet ==
  ASSUME BookFits, TableFits, UNCHANGED <<orders, book, unsaved, taker, row>>,
         match' = match, pc \notin {"makers", "down"}, pc' \notin {"makers", "down"},
         AtNewOrder' = AtNewOrder, AtSettle' = AtSettle
  PROVE  BookFits' /\ TableFits'
<1>1. TableFits' /\ Backed' /\ unsaved' = {} /\ TodoFits'
  BY SameTable, SameBook
<1>2. OnlyStored' /\ TakerFits' /\ SettleFits'
  BY DEF BookFits, OnlyStored, Present, TakerFits, SettleFits
<1>3. QED
  BY <1>1, <1>2 DEF BookFits

LEMMA BookInsertTransaction ==
  ASSUME BalanceInv, BookFits, TableFits, dbErrors' = 0,
         NEW ok \in BOOLEAN, InsertTransaction(ok)
  PROVE  BookFits' /\ TableFits'
<1>1. ok
  BY DbSaved DEF InsertTransaction, BalanceInv
<1>2. QED
  BY <1>1, BookQuiet DEF InsertTransaction, AtNewOrder, AtSettle

LEMMA BookInsertLaunchLog ==
  ASSUME BalanceInv, BookFits, TableFits, dbErrors' = 0,
         NEW ok \in BOOLEAN, InsertLaunchLog(ok)
  PROVE  BookFits' /\ TableFits'
<1>1. ok
  BY DbSaved DEF InsertLaunchLog, BalanceInv
<1>2. QED
  BY <1>1, BookQuiet DEF InsertLaunchLog, AtNewOrder, AtSettle

LEMMA BookInsertTrade ==
  ASSUME BookFits, TableFits, NEW m \in Order, NEW ok \in BOOLEAN, InsertTrade(m, ok)
  PROVE  BookFits' /\ TableFits'
  BY BookQuiet DEF InsertTrade, AtNewOrder, AtSettle

LEMMA BookTransactionResult ==
  ASSUME BookFits, TableFits, NEW t, NEW s, NEW ok, HandleTransactionResult(t, s, ok)
  PROVE  BookFits' /\ TableFits'
  BY BookQuiet DEF HandleTransactionResult, AtNewOrder, AtSettle

LEMMA BookUpdateLaunchLogsStatus ==
  ASSUME BookFits, TableFits, NEW ok, UpdateLaunchLogsStatus(ok)
  PROVE  BookFits' /\ TableFits'
  BY BookQuiet DEF UpdateLaunchLogsStatus, AtNewOrder, AtSettle, locals, db

LEMMA BookSettleTrade ==
  ASSUME BookFits, TableFits, NEW i, NEW ok, SettleTrade(i, ok)
  PROVE  BookFits' /\ TableFits'
  BY BookQuiet DEF SettleTrade, AtNewOrder, AtSettle

LEMMA BookMakerMissing ==
  ASSUME BookFits, NEW m \in Order, MakerMissing(m)
  PROVE  FALSE
  BY DEF MakerMissing, BookFits, TodoFits, Present

LEMMA BookSaveMakerAgain ==
  ASSUME BookFits, NEW m \in Order, NEW ok, SaveMakerAgain(m, ok)
  PROVE  FALSE
  BY DEF SaveMakerAgain, BookFits

LEMMA BookInsertTaker ==
  ASSUME BalanceInv, Structure, BookFits, TableFits, dbErrors' = 0,
         NEW ok \in BOOLEAN, InsertTaker(ok)
  PROVE  BookFits' /\ TableFits'
<1>1. /\ AtNewOrder /\ pc # "makers" /\ pc # "down" /\ LocalsReset /\ pc' = "idle"
      /\ UpdateOrder(taker, row, ok) /\ Db(ok) /\ book' = book
  BY DEF InsertTaker, AtNewOrder, Return
<1>2. ok
  BY <1>1, DbSaved DEF BalanceInv
<1>3. orders' = [orders EXCEPT ![taker] = row]
  BY <1>1, <1>2 DEF UpdateOrder
<1>4. taker \in Order /\ row \in Row /\ orders[taker] = NoRow /\ row # NoRow
  BY <1>1, OrderAssumption DEF Structure, NewOrderKnown, BalanceInv, LocalsKnown, TypeOK, AtNewOrder
<1>5. /\ Present' = Present \cup {taker} /\ taker \notin Present /\ orders'[taker] = row
      /\ \A p \in Present : orders'[p] = orders[p]
  BY <1>3, <1>4 DEF Present, BalanceInv, TypeOK
<1>6. /\ row.status = "pending" /\ row.confirmed = 0 /\ row.canceled >= 0
      /\ row.available >= 0 /\ book[taker] = row.available
  BY <1>1 DEF BookFits, TakerFits
<1>7. \A p : Rests(p) = orders[p] /\ Rests(p)' = orders'[p]
  BY <1>1 DEF Rests
<1>8. Backed'
  BY <1>1, <1>5, <1>6, <1>7 DEF Backed, BookFits
<1>9. OnlyStored'
  BY <1>1, <1>5 DEF OnlyStored, BookFits
<1>10. unsaved' = {} /\ TodoFits' /\ TakerFits' /\ SettleFits'
  BY <1>1, ResetType DEF TodoFits, TakerFits, SettleFits, AtNewOrder, AtSettle
<1>11. RowSigns'
  BY <1>5, <1>6 DEF RowSigns, TableFits, Sunk
<1>12. Uncrossed'
  BY <1>1 DEF Uncrossed, TableFits
<1>13. TableUncrossed'
  <2>1. \A p \in Present' : Reinserted(p)' => p \in Order /\ book[p] > 0
    <3> SUFFICES ASSUME NEW p \in Present', Reinserted(p)'
                 PROVE  p \in Order /\ book[p] > 0
      OBVIOUS
    <3>1. CASE p = taker
      BY <1>4, <1>5, <1>6, <3>1 DEF Reinserted
    <3>2. CASE p # taker
      <4>1. p \in Present /\ orders[p].status = "pending" /\ orders[p].available > 0
        BY <1>5, <3>2 DEF Reinserted
      <4>2. book[p] = orders[p].available
        BY <1>1, <1>7, <4>1 DEF BookFits, Backed
      <4>3. QED
        BY <4>1, <4>2 DEF Present
    <3>3. QED
      BY <3>1, <3>2
  <2>2. QED
    BY <2>1 DEF TableUncrossed, TableFits, Uncrossed
<1>14. QED
  BY <1>8, <1>9, <1>10, <1>11, <1>12, <1>13 DEF BookFits, TableFits

\* A write of one row in a step that does not match.
LEMMA BookWrite ==
  ASSUME BalanceInv, BookFits, TableFits, NEW o \in Present, NEW u \in Row,
         orders' = [orders EXCEPT ![o] = u],
         pc \notin {"makers", "down"}, ~AtNewOrder, pc' \notin {"makers", "down"}, ~AtNewOrder',
         unsaved' = unsaved \/ unsaved' = {},
         u.status = "pending" \/ book'[o] > 0 => book'[o] = u.available,
         \A p \in Order : p # o => book'[p] = book[p],
         book'[o] > 0 => book[o] > 0
  PROVE  unsaved' = {} /\ Backed' /\ OnlyStored' /\ TodoFits' /\ TakerFits'
<1>1. o \in Order /\ orders \in [Order -> Row \cup {NoRow}] /\ u # NoRow
  BY OrderAssumption DEF Present, BalanceInv, TypeOK
<1>2. /\ Present' = Present /\ orders'[o] = u
      /\ \A p \in Present : p \in Order /\ (p # o => orders'[p] = orders[p])
  BY <1>1 DEF Present
<1>3. \A p : Rests(p) = orders[p] /\ Rests(p)' = orders'[p]
  BY DEF Rests
<1>4. Backed'
  BY <1>2, <1>3 DEF Backed, BookFits
<1>5. OnlyStored'
  BY <1>2 DEF OnlyStored, BookFits
<1>6. QED
  BY <1>4, <1>5 DEF BookFits, TodoFits, TakerFits

LEMMA BookCancelOrder ==
  ASSUME BalanceInv, BookFits, TableFits, dbErrors' = 0,
         NEW o \in Order, NEW ok \in BOOLEAN, HandleCancelOrder(o, ok)
  PROVE  BookFits' /\ TableFits'
<1> DEFINE u == Canceled(orders[o])
<1>1. /\ pc = "idle" /\ pc' = "idle" /\ unsaved' = unsaved /\ UNCHANGED locals
      /\ orders[o] # NoRow /\ book' = [book EXCEPT ![o] = 0]
      /\ UpdateOrder(o, u, ok) /\ Db(ok)
  BY DEF HandleCancelOrder, locals
<1>2. ok
  BY <1>1, DbSaved DEF BalanceInv
<1>3. orders' = [orders EXCEPT ![o] = u] /\ o \in Present /\ book \in [Order -> Nat]
  BY <1>1, <1>2 DEF UpdateOrder, Present, BalanceInv, TypeOK
<1>4. orders[o] \in Row /\ Balanced(orders[o])
  BY <1>3 DEF BalanceInv, TypeOK, AmountsBalanced, Present
<1>5. /\ u \in Row /\ u.available = 0 /\ u.confirmed = orders[o].confirmed
      /\ u.canceled = orders[o].canceled + orders[o].available
  BY <1>4, CanceledFields, CanceledBalanced
<1> HIDE DEF u
<1>6. u.available >= 0 /\ u.confirmed >= 0 /\ u.canceled >= 0 /\ Sunk(u)
  BY <1>3, <1>4, <1>5, RowAmounts DEF TableFits, RowSigns, Sunk
<1>7. /\ book'[o] = 0
      /\ \A p \in Order : p # o => book'[p] = book[p]
      /\ \A p \in Order : book'[p] > 0 => book[p] > 0
  BY <1>1, <1>3
<1>8. TableFits'
  <2>1. TypeOK
    BY DEF BalanceInv
  <2>2. ~(u.available > 0)
    BY <1>5
  <2>3. QED
    BY <1>3, <1>5, <1>6, <1>7, <2>1, <2>2, TableWrite
<1>9. unsaved' = {} /\ Backed' /\ OnlyStored' /\ TodoFits' /\ TakerFits'
  <2>1. ~AtNewOrder /\ ~AtNewOrder'
    BY <1>1 DEF AtNewOrder
  <2>2. QED
    BY <1>1, <1>3, <1>5, <1>7, <2>1, BookWrite
<1>10. SettleFits'
  BY <1>1 DEF SettleFits, AtSettle
<1>11. QED
  BY <1>8, <1>9, <1>10 DEF BookFits

LEMMA BookReadTrades ==
  ASSUME BalanceInv, Structure, BookFits, TableFits, ReadTrades
  PROVE  BookFits' /\ TableFits'
<1>1. /\ pc = "readTrades" /\ pc' \in {"idle", "settleMaker"}
      /\ orders' = orders /\ book' = book /\ unsaved' = {}
  BY ReadTradesCases, ResetType DEF ReadTrades, Return, db, BookFits
<1>2. TableFits' /\ Backed' /\ TodoFits'
  BY <1>1, SameTable, SameBook DEF BookFits
<1>3. OnlyStored' /\ TakerFits'
  BY <1>1 DEF BookFits, OnlyStored, Present, TakerFits, AtNewOrder
<1>4. SettleFits'
  <2>1. CASE pc' = "idle"
    BY <2>1 DEF SettleFits, AtSettle
  <2>2. CASE pc' = "settleMaker"
    <3>1. PICK o \in Order : orders[o] # NoRow /\ taker' = o /\ row' = orders[o]
      BY <2>2, ReadTradesCases DEF Return
    <3>2. orders[o] \in Row
      BY <3>1 DEF BalanceInv, TypeOK
    <3>3. QED
      BY <1>1, <3>1, <3>2, RowAmounts DEF SettleFits
  <2>3. QED
    BY <1>1, <2>1, <2>2
<1>5. QED
  BY <1>1, <1>2, <1>3, <1>4 DEF BookFits

\* A row that a result has moved some units of from pending, saved with its status.
LEMMA SettledRow ==
  ASSUME BalanceInv, BookFits, TableFits, NEW o \in Present, NEW u \in Row, Balanced(u),
         u.amount = orders[o].amount, u.available = orders[o].available,
         u.confirmed >= orders[o].confirmed, u.canceled >= orders[o].canceled,
         u.status = StatusOf(u), pc \notin {"makers", "down"}
  PROVE  /\ u.available >= 0 /\ u.confirmed >= 0 /\ u.canceled >= 0
         /\ u.status # "pending" => Sunk(u)
         /\ u.status = "pending" /\ u.available > 0 => Reinserted(o)
         /\ u.status = "pending" \/ book[o] > 0 => book[o] = u.available
<1> DEFINE r == orders[o]
<1>1. r \in Row /\ Balanced(r)
  BY DEF BalanceInv, TypeOK, AmountsBalanced, Present
<1>2. /\ r.available >= 0 /\ r.confirmed >= 0 /\ r.canceled >= 0
      /\ r.status # "pending" => Sunk(r)
  BY DEF TableFits, RowSigns
<1>3. r.status = "pending" \/ book[o] > 0 => book[o] = r.available
  BY DEF BookFits, Backed, Rests
<1>4. book[o] \in Nat
  BY DEF BalanceInv, TypeOK, Present
<1> HIDE DEF r
<1>5. /\ u.amount = r.amount /\ u.available = r.available
      /\ u.confirmed >= r.confirmed /\ u.canceled >= r.canceled
  BY DEF r
<1>6. /\ u.available \in Int /\ u.pending \in Int /\ u.confirmed \in Int /\ u.canceled \in Int
      /\ r.available \in Int /\ r.pending \in Int /\ r.confirmed \in Int /\ r.canceled \in Int
  BY <1>1, RowAmounts
<1>7. u.pending <= r.pending
  BY <1>1, <1>5, <1>6, RowAmounts DEF Balanced
<1>8. u.available >= 0 /\ u.confirmed >= 0 /\ u.canceled >= 0
  BY <1>2, <1>5, <1>6
<1>9. u.status = "pending" <=> u.available + u.pending > 0
  BY <1>8, PendingStatus
<1>10. u.status # "pending" => Sunk(u)
  BY <1>6, <1>9 DEF Sunk
<1>11. u.status = "pending" /\ u.available > 0 => r.status = "pending"
  BY <1>2, <1>5, <1>6, <1>7, <1>9 DEF Sunk
<1>12. u.status = "pending" \/ book[o] > 0 => book[o] = u.available
  <2>1. CASE r.status = "pending" \/ book[o] > 0
    BY <1>3, <1>5, <2>1
  <2>2. CASE r.status # "pending" /\ book[o] = 0
    BY <1>2, <1>5, <1>6, <1>7, <1>9, <2>2 DEF Sunk
  <2>3. QED
    BY <1>4, <2>1, <2>2
<1>13. QED
  BY <1>5, <1>8, <1>10, <1>11, <1>12 DEF Reinserted, r

LEMMA BookSettleMaker ==
  ASSUME BalanceInv, Structure, BookFits, TableFits, dbErrors' = 0,
         NEW i \in due, NEW ok \in BOOLEAN, SettleMaker(i, ok)
  PROVE  BookFits' /\ TableFits'
<1> DEFINE m == trades[i].maker
           n == trades[i].amount
           u == AutoSetStatusByAmounts(Settled(orders[m], n, outcome))
<1>1. /\ pc = "settleMaker" /\ pc' = "settleTrade" /\ Db(ok)
      /\ UNCHANGED <<book, taker, unsaved>>
  BY DEF SettleMaker
<1>2. ok /\ AtSettle
  BY <1>1, DbSaved DEF BalanceInv, AtSettle
<1>3. m \in Order /\ m \in Present /\ m # taker /\ n \in Nat
  BY <1>2, SettledTrade DEF Present
<1>4. /\ orders[m] \in Row /\ u \in Row /\ Balanced(u) /\ u.amount = orders[m].amount
      /\ u.available = orders[m].available
      /\ u.confirmed = IF outcome = "successful" THEN orders[m].confirmed + n
                                                 ELSE orders[m].confirmed
      /\ u.canceled = IF outcome = "successful" THEN orders[m].canceled
                                                ELSE orders[m].canceled + n
      /\ u.status = StatusOf(u)
      /\ UpdateOrder(m, u, ok)
      /\ row'.available = row.available
      /\ row'.confirmed = IF outcome = "successful" THEN row.confirmed + n ELSE row.confirmed
      /\ row'.canceled = IF outcome = "successful" THEN row.canceled ELSE row.canceled + n
  BY SettleMakerWrites
<1> HIDE DEF m, n, u
<1>5. orders' = [orders EXCEPT ![m] = u]
  BY <1>2, <1>4 DEF UpdateOrder
<1>6. u.confirmed >= orders[m].confirmed /\ u.canceled >= orders[m].canceled
  BY <1>3, <1>4, RowAmounts
<1>7. /\ u.available >= 0 /\ u.confirmed >= 0 /\ u.canceled >= 0
      /\ u.status # "pending" => Sunk(u)
      /\ u.status = "pending" /\ u.available > 0 => Reinserted(m)
      /\ u.status = "pending" \/ book[m] > 0 => book[m] = u.available
  BY <1>1, <1>3, <1>4, <1>6, SettledRow
<1>8. TableFits'
  <2>1. TypeOK
    BY DEF BalanceInv
  <2>2. QED
    BY <1>1, <1>3, <1>4, <1>5, <1>7, <2>1, TableWrite
<1>9. unsaved' = {} /\ Backed' /\ OnlyStored' /\ TodoFits' /\ TakerFits'
  <2>1. ~AtNewOrder /\ ~AtNewOrder'
    BY <1>1 DEF AtNewOrder
  <2>2. QED
    BY <1>1, <1>3, <1>4, <1>5, <1>7, <2>1, BookWrite
<1>10. SettleFits'
  <2>1. orders'[taker] = orders[taker]
    BY <1>3, <1>5
  <2>2. orders[taker] \in Row /\ row \in Row
    BY <1>2 DEF Structure, SettleKnown, BalanceInv, TypeOK
  <2>3. row'.confirmed >= row.confirmed /\ row'.canceled >= row.canceled
        /\ row'.confirmed \in Int /\ row'.canceled \in Int
    BY <1>3, <1>4, <2>2, RowAmounts
  <2>4. QED
    BY <1>1, <1>2, <1>4, <2>1, <2>2, <2>3, RowAmounts DEF SettleFits, BookFits
<1>11. QED
  BY <1>8, <1>9, <1>10 DEF BookFits

LEMMA BookSettleTaker ==
  ASSUME BalanceInv, Structure, BookFits, TableFits, dbErrors' = 0,
         NEW ok \in BOOLEAN, SettleTaker(ok)
  PROVE  BookFits' /\ TableFits'
<1> DEFINE u == AutoSetStatusByAmounts(row)
<1>1. /\ pc = "settleMaker" /\ pc' = "idle" /\ LocalsReset /\ Db(ok) /\ book' = book
      /\ UpdateOrder(taker, u, ok)
  BY DEF SettleTaker, Return
<1>2. ok /\ AtSettle
  BY <1>1, DbSaved DEF BalanceInv, AtSettle
<1>3. orders' = [orders EXCEPT ![taker] = u] /\ taker \in Present /\ unsaved' = {}
      /\ row.amount = orders[taker].amount
  BY <1>1, <1>2 DEF UpdateOrder, Structure, SettleKnown, RowsKnown, Present, LocalsReset
<1>4. row \in Row /\ Balanced(row)
  BY DEF BalanceInv, TypeOK, RowAtWork
<1>5. /\ u \in Row /\ Balanced(u) /\ u.amount = orders[taker].amount
      /\ u.available = orders[taker].available
      /\ u.confirmed >= orders[taker].confirmed
      /\ u.canceled >= orders[taker].canceled
      /\ u.status = StatusOf(u)
  BY <1>2, <1>3, <1>4, AutoSetStatusBalanced, AutoSetStatusFields, StatusSaved
     DEF BookFits, SettleFits
<1> HIDE DEF u
<1>6. /\ u.available >= 0 /\ u.confirmed >= 0 /\ u.canceled >= 0
      /\ u.status # "pending" => Sunk(u)
      /\ u.status = "pending" /\ u.available > 0 => Reinserted(taker)
      /\ u.status = "pending" \/ book[taker] > 0 => book[taker] = u.available
  BY <1>1, <1>3, <1>5, SettledRow
<1>7. TableFits'
  <2>1. TypeOK
    BY DEF BalanceInv
  <2>2. QED
    BY <1>1, <1>3, <1>5, <1>6, <2>1, TableWrite
<1>8. unsaved' = {} /\ Backed' /\ OnlyStored' /\ TodoFits' /\ TakerFits'
  <2>1. ~AtNewOrder /\ ~AtNewOrder'
    BY <1>1 DEF AtNewOrder
  <2>2. QED
    BY <1>1, <1>3, <1>5, <1>6, <2>1, BookWrite
<1>9. SettleFits'
  BY <1>1 DEF SettleFits, AtSettle
<1>10. QED
  BY <1>7, <1>8, <1>9 DEF BookFits

LEMMA BookLauncher ==
  ASSUME BalanceInv, BookFits, TableFits, Launcher
  PROVE  BookFits' /\ TableFits'
<1>1. UNCHANGED <<orders, book, placed, pc, taker, row, match, todo, unsaved>>
  BY LauncherWrites DEF BalanceInv, locals
<1>2. TableFits'
  BY <1>1, SameTable
<1>3. \A p : Rests(p)' = Rests(p) /\ MakerAfter(p)' = MakerAfter(p)
  BY <1>1 DEF Rests, MakerAfter
<1>4. Backed' /\ OnlyStored' /\ TodoFits' /\ TakerFits' /\ SettleFits'
  BY <1>1, <1>3 DEF BookFits, Backed, OnlyStored, TodoFits, TakerFits, SettleFits, Present,
                    AtNewOrder, AtSettle
<1>5. QED
  BY <1>1, <1>2, <1>4 DEF BookFits

LEMMA BookCrash ==
  ASSUME TableFits, Crash
  PROVE  BookFits' /\ TableFits'
<1>1. pc' = "down" /\ orders' = orders /\ unsaved' = {} /\ \A o \in Order : book'[o] = 0
  BY DEF Crash, db, LocalsReset
<1>2. BookFits'
  BY <1>1 DEF BookFits, Backed, OnlyStored, TodoFits, TakerFits, SettleFits, AtNewOrder, AtSettle
<1>3. TableFits'
  BY <1>1 DEF TableFits, RowSigns, Present, Sunk, Uncrossed, TableUncrossed, Reinserted
<1>4. QED
  BY <1>2, <1>3

LEMMA BookNewMarketHandler ==
  ASSUME BalanceInv, BookFits, TableFits, NewMarketHandler
  PROVE  BookFits' /\ TableFits'
<1>1. /\ pc' = "idle" /\ orders' = orders /\ unsaved' = unsaved
      /\ \A o \in Order : book'[o] = IF orders[o] = NoRow THEN 0
                                     ELSE IF Reinserted(o) THEN orders[o].available ELSE 0
  BY DEF NewMarketHandler, db, locals, Reinserted
<1>2. \A o \in Order : book'[o] > 0 => o \in Present /\ Reinserted(o)
  BY <1>1 DEF Present
<1>3. Backed'
  <2> SUFFICES ASSUME NEW o \in Present,
                      orders[o].status = "pending" \/ book'[o] > 0
               PROVE  book'[o] = orders[o].available
    BY <1>1 DEF Backed, Rests, Present
  <2>1. o \in Order /\ orders[o] # NoRow /\ orders[o].available \in Int /\ orders[o].available >= 0
    BY RowAmounts DEF Present, BalanceInv, TypeOK, TableFits, RowSigns
  <2>2. QED
    BY <1>1, <1>2, <2>1 DEF Reinserted
<1>4. BookFits'
  BY <1>1, <1>2, <1>3 DEF BookFits, OnlyStored, Present, TodoFits, TakerFits, SettleFits,
                          AtNewOrder, AtSettle
<1>5. TableFits'
  <2>1. RowSigns' /\ TableUncrossed'
    BY <1>1 DEF TableFits, RowSigns, Present, Sunk, TableUncrossed, Reinserted
  <2>2. Uncrossed'
    BY <1>2 DEF Uncrossed, TableFits, TableUncrossed
  <2>3. QED
    BY <2>1, <2>2 DEF TableFits
<1>6. QED
  BY <1>4, <1>5

LEMMA BookHandlerStep ==
  ASSUME BalanceInv, Structure, BookFits, TableFits, dbErrors' = 0, HandlerStep
  PROVE  BookFits' /\ TableFits'
<1>1. ASSUME NEW m \in Order, MakerMissing(m)
      PROVE  FALSE
  BY <1>1, BookMakerMissing
<1>2. CASE FinishTaker
  BY <1>2, BookFinishTaker
<1>3. CASE ReadTrades
  BY <1>3, BookReadTrades
<1>4. ASSUME NEW ok \in BOOLEAN, NEW m \in Order,
             UpdateMaker(m, ok) \/ SaveMakerAgain(m, ok) \/ InsertTrade(m, ok)
      PROVE  BookFits' /\ TableFits'
  BY <1>4, BookUpdateMaker, BookSaveMakerAgain, BookInsertTrade
<1>5. ASSUME NEW ok \in BOOLEAN,
             \/ InsertTransaction(ok)
             \/ InsertLaunchLog(ok)
             \/ InsertTaker(ok)
             \/ UpdateLaunchLogsStatus(ok)
             \/ SettleTaker(ok)
      PROVE  BookFits' /\ TableFits'
  BY <1>5, BookInsertTransaction, BookInsertLaunchLog, BookInsertTaker,
     BookUpdateLaunchLogsStatus, BookSettleTaker
<1>6. ASSUME NEW ok \in BOOLEAN, NEW i \in due,
             SettleMaker(i, ok) \/ SettleTrade(i, ok)
      PROVE  BookFits' /\ TableFits'
  BY <1>6, BookSettleMaker, BookSettleTrade
<1>7. QED
  BY <1>1, <1>2, <1>3, <1>4, <1>5, <1>6 DEF HandlerStep

\* Faults are only ever counted up.
\* The fault counters only grow: a state without faults had none before.
LEMMA FaultsGrow ==
  ASSUME TypeOK, [Next]_vars
  PROVE  /\ dbErrors' = 0 => dbErrors = 0
         /\ repeats' = 0 => repeats = 0
         /\ crashes' = 0 => crashes = 0
<1>1. dbErrors \in Nat /\ repeats \in Nat /\ crashes \in Nat
  BY BoundAssumption DEF TypeOK
<1>2. ASSUME NEW ok \in BOOLEAN, Db(ok)
      PROVE  /\ dbErrors' = 0 => dbErrors = 0
             /\ repeats' = 0 => repeats = 0
             /\ crashes' = 0 => crashes = 0
  BY <1>1, <1>2 DEF Db
<1>3. ASSUME Launcher \/ \E t \in DOMAIN txs : Confirm(t)
      PROVE  /\ dbErrors' = 0 => dbErrors = 0
             /\ repeats' = 0 => repeats = 0
             /\ crashes' = 0 => crashes = 0
  BY <1>1, <1>3 DEF Confirm, HandleTransactionResult, Launcher, LauncherStep, LauncherStop, LaunchLog, LaunchTransaction, LaunchTrade,
                   faults
<1>4. CASE HandlerStep
  <2>1. \/ \E ok \in BOOLEAN : Db(ok)
        \/ UNCHANGED faults
    BY <1>4 DEF HandlerStep, MakerMissing, FinishTaker, ReadTrades, UpdateMaker, SaveMakerAgain,
                InsertTrade, InsertTransaction, InsertLaunchLog, InsertTaker,
                UpdateLaunchLogsStatus, SettleMaker, SettleTrade, SettleTaker
  <2>2. QED
    BY <1>2, <2>1 DEF faults
<1>5. ASSUME NEW o \in Order, HandleNewOrder(o) \/ \E ok \in BOOLEAN : HandleCancelOrder(o, ok)
      PROVE  /\ dbErrors' = 0 => dbErrors = 0
             /\ repeats' = 0 => repeats = 0
             /\ crashes' = 0 => crashes = 0
  BY <1>2, <1>5 DEF HandleNewOrder, HandleCancelOrder, faults
<1>6. CASE Crash \/ NewMarketHandler \/ UNCHANGED vars
  BY <1>1, <1>6 DEF Crash, NewMarketHandler, vars, faults
<1>7. QED
  BY <1>3, <1>4, <1>5, <1>6 DEF Next, Launcher

LEMMA BookNext ==
  ASSUME BalanceInv, Structure, BookInv, [Next]_vars
  PROVE  BookInv'
<1> SUFFICES ASSUME dbErrors' = 0
             PROVE  BookFits' /\ TableFits'
  BY DEF BookInv
<1>0. BookFits /\ TableFits
  BY FaultsGrow DEF BookInv, BalanceInv
<1>1. ASSUME NEW o \in Order, HandleNewOrder(o)
      PROVE  BookFits' /\ TableFits'
  BY <1>0, <1>1, BookNewOrder
<1>2. ASSUME NEW o \in Order, NEW ok \in BOOLEAN, HandleCancelOrder(o, ok)
      PROVE  BookFits' /\ TableFits'
  BY <1>0, <1>2, BookCancelOrder
<1>3. ASSUME Launcher \/ \E t \in DOMAIN txs : Confirm(t)
      PROVE  BookFits' /\ TableFits'
  BY <1>0, <1>3, BookTransactionResult, BookLauncher DEF Confirm
<1>4. CASE HandlerStep
  BY <1>0, <1>4, BookHandlerStep
<1>5. CASE Crash
  BY <1>0, <1>5, BookCrash
<1>6. CASE NewMarketHandler
  BY <1>0, <1>6, BookNewMarketHandler
<1>7. CASE UNCHANGED vars
  <2>1. UNCHANGED <<orders, book, placed, pc, taker, row, match, todo, unsaved>>
    BY <1>7 DEF vars, db, locals
  <2>2. \A p : Rests(p)' = Rests(p) /\ MakerAfter(p)' = MakerAfter(p)
    BY <2>1 DEF Rests, MakerAfter
  <2>3. TableFits'
    BY <1>0, <2>1, SameTable
  <2>4. QED
    BY <1>0, <2>1, <2>2, <2>3 DEF BookFits, Backed, OnlyStored, TodoFits, TakerFits, SettleFits,
                                  Present, AtNewOrder, AtSettle
<1>8. QED
  BY <1>1, <1>2, <1>3, <1>4, <1>5, <1>6, <1>7 DEF Next, Launcher

-----------------------------------------------------------------------------
(* StatusInv: where the book leaves no dust and writes succeed, the status *)
(* of every row is the one its amounts call for. The matching loop writes  *)
(* a status it does not compute; NoDust is why that is right.              *)
NoDust ==
  AtNewOrder =>
    /\ match.canceled = {} /\ row.canceled = 0
    /\ pc = "makers" =>
         /\ \A m \in todo : m \in match.done => orders[m].available = match.fill[m]
         /\ taker \in match.done => Leftover(taker, match.fill) = 0

StatusInv == ~Dust /\ dbErrors = 0 => StatusAgrees /\ NoDust

LEMMA StatusSame ==
  ASSUME orders' = orders, StatusAgrees
  PROVE  StatusAgrees'
  BY DEF StatusAgrees, Present, StatusOf

LEMMA StatusWrite ==
  ASSUME TypeOK, StatusAgrees, NEW o \in Order, NEW u \in Row, u.status = StatusOf(u),
         orders' = [orders EXCEPT ![o] = u]
  PROVE  StatusAgrees'
<1> SUFFICES ASSUME NEW p \in Present'
             PROVE  orders'[p].status = StatusOf(orders'[p])
  BY DEF StatusAgrees, StatusOf
<1>1. CASE p = o
  BY <1>1 DEF TypeOK
<1>2. CASE p # o
  BY <1>2 DEF TypeOK, StatusAgrees, Present
<1>3. QED
  BY <1>1, <1>2

LEMMA StatusNewOrder ==
  ASSUME BalanceInv, Structure, BookFits, ~Dust, StatusAgrees, NEW o \in Order, HandleNewOrder(o)
  PROVE  StatusAgrees' /\ NoDust'
<1>1. PICK r \in Matches(o) :
        /\ book' = BookAfter(o, r) /\ match' = r /\ todo' = Makers(r)
        /\ pc' = IF Makers(r) = {} THEN "insertTaker" ELSE "makers"
  BY DEF HandleNewOrder
<1>2. /\ taker' = o /\ row' = FreshRow(AmountOf[o]) /\ pc = "idle" /\ orders' = orders
  BY DEF HandleNewOrder, db
<1>3. /\ r.canceled = {} /\ r.done = Exhausted(o, r.fill)
      /\ \A m \in Order : r.fill[m] <= IF m \in Crossing(o) THEN book[m] ELSE 0
      /\ r.fill \in [Order -> 0 .. AmountOf[o]]
  BY DEF Matches, Fills
<1>4. StatusAgrees'
  BY <1>2, StatusSame
<1>5. ASSUME NEW m \in Makers(r), m \in r.done
      PROVE  orders[m].available = r.fill[m]
  <2>1. m \in Order /\ r.fill[m] > 0 /\ r.fill[m] \in Nat
    BY <1>3, OrderAssumption DEF Makers
  <2>2. m \in Crossing(o)
    BY <1>3, <2>1
  <2>3. m # o /\ book[m] > 0
    BY <2>2 DEF Crossing
  <2>4. r.fill[m] = book[m]
    BY <1>3, <1>5, <2>3 DEF Exhausted
  <2>5. m \in Present /\ book[m] = orders[m].available
    BY <1>2, <2>1, <2>3 DEF BookFits, OnlyStored, Backed, Rests, AtNewOrder
  <2>6. QED
    BY <2>4, <2>5
<1>6. ASSUME o \in r.done
      PROVE  Leftover(o, r.fill) = 0
  <2>1. o \notin Crossing(o)
    BY DEF Crossing
  <2>2. ~(r.fill[o] > 0)
    BY <1>3, <2>1, OrderAssumption
  <2>3. QED
    BY <1>3, <1>6, <2>2 DEF Exhausted
<1>7. row'.canceled = 0
  BY <1>2 DEF FreshRow
<1>8. NoDust'
  BY <1>1, <1>2, <1>3, <1>5, <1>6, <1>7 DEF NoDust
<1>9. QED
  BY <1>4, <1>8

LEMMA StatusUpdateMaker ==
  ASSUME BalanceInv, Structure, BookFits, StatusAgrees, NoDust, dbErrors' = 0,
         NEW m \in Order, NEW ok \in BOOLEAN, UpdateMaker(m, ok)
  PROVE  /\ StatusAgrees' /\ NoDust' /\ orders' = [orders EXCEPT ![m] = MakerAfter(m)]
         /\ MakerAfter(m).canceled = orders[m].canceled
         /\ MakerAfter(m).available = orders[m].available - match.fill[m]
         /\ MakerAfter(m).pending = orders[m].pending + match.fill[m]
<1> DEFINE u == MakerAfter(m)
           n == match.fill[m]
<1>1. /\ pc = "makers" /\ pc' = "makers" /\ m \in todo /\ orders[m] # NoRow
      /\ todo' = todo \ {m} /\ UpdateOrder(m, u, ok) /\ Db(ok)
      /\ row' = Matched(row, n, m \in match.canceled)
      /\ UNCHANGED <<book, taker, match>>
  BY DEF UpdateMaker
<1>2. ok
  BY <1>1, DbSaved DEF BalanceInv
<1>3. orders' = [orders EXCEPT ![m] = u]
  BY <1>1, <1>2 DEF UpdateOrder
<1>4. /\ orders[m] \in Row /\ Balanced(orders[m]) /\ n \in Nat
      /\ u.amount = orders[m].amount
      /\ u.status = orders[m].status
      /\ u.confirmed = orders[m].confirmed
      /\ u.available = IF m \in match.done THEN 0 ELSE orders[m].available - n
      /\ u.pending = IF m \in match.canceled THEN orders[m].pending
                                             ELSE orders[m].pending + n
      /\ Balanced(u) /\ u \in Row
  BY <1>1, MakerAfterFields
<1>5. /\ match.canceled = {} /\ row.canceled = 0
      /\ m \in match.done => orders[m].available = n
      /\ taker \in match.done => Leftover(taker, match.fill) = 0
  BY <1>1 DEF NoDust, AtNewOrder
<1>6. m \in Present /\ orders[m].status = StatusOf(orders[m])
  BY <1>1 DEF Present, StatusAgrees
<1> HIDE DEF u, n
<1>7. u.available = orders[m].available - n /\ u.pending = orders[m].pending + n
  BY <1>4, <1>5, RowAmounts
<1>8. u.canceled = orders[m].canceled
  BY <1>4, <1>7, RowAmounts DEF Balanced
<1>9. u.status = StatusOf(u)
  <2>1. u.available + u.pending = orders[m].available + orders[m].pending
    BY <1>4, <1>7, RowAmounts
  <2>2. QED
    BY <1>4, <1>6, <1>8, <2>1 DEF StatusOf
<1>10. StatusAgrees'
  BY <1>3, <1>4, <1>9, StatusWrite DEF BalanceInv
<1>11. row'.canceled = 0
  <2>1. row \in Row
    BY DEF BalanceInv, TypeOK
  <2>2. m \notin match.canceled
    BY <1>5
  <2>3. QED
    BY <1>1, <1>5, <2>1, <2>2 DEF Matched, Row
<1>12. \A p \in todo' : orders'[p] = orders[p]
  BY <1>1, <1>3 DEF BalanceInv, TypeOK
<1>13. NoDust'
  BY <1>1, <1>5, <1>11, <1>12 DEF NoDust, AtNewOrder
<1>14. QED
  BY <1>3, <1>7, <1>8, <1>10, <1>13 DEF u, n

LEMMA StatusFinishTaker ==
  ASSUME BalanceInv, BookFits, StatusAgrees, NoDust, FinishTaker
  PROVE  StatusAgrees' /\ NoDust'
<1>1. /\ pc = "makers" /\ todo = {} /\ pc' \in {"insertTaker", "insertTx"}
      /\ row' = (IF taker \in match.done THEN Done(row) ELSE row)
      /\ UNCHANGED <<orders, taker, match>> /\ AtNewOrder
  BY DEF FinishTaker, db, AtNewOrder
<1>2. row \in Row /\ Balanced(row)
  BY DEF BalanceInv, TypeOK, RowAtWork
<1>3. row.available = Leftover(taker, match.fill) + 0
  BY <1>1, SumEmpty DEF BookFits, TakerFits
<1>4. row'.canceled = 0
  BY <1>1, <1>2, <1>3, DoneFields DEF NoDust
<1>5. QED
  BY <1>1, <1>4, StatusSame DEF NoDust

LEMMA StatusInsertTaker ==
  ASSUME BalanceInv, Structure, BookFits, StatusAgrees, NoDust, dbErrors' = 0,
         NEW ok \in BOOLEAN, InsertTaker(ok)
  PROVE  StatusAgrees' /\ NoDust' /\ orders' = [orders EXCEPT ![taker] = row]
<1>1. AtNewOrder /\ pc' = "idle" /\ UpdateOrder(taker, row, ok) /\ Db(ok)
  BY DEF InsertTaker, Return, AtNewOrder
<1>2. ok
  BY <1>1, DbSaved DEF BalanceInv
<1>3. orders' = [orders EXCEPT ![taker] = row]
  BY <1>1, <1>2 DEF UpdateOrder
<1>4. row \in Row /\ Balanced(row) /\ taker \in Order
  BY <1>1 DEF BalanceInv, TypeOK, RowAtWork, LocalsKnown, AtNewOrder
<1>5. /\ row.status = "pending" /\ row.confirmed = 0 /\ row.canceled = 0
      /\ row.amount > 0
  BY <1>1, <1>4, OrderAssumption DEF BookFits, TakerFits, NoDust, Structure, NewOrderKnown
<1>6. row.status = StatusOf(row)
  BY <1>4, <1>5, RowAmounts, PendingStatus DEF Balanced
<1>7. StatusAgrees'
  BY <1>3, <1>4, <1>6, StatusWrite DEF BalanceInv
<1>8. QED
  BY <1>1, <1>3, <1>7 DEF NoDust, AtNewOrder

LEMMA StatusCancelOrder ==
  ASSUME BalanceInv, StatusAgrees, NEW o \in Order, NEW ok \in BOOLEAN, HandleCancelOrder(o, ok)
  PROVE  StatusAgrees' /\ NoDust'
<1>1. /\ pc' = "idle" /\ orders[o] # NoRow /\ UpdateOrder(o, Canceled(orders[o]), ok)
  BY DEF HandleCancelOrder
<1>2. orders[o] \in Row /\ Balanced(orders[o])
  BY <1>1 DEF BalanceInv, TypeOK, AmountsBalanced, Present
<1>3. Canceled(orders[o]) \in Row /\ Canceled(orders[o]).status = StatusOf(Canceled(orders[o]))
  BY <1>2, CanceledFields, CanceledBalanced
<1>4. StatusAgrees'
  BY <1>1, <1>3, StatusWrite, StatusSame DEF BalanceInv, UpdateOrder
<1>5. QED
  BY <1>1, <1>4 DEF NoDust, AtNewOrder

LEMMA StatusSettleMaker ==
  ASSUME BalanceInv, Structure, StatusAgrees, NEW i \in due, NEW ok \in BOOLEAN,
         SettleMaker(i, ok)
  PROVE  StatusAgrees' /\ NoDust'
<1> DEFINE m == trades[i].maker
<1>1. m \in Order /\ pc' = "settleTrade"
  BY SettledTrade DEF SettleMaker, AtSettle
<1>2. PICK u \in Row : u.status = StatusOf(u) /\ UpdateOrder(m, u, ok)
  BY SettleMakerWrites
<1> HIDE DEF m
<1>3. StatusAgrees'
  BY <1>1, <1>2, StatusWrite, StatusSame DEF BalanceInv, UpdateOrder
<1>4. QED
  BY <1>1, <1>3 DEF NoDust, AtNewOrder

LEMMA StatusSettleTaker ==
  ASSUME BalanceInv, Structure, StatusAgrees, NEW ok \in BOOLEAN, SettleTaker(ok)
  PROVE  StatusAgrees' /\ NoDust'
<1> DEFINE u == AutoSetStatusByAmounts(row)
<1>1. /\ pc = "settleMaker" /\ pc' = "idle" /\ UpdateOrder(taker, u, ok)
  BY DEF SettleTaker, Return
<1>2. u \in Row /\ u.status = StatusOf(u) /\ taker \in Order
  BY <1>1, AutoSetStatusBalanced, StatusSaved DEF BalanceInv, TypeOK, RowAtWork, Structure,
                                                  SettleKnown, AtSettle
<1> HIDE DEF u
<1>3. StatusAgrees'
  BY <1>1, <1>2, StatusWrite, StatusSame DEF BalanceInv, UpdateOrder
<1>4. QED
  BY <1>1, <1>3 DEF NoDust, AtNewOrder

LEMMA StatusHandlerStep ==
  ASSUME BalanceInv, Structure, BookFits, ~Dust, StatusAgrees, NoDust, dbErrors' = 0,
         HandlerStep
  PROVE  StatusAgrees' /\ NoDust'
<1>1. ASSUME NEW m \in Order, MakerMissing(m)
      PROVE  FALSE
  BY <1>1, BookMakerMissing
<1>2. CASE FinishTaker
  BY <1>2, StatusFinishTaker
<1>3. CASE ReadTrades
  <2>1. orders' = orders /\ pc' \in {"idle", "settleMaker"}
    BY <1>3, ReadTradesCases DEF db, Return
  <2>2. QED
    BY <2>1, StatusSame DEF NoDust, AtNewOrder
<1>4. ASSUME NEW ok \in BOOLEAN, NEW m \in Order,
             UpdateMaker(m, ok) \/ SaveMakerAgain(m, ok)
      PROVE  StatusAgrees' /\ NoDust'
  BY <1>4, StatusUpdateMaker, BookSaveMakerAgain
<1>5. ASSUME NEW ok \in BOOLEAN,
             \/ InsertTransaction(ok)
             \/ InsertLaunchLog(ok)
             \/ \E m \in Order : InsertTrade(m, ok)
      PROVE  StatusAgrees' /\ NoDust'
  <2>1. orders' = orders /\ pc' # "makers"
    BY <1>5 DEF InsertTransaction, InsertLaunchLog, InsertTrade, Return
  <2>2. AtNewOrder /\ (pc' = "idle" \/ UNCHANGED <<match, row>>)
    BY <1>5 DEF InsertTransaction, InsertLaunchLog, InsertTrade, Return, AtNewOrder
  <2>3. QED
    BY <2>1, <2>2, StatusSame DEF NoDust, AtNewOrder
<1>6. ASSUME NEW ok \in BOOLEAN,
             InsertTaker(ok) \/ SettleTaker(ok)
      PROVE  StatusAgrees' /\ NoDust'
  BY <1>6, StatusInsertTaker, StatusSettleTaker
<1>7. ASSUME NEW ok \in BOOLEAN,
             UpdateLaunchLogsStatus(ok) \/ \E i \in due : SettleTrade(i, ok)
      PROVE  StatusAgrees' /\ NoDust'
  <2>1. orders' = orders /\ pc' \in {"readTrades", "settleMaker"}
    BY <1>7 DEF UpdateLaunchLogsStatus, SettleTrade
  <2>2. QED
    BY <2>1, StatusSame DEF NoDust, AtNewOrder
<1>8. ASSUME NEW ok \in BOOLEAN, NEW i \in due, SettleMaker(i, ok)
      PROVE  StatusAgrees' /\ NoDust'
  BY <1>8, StatusSettleMaker
<1>9. QED
  BY <1>1, <1>2, <1>3, <1>4, <1>5, <1>6, <1>7, <1>8 DEF HandlerStep

LEMMA StatusNext ==
  ASSUME BalanceInv, Structure, BookInv, StatusInv, [Next]_vars
  PROVE  StatusInv'
<1> SUFFICES ASSUME ~Dust, dbErrors' = 0
             PROVE  StatusAgrees' /\ NoDust'
  BY DEF StatusInv
<1>0. BookFits /\ StatusAgrees /\ NoDust
  BY FaultsGrow DEF BookInv, StatusInv, BalanceInv
<1>1. ASSUME NEW o \in Order, HandleNewOrder(o)
      PROVE  StatusAgrees' /\ NoDust'
  BY <1>0, <1>1, StatusNewOrder
<1>2. ASSUME NEW o \in Order, NEW ok \in BOOLEAN, HandleCancelOrder(o, ok)
      PROVE  StatusAgrees' /\ NoDust'
  BY <1>0, <1>2, StatusCancelOrder
<1>3. CASE HandlerStep
  BY <1>0, <1>3, StatusHandlerStep
<1>4. ASSUME NEW t \in DOMAIN txs, Confirm(t)
      PROVE  StatusAgrees' /\ NoDust'
  <2>1. orders' = orders /\ pc' = "confirmLog"
    BY <1>4 DEF Confirm, HandleTransactionResult
  <2>2. QED
    BY <1>0, <2>1, StatusSame DEF NoDust, AtNewOrder
<1>5. CASE Crash \/ NewMarketHandler
  <2>1. orders' = orders /\ pc' \in {"down", "idle"}
    BY <1>5 DEF Crash, NewMarketHandler, db
  <2>2. QED
    BY <1>0, <2>1, StatusSame DEF NoDust, AtNewOrder
<1>6. CASE UNCHANGED vars \/ Launcher
  <2>1. UNCHANGED <<orders, pc, taker, row, match, todo>>
    BY <1>6 DEF vars, db, locals, Launcher, LauncherStep, LauncherStop, LaunchLog,
                LaunchTransaction, LaunchTrade
  <2>2. QED
    BY <1>0, <2>1, StatusSame DEF NoDust, AtNewOrder
<1>7. QED
  BY <1>1, <1>2, <1>3, <1>4, <1>5, <1>6 DEF Next, Launcher

-----------------------------------------------------------------------------
(* LiveInv: a trade whose result no row has counted is pending, and no     *)
(* result is counted twice.                                                *)
\* The amounts of the trades, and the volume of a set of them.
Amounts == [i \in DOMAIN trades |-> trades[i].amount]

Vol(S) == Sum(Amounts, S)

\* The trade handleTransactionResult has counted in the rows but not yet marked.
Settling == IF pc = "settleTrade" THEN {i \in due : Newest(i)} ELSE {}

\* The trades whose result no row has counted.
Live ==
  {i \in DOMAIN trades : \/ txs[trades[i].tx].log \notin Outcome
                         \/ pc = "readTrades" /\ trades[i].tx = tx
                         \/ i \in due /\ i \notin Settling}

\* No trade whose result is still to come has one.
LiveOnes == \A i \in Live : trades[i].status = "pending"

\* The launch log leaves "pending" before its trades are read.
LogsSeen ==
  /\ pc = "confirmLog" => txs[tx].log \notin Outcome
  /\ pc = "readTrades" => tx \in DOMAIN txs /\ txs[tx].log \in Outcome
  /\ AtSettle => \A i \in due : txs[trades[i].tx].log \in Outcome

LiveInv == LiveOnes /\ LogsSeen

-----------------------------------------------------------------------------
LEMMA TradeSets ==
  ASSUME TypeOK, NEW S \in SUBSET DOMAIN trades
  PROVE  /\ IsFiniteSet(S) /\ Vol(S) \in Nat
         /\ \A i \in S : Amounts[i] = trades[i].amount /\ Amounts[i] \in Nat
<1>1. IsFiniteSet(1 .. Len(trades)) /\ DOMAIN trades = 1 .. Len(trades)
  <2>1. 1 \in Int /\ Len(trades) \in Int /\ DOMAIN trades = 1 .. Len(trades)
    BY DEF TypeOK
  <2>2. QED
    BY <2>1, FS_Interval
<1>2. IsFiniteSet(S)
  BY <1>1, FS_Subset
<1>3. \A i \in S : Amounts[i] = trades[i].amount /\ Amounts[i] \in Nat
  BY TradeFields DEF Amounts
<1>4. QED
  BY <1>2, <1>3, UnitsFinite DEF Vol

LEMMA VolMonotone ==
  ASSUME TypeOK, NEW S \in SUBSET DOMAIN trades, NEW R \in SUBSET S
  PROVE  Vol(R) <= Vol(S)
  BY TradeSets, SumMonotone DEF Vol

LEMMA VolRemove ==
  ASSUME TypeOK, NEW S \in SUBSET DOMAIN trades, NEW i \in S
  PROVE  Vol(S) = Vol(S \ {i}) + trades[i].amount
  BY TradeSets, SumRemove DEF Vol

LEMMA VolAdd ==
  ASSUME TypeOK, NEW S \in SUBSET DOMAIN trades, NEW i \in DOMAIN trades, i \notin S
  PROVE  Vol(S \cup {i}) = Vol(S) + trades[i].amount
<1>1. S \cup {i} \in SUBSET DOMAIN trades
  OBVIOUS
<1>2. IsFiniteSet(S)
  BY TradeSets
<1>3. \A j \in S \cup {i} : Amounts[j] = trades[j].amount /\ Amounts[j] \in Nat
  BY <1>1, TradeSets
<1>4. Sum(Amounts, S \cup {i}) = Sum(Amounts, S) + Amounts[i]
  BY <1>2, <1>3, SumAdd
<1>5. QED
  BY <1>3, <1>4 DEF Vol

\* A step that keeps the trades keeps their volume.
LEMMA VolKept ==
  ASSUME TradesKept, NEW S \in SUBSET DOMAIN trades
  PROVE  Sum(Amounts', S) = Vol(S)
<1>1. \A i \in S : Amounts'[i] = Amounts[i]
  BY DEF TradesKept, Amounts
<1>2. QED
  BY <1>1, SumSame DEF Vol

-----------------------------------------------------------------------------
(* What becomes of Live.                                                   *)
LEMMA LiveUnmoved ==
  ASSUME Structure, Structure', TradesKept,
         \A i \in DOMAIN trades :
           txs'[trades[i].tx].log \in Outcome <=> txs[trades[i].tx].log \in Outcome,
         ~AtSettle, ~AtSettle', pc # "readTrades", pc' # "readTrades"
  PROVE  Live' = Live /\ Settling = {} /\ Settling' = {}
<1>1. due = {} /\ due' = {}
  BY DEF Structure, IdleLocals
<1>2. Settling = {} /\ Settling' = {}
  BY <1>1 DEF Settling
<1>3. Live' = Live
  BY <1>1 DEF Live, TradesKept
<1>4. QED
  BY <1>2, <1>3

LEMMA LiveStill ==
  ASSUME BalanceInv, TradesKept, UNCHANGED <<pc, due, tx>>,
         \A i \in DOMAIN trades :
           txs'[trades[i].tx].log \in Outcome <=> txs[trades[i].tx].log \in Outcome
  PROVE  Live' = Live /\ Settling' = Settling
<1>1. Settling' = Settling
  BY DEF Settling, Newest
<1>2. Live' = Live
  BY <1>1 DEF Live, TradesKept
<1>3. QED
  BY <1>1, <1>2

\* The steps that leave Live alone, outside handleTransactionResult's loop.
LEMMA LiveNewOrder ==
  ASSUME Structure, Structure', NEW o \in Order, HandleNewOrder(o)
  PROVE  Live' = Live /\ Settling = {} /\ Settling' = {} /\ TradesKept
<1>1. /\ pc = "idle" /\ pc' \in {"insertTaker", "makers"} /\ txs' = txs /\ trades' = trades
  BY DEF HandleNewOrder, db
<1>2. QED
  BY <1>1, LiveUnmoved, SameTradesKept DEF AtSettle

LEMMA LiveUpdateMaker ==
  ASSUME Structure, Structure', NEW m \in Order, NEW ok, UpdateMaker(m, ok)
  PROVE  Live' = Live /\ Settling = {} /\ Settling' = {} /\ TradesKept
<1>1. /\ pc = "makers" /\ pc' = "makers" /\ txs' = txs /\ trades' = trades
  BY DEF UpdateMaker
<1>2. QED
  BY <1>1, LiveUnmoved, SameTradesKept DEF AtSettle

LEMMA LiveFinishTaker ==
  ASSUME Structure, Structure', FinishTaker
  PROVE  Live' = Live /\ Settling = {} /\ Settling' = {} /\ TradesKept
<1>1. /\ pc = "makers" /\ pc' \in {"insertTaker", "insertTx"} /\ txs' = txs /\ trades' = trades
  BY DEF FinishTaker, db
<1>2. QED
  BY <1>1, LiveUnmoved, SameTradesKept DEF AtSettle

LEMMA LiveInsertTransaction ==
  ASSUME BalanceInv, Structure, Structure', NEW ok, InsertTransaction(ok)
  PROVE  Live' = Live /\ Settling = {} /\ Settling' = {} /\ TradesKept
<1>1. /\ pc = "insertTx" /\ pc' \in {"insertLog", "idle"} /\ trades' = trades
  BY DEF InsertTransaction, Return
<1>2. \A u \in DOMAIN txs : txs'[u] = txs[u]
  <2>1. txs \in Seq(Tx)
    BY DEF BalanceInv, TypeOK
  <2>2. \/ txs' = txs
        \/ txs' = Append(txs, [status |-> "pending", hashed |-> FALSE, log |-> "none"])
    BY DEF InsertTransaction
  <2> QED
    BY <2>1, <2>2
<1>3. \A i \in DOMAIN trades : trades[i].tx \in DOMAIN txs
  BY DEF Structure, TradesKnown
<1>4. QED
  BY <1>1, <1>2, <1>3, LiveUnmoved, SameTradesKept DEF AtSettle

LEMMA LiveInsertLaunchLog ==
  ASSUME BalanceInv, Structure, Structure', NEW ok, InsertLaunchLog(ok)
  PROVE  Live' = Live /\ Settling = {} /\ Settling' = {} /\ TradesKept
<1>1. /\ pc = "insertLog" /\ pc' \in {"insertTrades", "idle"} /\ trades' = trades
  BY DEF InsertLaunchLog, Return
<1>2. \A u \in DOMAIN txs : u # tx => txs'[u] = txs[u]
  BY DEF InsertLaunchLog
<1>3. \A i \in DOMAIN trades : trades[i].tx \in DOMAIN txs /\ trades[i].tx # tx
  BY <1>1 DEF Structure, TradesKnown, NewTrades
<1>4. QED
  BY <1>1, <1>2, <1>3, LiveUnmoved, SameTradesKept DEF AtSettle

LEMMA LiveInsertTaker ==
  ASSUME Structure, Structure', NEW ok, InsertTaker(ok)
  PROVE  Live' = Live /\ Settling = {} /\ Settling' = {} /\ TradesKept
<1>1. /\ pc \in {"insertTaker", "insertTrades"} /\ pc' = "idle" /\ txs' = txs /\ trades' = trades
  BY DEF InsertTaker, Return
<1>2. QED
  BY <1>1, LiveUnmoved, SameTradesKept DEF AtSettle

LEMMA LiveCancelOrder ==
  ASSUME Structure, Structure', NEW o \in Order, NEW ok, HandleCancelOrder(o, ok)
  PROVE  Live' = Live /\ Settling = {} /\ Settling' = {} /\ TradesKept
<1>1. /\ pc = "idle" /\ pc' = "idle" /\ txs' = txs /\ trades' = trades
  BY DEF HandleCancelOrder
<1>2. QED
  BY <1>1, LiveUnmoved, SameTradesKept DEF AtSettle

LEMMA LiveNewMarketHandler ==
  ASSUME Structure, Structure', NewMarketHandler
  PROVE  Live' = Live /\ Settling = {} /\ Settling' = {} /\ TradesKept
<1>1. /\ pc = "down" /\ pc' = "idle" /\ txs' = txs /\ trades' = trades
  BY DEF NewMarketHandler, db
<1>2. QED
  BY <1>1, LiveUnmoved, SameTradesKept DEF AtSettle

LEMMA LiveTransactionResult ==
  ASSUME BalanceInv, Structure, Structure', NEW t \in DOMAIN txs, NEW s \in Outcome, NEW ok,
         HandleTransactionResult(t, s, ok)
  PROVE  Live' = Live /\ Settling = {} /\ Settling' = {} /\ TradesKept
<1>1. /\ pc = "idle" /\ pc' = "confirmLog" /\ trades' = trades
      /\ txs' = IF ok THEN [txs EXCEPT ![t].status = s] ELSE txs
  BY DEF HandleTransactionResult
<1>2. txs[t] \in Tx
  BY TxOf DEF BalanceInv, TypeOK
<1>3. \A u \in DOMAIN txs : txs'[u].log = txs[u].log
  BY <1>1, <1>2 DEF Tx
<1>4. \A i \in DOMAIN trades : trades[i].tx \in DOMAIN txs
  BY DEF Structure, TradesKnown
<1>5. QED
  BY <1>1, <1>3, <1>4, LiveUnmoved, SameTradesKept DEF AtSettle

\* A new trade is live.
LEMMA LiveInsertTrade ==
  ASSUME BalanceInv, Structure, Structure', NEW m \in Order, InsertTrade(m, TRUE)
  PROVE  /\ Live' = Live \cup {Len(trades) + 1} /\ Settling = {} /\ Settling' = {}
         /\ DOMAIN trades' = DOMAIN trades \cup {Len(trades) + 1}
         /\ Len(trades) + 1 \notin DOMAIN trades
         /\ \A i \in DOMAIN trades : trades'[i] = trades[i]
         /\ trades'[Len(trades) + 1] = NewTrade(m)
         /\ NewTrade(m).tx = tx /\ NewTrade(m).maker = m /\ NewTrade(m).taker = taker
         /\ NewTrade(m).amount = match.fill[m] /\ NewTrade(m).status = "pending"
<1> DEFINE n == Len(trades) + 1
<1>1. /\ pc = "insertTrades" /\ pc' = "insertTrades" /\ txs' = txs /\ UNCHANGED tx
      /\ trades' = Append(trades, NewTrade(m))
  BY DEF InsertTrade
<1>2. /\ DOMAIN trades' = DOMAIN trades \cup {n} /\ n \notin DOMAIN trades
      /\ \A i \in DOMAIN trades : trades'[i] = trades[i]
      /\ trades'[n] = NewTrade(m)
  BY <1>1 DEF BalanceInv, TypeOK
<1> HIDE DEF n
<1>3. /\ NewTrade(m).tx = tx /\ NewTrade(m).maker = m /\ NewTrade(m).taker = taker
      /\ NewTrade(m).amount = match.fill[m] /\ NewTrade(m).status = "pending"
  BY DEF NewTrade
<1>4. due = {} /\ due' = {}
  BY <1>1 DEF Structure, IdleLocals, AtSettle
<1>5. txs[tx].log \notin Outcome
  BY <1>1 DEF Structure, NewTrades, Outcome
<1>6. Live' = Live \cup {n}
  BY <1>1, <1>2, <1>3, <1>4, <1>5 DEF Live
<1>7. Settling = {} /\ Settling' = {}
  BY <1>1 DEF Settling
<1>8. QED
  BY <1>2, <1>3, <1>6, <1>7 DEF n

LEMMA LiveUpdateLaunchLogsStatus ==
  ASSUME BalanceInv, Structure, Structure', LiveInv, UpdateLaunchLogsStatus(TRUE)
  PROVE  Live' = Live /\ Settling = {} /\ Settling' = {} /\ TradesKept /\ LogsSeen'
<1>1. /\ pc = "confirmLog" /\ pc' = "readTrades" /\ trades' = trades /\ tx' = tx
      /\ txs' = [txs EXCEPT ![tx].log = outcome]
  BY DEF UpdateLaunchLogsStatus, locals
<1>2. tx \in DOMAIN txs /\ txs[tx] \in Tx /\ outcome \in Outcome
  BY <1>1, TxOf DEF BalanceInv, LocalsKnown, TypeOK
<1>3. \A u \in DOMAIN txs : txs'[u].log = IF u = tx THEN outcome ELSE txs[u].log
  BY <1>1, <1>2 DEF Tx
<1>4. due = {} /\ due' = {}
  BY <1>1 DEF Structure, IdleLocals, AtSettle
<1>5. \A i \in DOMAIN trades : trades[i].tx \in DOMAIN txs
  BY DEF Structure, TradesKnown
<1>6. txs[tx].log \notin Outcome
  BY <1>1 DEF LiveInv, LogsSeen
<1>7. Live' = Live
  BY <1>1, <1>2, <1>3, <1>4, <1>5, <1>6 DEF Live
<1>8. LogsSeen'
  BY <1>1, <1>2, <1>3 DEF LogsSeen, AtSettle
<1>9. QED
  BY <1>1, <1>7, <1>8, SameTradesKept DEF Settling

LEMMA LiveReadTrades ==
  ASSUME BalanceInv, Structure, Structure', LiveInv, ReadTrades
  PROVE  /\ Live' \subseteq Live /\ Settling = {} /\ Settling' = {} /\ TradesKept /\ LogsSeen'
         /\ TradesByHash(tx) \subseteq Live
<1>1. pc = "readTrades" /\ txs' = txs /\ trades' = trades
  BY DEF ReadTrades, db
<1>2. Settling = {}
  BY <1>1 DEF Settling
<1>3. TradesByHash(tx) \subseteq Live
  BY <1>1 DEF TradesByHash, Live
<1>4. CASE pc' = "settleMaker"
  <2>1. due' = TradesByHash(tx) /\ \A i \in TradesByHash(tx) : trades[i].tx = tx
    BY <1>4, ReadTradesCases DEF Return
  <2>2. Settling' = {}
    BY <1>4 DEF Settling
  <2>3. Live' \subseteq Live
    BY <1>1, <1>3, <1>4, <2>1 DEF Live
  <2>4. LogsSeen'
    BY <1>1, <1>4, <2>1 DEF LiveInv, LogsSeen
  <2>5. QED
    BY <1>1, <1>2, <1>3, <2>2, <2>3, <2>4, SameTradesKept
<1>5. CASE pc' = "idle"
  <2>1. due' = {}
    BY <1>5 DEF Structure, IdleLocals, AtSettle
  <2>2. Settling' = {}
    BY <1>5 DEF Settling
  <2>3. Live' \subseteq Live
    BY <1>1, <1>5, <2>1 DEF Live
  <2>4. LogsSeen'
    BY <1>5 DEF LogsSeen, AtSettle
  <2>5. QED
    BY <1>1, <1>2, <1>3, <2>2, <2>3, <2>4, SameTradesKept
<1>6. QED
  BY <1>4, <1>5, ReadTradesCases DEF Return

LEMMA LiveSettleMaker ==
  ASSUME BalanceInv, Structure, Structure', LiveInv, NEW i \in due, NEW ok, SettleMaker(i, ok)
  PROVE  /\ Live' = Live \ {i} /\ i \in Live /\ Settling = {} /\ Settling' = {i}
         /\ TradesKept /\ LogsSeen'
<1>1. /\ pc = "settleMaker" /\ pc' = "settleTrade" /\ Newest(i)
      /\ UNCHANGED <<txs, trades, due, tx>>
  BY DEF SettleMaker
<1>2. due \subseteq Nat /\ i \in DOMAIN trades
  BY DEF BalanceInv, TypeOK
<1>3. Settling = {} /\ Settling' = {i}
  BY <1>1, <1>2 DEF Settling, Newest
<1>4. i \in Live
  BY <1>1, <1>2, <1>3 DEF Live
<1>5. txs[trades[i].tx].log \in Outcome
  BY <1>1 DEF LiveInv, LogsSeen, AtSettle
<1>6. Live' = Live \ {i}
  BY <1>1, <1>3, <1>5 DEF Live
<1>7. LogsSeen'
  BY <1>1 DEF LiveInv, LogsSeen, AtSettle
<1>8. QED
  BY <1>1, <1>3, <1>4, <1>6, <1>7, SameTradesKept

LEMMA LiveSettleTrade ==
  ASSUME BalanceInv, Structure, Structure', LiveInv, NEW i \in due, SettleTrade(i, TRUE)
  PROVE  /\ Live' = Live /\ i \notin Live /\ Settling = {i} /\ Settling' = {}
         /\ TradesKept /\ LogsSeen'
<1>1. /\ pc = "settleTrade" /\ pc' = "settleMaker" /\ Newest(i) /\ due' = due \ {i}
      /\ UNCHANGED <<txs, tx>>
  BY DEF SettleTrade
<1>2. due \subseteq Nat /\ due \subseteq DOMAIN trades
  BY DEF BalanceInv, TypeOK
<1>a. Settling = {i}
  <2>1. \A j \in due : Newest(j) <=> j = i
    BY <1>1, <1>2 DEF Newest
  <2>2. QED
    BY <1>1, <2>1 DEF Settling
<1>3. Settling = {i} /\ Settling' = {}
  BY <1>1, <1>a DEF Settling
<1>4. TradesKept
  BY SettleTradeKeeps
<1>5. \A j \in due : txs[trades[j].tx].log \in Outcome
  BY <1>1 DEF LiveInv, LogsSeen, AtSettle
<1>6. i \notin Live
  BY <1>1, <1>3, <1>5 DEF Live
<1>7. Live' = Live
  BY <1>1, <1>3, <1>4, <1>5 DEF Live, TradesKept
<1>8. LogsSeen'
  BY <1>1, <1>2, <1>4, <1>5 DEF LogsSeen, AtSettle, TradesKept
<1>9. QED
  BY <1>3, <1>4, <1>6, <1>7, <1>8

LEMMA LiveSettleTaker ==
  ASSUME BalanceInv, Structure, Structure', NEW ok, SettleTaker(ok)
  PROVE  Live' = Live /\ Settling = {} /\ Settling' = {} /\ TradesKept /\ LogsSeen'
<1>1. /\ pc = "settleMaker" /\ pc' = "idle" /\ due = {} /\ UNCHANGED <<txs, trades>>
  BY DEF SettleTaker, Return
<1>2. due' = {}
  BY <1>1 DEF Structure, IdleLocals, AtSettle
<1>3. Settling = {} /\ Settling' = {}
  BY <1>1 DEF Settling
<1>4. Live' = Live
  BY <1>1, <1>2 DEF Live
<1>5. QED
  BY <1>1, <1>3, <1>4, SameTradesKept DEF LogsSeen, AtSettle

LEMMA LiveLauncher ==
  ASSUME BalanceInv, Structure, Launcher
  PROVE  Live' = Live /\ Settling' = Settling /\ TradesKept
<1>1. \A i \in DOMAIN trades : trades[i].tx \in DOMAIN txs
  BY DEF Structure, TradesKnown
<1>2. /\ TradesKept
      /\ \A u \in DOMAIN txs : \/ txs'[u].log = txs[u].log
                               \/ (txs[u].log = "created" /\ txs'[u].log = "pending")
  BY LaunchKeeps DEF BalanceInv
<1>3. UNCHANGED <<pc, due, tx>>
  BY LauncherWrites DEF BalanceInv, locals
<1>4. QED
  BY <1>1, <1>2, <1>3, LiveStill DEF Outcome

LEMMA LiveCrash ==
  ASSUME Structure', Crash
  PROVE  Live' \subseteq Live /\ Settling' = {} /\ TradesKept /\ LogsSeen'
<1>1. pc' = "down" /\ txs' = txs /\ trades' = trades
  BY DEF Crash, db
<1>2. due' = {}
  BY <1>1 DEF Structure, IdleLocals, AtSettle
<1>3. Settling' = {} /\ LogsSeen'
  BY <1>1 DEF Settling, LogsSeen, AtSettle
<1>4. Live' \subseteq Live
  BY <1>1, <1>2 DEF Live
<1>5. QED
  BY <1>1, <1>3, <1>4, SameTradesKept

\* The results still to come stay to come, but for those the handler takes up.
LEMMA LiveOnesKept ==
  ASSUME LiveOnes, Live' \subseteq Live, DOMAIN trades' = DOMAIN trades,
         \A i \in DOMAIN trades : trades'[i].status = trades[i].status
  PROVE  LiveOnes'
  BY DEF LiveOnes, Live

LEMMA LiveInit == Init => LiveInv
  BY DEF Init, LiveInv, LiveOnes, LogsSeen, Live, AtSettle

LEMMA LiveHandlerStep ==
  ASSUME BalanceInv, Structure, Structure', BookFits, LiveInv, dbErrors' = 0, HandlerStep
  PROVE  LiveInv'
<1> USE DEF LiveInv
<1>0. ASSUME NEW ok \in BOOLEAN, Db(ok)
      PROVE  ok = TRUE
  BY <1>0, DbSaved DEF BalanceInv
<1>1. ASSUME NEW m \in Order, MakerMissing(m)
      PROVE  FALSE
  BY <1>1, BookMakerMissing
<1>2. CASE FinishTaker
  <2>1. trades' = trades /\ pc' \in {"insertTaker", "insertTx"}
    BY <1>2 DEF FinishTaker, db
  <2>2. QED
    BY <1>2, <2>1, LiveFinishTaker, LiveOnesKept DEF LogsSeen, AtSettle
<1>3. CASE ReadTrades
  <2>1. trades' = trades
    BY <1>3 DEF ReadTrades, db
  <2>2. QED
    BY <1>3, <2>1, LiveReadTrades, LiveOnesKept
<1>4. ASSUME NEW ok \in BOOLEAN, NEW m \in Order, UpdateMaker(m, ok) \/ SaveMakerAgain(m, ok)
      PROVE  LiveInv'
  <2>1. UpdateMaker(m, ok)
    BY <1>4, BookSaveMakerAgain
  <2>2. trades' = trades /\ pc' = "makers"
    BY <2>1 DEF UpdateMaker
  <2>3. QED
    BY <2>1, <2>2, LiveUpdateMaker, LiveOnesKept DEF LogsSeen, AtSettle
<1>5. ASSUME NEW ok \in BOOLEAN, NEW m \in Order, InsertTrade(m, ok)
      PROVE  LiveInv'
  <2>1. InsertTrade(m, TRUE)
    BY <1>0, <1>5 DEF InsertTrade
  <2>2. LiveOnes'
    <3> SUFFICES ASSUME NEW i \in Live'
                 PROVE  trades'[i].status = "pending"
      BY DEF LiveOnes
    <3>1. CASE i \in Live
      <4>1. i \in DOMAIN trades
        BY <3>1 DEF Live
      <4>2. QED
        BY <2>1, <3>1, <4>1, LiveInsertTrade DEF LiveOnes
    <3>2. CASE i = Len(trades) + 1
      BY <2>1, <3>2, LiveInsertTrade
    <3>3. Live' = Live \cup {Len(trades) + 1}
      BY <2>1, LiveInsertTrade
    <3>4. QED
      BY <3>1, <3>2, <3>3
  <2>3. LogsSeen'
    BY <2>1 DEF InsertTrade, LogsSeen, AtSettle
  <2>4. QED
    BY <2>2, <2>3
<1>6. ASSUME NEW ok \in BOOLEAN, InsertTransaction(ok)
      PROVE  LiveInv'
  <2>1. trades' = trades /\ pc' \in {"insertLog", "idle"}
    BY <1>6 DEF InsertTransaction, Return
  <2>2. QED
    BY <1>6, <2>1, LiveInsertTransaction, LiveOnesKept DEF LogsSeen, AtSettle
<1>7. ASSUME NEW ok \in BOOLEAN, InsertLaunchLog(ok)
      PROVE  LiveInv'
  <2>1. trades' = trades /\ pc' \in {"insertTrades", "idle"}
    BY <1>7 DEF InsertLaunchLog, Return
  <2>2. QED
    BY <1>7, <2>1, LiveInsertLaunchLog, LiveOnesKept DEF LogsSeen, AtSettle
<1>8. ASSUME NEW ok \in BOOLEAN, InsertTaker(ok)
      PROVE  LiveInv'
  <2>1. trades' = trades /\ pc' = "idle"
    BY <1>8 DEF InsertTaker, Return
  <2>2. QED
    BY <1>8, <2>1, LiveInsertTaker, LiveOnesKept DEF LogsSeen, AtSettle
<1>9. ASSUME NEW ok \in BOOLEAN, UpdateLaunchLogsStatus(ok)
      PROVE  LiveInv'
  <2>1. UpdateLaunchLogsStatus(TRUE) /\ trades' = trades
    BY <1>0, <1>9 DEF UpdateLaunchLogsStatus
  <2>2. QED
    BY <2>1, LiveUpdateLaunchLogsStatus, LiveOnesKept
<1>10. ASSUME NEW ok \in BOOLEAN, NEW i \in due, SettleMaker(i, ok)
       PROVE  LiveInv'
  <2>1. trades' = trades
    BY <1>10 DEF SettleMaker
  <2>2. QED
    BY <1>10, <2>1, LiveSettleMaker, LiveOnesKept
<1>11. ASSUME NEW ok \in BOOLEAN, NEW i \in due, SettleTrade(i, ok)
       PROVE  LiveInv'
  <2>1. SettleTrade(i, TRUE)
    BY <1>0, <1>11 DEF SettleTrade
  <2>2. LiveOnes'
    BY <2>1, LiveSettleTrade, SettleTradeKeeps DEF LiveOnes, Live
  <2>3. QED
    BY <2>1, <2>2, LiveSettleTrade
<1>12. ASSUME NEW ok \in BOOLEAN, SettleTaker(ok)
       PROVE  LiveInv'
  <2>1. trades' = trades
    BY <1>12 DEF SettleTaker
  <2>2. QED
    BY <1>12, <2>1, LiveSettleTaker, LiveOnesKept
<1>13. QED
  BY <1>1, <1>2, <1>3, <1>4, <1>5, <1>6, <1>7, <1>8, <1>9, <1>10, <1>11, <1>12 DEF HandlerStep

LEMMA LiveNext ==
  ASSUME BalanceInv, Structure, Structure', BookFits, LiveInv, dbErrors' = 0, repeats' = 0,
         [Next]_vars
  PROVE  LiveInv'
<1> USE DEF LiveInv
<1>1. ASSUME NEW o \in Order, HandleNewOrder(o)
      PROVE  LiveInv'
  <2>1. trades' = trades /\ pc' \in {"insertTaker", "makers"}
    BY <1>1 DEF HandleNewOrder, db
  <2>2. QED
    BY <1>1, <2>1, LiveNewOrder, LiveOnesKept DEF LogsSeen, AtSettle
<1>2. ASSUME NEW o \in Order, NEW ok \in BOOLEAN, HandleCancelOrder(o, ok)
      PROVE  LiveInv'
  <2>1. trades' = trades /\ pc' = "idle"
    BY <1>2 DEF HandleCancelOrder
  <2>2. QED
    BY <1>2, <2>1, LiveCancelOrder, LiveOnesKept DEF LogsSeen, AtSettle
<1>3. ASSUME NEW t \in DOMAIN txs, NEW s \in Outcome, NEW ok \in BOOLEAN,
             HandleTransactionResult(t, s, ok)
      PROVE  LiveInv'
  <2>1. trades' = trades /\ pc' = "confirmLog" /\ tx' = t
        /\ txs' = (IF ok THEN [txs EXCEPT ![t].status = s] ELSE txs)
    BY <1>3 DEF HandleTransactionResult
  <2>2. txs[t].log = "pending"
    BY <1>3, BoundAssumption DEF HandleTransactionResult, BalanceInv, TypeOK
  <2>3. txs[t] \in Tx
    BY TxOf DEF BalanceInv, TypeOK
  <2>4. txs'[t].log \notin Outcome
    BY <2>1, <2>2, <2>3 DEF Tx, Outcome
  <2>5. QED
    BY <1>3, <2>1, <2>4, LiveTransactionResult, LiveOnesKept DEF LogsSeen, AtSettle
<1>4. ASSUME Launcher
      PROVE  LiveInv'
  <2>1. /\ Live' = Live /\ TradesKept
        /\ \A j \in DOMAIN trades : trades'[j].status = trades[j].status
        /\ \A u \in DOMAIN txs : \/ txs'[u].log = txs[u].log
                                 \/ (txs[u].log = "created" /\ txs'[u].log = "pending")
    BY <1>4, LiveLauncher, LaunchKeeps DEF BalanceInv
  <2>2. UNCHANGED <<pc, due, tx>>
    BY <1>4, LauncherWrites DEF BalanceInv, locals
  <2>3. LiveOnes'
    BY <2>1, LiveOnesKept DEF TradesKept
  <2>4. /\ due \subseteq DOMAIN trades
        /\ \A i \in DOMAIN trades : trades[i].tx \in DOMAIN txs
    BY DEF BalanceInv, TypeOK, Structure, TradesKnown
  <2>5. pc = "confirmLog" => txs'[tx].log \notin Outcome
    <3>1. pc = "confirmLog" => tx \in DOMAIN txs
      BY DEF BalanceInv, TypeOK, LocalsKnown
    <3>2. QED
      BY <2>1, <3>1 DEF LogsSeen, Outcome
  <2>6. pc = "readTrades" => txs'[tx].log \in Outcome
    BY <2>1 DEF LogsSeen, Outcome
  <2>7. AtSettle => \A i \in due : txs'[trades[i].tx].log \in Outcome
    BY <2>1, <2>4 DEF LogsSeen, Outcome
  <2>8. LogsSeen'
    <3>1. DOMAIN txs' = DOMAIN txs
      BY <1>4, LaunchKeeps DEF BalanceInv
    <3>2. QED
      BY <3>1, <2>1, <2>2, <2>4, <2>5, <2>6, <2>7
         DEF LogsSeen, AtSettle, TradesKept
  <2>9. QED
    BY <2>3, <2>8
<1>5. CASE HandlerStep
  BY <1>5, LiveHandlerStep
<1>6. CASE Crash
  <2>1. trades' = trades
    BY <1>6 DEF Crash, db
  <2>2. QED
    BY <1>6, <2>1, LiveCrash, LiveOnesKept
<1>7. CASE NewMarketHandler
  <2>1. trades' = trades /\ pc' = "idle"
    BY <1>7 DEF NewMarketHandler, db
  <2>2. QED
    BY <1>7, <2>1, LiveNewMarketHandler, LiveOnesKept DEF LogsSeen, AtSettle
<1>8. CASE UNCHANGED vars
  BY <1>8 DEF vars, db, locals, LiveOnes, LogsSeen, Live, Settling, Newest, AtSettle
<1>9. QED
  BY <1>1, <1>2, <1>3, <1>4, <1>5, <1>6, <1>7, <1>8
     DEF Next, Confirm, Launcher

-----------------------------------------------------------------------------
(* PendingInv: the pending amount of a row covers the trades of its order  *)
(* whose result is still to come and the match the handler has yet to      *)
(* store as a trade.                                                       *)

\* The makers whose row has been matched and whose trade is not stored.
Untraded ==
  IF pc = "makers" THEN Makers(match) \ todo
  ELSE IF pc \in {"insertTx", "insertLog"} THEN Makers(match)
  ELSE IF pc = "insertTrades" THEN todo ELSE {}

\* What o is to have in a trade that is not stored.
Reserved(o) == IF o \in Untraded THEN match.fill[o] ELSE 0

\* The trades of o whose result is still to come.
Ours(o) == Of(o) \cap Live

\* Enough is locked, also after a crash between two writes.
PendingCovers == \A o \in Present : orders[o].pending >= Vol(Ours(o)) + Reserved(o)

\* The row of the taker being matched has exactly what its trades will have.
TakerExact ==
  AtNewOrder =>
    /\ pc = "makers" => row.pending = Sum(match.fill, Makers(match) \ todo)
    /\ pc # "makers" => row.pending = Sum(match.fill, Makers(match))
    /\ pc = "insertTrades" =>
         Vol(Of(taker)) + Sum(match.fill, todo) = Sum(match.fill, Makers(match))
    /\ \A i \in Of(taker) : trades[i].status = "pending"

\* The row of the taker being settled still covers what is to come.
SettleExact ==
  AtSettle => orders[taker].pending > 0 /\ row.pending >= Vol(Ours(taker))

PendingInv == PendingCovers /\ TakerExact /\ SettleExact

-----------------------------------------------------------------------------
LEMMA PresentRows ==
  ASSUME BalanceInv, NEW o \in Present
  PROVE  /\ o \in Order /\ orders[o] \in Row /\ Balanced(orders[o])
         /\ orders[o].pending \in Int /\ Reserved(o) \in Nat
         /\ Ours(o) \in SUBSET DOMAIN trades /\ Of(o) \in SUBSET DOMAIN trades
         /\ Vol(Ours(o)) \in Nat /\ Vol(Of(o)) \in Nat
<1>1. o \in Order /\ orders[o] \in Row /\ Balanced(orders[o])
  BY DEF Present, BalanceInv, TypeOK, AmountsBalanced
<1>2. match.fill[o] \in Nat
  BY <1>1 DEF BalanceInv, TypeOK, Match
<1>3. Of(o) \in SUBSET DOMAIN trades /\ Ours(o) \in SUBSET DOMAIN trades
  BY DEF Of, Ours
<1>4. Vol(Ours(o)) \in Nat /\ Vol(Of(o)) \in Nat
  BY <1>3, TradeSets DEF BalanceInv
<1>5. QED
  BY <1>1, <1>2, <1>3, <1>4, RowAmounts DEF Reserved

\* Less to come, and nothing taken from the amounts that cover it.
LEMMA OursShrinks ==
  ASSUME BalanceInv, TradesKept, NEW o, Live' \subseteq Live
  PROVE  Vol(Ours(o))' \in Nat /\ Vol(Ours(o))' <= Vol(Ours(o))
<1>1. Ours(o)' \subseteq Ours(o) /\ Ours(o) \in SUBSET DOMAIN trades
  BY DEF Ours, Of, TradesKept
<1>2. Vol(Ours(o))' = Sum(Amounts', Ours(o)')
  BY DEF Vol
<1>3. Sum(Amounts', Ours(o)') = Vol(Ours(o)')
  BY <1>1, VolKept
<1>4. TypeOK
  BY DEF BalanceInv
<1>5. QED
  BY <1>1, <1>2, <1>3, <1>4, VolMonotone, TradeSets

LEMMA PendingKept ==
  ASSUME BalanceInv, PendingCovers, TradesKept, Live' \subseteq Live, Present' = Present,
         \A o \in Present : /\ orders'[o].pending \in Int /\ Reserved(o)' \in Nat
                            /\ orders'[o].pending - Reserved(o)' >= orders[o].pending - Reserved(o)
  PROVE  PendingCovers'
<1> SUFFICES ASSUME NEW o \in Present
             PROVE  orders'[o].pending >= Vol(Ours(o))' + Reserved(o)'
  BY DEF PendingCovers
<1>1. orders[o].pending >= Vol(Ours(o)) + Reserved(o)
  BY DEF PendingCovers
<1>2. Vol(Ours(o))' \in Nat /\ Vol(Ours(o))' <= Vol(Ours(o))
  BY OursShrinks
<1>3. orders[o].pending \in Int /\ Reserved(o) \in Nat /\ Vol(Ours(o)) \in Nat
  BY PresentRows
<1>4. QED
  BY <1>1, <1>2, <1>3

LEMMA PendingSame ==
  ASSUME BalanceInv, PendingCovers, TradesKept, Live' \subseteq Live, orders' = orders,
         \A o \in Present : Reserved(o)' \in Nat /\ Reserved(o)' <= Reserved(o)
  PROVE  PendingCovers'
<1>1. Present' = Present
  BY DEF Present
<1>2. \A o \in Present : orders[o].pending \in Int /\ Reserved(o) \in Nat
  BY PresentRows
<1>3. QED
  BY <1>1, <1>2, PendingKept

\* A write that leaves the pending amount of its row alone.
LEMMA PendingWrite ==
  ASSUME BalanceInv, PendingCovers, TradesKept, Live' \subseteq Live,
         NEW p \in Present, NEW u \in Row, u.pending = orders[p].pending,
         orders' = [orders EXCEPT ![p] = u],
         \A o \in Present : Reserved(o)' = 0
  PROVE  PendingCovers'
<1>1. \A o \in Present : orders[o].pending \in Int /\ Reserved(o) \in Nat /\ o \in Order
  BY PresentRows
<1>2. u # NoRow /\ orders \in [Order -> Row \cup {NoRow}] /\ p \in Order
  BY <1>1, OrderAssumption DEF BalanceInv, TypeOK
<1>3. Present' = Present
  BY <1>2 DEF Present
<1>4. \A o \in Present : orders'[o].pending = orders[o].pending
  BY <1>1, <1>2
<1>5. QED
  BY <1>1, <1>3, <1>4, PendingKept

LEMMA PendingInit == Init => PendingInv
  BY DEF Init, PendingInv, PendingCovers, Present, TakerExact, SettleExact, AtNewOrder, AtSettle

LEMMA PendingNewOrder ==
  ASSUME BalanceInv, Structure, Structure', PendingInv, NEW o \in Order, HandleNewOrder(o)
  PROVE  PendingInv'
<1>1. /\ pc = "idle" /\ taker' = o /\ row' = FreshRow(AmountOf[o])
      /\ orders' = orders /\ trades' = trades
      /\ todo' = Makers(match')
      /\ pc' = IF Makers(match') = {} THEN "insertTaker" ELSE "makers"
  BY DEF HandleNewOrder, db
<1>2. Live' \subseteq Live /\ TradesKept
  BY LiveNewOrder
<1>3. \A p : Reserved(p)' = 0
  BY <1>1 DEF Reserved, Untraded
<1>4. PendingCovers'
  <2>1. \A p \in Present : Reserved(p) \in Nat
    BY PresentRows
  <2>2. QED
    BY <1>1, <1>2, <1>3, <2>1, PendingSame DEF PendingInv
<1>5. Of(taker)' = {}
  BY <1>1 DEF Structure, NewTrades, AtNewOrder
<1>6. row'.pending = 0
  BY <1>1 DEF FreshRow
<1>7. TakerExact'
  <2>1. CASE Makers(match') = {}
    <3>1. Sum(match'.fill, Makers(match')) = 0
      BY <2>1, SumEmpty
    <3>2. QED
      BY <1>1, <1>5, <1>6, <2>1, <3>1 DEF TakerExact
  <2>2. CASE Makers(match') # {}
    <3>1. Makers(match') \ todo' = {}
      BY <1>1
    <3>2. Sum(match'.fill, Makers(match') \ todo') = 0
      BY <3>1, SumEmpty
    <3>3. QED
      BY <1>1, <1>5, <1>6, <2>2, <3>2 DEF TakerExact
  <2>3. QED
    BY <2>1, <2>2
<1>8. SettleExact'
  BY <1>1 DEF SettleExact, AtSettle
<1>9. QED
  BY <1>4, <1>7, <1>8 DEF PendingInv

LEMMA PendingUpdateMaker ==
  ASSUME BalanceInv, Structure, Structure', BookFits, StatusAgrees, NoDust, PendingInv,
         dbErrors' = 0, NEW m \in Order, NEW ok \in BOOLEAN, UpdateMaker(m, ok)
  PROVE  PendingInv'
<1> DEFINE u == MakerAfter(m)
           n == match.fill[m]
<1>1. /\ pc = "makers" /\ pc' = "makers" /\ m \in todo /\ orders[m] # NoRow
      /\ todo' = todo \ {m} /\ row' = Matched(row, n, m \in match.canceled)
      /\ UNCHANGED <<trades, taker, match>>
  BY DEF UpdateMaker
<1>2. /\ orders' = [orders EXCEPT ![m] = u] /\ u.pending = orders[m].pending + n
      /\ u \in Row /\ n \in Nat
  BY <1>1, StatusUpdateMaker, MakerAfterFields
<1>3. Live' \subseteq Live /\ TradesKept
  BY LiveUpdateMaker
<1>4. m \in Makers(match) /\ m \in Present
  BY <1>1 DEF Structure, NewOrderKnown, AtNewOrder, Present
<1> HIDE DEF u
<1>5. \A o \in Present : /\ o \in Order /\ orders[o].pending \in Int
                         /\ Reserved(o) \in Nat /\ match.fill[o] \in Nat
  <2>1. \A o \in Order : match.fill[o] \in Nat
    BY DEF BalanceInv, TypeOK, Match
  <2>2. QED
    BY <2>1, PresentRows
<1>6. Reserved(m) = 0 /\ Reserved(m)' = n
  BY <1>1, <1>4 DEF Reserved, Untraded, Makers
<1>7. \A o \in Present : o # m => Reserved(o)' = Reserved(o)
  BY <1>1 DEF Reserved, Untraded, Makers
<1>8. Present' = Present /\ orders'[m] = u /\ \A o \in Present : o # m => orders'[o] = orders[o]
  <2>1. u # NoRow /\ orders \in [Order -> Row \cup {NoRow}]
    BY <1>2, OrderAssumption DEF BalanceInv, TypeOK
  <2>2. QED
    BY <1>1, <1>2, <2>1 DEF Present
<1> HIDE DEF n
<1>9. PendingCovers'
  <2>1. ASSUME NEW o \in Present
        PROVE  /\ orders'[o].pending \in Int /\ Reserved(o)' \in Nat
               /\ orders'[o].pending - Reserved(o)' >= orders[o].pending - Reserved(o)
    <3>1. CASE o = m
      BY <1>2, <1>5, <1>6, <1>8, <3>1
    <3>2. CASE o # m
      BY <1>5, <1>7, <1>8, <3>2
    <3>3. QED
      BY <3>1, <3>2
  <2>2. QED
    BY <1>3, <1>8, <2>1, PendingKept DEF PendingInv
<1>10. TakerExact'
  <2>1. row \in Row /\ AtNewOrder /\ m \notin match.canceled
    BY <1>1 DEF BalanceInv, TypeOK, AtNewOrder, NoDust
  <2>2. row'.pending = row.pending + n
    BY <1>1, <1>2, <2>1 DEF Matched, Row
  <2>3. row.pending = Sum(match.fill, Makers(match) \ todo)
    BY <1>1, <2>1 DEF PendingInv, TakerExact
  <2>4. Makers(match) \ todo' = (Makers(match) \ todo) \cup {m}
    BY <1>1, <1>4
  <2>5. Sum(match.fill, Makers(match) \ todo') = Sum(match.fill, Makers(match) \ todo) + n
    <3>1. IsFiniteSet(Makers(match) \ todo) /\ m \notin Makers(match) \ todo
      BY <1>1, OrderAssumption, FS_Subset DEF Makers
    <3>2. \A x \in (Makers(match) \ todo) \cup {m} : match.fill[x] \in Nat
      BY DEF Makers, BalanceInv, TypeOK, Match
    <3>3. QED
      BY <2>4, <3>1, <3>2, SumAdd DEF n
  <2>6. Of(taker)' = {}
    BY <1>1 DEF Structure, NewTrades, AtNewOrder
  <2>7. row'.pending = Sum(match'.fill, Makers(match') \ todo')
    BY <1>1, <2>2, <2>3, <2>5
  <2>8. QED
    BY <1>1, <2>6, <2>7 DEF TakerExact
<1>11. SettleExact'
  BY <1>1 DEF SettleExact, AtSettle
<1>12. QED
  BY <1>9, <1>10, <1>11 DEF PendingInv

LEMMA PendingFinishTaker ==
  ASSUME BalanceInv, Structure, Structure', PendingInv, FinishTaker
  PROVE  PendingInv'
<1>1. /\ pc = "makers" /\ todo = {} /\ pc' \in {"insertTaker", "insertTx"}
      /\ row' = (IF taker \in match.done THEN Done(row) ELSE row)
      /\ UNCHANGED <<orders, trades, taker, match, todo>>
  BY DEF FinishTaker, db
<1>2. Live' \subseteq Live /\ TradesKept
  BY LiveFinishTaker
<1>3. \A o \in Present : Reserved(o) \in Nat /\ (Reserved(o)' = Reserved(o) \/ Reserved(o)' = 0)
  BY <1>1, PresentRows DEF Reserved, Untraded, Makers
<1>4. PendingCovers'
  <2>1. \A o \in Present : Reserved(o)' \in Nat /\ Reserved(o)' <= Reserved(o)
    BY <1>3
  <2>2. QED
    BY <1>1, <1>2, <2>1, PendingSame DEF PendingInv
<1>5. row'.pending = row.pending
  <2>1. row \in Row /\ Balanced(row)
    BY DEF BalanceInv, TypeOK, RowAtWork
  <2>2. QED
    BY <1>1, <2>1, DoneFields
<1>6. Makers(match) \ todo = Makers(match)
  BY <1>1
<1>7. row'.pending = Sum(match'.fill, Makers(match'))
  BY <1>1, <1>5, <1>6 DEF PendingInv, TakerExact, AtNewOrder
<1>8. Of(taker)' = {}
  BY <1>1 DEF Structure, NewTrades, AtNewOrder
<1>9. TakerExact' /\ SettleExact'
  BY <1>1, <1>7, <1>8 DEF TakerExact, SettleExact, AtSettle
<1>10. QED
  BY <1>4, <1>9 DEF PendingInv

LEMMA PendingInsertTransaction ==
  ASSUME BalanceInv, Structure, Structure', PendingInv, InsertTransaction(TRUE)
  PROVE  PendingInv'
<1>1. /\ pc = "insertTx" /\ pc' = "insertLog"
      /\ UNCHANGED <<orders, trades, taker, row, match, todo>>
  BY DEF InsertTransaction
<1>2. Live' \subseteq Live /\ TradesKept
  BY LiveInsertTransaction
<1>3. \A o \in Present : Reserved(o) \in Nat /\ Reserved(o)' = Reserved(o)
  BY <1>1, PresentRows DEF Reserved, Untraded, Makers
<1>4. PendingCovers'
  <2>1. \A o \in Present : Reserved(o)' \in Nat /\ Reserved(o)' <= Reserved(o)
    BY <1>3
  <2>2. QED
    BY <1>1, <1>2, <2>1, PendingSame DEF PendingInv
<1>5. row'.pending = Sum(match'.fill, Makers(match'))
  BY <1>1 DEF PendingInv, TakerExact, AtNewOrder
<1>6. Of(taker)' = {}
  BY <1>1 DEF Structure, NewTrades, AtNewOrder
<1>7. TakerExact' /\ SettleExact'
  BY <1>1, <1>5, <1>6 DEF TakerExact, SettleExact, AtSettle
<1>8. QED
  BY <1>4, <1>7 DEF PendingInv

LEMMA PendingInsertLaunchLog ==
  ASSUME BalanceInv, Structure, Structure', PendingInv, InsertLaunchLog(TRUE)
  PROVE  PendingInv'
<1>1. /\ pc = "insertLog" /\ pc' = "insertTrades" /\ todo' = Makers(match)
      /\ UNCHANGED <<orders, trades, taker, row, match>>
  BY DEF InsertLaunchLog
<1>2. Live' \subseteq Live /\ TradesKept
  BY LiveInsertLaunchLog
<1>3. \A o \in Present : Reserved(o) \in Nat /\ Reserved(o)' = Reserved(o)
  BY <1>1, PresentRows DEF Reserved, Untraded, Makers
<1>4. PendingCovers'
  <2>1. \A o \in Present : Reserved(o)' \in Nat /\ Reserved(o)' <= Reserved(o)
    BY <1>3
  <2>2. QED
    BY <1>1, <1>2, <2>1, PendingSame DEF PendingInv
<1>5. row'.pending = Sum(match'.fill, Makers(match'))
  BY <1>1 DEF PendingInv, TakerExact, AtNewOrder
<1>6. Of(taker) = {} /\ Of(taker)' = {}
  BY <1>1 DEF Structure, NewTrades, AtNewOrder, Of
<1>7. Vol(Of(taker))' = 0
  BY <1>6, SumEmpty DEF Vol
<1>8. Sum(match.fill, Makers(match)) \in Nat
  <2>1. IsFiniteSet(Makers(match)) /\ \A x \in Makers(match) : match.fill[x] \in Nat
    BY OrderAssumption, FS_Subset DEF Makers, BalanceInv, TypeOK, Match
  <2>2. QED
    BY <2>1, UnitsFinite
<1>9. Vol(Of(taker))' + Sum(match'.fill, todo') = Sum(match'.fill, Makers(match'))
  BY <1>1, <1>7, <1>8
<1>10. TakerExact' /\ SettleExact'
  BY <1>1, <1>5, <1>6, <1>9 DEF TakerExact, SettleExact, AtSettle
<1>11. QED
  BY <1>4, <1>10 DEF PendingInv

\* What the new trade adds to the volume of a set of trades.
LEMMA VolAppended ==
  ASSUME BalanceInv, Structure, Structure', NEW m \in Order, InsertTrade(m, TRUE),
         NEW S \in SUBSET DOMAIN trades
  PROVE  /\ Sum(Amounts', S) = Vol(S) /\ Vol(S) \in Nat /\ match.fill[m] \in Nat
         /\ Sum(Amounts', S \cup {Len(trades) + 1}) = Vol(S) + match.fill[m]
<1> DEFINE n == Len(trades) + 1
<1>1. /\ DOMAIN trades' = DOMAIN trades \cup {n} /\ n \notin DOMAIN trades
      /\ \A i \in DOMAIN trades : trades'[i] = trades[i]
      /\ trades'[n] = NewTrade(m) /\ NewTrade(m).amount = match.fill[m]
  BY LiveInsertTrade
<1> HIDE DEF n
<1>2. Amounts'[n] = match.fill[m] /\ \A i \in DOMAIN trades : Amounts'[i] = Amounts[i]
  BY <1>1 DEF Amounts
<1>3. match.fill[m] \in Nat
  BY DEF BalanceInv, TypeOK, Match
<1>4. /\ IsFiniteSet(S) /\ Vol(S) \in Nat /\ \A i \in S : Amounts[i] \in Nat
  BY TradeSets DEF BalanceInv
<1>5. Sum(Amounts', S) = Vol(S)
  BY <1>2, SumSame DEF Vol
<1>6. Sum(Amounts', S \cup {n}) = Sum(Amounts', S) + Amounts'[n]
  <2>1. n \notin S /\ \A x \in S \cup {n} : Amounts'[x] \in Nat
    BY <1>1, <1>2, <1>3, <1>4
  <2>2. QED
    BY <1>4, <2>1, SumAdd
<1>7. QED
  BY <1>2, <1>3, <1>4, <1>5, <1>6 DEF n

LEMMA PendingInsertTrade ==
  ASSUME BalanceInv, Structure, Structure', PendingInv, NEW m \in Order, InsertTrade(m, TRUE)
  PROVE  PendingInv'
<1> DEFINE n == Len(trades) + 1
<1>1. /\ pc = "insertTrades" /\ pc' = "insertTrades" /\ m \in todo /\ todo' = todo \ {m}
      /\ UNCHANGED <<orders, taker, row, match>>
  BY DEF InsertTrade
<1>2. /\ Live' = Live \cup {n}
      /\ DOMAIN trades' = DOMAIN trades \cup {n} /\ n \notin DOMAIN trades
      /\ \A i \in DOMAIN trades : trades'[i] = trades[i]
      /\ trades'[n].maker = m /\ trades'[n].taker = taker /\ trades'[n].status = "pending"
  BY LiveInsertTrade
<1>3. /\ taker \in Order /\ orders[taker] = NoRow /\ m # taker /\ m \in Makers(match)
      /\ todo \subseteq Makers(match)
  BY <1>1 DEF Structure, NewOrderKnown, AtNewOrder, BalanceInv, LocalsKnown
<1> HIDE DEF n
<1>4. \A o : Of(o)' = IF o \in {m, taker} THEN Of(o) \cup {n} ELSE Of(o)
  BY <1>2 DEF Of
<1>5. \A S \in SUBSET DOMAIN trades : /\ Sum(Amounts', S) = Vol(S) /\ Vol(S) \in Nat
                                      /\ Sum(Amounts', S \cup {n}) = Vol(S) + match.fill[m]
  BY VolAppended DEF n
<1>6. \A o \in Order : match.fill[o] \in Nat
  BY DEF BalanceInv, TypeOK, Match
<1>7. PendingCovers'
  <2> SUFFICES ASSUME NEW o \in Present
               PROVE  orders[o].pending >= Vol(Ours(o))' + Reserved(o)'
    BY <1>1 DEF PendingCovers, Present
  <2>1. /\ o \in Order /\ orders[o].pending \in Int /\ Reserved(o) \in Nat
        /\ Ours(o) \in SUBSET DOMAIN trades /\ Vol(Ours(o)) \in Nat
    BY PresentRows
  <2>2. orders[o].pending >= Vol(Ours(o)) + Reserved(o)
    BY DEF PendingInv, PendingCovers
  <2>3. o # taker
    BY <1>3 DEF Present
  <2>4. n \notin Of(o) /\ n \notin Live
    BY <1>2 DEF Of, Live
  <2>5. Vol(Ours(o))' = Sum(Amounts', Ours(o)')
    BY DEF Vol
  <2>6. CASE o = m
    <3>1. Ours(o)' = Ours(o) \cup {n}
      BY <1>2, <1>4, <2>4, <2>6 DEF Ours
    <3>2. Reserved(o) = match.fill[m] /\ Reserved(o)' = 0
      BY <1>1, <2>6 DEF Reserved, Untraded
    <3>3. Sum(Amounts', Ours(o) \cup {n}) = Vol(Ours(o)) + match.fill[m]
      BY <1>5, <2>1
    <3>4. QED
      BY <1>6, <2>1, <2>2, <2>5, <3>1, <3>2, <3>3
  <2>7. CASE o # m
    <3>1. Ours(o)' = Ours(o)
      BY <1>2, <1>4, <2>3, <2>4, <2>7 DEF Ours
    <3>2. Reserved(o)' = Reserved(o)
      BY <1>1, <2>7 DEF Reserved, Untraded
    <3>3. Sum(Amounts', Ours(o)) = Vol(Ours(o))
      BY <1>5, <2>1
    <3>4. QED
      BY <2>1, <2>2, <2>5, <3>1, <3>2, <3>3
  <2>8. QED
    BY <2>6, <2>7
<1>8. TakerExact'
  <2>1. /\ row.pending = Sum(match.fill, Makers(match))
        /\ Vol(Of(taker)) + Sum(match.fill, todo) = Sum(match.fill, Makers(match))
        /\ \A i \in Of(taker) : trades[i].status = "pending"
    BY <1>1 DEF PendingInv, TakerExact, AtNewOrder
  <2>2. Of(taker) \in SUBSET DOMAIN trades /\ Of(taker)' = Of(taker) \cup {n}
    BY <1>1, <1>4 DEF Of
  <2>3. Vol(Of(taker))' = Vol(Of(taker)) + match.fill[m] /\ Vol(Of(taker)) \in Nat
    BY <1>5, <2>2 DEF Vol
  <2>4. Sum(match.fill, todo) = Sum(match.fill, todo \ {m}) + match.fill[m]
        /\ Sum(match.fill, todo \ {m}) \in Nat
    <3>1. todo \subseteq Order /\ IsFiniteSet(todo) /\ IsFiniteSet(todo \ {m})
      BY OrderAssumption, FS_Subset DEF BalanceInv, TypeOK
    <3>2. QED
      BY <1>1, <1>6, <3>1, SumRemove, UnitsFinite
  <2>5. Vol(Of(taker))' + Sum(match.fill, todo \ {m}) = Sum(match.fill, Makers(match))
    BY <1>6, <2>1, <2>3, <2>4
  <2>6. \A i \in Of(taker)' : trades'[i].status = "pending"
    BY <1>2, <2>1, <2>2
  <2>7. QED
    BY <1>1, <2>1, <2>5, <2>6 DEF TakerExact
<1>9. SettleExact'
  BY <1>1 DEF SettleExact, AtSettle
<1>10. QED
  BY <1>7, <1>8, <1>9 DEF PendingInv

LEMMA PendingInsertTaker ==
  ASSUME BalanceInv, Structure, Structure', NoDust, PendingInv, InsertTaker(TRUE)
  PROVE  PendingInv'
<1>1. /\ AtNewOrder /\ pc' = "idle" /\ orders' = [orders EXCEPT ![taker] = row]
      /\ trades' = trades
      /\ \/ pc = "insertTaker"
         \/ pc = "insertTrades" /\ todo = {}
  BY DEF InsertTaker, Return, UpdateOrder, AtNewOrder
<1>2. Live' = Live /\ TradesKept
  BY LiveInsertTaker
<1>3. taker \in Order /\ row \in Row /\ orders[taker] = NoRow /\ row # NoRow
  BY <1>1, OrderAssumption DEF BalanceInv, TypeOK, LocalsKnown, Structure, NewOrderKnown, AtNewOrder
<1>4. /\ Present' = Present \cup {taker} /\ taker \notin Present /\ orders'[taker] = row
      /\ \A o \in Present : orders'[o] = orders[o]
  BY <1>1, <1>3 DEF Present, BalanceInv, TypeOK
<1>5. \A o : Reserved(o)' = 0 /\ Reserved(o) = 0
  BY <1>1 DEF Reserved, Untraded
<1>6. Of(taker) \in SUBSET DOMAIN trades /\ TypeOK
  BY DEF Of, BalanceInv
<1>7. row.pending >= Vol(Of(taker))
  <2>1. row.pending = Sum(match.fill, Makers(match)) /\ Vol(Of(taker)) \in Nat
    BY <1>1, <1>6, TradeSets DEF PendingInv, TakerExact
  <2>2. CASE pc = "insertTaker"
    <3>1. Of(taker) = {} /\ Makers(match) = {}
      BY <1>1, <2>2 DEF Structure, NewTrades, NoDust, AtNewOrder
    <3>2. QED
      BY <2>1, <3>1, SumEmpty DEF Vol
  <2>3. CASE pc = "insertTrades"
    <3>1. Vol(Of(taker)) + Sum(match.fill, {}) = Sum(match.fill, Makers(match))
      BY <1>1, <2>3 DEF PendingInv, TakerExact
    <3>2. QED
      BY <2>1, <3>1, SumEmpty
  <2>4. QED
    BY <1>1, <2>2, <2>3
<1>8. PendingCovers'
  <2> SUFFICES ASSUME NEW o \in Present'
               PROVE  orders'[o].pending >= Vol(Ours(o))' + Reserved(o)'
    BY DEF PendingCovers
  <2>1. Vol(Ours(o))' \in Nat /\ Vol(Ours(o))' <= Vol(Ours(o))
    BY <1>2, OursShrinks
  <2>2. CASE o = taker
    <3>1. Ours(taker) \in SUBSET Of(taker)
      BY DEF Ours
    <3>2. Vol(Ours(taker)) <= Vol(Of(taker)) /\ Vol(Ours(taker)) \in Nat /\ Vol(Of(taker)) \in Nat
      BY <1>6, <3>1, VolMonotone, TradeSets
    <3>3. QED
      BY <1>3, <1>4, <1>5, <1>7, <2>1, <2>2, <3>2, RowAmounts
  <2>3. CASE o # taker
    <3>1. o \in Present
      BY <1>4, <2>3
    <3>2. orders[o].pending >= Vol(Ours(o)) + Reserved(o)
      BY <3>1 DEF PendingInv, PendingCovers
    <3>3. orders[o].pending \in Int /\ Vol(Ours(o)) \in Nat
      BY <3>1, PresentRows
    <3>4. QED
      BY <1>4, <1>5, <2>1, <3>1, <3>2, <3>3
  <2>4. QED
    BY <2>2, <2>3
<1>9. TakerExact' /\ SettleExact'
  BY <1>1 DEF TakerExact, SettleExact, AtNewOrder, AtSettle
<1>10. QED
  BY <1>8, <1>9 DEF PendingInv

LEMMA PendingCancelOrder ==
  ASSUME BalanceInv, Structure, Structure', PendingInv, NEW o \in Order, HandleCancelOrder(o, TRUE)
  PROVE  PendingInv'
<1>1. /\ pc = "idle" /\ pc' = "idle" /\ orders[o] # NoRow
      /\ orders' = [orders EXCEPT ![o] = Canceled(orders[o])]
  BY DEF HandleCancelOrder, UpdateOrder
<1>2. o \in Present /\ orders[o] \in Row /\ Balanced(orders[o])
  BY <1>1 DEF Present, BalanceInv, TypeOK, AmountsBalanced
<1>3. Canceled(orders[o]) \in Row /\ Canceled(orders[o]).pending = orders[o].pending
  BY <1>2, CanceledBalanced, CanceledFields
<1>4. Live' \subseteq Live /\ TradesKept
  BY LiveCancelOrder
<1>5. \A p : Reserved(p)' = 0
  BY <1>1 DEF Reserved, Untraded
<1>6. PendingCovers'
  BY <1>1, <1>2, <1>3, <1>4, <1>5, PendingWrite DEF PendingInv
<1>7. TakerExact' /\ SettleExact'
  BY <1>1 DEF TakerExact, SettleExact, AtNewOrder, AtSettle
<1>8. QED
  BY <1>6, <1>7 DEF PendingInv

\* A step between two events, or of handleTransactionResult, that writes no row.
LEMMA PendingQuiet ==
  ASSUME BalanceInv, PendingInv, TradesKept, Live' \subseteq Live, orders' = orders,
         pc' \notin {"makers", "insertTx", "insertLog", "insertTrades", "insertTaker"}
  PROVE  PendingCovers' /\ TakerExact'
<1>1. \A o : Reserved(o)' = 0
  BY DEF Reserved, Untraded
<1>2. \A o \in Present : Reserved(o) \in Nat
  BY PresentRows
<1>3. PendingCovers'
  BY <1>1, <1>2, PendingSame DEF PendingInv
<1>4. QED
  BY <1>3 DEF TakerExact, AtNewOrder

LEMMA PendingTransactionResult ==
  ASSUME BalanceInv, Structure, Structure', PendingInv, NEW t \in DOMAIN txs, NEW s \in Outcome,
         NEW ok, HandleTransactionResult(t, s, ok)
  PROVE  PendingInv'
<1>1. pc' = "confirmLog" /\ orders' = orders
  BY DEF HandleTransactionResult
<1>2. QED
  BY <1>1, LiveTransactionResult, PendingQuiet DEF PendingInv, SettleExact, AtSettle

LEMMA PendingUpdateLaunchLogsStatus ==
  ASSUME BalanceInv, Structure, Structure', LiveInv, PendingInv, UpdateLaunchLogsStatus(TRUE)
  PROVE  PendingInv'
<1>1. pc' = "readTrades" /\ orders' = orders
  BY DEF UpdateLaunchLogsStatus
<1>2. QED
  BY <1>1, LiveUpdateLaunchLogsStatus, PendingQuiet DEF PendingInv, SettleExact, AtSettle

LEMMA PendingReadTrades ==
  ASSUME BalanceInv, Structure, Structure', LiveInv, PendingInv, ReadTrades
  PROVE  PendingInv'
<1>1. /\ Live' \subseteq Live /\ TradesKept /\ TradesByHash(tx) \subseteq Live
      /\ orders' = orders /\ pc' \in {"idle", "settleMaker"}
  BY LiveReadTrades, ReadTradesCases DEF db, Return
<1>2. PendingCovers' /\ TakerExact'
  BY <1>1, PendingQuiet
<1>3. SettleExact'
  <2>1. CASE pc' = "idle"
    BY <2>1 DEF SettleExact, AtSettle
  <2>2. CASE pc' = "settleMaker"
    <3>1. PICK o \in Order :
            /\ orders[o] # NoRow /\ TradesByHash(tx) # {}
            /\ \A i \in TradesByHash(tx) : i \in DOMAIN trades /\ trades[i].taker = o
            /\ taker' = o /\ row' = orders[o]
      BY <2>2, ReadTradesCases DEF Return
    <3>2. o \in Present
      BY <3>1 DEF Present
    <3>3. /\ orders[o].pending \in Int /\ Reserved(o) \in Nat /\ Vol(Ours(o)) \in Nat
          /\ Ours(o) \in SUBSET DOMAIN trades
      BY <3>2, PresentRows
    <3>4. orders[o].pending >= Vol(Ours(o))
      BY <3>2, <3>3 DEF PendingInv, PendingCovers
    <3>5. PICK i \in TradesByHash(tx) : TRUE
      BY <3>1
    <3>6. i \in Ours(o) /\ i \in DOMAIN trades
      BY <1>1, <3>1, <3>5 DEF Ours, Of
    <3>7. trades[i].amount > 0 /\ trades[i].amount \in Nat
      BY <3>6, TradeFields DEF Structure, TradesKnown, BalanceInv
    <3>8. Vol(Ours(o)) > 0
      <4>1. Vol(Ours(o)) = Vol(Ours(o) \ {i}) + trades[i].amount
        BY <3>3, <3>6, VolRemove DEF BalanceInv
      <4>2. Vol(Ours(o) \ {i}) \in Nat
        BY <3>3, TradeSets DEF BalanceInv
      <4>3. QED
        BY <3>7, <4>1, <4>2
    <3>9. Vol(Ours(o))' \in Nat /\ Vol(Ours(o))' <= Vol(Ours(o))
      BY <1>1, OursShrinks
    <3>10. Vol(Ours(taker))' = Vol(Ours(o))'
      BY <3>1 DEF Vol, Ours, Of
    <3>11. QED
      BY <1>1, <3>1, <3>3, <3>4, <3>8, <3>9, <3>10 DEF SettleExact
  <2>3. QED
    BY <1>1, <2>1, <2>2
<1>4. QED
  BY <1>2, <1>3 DEF PendingInv

\* A row and the trade being settled: what SettleMaker has to go on.
LEMMA SettledOrders ==
  ASSUME BalanceInv, Structure, Structure', LiveInv, PendingInv, NEW i \in due, NEW ok,
         SettleMaker(i, ok)
  PROVE  /\ i \in Ours(trades[i].maker) /\ i \in Ours(taker)
         /\ trades[i].maker \in Present /\ trades[i].maker # taker /\ taker \in Present
         /\ orders[trades[i].maker].pending >= trades[i].amount
         /\ trades[i].amount \in Nat /\ trades[i].amount > 0 /\ trades[i].status = "pending"
<1> DEFINE m == trades[i].maker
           n == trades[i].amount
<1>1. i \in Live /\ AtSettle
  BY LiveSettleMaker DEF SettleMaker, AtSettle
<1>2. /\ i \in DOMAIN trades /\ m \in Order /\ m # taker /\ orders[m] # NoRow
      /\ n \in Nat /\ n > 0 /\ trades[i].taker = taker
  BY <1>1, SettledTrade
<1>3. i \in Ours(m) /\ i \in Ours(taker) /\ trades[i].status = "pending"
  BY <1>1, <1>2 DEF Ours, Of, LiveInv, LiveOnes
<1>4. m \in Present /\ taker \in Present
  BY <1>1, <1>2 DEF Present, Structure, SettleKnown
<1>5. /\ orders[m].pending \in Int /\ Reserved(m) \in Nat
      /\ Ours(m) \in SUBSET DOMAIN trades /\ Vol(Ours(m)) \in Nat
  BY <1>4, PresentRows
<1>6. orders[m].pending >= Vol(Ours(m))
  BY <1>4, <1>5 DEF PendingInv, PendingCovers
<1>7. Vol(Ours(m)) = Vol(Ours(m) \ {i}) + n /\ Vol(Ours(m) \ {i}) \in Nat
  <2>1. Ours(m) \ {i} \in SUBSET DOMAIN trades
    BY <1>5
  <2>2. QED
    BY <1>3, <1>5, <2>1, VolRemove, TradeSets DEF BalanceInv
<1>8. orders[m].pending >= n
  BY <1>2, <1>5, <1>6, <1>7
<1>9. QED
  BY <1>2, <1>3, <1>4, <1>8

LEMMA PendingSettleMaker ==
  ASSUME BalanceInv, Structure, Structure', LiveInv, PendingInv, NEW i \in due,
         SettleMaker(i, TRUE)
  PROVE  PendingInv'
<1> DEFINE m == trades[i].maker
           n == trades[i].amount
           u == AutoSetStatusByAmounts(Settled(orders[m], n, outcome))
<1>1. /\ pc = "settleMaker" /\ pc' = "settleTrade" /\ trades' = trades /\ taker' = taker
  BY DEF SettleMaker
<1>2. /\ i \in Ours(m) /\ i \in Ours(taker) /\ m \in Present /\ m # taker /\ taker \in Present
      /\ n \in Nat
  BY SettledOrders
<1>3. /\ u \in Row /\ u.pending = orders[m].pending - n
      /\ row'.pending = row.pending - n
      /\ UpdateOrder(m, u, TRUE)
  BY SettleMakerWrites
<1> HIDE DEF u
<1>4. orders' = [orders EXCEPT ![m] = u]
  BY <1>3 DEF UpdateOrder
<1>5. Live' = Live \ {i}
  BY LiveSettleMaker
<1>6. \A o : Of(o)' = Of(o) /\ Reserved(o)' = 0
  BY <1>1 DEF Of, Reserved, Untraded
<1>7. \A o \in Present : /\ o \in Order /\ orders[o].pending \in Int /\ Reserved(o) \in Nat
                         /\ Ours(o) \in SUBSET DOMAIN trades /\ Vol(Ours(o)) \in Nat
                         /\ orders[o].pending >= Vol(Ours(o)) + Reserved(o)
  BY PresentRows DEF PendingInv, PendingCovers
<1>8. \A o \in Present : Vol(Ours(o))' = Vol(Ours(o) \ {i})
  <2>1. \A o : Ours(o)' = Ours(o) \ {i}
    BY <1>5, <1>6 DEF Ours
  <2>2. Amounts' = Amounts
    BY <1>1 DEF Amounts
  <2>3. QED
    BY <2>1, <2>2 DEF Vol
<1>9. \A o \in Present : i \in Ours(o) => Vol(Ours(o)) = Vol(Ours(o) \ {i}) + n
  BY <1>7, VolRemove DEF BalanceInv
<1>10. \A o \in Present : i \notin Ours(o) => Ours(o) \ {i} = Ours(o)
  OBVIOUS
<1>11. \A o \in Present : Vol(Ours(o) \ {i}) \in Nat
  <2>1. \A o \in Present : Ours(o) \ {i} \in SUBSET DOMAIN trades
    BY <1>7
  <2>2. QED
    BY <2>1, TradeSets DEF BalanceInv
<1>12. Present' = Present /\ orders'[m] = u /\ \A o \in Present : o # m => orders'[o] = orders[o]
  <2>1. u # NoRow /\ orders \in [Order -> Row \cup {NoRow}] /\ m \in Order
    BY <1>2, <1>3, <1>7, OrderAssumption DEF BalanceInv, TypeOK
  <2>2. orders[m] # NoRow
    BY <1>2 DEF Present
  <2> HIDE DEF m
  <2>3. QED
    BY <1>4, <2>1, <2>2 DEF Present
<1> HIDE DEF m, n
<1>13. PendingCovers'
  <2> SUFFICES ASSUME NEW o \in Present
               PROVE  orders'[o].pending >= Vol(Ours(o))' + Reserved(o)'
    BY <1>12 DEF PendingCovers
  <2> DEFINE a == Vol(Ours(o))
             b == Vol(Ours(o) \ {i})
  <2>1. /\ orders[o].pending \in Int /\ Reserved(o) \in Nat /\ a \in Nat /\ b \in Nat
        /\ orders[o].pending >= a + Reserved(o)
    BY <1>7, <1>11
  <2>2. i \in Ours(o) => a = b + n
    BY <1>9
  <2>3. i \notin Ours(o) => a = b
    BY <1>10
  <2>4. Vol(Ours(o))' = b /\ Reserved(o)' = 0
    BY <1>6, <1>8
  <2>5. CASE o = m
    <3>1. orders'[o].pending = orders[o].pending - n /\ i \in Ours(o)
      BY <1>2, <1>3, <1>12, <2>5
    <3> HIDE DEF a, b
    <3>2. QED
      BY <1>2, <2>1, <2>2, <2>4, <3>1
  <2>6. CASE o # m
    <3>1. orders'[o].pending = orders[o].pending
      BY <1>12, <2>6
    <3> HIDE DEF a, b
    <3>2. QED
      BY <1>2, <2>1, <2>2, <2>3, <2>4, <3>1
  <2>7. QED
    BY <2>5, <2>6
<1>14. TakerExact'
  BY <1>1 DEF TakerExact, AtNewOrder
<1>15. SettleExact'
  <2>1. orders[taker].pending > 0 /\ row.pending >= Vol(Ours(taker))
    BY <1>1 DEF PendingInv, SettleExact, AtSettle
  <2>2. orders'[taker] = orders[taker]
    BY <1>2, <1>12
  <2>3. Vol(Ours(taker))' = Vol(Ours(taker) \ {i})
    <3>1. Ours(taker)' = Ours(taker) \ {i}
      BY <1>1, <1>5 DEF Ours, Of
    <3>2. Amounts' = Amounts
      BY <1>1 DEF Amounts
    <3>3. QED
      BY <3>1, <3>2 DEF Vol
  <2>4. row.pending \in Int
    BY RowAmounts DEF BalanceInv, TypeOK
  <2>5. row'.pending >= Vol(Ours(taker) \ {i})
    BY <1>2, <1>3, <1>9, <1>11, <2>1, <2>4
  <2>6. QED
    BY <1>1, <2>1, <2>2, <2>3, <2>5 DEF SettleExact
<1>16. QED
  BY <1>13, <1>14, <1>15 DEF PendingInv

LEMMA PendingSettleTrade ==
  ASSUME BalanceInv, Structure, Structure', LiveInv, PendingInv, NEW i \in due,
         SettleTrade(i, TRUE)
  PROVE  PendingInv'
<1>1. /\ pc = "settleTrade" /\ pc' = "settleMaker" /\ UNCHANGED <<orders, taker, row>>
  BY DEF SettleTrade
<1>2. Live' = Live /\ TradesKept
  BY LiveSettleTrade
<1>3. PendingCovers' /\ TakerExact'
  BY <1>1, <1>2, PendingQuiet
<1>4. orders[taker].pending > 0 /\ row.pending >= Vol(Ours(taker))
  BY <1>1 DEF PendingInv, SettleExact, AtSettle
<1>5. Vol(Ours(taker))' = Vol(Ours(taker))
  <2>1. Ours(taker)' = Ours(taker) /\ Ours(taker) \in SUBSET DOMAIN trades
    BY <1>1, <1>2 DEF Ours, Of, TradesKept
  <2>2. Sum(Amounts', Ours(taker)) = Vol(Ours(taker))
    BY <1>2, <2>1, VolKept
  <2>3. QED
    BY <2>1, <2>2 DEF Vol
<1>6. SettleExact'
  BY <1>1, <1>4, <1>5 DEF SettleExact
<1>7. QED
  BY <1>3, <1>6 DEF PendingInv

LEMMA PendingSettleTaker ==
  ASSUME BalanceInv, Structure, Structure', LiveInv, PendingInv, SettleTaker(TRUE)
  PROVE  PendingInv'
<1> DEFINE u == AutoSetStatusByAmounts(row)
<1>1. /\ pc = "settleMaker" /\ pc' = "idle" /\ trades' = trades
      /\ orders' = [orders EXCEPT ![taker] = u] /\ AtSettle
  BY DEF SettleTaker, Return, UpdateOrder, AtSettle
<1>2. /\ u \in Row /\ u.pending = row.pending
  BY AutoSetStatusBalanced, AutoSetStatusFields DEF BalanceInv, TypeOK, RowAtWork
<1>3. taker \in Present
  BY <1>1 DEF Structure, SettleKnown, Present
<1>4. Live' = Live /\ TradesKept
  BY LiveSettleTaker
<1>5. \A o : Reserved(o)' = 0
  BY <1>1 DEF Reserved, Untraded
<1> HIDE DEF u
<1>6. Present' = Present /\ orders'[taker] = u
      /\ \A o \in Present : o # taker => orders'[o] = orders[o]
  <2>1. u # NoRow /\ orders \in [Order -> Row \cup {NoRow}] /\ taker \in Order
    BY <1>2, <1>3, OrderAssumption DEF BalanceInv, TypeOK, Present
  <2>2. orders[taker] # NoRow
    BY <1>3 DEF Present
  <2>3. QED
    BY <1>1, <2>1, <2>2 DEF Present
<1>7. row.pending >= Vol(Ours(taker)) /\ row.pending \in Int
  BY <1>1, RowAmounts DEF PendingInv, SettleExact, BalanceInv, TypeOK
<1>8. PendingCovers'
  <2> SUFFICES ASSUME NEW o \in Present
               PROVE  orders'[o].pending >= Vol(Ours(o))' + Reserved(o)'
    BY <1>6 DEF PendingCovers
  <2>1. /\ Vol(Ours(o))' \in Nat /\ Vol(Ours(o))' <= Vol(Ours(o))
    BY <1>4, OursShrinks
  <2>2. /\ orders[o].pending \in Int /\ Reserved(o) \in Nat /\ Vol(Ours(o)) \in Nat
        /\ orders[o].pending >= Vol(Ours(o)) + Reserved(o)
    BY PresentRows DEF PendingInv, PendingCovers
  <2>3. CASE o = taker
    <3>1. orders'[o].pending = row.pending /\ row.pending >= Vol(Ours(o))
      BY <1>2, <1>6, <1>7, <2>3
    <3>2. QED
      BY <1>5, <1>7, <2>1, <2>2, <3>1
  <2>4. CASE o # taker
    BY <1>5, <1>6, <2>1, <2>2, <2>4
  <2>5. QED
    BY <2>3, <2>4
<1>9. TakerExact' /\ SettleExact'
  BY <1>1 DEF TakerExact, SettleExact, AtNewOrder, AtSettle
<1>10. QED
  BY <1>8, <1>9 DEF PendingInv

LEMMA PendingLauncher ==
  ASSUME BalanceInv, Structure, PendingInv, Launcher
  PROVE  PendingInv'
<1>1. UNCHANGED <<orders, pc, taker, row, match, todo>>
  BY LauncherWrites DEF BalanceInv, locals
<1>2. Live' = Live /\ TradesKept /\ \A j \in DOMAIN trades : trades'[j].status = trades[j].status
  BY LiveLauncher, LaunchKeeps DEF BalanceInv
<1>3. \A o : /\ Of(o)' = Of(o) /\ Ours(o)' = Ours(o) /\ Ours(o) \in SUBSET DOMAIN trades
             /\ Of(o) \in SUBSET DOMAIN trades /\ Reserved(o)' = Reserved(o)
  BY <1>1, <1>2 DEF Of, Ours, TradesKept, Reserved, Untraded, Makers
<1>4. \A S \in SUBSET DOMAIN trades : Sum(Amounts', S) = Vol(S)
  BY <1>2, VolKept
<1>5. \A o : Vol(Of(o))' = Vol(Of(o)) /\ Vol(Ours(o))' = Vol(Ours(o))
  BY <1>3, <1>4 DEF Vol
<1>6. Of(taker)' = Of(taker) /\ Vol(Of(taker))' = Vol(Of(taker)) /\ Vol(Ours(taker))' = Vol(Ours(taker))
  <2>1. Of(taker)' = Of(taker) /\ Ours(taker)' = Ours(taker)
    BY <1>1, <1>2 DEF Of, Ours, TradesKept
  <2>2. QED
    BY <1>3, <1>4, <2>1 DEF Vol
<1>7. PendingCovers'
  BY <1>1, <1>3, <1>5 DEF PendingInv, PendingCovers, Present
<1>8. TakerExact'
  <2>1. \A i \in Of(taker)' : trades'[i].status = trades[i].status
    BY <1>2, <1>3, <1>6
  <2>2. QED
    BY <1>1, <1>6, <2>1 DEF PendingInv, TakerExact, AtNewOrder, Makers
<1>9. SettleExact'
  BY <1>1, <1>6 DEF PendingInv, SettleExact, AtSettle
<1>10. QED
  BY <1>7, <1>8, <1>9 DEF PendingInv

LEMMA PendingHandlerStep ==
  ASSUME BalanceInv, Structure, Structure', BookFits, StatusAgrees, NoDust, LiveInv, PendingInv,
         dbErrors' = 0, HandlerStep
  PROVE  PendingInv'
<1>0. ASSUME NEW ok \in BOOLEAN, Db(ok)
      PROVE  ok = TRUE
  BY <1>0, DbSaved DEF BalanceInv
<1>1. ASSUME NEW m \in Order, MakerMissing(m)
      PROVE  FALSE
  BY <1>1, BookMakerMissing
<1>2. CASE FinishTaker
  BY <1>2, PendingFinishTaker
<1>3. CASE ReadTrades
  BY <1>3, PendingReadTrades
<1>4. ASSUME NEW ok \in BOOLEAN, NEW m \in Order,
             UpdateMaker(m, ok) \/ SaveMakerAgain(m, ok) \/ InsertTrade(m, ok)
      PROVE  PendingInv'
  <2>1. CASE InsertTrade(m, ok)
    <3>1. ok = TRUE
      BY <1>0, <2>1 DEF InsertTrade
    <3>2. QED
      BY <2>1, <3>1, PendingInsertTrade
  <2>2. QED
    BY <1>4, <2>1, PendingUpdateMaker, BookSaveMakerAgain
<1>5. ASSUME NEW ok \in BOOLEAN,
             \/ InsertTransaction(ok)
             \/ InsertLaunchLog(ok)
             \/ InsertTaker(ok)
             \/ UpdateLaunchLogsStatus(ok)
             \/ SettleTaker(ok)
      PROVE  PendingInv'
  <2>1. ok = TRUE
    BY <1>0, <1>5 DEF InsertTransaction, InsertLaunchLog, InsertTaker, UpdateLaunchLogsStatus,
                      SettleTaker
  <2>2. QED
    BY <1>5, <2>1, PendingInsertTransaction, PendingInsertLaunchLog, PendingInsertTaker,
       PendingUpdateLaunchLogsStatus, PendingSettleTaker
<1>6. ASSUME NEW ok \in BOOLEAN, NEW i \in due,
             SettleMaker(i, ok) \/ SettleTrade(i, ok)
      PROVE  PendingInv'
  <2>1. ok = TRUE
    BY <1>0, <1>6 DEF SettleMaker, SettleTrade
  <2>2. QED
    BY <1>6, <2>1, PendingSettleMaker, PendingSettleTrade
<1>7. QED
  BY <1>1, <1>2, <1>3, <1>4, <1>5, <1>6 DEF HandlerStep

LEMMA PendingNext ==
  ASSUME BalanceInv, Structure, Structure', BookFits, StatusAgrees, NoDust, LiveInv, PendingInv,
         dbErrors' = 0, [Next]_vars
  PROVE  PendingInv'
<1>1. ASSUME NEW o \in Order, HandleNewOrder(o)
      PROVE  PendingInv'
  BY <1>1, PendingNewOrder
<1>2. ASSUME NEW o \in Order, NEW ok \in BOOLEAN, HandleCancelOrder(o, ok)
      PROVE  PendingInv'
  <2>1. ok = TRUE
    BY <1>2, DbSaved DEF HandleCancelOrder, BalanceInv
  <2>2. QED
    BY <1>2, <2>1, PendingCancelOrder
<1>3. ASSUME Launcher \/ \E t \in DOMAIN txs : Confirm(t)
      PROVE  PendingInv'
  BY <1>3, PendingTransactionResult, PendingLauncher DEF Confirm
<1>4. CASE HandlerStep
  BY <1>4, PendingHandlerStep
<1>5. CASE Crash
  <2>1. orders' = orders /\ pc' = "down"
    BY <1>5 DEF Crash, db
  <2>2. QED
    BY <1>5, <2>1, LiveCrash, PendingQuiet DEF PendingInv, SettleExact, AtSettle
<1>6. CASE NewMarketHandler
  <2>1. orders' = orders /\ pc' = "idle"
    BY <1>6 DEF NewMarketHandler, db
  <2>2. QED
    BY <1>6, <2>1, LiveNewMarketHandler, PendingQuiet DEF PendingInv, SettleExact, AtSettle
<1>7. CASE UNCHANGED vars
  BY <1>7 DEF vars, db, locals, PendingInv, PendingCovers, TakerExact, SettleExact, Present, Vol,
              Amounts, Ours, Of, Live, Settling, Newest, Reserved, Untraded, Makers, AtNewOrder,
              AtSettle
<1>8. QED
  BY <1>1, <1>2, <1>3, <1>4, <1>5, <1>6, <1>7 DEF Next, Launcher

-----------------------------------------------------------------------------
(* CountInv: the confirmed amount of a row is covered by trades that were  *)
(* counted once each; and while nothing has crashed, pending and confirmed *)
(* amounts are exactly those of the trades.                                *)

\* The trades of o that may have been confirmed.
Counted(o) ==
  {i \in Of(o) : /\ i \notin Live
                 /\ trades[i].status # "failed"
                 /\ ~(i \in Settling /\ outcome = "failed")}

\* No more is confirmed than the trades that may have been.
ConfirmedCovered ==
  /\ \A o \in Present : orders[o].confirmed <= Vol(Counted(o))
  /\ AtSettle => row.confirmed <= Vol(Counted(taker))

\* The trades of o that no row has counted, and those counted as confirmed.
Awaited(o) == {i \in Of(o) : trades[i].status = "pending" /\ i \notin Settling}

Won(o) ==
  {i \in Of(o) : \/ trades[i].status = "successful"
                 \/ i \in Settling /\ outcome = "successful"}

\* Row r of o has in it what the trades of o say.
Evenly(o, r) ==
  r.pending = Vol(Awaited(o)) + Reserved(o) /\ r.confirmed = Vol(Won(o))

\* The taker's row is brought up to date last, from the one in memory.
Matching ==
  crashes = 0 =>
    /\ pc # "down"
    /\ \A o \in Present : ~(AtSettle /\ o = taker) => Evenly(o, orders[o])
    /\ AtSettle => Evenly(taker, row)

\* The trade the rows have counted and the trades table has not.
Unmarked == \A i \in Settling : trades[i].status = "pending"

CountInv == ConfirmedCovered /\ Matching /\ Unmarked

-----------------------------------------------------------------------------
LEMMA CountSets ==
  ASSUME BalanceInv, NEW o
  PROVE  /\ Counted(o) \in SUBSET DOMAIN trades /\ Vol(Counted(o)) \in Nat
         /\ Awaited(o) \in SUBSET DOMAIN trades /\ Vol(Awaited(o)) \in Nat
         /\ Won(o) \in SUBSET DOMAIN trades /\ Vol(Won(o)) \in Nat
<1>1. /\ Counted(o) \in SUBSET DOMAIN trades
      /\ Awaited(o) \in SUBSET DOMAIN trades
      /\ Won(o) \in SUBSET DOMAIN trades
  BY DEF Counted, Awaited, Won, Of
<1>2. QED
  BY <1>1, TradeSets DEF BalanceInv

\* What was counted stays counted.
LEMMA CountedGrows ==
  ASSUME BalanceInv, TradesKept, NEW o, Counted(o) \subseteq Counted(o)'
  PROVE  Vol(Counted(o))' \in Nat /\ Vol(Counted(o)) <= Vol(Counted(o))'
<1>1. Counted(o)' \in SUBSET DOMAIN trades
  BY DEF Counted, Of, TradesKept
<1>2. Vol(Counted(o))' = Vol(Counted(o)')
  <2>1. Sum(Amounts', Counted(o)') = Vol(Counted(o)')
    BY <1>1, VolKept
  <2>2. QED
    BY <2>1 DEF Vol
<1>3. Vol(Counted(o)) <= Vol(Counted(o)')
  BY <1>1, VolMonotone DEF BalanceInv
<1>4. QED
  BY <1>1, <1>2, <1>3, TradeSets DEF BalanceInv

LEMMA SameStatusesGrow ==
  ASSUME TradesKept, Live' \subseteq Live, Settling' = {},
         \A i \in DOMAIN trades : trades'[i].status = trades[i].status, NEW o
  PROVE  Counted(o) \subseteq Counted(o)'
  BY DEF Counted, Of, TradesKept

LEMMA SameStatusesEven ==
  ASSUME BalanceInv, TradesKept, Settling = {}, Settling' = {},
         \A i \in DOMAIN trades : trades'[i].status = trades[i].status, NEW o
  PROVE  Vol(Awaited(o))' = Vol(Awaited(o)) /\ Vol(Won(o))' = Vol(Won(o))
<1>1. Awaited(o)' = Awaited(o) /\ Won(o)' = Won(o)
  BY DEF Awaited, Won, Of, TradesKept
<1>2. Sum(Amounts', Awaited(o)) = Vol(Awaited(o)) /\ Sum(Amounts', Won(o)) = Vol(Won(o))
  BY CountSets, VolKept
<1>3. QED
  BY <1>1, <1>2 DEF Vol

LEMMA CountKept ==
  ASSUME BalanceInv, CountInv, TradesKept, Live' \subseteq Live, Settling = {}, Settling' = {},
         \A i \in DOMAIN trades : trades'[i].status = trades[i].status,
         ~AtSettle, ~AtSettle', Present' = Present, pc' # "down", crashes' = crashes,
         \A o \in Present : /\ orders'[o].confirmed = orders[o].confirmed
                            /\ orders'[o].pending \in Int /\ Reserved(o)' \in Nat
                            /\ crashes = 0 =>
                                 orders'[o].pending - Reserved(o)' = orders[o].pending - Reserved(o)
  PROVE  CountInv'
<1>1. \A o : Vol(Counted(o))' \in Nat /\ Vol(Counted(o)) <= Vol(Counted(o))'
  BY SameStatusesGrow, CountedGrows
<1>2. ConfirmedCovered'
  <2> SUFFICES ASSUME NEW o \in Present
               PROVE  orders'[o].confirmed <= Vol(Counted(o))'
    BY DEF ConfirmedCovered
  <2>1. orders[o].confirmed <= Vol(Counted(o)) /\ orders[o].confirmed \in Int
    BY PresentRows, RowAmounts DEF CountInv, ConfirmedCovered
  <2>2. QED
    BY <1>1, <2>1, CountSets
<1>3. Matching'
  <2> SUFFICES ASSUME crashes = 0, NEW o \in Present
               PROVE  Evenly(o, orders[o])'
    BY DEF Matching
  <2>1. orders[o].pending = Vol(Awaited(o)) + Reserved(o) /\ orders[o].confirmed = Vol(Won(o))
    BY DEF CountInv, Matching, Evenly
  <2>2. Vol(Awaited(o))' = Vol(Awaited(o)) /\ Vol(Won(o))' = Vol(Won(o))
    BY SameStatusesEven
  <2>3. orders[o].pending \in Int /\ Reserved(o) \in Nat /\ Vol(Awaited(o)) \in Nat
    BY PresentRows, CountSets
  <2>4. orders'[o].pending = Vol(Awaited(o))' + Reserved(o)'
    BY <2>1, <2>2, <2>3
  <2>5. QED
    BY <2>1, <2>2, <2>4 DEF Evenly
<1>4. QED
  BY <1>2, <1>3 DEF CountInv, Unmarked

\* A step outside the settling loop that writes no row.
LEMMA CountSame ==
  ASSUME BalanceInv, CountInv, TradesKept, Live' \subseteq Live, Settling = {}, Settling' = {},
         \A i \in DOMAIN trades : trades'[i].status = trades[i].status,
         ~AtSettle, ~AtSettle', orders' = orders, pc' # "down", crashes' = crashes,
         \A o \in Present : Reserved(o)' = Reserved(o)
  PROVE  CountInv'
<1>1. Present' = Present
  BY DEF Present
<1>2. \A o \in Present : orders[o].pending \in Int /\ Reserved(o) \in Nat
  BY PresentRows
<1>3. QED
  BY <1>1, <1>2, CountKept

LEMMA CountInit == Init => CountInv
  BY DEF Init, CountInv, ConfirmedCovered, Matching, Unmarked, Settling, Present, AtSettle

LEMMA CountNewOrder ==
  ASSUME BalanceInv, Structure, Structure', CountInv, NEW o \in Order, HandleNewOrder(o)
  PROVE  CountInv'
<1>1. /\ pc = "idle" /\ pc' \in {"insertTaker", "makers"} /\ orders' = orders /\ trades' = trades
      /\ (pc' = "makers" => todo' = Makers(match')) /\ crashes' = crashes
  BY DEF HandleNewOrder, db, faults
<1>2. Live' \subseteq Live /\ Settling = {} /\ Settling' = {} /\ TradesKept
  BY LiveNewOrder
<1>3. \A p : Reserved(p)' = 0 /\ Reserved(p) = 0
  BY <1>1 DEF Reserved, Untraded
<1>4. QED
  BY <1>1, <1>2, <1>3, CountSame DEF AtSettle

LEMMA CountUpdateMaker ==
  ASSUME BalanceInv, Structure, Structure', BookFits, StatusAgrees, NoDust, CountInv,
         dbErrors' = 0, NEW m \in Order, NEW ok \in BOOLEAN, UpdateMaker(m, ok)
  PROVE  CountInv'
<1> DEFINE u == MakerAfter(m)
           n == match.fill[m]
<1>1. /\ pc = "makers" /\ pc' = "makers" /\ m \in todo /\ orders[m] # NoRow
      /\ todo' = todo \ {m} /\ UNCHANGED <<trades, taker, match>> /\ crashes' = crashes
  BY DEF UpdateMaker, Db
<1>2. /\ orders' = [orders EXCEPT ![m] = u] /\ u.pending = orders[m].pending + n
      /\ u \in Row /\ n \in Nat /\ u.confirmed = orders[m].confirmed
  BY <1>1, StatusUpdateMaker, MakerAfterFields
<1>3. Live' \subseteq Live /\ Settling = {} /\ Settling' = {} /\ TradesKept
  BY LiveUpdateMaker
<1>4. m \in Makers(match) /\ m \in Present
  BY <1>1 DEF Structure, NewOrderKnown, AtNewOrder, Present
<1> HIDE DEF u
<1>5. \A o \in Present : o \in Order /\ orders[o].pending \in Int /\ Reserved(o) \in Nat
  BY PresentRows
<1>6. Reserved(m) = 0 /\ Reserved(m)' = n
  BY <1>1, <1>4 DEF Reserved, Untraded, Makers
<1>7. \A o \in Present : o # m => Reserved(o)' = Reserved(o)
  BY <1>1 DEF Reserved, Untraded, Makers
<1>8. Present' = Present /\ orders'[m] = u /\ \A o \in Present : o # m => orders'[o] = orders[o]
  <2>1. u # NoRow /\ orders \in [Order -> Row \cup {NoRow}]
    BY <1>2, OrderAssumption DEF BalanceInv, TypeOK
  <2>2. QED
    BY <1>1, <1>2, <2>1 DEF Present
<1> HIDE DEF n
<1>9. ASSUME NEW o \in Present
      PROVE  /\ orders'[o].confirmed = orders[o].confirmed
             /\ orders'[o].pending \in Int /\ Reserved(o)' \in Nat
             /\ orders'[o].pending - Reserved(o)' = orders[o].pending - Reserved(o)
  <2>1. CASE o = m
    BY <1>2, <1>5, <1>6, <1>8, <2>1
  <2>2. CASE o # m
    BY <1>5, <1>7, <1>8, <2>2
  <2>3. QED
    BY <2>1, <2>2
<1>10. ~AtSettle /\ ~AtSettle' /\ pc' # "down"
  BY <1>1 DEF AtSettle
<1>11. QED
  BY <1>1, <1>3, <1>8, <1>9, <1>10, CountKept

LEMMA CountFinishTaker ==
  ASSUME BalanceInv, Structure, Structure', NoDust, CountInv, FinishTaker
  PROVE  CountInv'
<1>1. /\ pc = "makers" /\ todo = {} /\ pc' \in {"insertTaker", "insertTx"}
      /\ UNCHANGED <<orders, trades, taker, match, todo>> /\ crashes' = crashes
  BY DEF FinishTaker, db, faults
<1>2. Live' \subseteq Live /\ Settling = {} /\ Settling' = {} /\ TradesKept
  BY LiveFinishTaker
<1>3. pc' = "insertTaker" => Makers(match) = {}
  BY <1>1 DEF FinishTaker, NoDust, AtNewOrder
<1>4. \A o : Reserved(o)' = Reserved(o)
  BY <1>1, <1>3 DEF Reserved, Untraded, Makers
<1>5. QED
  BY <1>1, <1>2, <1>4, CountSame DEF AtSettle

LEMMA CountInsertTransaction ==
  ASSUME BalanceInv, Structure, Structure', CountInv, InsertTransaction(TRUE)
  PROVE  CountInv'
<1>1. /\ pc = "insertTx" /\ pc' = "insertLog" /\ UNCHANGED <<orders, trades, match>>
      /\ crashes' = crashes
  BY DEF InsertTransaction, Db
<1>2. Live' \subseteq Live /\ Settling = {} /\ Settling' = {} /\ TradesKept
  BY LiveInsertTransaction
<1>3. \A o : Reserved(o)' = Reserved(o)
  BY <1>1 DEF Reserved, Untraded, Makers
<1>4. QED
  BY <1>1, <1>2, <1>3, CountSame DEF AtSettle

LEMMA CountInsertLaunchLog ==
  ASSUME BalanceInv, Structure, Structure', CountInv, InsertLaunchLog(TRUE)
  PROVE  CountInv'
<1>1. /\ pc = "insertLog" /\ pc' = "insertTrades" /\ UNCHANGED <<orders, trades, match>>
      /\ todo' = Makers(match) /\ crashes' = crashes
  BY DEF InsertLaunchLog, Db
<1>2. Live' \subseteq Live /\ Settling = {} /\ Settling' = {} /\ TradesKept
  BY LiveInsertLaunchLog
<1>3. \A o : Reserved(o)' = Reserved(o)
  BY <1>1 DEF Reserved, Untraded, Makers
<1>4. QED
  BY <1>1, <1>2, <1>3, CountSame DEF AtSettle

LEMMA CountTransactionResult ==
  ASSUME BalanceInv, Structure, Structure', CountInv, NEW t \in DOMAIN txs, NEW s \in Outcome,
         NEW ok, HandleTransactionResult(t, s, ok)
  PROVE  CountInv'
<1>1. /\ pc = "idle" /\ pc' = "confirmLog" /\ UNCHANGED <<orders, trades>> /\ crashes' = crashes
  BY DEF HandleTransactionResult
<1>2. Live' \subseteq Live /\ Settling = {} /\ Settling' = {} /\ TradesKept
  BY LiveTransactionResult
<1>3. \A o : Reserved(o)' = Reserved(o)
  BY <1>1 DEF Reserved, Untraded
<1>4. QED
  BY <1>1, <1>2, <1>3, CountSame DEF AtSettle

LEMMA CountUpdateLaunchLogsStatus ==
  ASSUME BalanceInv, Structure, Structure', LiveInv, CountInv, UpdateLaunchLogsStatus(TRUE)
  PROVE  CountInv'
<1>1. /\ pc = "confirmLog" /\ pc' = "readTrades" /\ UNCHANGED <<orders, trades>>
      /\ crashes' = crashes
  BY DEF UpdateLaunchLogsStatus, Db
<1>2. Live' \subseteq Live /\ Settling = {} /\ Settling' = {} /\ TradesKept
  BY LiveUpdateLaunchLogsStatus
<1>3. \A o : Reserved(o)' = Reserved(o)
  BY <1>1 DEF Reserved, Untraded
<1>4. QED
  BY <1>1, <1>2, <1>3, CountSame DEF AtSettle

LEMMA CountCancelOrder ==
  ASSUME BalanceInv, Structure, Structure', CountInv, NEW o \in Order, HandleCancelOrder(o, TRUE)
  PROVE  CountInv'
<1> DEFINE u == Canceled(orders[o])
<1>1. /\ pc = "idle" /\ pc' = "idle" /\ orders[o] # NoRow /\ trades' = trades
      /\ orders' = [orders EXCEPT ![o] = u] /\ crashes' = crashes
  BY DEF HandleCancelOrder, UpdateOrder, Db
<1>2. o \in Present /\ orders[o] \in Row /\ Balanced(orders[o])
  BY <1>1 DEF Present, BalanceInv, TypeOK, AmountsBalanced
<1>3. u \in Row /\ u.pending = orders[o].pending /\ u.confirmed = orders[o].confirmed
  BY <1>2, CanceledBalanced, CanceledFields
<1> HIDE DEF u
<1>4. Live' \subseteq Live /\ Settling = {} /\ Settling' = {} /\ TradesKept
  BY LiveCancelOrder
<1>5. \A p : Reserved(p)' = 0 /\ Reserved(p) = 0
  BY <1>1 DEF Reserved, Untraded
<1>6. \A p \in Present : p \in Order /\ orders[p].pending \in Int
  BY PresentRows
<1>7. u # NoRow /\ orders \in [Order -> Row \cup {NoRow}]
  BY <1>3, OrderAssumption DEF BalanceInv, TypeOK
<1>8. Present' = Present
  BY <1>1, <1>7 DEF Present
<1>9. \A p \in Present : /\ orders'[p].confirmed = orders[p].confirmed
                         /\ orders'[p].pending = orders[p].pending
  BY <1>1, <1>3, <1>6, <1>7
<1>10. ~AtSettle /\ ~AtSettle' /\ pc' # "down"
  BY <1>1 DEF AtSettle
<1>11. \A i \in DOMAIN trades : trades'[i].status = trades[i].status
  BY <1>1
<1>12. QED
  BY <1>1, <1>4, <1>5, <1>6, <1>8, <1>9, <1>10, <1>11, CountKept

LEMMA CountInsertTrade ==
  ASSUME BalanceInv, Structure, Structure', CountInv, NEW m \in Order, InsertTrade(m, TRUE)
  PROVE  CountInv'
<1> DEFINE n == Len(trades) + 1
<1>1. /\ pc = "insertTrades" /\ pc' = "insertTrades" /\ m \in todo /\ todo' = todo \ {m}
      /\ UNCHANGED <<orders, taker, match>> /\ crashes' = crashes
  BY DEF InsertTrade, Db
<1>2. /\ Live' = Live \cup {n} /\ Settling = {} /\ Settling' = {}
      /\ DOMAIN trades' = DOMAIN trades \cup {n} /\ n \notin DOMAIN trades
      /\ \A i \in DOMAIN trades : trades'[i] = trades[i]
      /\ trades'[n].maker = m /\ trades'[n].taker = taker /\ trades'[n].status = "pending"
  BY LiveInsertTrade
<1> HIDE DEF n
<1>3. \A o : Of(o)' = IF o \in {m, taker} THEN Of(o) \cup {n} ELSE Of(o)
  BY <1>2 DEF Of
<1>4. \A o : Of(o) \subseteq DOMAIN trades
  BY DEF Of
<1>5. \A o : Counted(o)' = Counted(o) /\ Won(o)' = Won(o)
  BY <1>2, <1>3, <1>4 DEF Counted, Won
<1>6. \A o : Awaited(o)' = IF o \in {m, taker} THEN Awaited(o) \cup {n} ELSE Awaited(o)
  BY <1>2, <1>3, <1>4 DEF Awaited
<1>7. \A S \in SUBSET DOMAIN trades : /\ Sum(Amounts', S) = Vol(S)
                                      /\ Sum(Amounts', S \cup {n}) = Vol(S) + match.fill[m]
  BY VolAppended DEF n
<1>8. \A o : Vol(Counted(o))' = Vol(Counted(o)) /\ Vol(Won(o))' = Vol(Won(o))
  <2>1. \A o : Counted(o) \in SUBSET DOMAIN trades /\ Won(o) \in SUBSET DOMAIN trades
    BY CountSets
  <2>2. QED
    BY <1>5, <1>7, <2>1 DEF Vol
<1>9. Present' = Present
  BY <1>1 DEF Present
<1>10. ConfirmedCovered'
  BY <1>1, <1>8, <1>9 DEF CountInv, ConfirmedCovered, AtSettle
<1>11. Matching'
  <2> SUFFICES ASSUME crashes = 0, NEW o \in Present
               PROVE  orders[o].pending = Vol(Awaited(o))' + Reserved(o)'
    <3>1. \A o \in Present : crashes = 0 => orders[o].confirmed = Vol(Won(o))'
      BY <1>1, <1>8 DEF CountInv, Matching, Evenly, AtSettle
    <3>2. QED
      BY <1>1, <1>9, <3>1 DEF Matching, Evenly, AtSettle
  <2>1. orders[o].pending = Vol(Awaited(o)) + Reserved(o)
    BY <1>1 DEF CountInv, Matching, Evenly, AtSettle
  <2>2. /\ o \in Order /\ orders[o].pending \in Int /\ Reserved(o) \in Nat
        /\ Awaited(o) \in SUBSET DOMAIN trades /\ Vol(Awaited(o)) \in Nat
    BY PresentRows, CountSets
  <2>3. o # taker
    BY <1>1 DEF Structure, NewOrderKnown, AtNewOrder, Present
  <2>4. Vol(Awaited(o))' = Sum(Amounts', Awaited(o)')
    BY DEF Vol
  <2>5. CASE o = m
    <3>1. Reserved(o) = match.fill[m] /\ Reserved(o)' = 0
      BY <1>1, <2>5 DEF Reserved, Untraded
    <3>2. Vol(Awaited(o))' = Vol(Awaited(o)) + match.fill[m]
      BY <1>6, <1>7, <2>2, <2>4, <2>5
    <3>3. QED
      BY <2>1, <2>2, <3>1, <3>2
  <2>6. CASE o # m
    <3>1. Reserved(o)' = Reserved(o)
      BY <1>1, <2>6 DEF Reserved, Untraded
    <3>2. Vol(Awaited(o))' = Vol(Awaited(o))
      BY <1>6, <1>7, <2>2, <2>3, <2>4, <2>6
    <3>3. QED
      BY <2>1, <3>1, <3>2
  <2>7. QED
    BY <2>5, <2>6
<1>12. QED
  BY <1>2, <1>10, <1>11 DEF CountInv, Unmarked

LEMMA CountInsertTaker ==
  ASSUME BalanceInv, Structure, Structure', BookFits, NoDust, PendingInv, CountInv,
         InsertTaker(TRUE)
  PROVE  CountInv'
<1>1. /\ AtNewOrder /\ ~AtSettle /\ pc' = "idle" /\ orders' = [orders EXCEPT ![taker] = row]
      /\ trades' = trades /\ crashes' = crashes
      /\ \/ pc = "insertTaker"
         \/ pc = "insertTrades" /\ todo = {}
  BY DEF InsertTaker, Return, UpdateOrder, AtNewOrder, AtSettle, Db
<1>2. Live' \subseteq Live /\ Settling = {} /\ Settling' = {} /\ TradesKept
  BY LiveInsertTaker
<1>3. taker \in Order /\ row \in Row /\ orders[taker] = NoRow /\ row # NoRow
  BY <1>1, OrderAssumption DEF BalanceInv, TypeOK, LocalsKnown, Structure, NewOrderKnown, AtNewOrder
<1>4. /\ Present' = Present \cup {taker} /\ taker \notin Present /\ orders'[taker] = row
      /\ \A o \in Present : orders'[o] = orders[o]
  BY <1>1, <1>3 DEF Present, BalanceInv, TypeOK
<1>5. \A o : Reserved(o)' = 0 /\ Reserved(o) = 0
  BY <1>1 DEF Reserved, Untraded
<1>6. Of(taker) \in SUBSET DOMAIN trades /\ TypeOK
  BY DEF Of, BalanceInv
<1>7. row.pending = Vol(Of(taker)) /\ row.confirmed = 0 /\ Vol(Of(taker)) \in Nat
  <2>0. row.confirmed = 0
    BY <1>1 DEF BookFits, TakerFits
  <2>1. row.pending = Sum(match.fill, Makers(match)) /\ Vol(Of(taker)) \in Nat
    BY <1>1, <1>6, TradeSets DEF PendingInv, TakerExact
  <2>2. CASE pc = "insertTaker"
    <3>1. Of(taker) = {} /\ Makers(match) = {}
      BY <1>1, <2>2 DEF Structure, NewTrades, NoDust, AtNewOrder
    <3>2. QED
      BY <2>0, <2>1, <3>1, SumEmpty DEF Vol
  <2>3. CASE pc = "insertTrades"
    <3>1. Vol(Of(taker)) + Sum(match.fill, {}) = Sum(match.fill, Makers(match))
      BY <1>1, <2>3 DEF PendingInv, TakerExact
    <3>2. QED
      BY <2>0, <2>1, <3>1, SumEmpty
  <2>4. QED
    BY <1>1, <2>2, <2>3
<1>8. \A i \in DOMAIN trades : trades'[i].status = trades[i].status
  BY <1>1
<1>9. ConfirmedCovered'
  <2>1. \A o : Vol(Counted(o))' \in Nat /\ Vol(Counted(o)) <= Vol(Counted(o))'
    BY <1>2, <1>8, SameStatusesGrow, CountedGrows
  <2>2. \A o \in Present : orders[o].confirmed \in Int /\ orders[o].confirmed <= Vol(Counted(o))
                           /\ Vol(Counted(o)) \in Nat
    BY PresentRows, RowAmounts, CountSets DEF CountInv, ConfirmedCovered
  <2>3. \A o \in Present' : orders'[o].confirmed <= Vol(Counted(o))'
    BY <1>4, <1>7, <2>1, <2>2
  <2>4. QED
    BY <1>1, <2>3 DEF ConfirmedCovered, AtSettle
<1>10. Matching'
  <2> SUFFICES ASSUME crashes = 0, NEW o \in Present'
               PROVE  Evenly(o, orders[o])'
    BY <1>1 DEF Matching, AtSettle
  <2>1. Vol(Awaited(o))' = Vol(Awaited(o)) /\ Vol(Won(o))' = Vol(Won(o))
    BY <1>2, <1>8, SameStatusesEven
  <2>2. CASE o = taker
    <3>1. \A i \in Of(taker) : trades[i].status = "pending"
      BY <1>1 DEF PendingInv, TakerExact
    <3>2. Awaited(taker) = Of(taker) /\ Won(taker) = {}
      BY <1>2, <3>1 DEF Awaited, Won
    <3>3. Vol(Awaited(taker)) = Vol(Of(taker)) /\ Vol(Won(taker)) = 0
      BY <3>2, SumEmpty DEF Vol
    <3>4. QED
      BY <1>4, <1>5, <1>7, <2>1, <2>2, <3>3 DEF Evenly
  <2>3. CASE o # taker
    <3>1. o \in Present
      BY <1>4, <2>3
    <3>2. Evenly(o, orders[o])
      BY <1>1, <3>1 DEF CountInv, Matching
    <3>3. QED
      BY <1>4, <1>5, <2>1, <3>1, <3>2 DEF Evenly
  <2>4. QED
    BY <2>2, <2>3
<1>11. QED
  BY <1>2, <1>9, <1>10 DEF CountInv, Unmarked

LEMMA CountReadTrades ==
  ASSUME BalanceInv, Structure, Structure', LiveInv, CountInv, ReadTrades
  PROVE  CountInv'
<1>1. /\ Live' \subseteq Live /\ TradesKept /\ Settling = {} /\ Settling' = {}
      /\ orders' = orders /\ trades' = trades /\ crashes' = crashes /\ pc = "readTrades"
      /\ pc' \in {"idle", "settleMaker"}
  BY LiveReadTrades, ReadTradesCases DEF db, faults, Return, ReadTrades
<1>2. \A i \in DOMAIN trades : trades'[i].status = trades[i].status
  BY <1>1
<1>3. /\ \A o : Vol(Counted(o))' \in Nat /\ Vol(Counted(o)) <= Vol(Counted(o))'
      /\ \A o : Vol(Awaited(o))' = Vol(Awaited(o)) /\ Vol(Won(o))' = Vol(Won(o))
  BY <1>1, <1>2, SameStatusesGrow, CountedGrows, SameStatusesEven
<1>4. \A o : Reserved(o)' = 0 /\ Reserved(o) = 0
  BY <1>1 DEF Reserved, Untraded
<1>5. \A o \in Present : /\ orders[o].confirmed \in Int /\ Vol(Counted(o)) \in Nat
                         /\ orders[o].confirmed <= Vol(Counted(o))
  BY PresentRows, RowAmounts, CountSets DEF CountInv, ConfirmedCovered
<1>6. \A o \in Present : orders[o].confirmed <= Vol(Counted(o))'
  BY <1>3, <1>5
<1>7. \A o \in Present : crashes = 0 => Evenly(o, orders[o])
  BY <1>1 DEF CountInv, Matching, AtSettle
<1>8. Present' = Present
  BY <1>1 DEF Present
<1>9. pc' = "settleMaker" => \E o \in Present : taker' = o /\ row' = orders[o]
  BY <1>1, ReadTradesCases DEF Return, Present
<1>10. ConfirmedCovered'
  <2>1. pc' = "settleMaker" => row'.confirmed <= Vol(Counted(taker))'
    <3> SUFFICES ASSUME pc' = "settleMaker"
                 PROVE  row'.confirmed <= Vol(Counted(taker))'
      OBVIOUS
    <3>1. PICK o \in Present : taker' = o /\ row' = orders[o]
      BY <1>9
    <3>2. Vol(Counted(taker))' = Vol(Counted(o))'
      BY <3>1 DEF Vol, Counted, Of
    <3>3. QED
      BY <1>6, <3>1, <3>2
  <2>2. QED
    BY <1>1, <1>6, <1>8, <2>1 DEF ConfirmedCovered, AtSettle
<1>11. Matching'
  <2> SUFFICES ASSUME crashes = 0
               PROVE  /\ \A o \in Present : Evenly(o, orders[o])'
                      /\ pc' = "settleMaker" => Evenly(taker, row)'
    BY <1>1, <1>8 DEF Matching, AtSettle
  <2>1. \A o \in Present : /\ orders[o].pending = Vol(Awaited(o))' + Reserved(o)'
                           /\ orders[o].confirmed = Vol(Won(o))'
    BY <1>3, <1>4, <1>7 DEF Evenly
  <2>2. \A o \in Present : Evenly(o, orders[o])'
    BY <1>1, <2>1 DEF Evenly
  <2>3. ASSUME pc' = "settleMaker"
        PROVE  Evenly(taker, row)'
    <3>1. PICK o \in Present : taker' = o /\ row' = orders[o]
      BY <1>9, <2>3
    <3>2. /\ Vol(Awaited(taker))' = Vol(Awaited(o))' /\ Vol(Won(taker))' = Vol(Won(o))'
          /\ Reserved(taker)' = Reserved(o)'
      BY <1>1, <3>1 DEF Vol, Awaited, Won, Of, Reserved, Untraded
    <3>3. QED
      BY <2>1, <3>1, <3>2 DEF Evenly
  <2>4. QED
    BY <2>2, <2>3
<1>12. QED
  BY <1>1, <1>10, <1>11 DEF CountInv, Unmarked

\* What settling trade i does to the counts of an order it is of, and to its row.
LEMMA CountSettled ==
  ASSUME BalanceInv, Structure, Structure', LiveInv, PendingInv, NEW i \in due,
         SettleMaker(i, TRUE), NEW o, i \in Of(o), NEW r \in Row, NEW u \in Row,
         r.confirmed <= Vol(Counted(o)),
         u.pending = r.pending - trades[i].amount,
         u.confirmed = IF outcome = "successful" THEN r.confirmed + trades[i].amount
                                                 ELSE r.confirmed
  PROVE  /\ u.confirmed <= Vol(Counted(o))'
         /\ r.pending = Vol(Awaited(o)) /\ r.confirmed = Vol(Won(o)) =>
              u.pending = Vol(Awaited(o))' /\ u.confirmed = Vol(Won(o))'
<1> DEFINE n == trades[i].amount
<1>1. /\ pc = "settleMaker" /\ pc' = "settleTrade" /\ trades' = trades /\ outcome' = outcome
  BY DEF SettleMaker
<1>2. /\ Live' = Live \ {i} /\ i \in Live /\ Settling = {} /\ Settling' = {i}
  BY LiveSettleMaker
<1>3. trades[i].status = "pending" /\ n \in Nat /\ i \in DOMAIN trades
  BY SettledOrders DEF Of
<1>4. Of(o)' = Of(o) /\ Amounts' = Amounts
  BY <1>1 DEF Of, Amounts
<1>5. /\ Counted(o) \in SUBSET DOMAIN trades /\ Vol(Counted(o)) \in Nat
      /\ Awaited(o) \in SUBSET DOMAIN trades /\ Vol(Awaited(o)) \in Nat
      /\ Won(o) \in SUBSET DOMAIN trades /\ Vol(Won(o)) \in Nat
  BY CountSets
<1>6. i \notin Counted(o) /\ i \notin Won(o) /\ i \in Awaited(o)
  BY <1>2, <1>3 DEF Counted, Won, Awaited
<1>7. Awaited(o)' = Awaited(o) \ {i}
  BY <1>1, <1>2, <1>4 DEF Awaited
<1>8. Vol(Awaited(o)) = Vol(Awaited(o) \ {i}) + n /\ Vol(Awaited(o) \ {i}) \in Nat
  <2>1. Awaited(o) \ {i} \in SUBSET DOMAIN trades
    BY <1>5
  <2>2. QED
    BY <1>5, <1>6, <2>1, VolRemove, TradeSets DEF BalanceInv
<1>9. Vol(Awaited(o))' = Vol(Awaited(o)) - n
  <2>1. Vol(Awaited(o))' = Vol(Awaited(o) \ {i})
    BY <1>4, <1>7 DEF Vol
  <2> HIDE DEF n
  <2>2. QED
    BY <1>3, <1>5, <1>8, <2>1
<1>10. CASE outcome = "successful"
  <2>1. Counted(o)' = Counted(o) \cup {i} /\ Won(o)' = Won(o) \cup {i}
    BY <1>1, <1>2, <1>3, <1>4, <1>10 DEF Counted, Won
  <2>2. Vol(Counted(o) \cup {i}) = Vol(Counted(o)) + n /\ Vol(Won(o) \cup {i}) = Vol(Won(o)) + n
    BY <1>3, <1>5, <1>6, VolAdd DEF BalanceInv
  <2>3. Vol(Counted(o))' = Vol(Counted(o)) + n /\ Vol(Won(o))' = Vol(Won(o)) + n
    BY <1>4, <2>1, <2>2 DEF Vol
  <2>4. u.confirmed = r.confirmed + n /\ u.pending = r.pending - n
    BY <1>10
  <2> HIDE DEF n
  <2>5. QED
    BY <1>3, <1>5, <1>9, <2>3, <2>4, RowAmounts
<1>11. CASE outcome # "successful"
  <2>1. outcome = "failed"
    BY <1>11 DEF BalanceInv, TypeOK, Outcome
  <2>2. Counted(o)' = Counted(o) /\ Won(o)' = Won(o)
    BY <1>1, <1>2, <1>3, <1>4, <2>1 DEF Counted, Won
  <2>3. Vol(Counted(o))' = Vol(Counted(o)) /\ Vol(Won(o))' = Vol(Won(o))
    BY <1>4, <2>2 DEF Vol
  <2>4. u.confirmed = r.confirmed /\ u.pending = r.pending - n
    BY <1>11
  <2> HIDE DEF n
  <2>5. QED
    BY <1>3, <1>5, <1>9, <2>3, <2>4, RowAmounts
<1>12. QED
  BY <1>10, <1>11

LEMMA CountSettleMaker ==
  ASSUME BalanceInv, Structure, Structure', LiveInv, PendingInv, CountInv, NEW i \in due,
         SettleMaker(i, TRUE)
  PROVE  CountInv'
<1> DEFINE m == trades[i].maker
           n == trades[i].amount
           u == AutoSetStatusByAmounts(Settled(orders[m], n, outcome))
<1>1. /\ pc = "settleMaker" /\ pc' = "settleTrade" /\ trades' = trades /\ taker' = taker
      /\ outcome' = outcome /\ crashes' = crashes
  BY DEF SettleMaker, Db
<1>2. /\ m \in Present /\ m # taker /\ taker \in Present /\ n \in Nat
      /\ i \in Of(m) /\ i \in Of(taker) /\ i \in DOMAIN trades
      /\ trades[i].status = "pending"
  BY SettledOrders DEF Ours, Of
<1>a. trades[i].taker = taker
  BY <1>1, SettledTrade DEF AtSettle
<1>3. /\ u \in Row /\ u.pending = orders[m].pending - n /\ orders[m] \in Row
      /\ u.confirmed = (IF outcome = "successful" THEN orders[m].confirmed + n
                                                  ELSE orders[m].confirmed)
      /\ UpdateOrder(m, u, TRUE)
  BY SettleMakerWrites
<1>4. /\ row \in Row /\ row' \in Row /\ row'.pending = row.pending - n
      /\ row'.confirmed = (IF outcome = "successful" THEN row.confirmed + n ELSE row.confirmed)
  <2>1. row' = Settled(row, n, outcome) /\ row \in Row /\ outcome \in Outcome /\ Balanced(row)
    BY DEF SettleMaker, BalanceInv, TypeOK, RowAtWork
  <2> HIDE DEF n
  <2>2. QED
    BY <1>2, <2>1, SettledFields, SettledBalanced
<1> HIDE DEF u
<1>5. orders' = [orders EXCEPT ![m] = u]
  BY <1>3 DEF UpdateOrder
<1>6. Live' = Live \ {i} /\ i \in Live /\ Settling = {} /\ Settling' = {i}
  BY LiveSettleMaker
<1>7. \A o : Of(o)' = Of(o) /\ Reserved(o)' = 0 /\ Reserved(o) = 0
  BY <1>1 DEF Of, Reserved, Untraded
<1>8. \A o \in Present : o \notin {m, taker} => i \notin Of(o)
  BY <1>2, <1>a DEF Of
<1>9. Present' = Present /\ orders'[m] = u /\ \A o \in Present : o # m => orders'[o] = orders[o]
  <2>1. u # NoRow /\ orders \in [Order -> Row \cup {NoRow}] /\ m \in Order
    BY <1>2, <1>3, OrderAssumption DEF BalanceInv, TypeOK, Present
  <2>2. orders[m] # NoRow
    BY <1>2 DEF Present
  <2> HIDE DEF m
  <2>3. QED
    BY <1>5, <2>1, <2>2 DEF Present
<1>10. \A o \in Present : orders[o].confirmed <= Vol(Counted(o))
  BY DEF CountInv, ConfirmedCovered
<1>11. row.confirmed <= Vol(Counted(taker))
  BY <1>1 DEF CountInv, ConfirmedCovered, AtSettle
<1>12. \A o : i \notin Of(o) => /\ Vol(Counted(o))' = Vol(Counted(o))
                                /\ Vol(Awaited(o))' = Vol(Awaited(o))
                                /\ Vol(Won(o))' = Vol(Won(o))
  <2>1. \A o : i \notin Of(o) => /\ Counted(o)' = Counted(o) /\ Awaited(o)' = Awaited(o)
                                 /\ Won(o)' = Won(o)
    BY <1>1, <1>6, <1>7 DEF Counted, Awaited, Won
  <2>2. Amounts' = Amounts
    BY <1>1 DEF Amounts
  <2>3. QED
    BY <2>1, <2>2 DEF Vol
<1>b. PICK p \in Present : p = m
  BY <1>2
<1>13. /\ u.confirmed <= Vol(Counted(p))'
       /\ orders[p].pending = Vol(Awaited(p)) /\ orders[p].confirmed = Vol(Won(p)) =>
            u.pending = Vol(Awaited(p))' /\ u.confirmed = Vol(Won(p))'
  <2> DEFINE r == orders[p]
  <2>1. r \in Row /\ i \in Of(p) /\ r.confirmed <= Vol(Counted(p))
    BY <1>2, <1>3, <1>10, <1>b
  <2>2. u.pending = r.pending - n
        /\ u.confirmed = (IF outcome = "successful" THEN r.confirmed + n ELSE r.confirmed)
    BY <1>3, <1>b
  <2>3. QED
    BY <1>3, <2>1, <2>2, CountSettled
<1>14. /\ row'.confirmed <= Vol(Counted(taker))'
       /\ row.pending = Vol(Awaited(taker)) /\ row.confirmed = Vol(Won(taker)) =>
            row'.pending = Vol(Awaited(taker))' /\ row'.confirmed = Vol(Won(taker))'
  <2> DEFINE v == row'
             t == taker
  <2>1. v \in Row /\ i \in Of(t) /\ row.confirmed <= Vol(Counted(t))
    BY <1>2, <1>4, <1>11
  <2>2. v.pending = row.pending - n
        /\ v.confirmed = (IF outcome = "successful" THEN row.confirmed + n ELSE row.confirmed)
    BY <1>4
  <2>3. /\ Counted(t)' = Counted(taker)' /\ Awaited(t)' = Awaited(taker)'
        /\ Won(t)' = Won(taker)'
    BY <1>1
  <2>4. QED
    BY <1>1, <1>4, <2>1, <2>2, CountSettled
<1>15. Vol(Counted(taker)) <= Vol(Counted(taker))'
  <2>1. Counted(taker) \subseteq Counted(taker)'
    BY <1>1, <1>6 DEF Counted, Of
  <2>2. QED
    <3>1. TradesKept
      BY LiveSettleMaker
    <3>2. \A o : Counted(o) \subseteq Counted(o)' => Vol(Counted(o)) <= Vol(Counted(o))'
      BY <3>1, CountedGrows
    <3>3. Vol(Counted(taker))' = Sum(Amounts', Counted(taker)') /\ Counted(taker)' \in SUBSET DOMAIN trades
      BY <1>1 DEF Vol, Counted, Of
    <3>4. Sum(Amounts', Counted(taker)') = Vol(Counted(taker)')
      BY <3>1, <3>3, VolKept
    <3>5. Vol(Counted(taker)) <= Vol(Counted(taker)')
      BY <2>1, <3>3, VolMonotone DEF BalanceInv
    <3>6. QED
      BY <3>3, <3>4, <3>5
<1>16. Vol(Counted(taker)) \in Nat /\ Vol(Counted(taker))' \in Nat
  <2>1. Counted(taker)' \in SUBSET DOMAIN trades /\ Amounts' = Amounts
    BY <1>1 DEF Counted, Of, Amounts
  <2>2. Vol(Counted(taker)') \in Nat
    BY <2>1, TradeSets DEF BalanceInv
  <2>3. QED
    BY <2>1, <2>2, CountSets DEF Vol
<1> HIDE DEF m, n
<1>17. ConfirmedCovered'
  <2>1. ASSUME NEW o \in Present
        PROVE  orders'[o].confirmed <= Vol(Counted(o))'
    <3>1. CASE o = m
      BY <1>9, <1>13, <1>b, <3>1
    <3>2. CASE o = taker
      <4>1. orders[taker].confirmed \in Int
        BY <1>2, PresentRows, RowAmounts
      <4>2. orders'[o] = orders[taker]
        BY <1>2, <1>9, <3>2
      <4>3. orders[taker].confirmed <= Vol(Counted(taker))
        BY <1>2, <1>10
      <4>4. orders[taker].confirmed <= Vol(Counted(taker))'
        BY <1>15, <1>16, <4>1, <4>3
      <4>5. Vol(Counted(o))' = Vol(Counted(taker))'
        BY <1>1, <3>2 DEF Vol, Counted, Of
      <4>6. QED
        BY <4>2, <4>4, <4>5
    <3>3. CASE o \notin {m, taker}
      BY <1>8, <1>9, <1>10, <1>12, <3>3
    <3>4. QED
      BY <3>1, <3>2, <3>3
  <2>2. QED
    BY <1>9, <1>14, <2>1 DEF ConfirmedCovered
<1>18. Matching'
  <2> SUFFICES ASSUME crashes = 0
               PROVE  /\ \A o \in Present : o # taker => Evenly(o, orders[o])'
                      /\ Evenly(taker, row)'
    BY <1>1, <1>9 DEF Matching, AtSettle
  <2>1. /\ \A o \in Present : o # taker => Evenly(o, orders[o])
        /\ Evenly(taker, row)
    BY <1>1 DEF CountInv, Matching, AtSettle
  <2>2. row'.pending = Vol(Awaited(taker))' /\ row'.confirmed = Vol(Won(taker))'
    <3>1. row.pending = Vol(Awaited(taker)) /\ row.confirmed = Vol(Won(taker))
      <4>1. Vol(Awaited(taker)) \in Nat
        BY CountSets
      <4>2. QED
        BY <1>7, <2>1, <4>1 DEF Evenly
    <3>2. QED
      BY <1>14, <3>1
  <2>3. Evenly(taker, row)'
    <3>1. Vol(Awaited(taker))' \in Nat
      <4>1. Awaited(taker)' \in SUBSET DOMAIN trades /\ Amounts' = Amounts
        BY <1>1 DEF Awaited, Of, Amounts
      <4>2. Vol(Awaited(taker)') \in Nat
        BY <4>1, TradeSets DEF BalanceInv
      <4>3. QED
        BY <4>1, <4>2 DEF Vol
    <3>2. Reserved(taker)' = 0
      BY <1>1 DEF Reserved, Untraded
    <3>3. QED
      BY <2>2, <3>1, <3>2 DEF Evenly
  <2>4. ASSUME NEW o \in Present, o # taker
        PROVE  Evenly(o, orders[o])'
    <3>1. Evenly(o, orders[o]) /\ Vol(Awaited(o)) \in Nat
      BY <2>1, <2>4, CountSets
    <3>2. orders[o].pending = Vol(Awaited(o)) /\ orders[o].confirmed = Vol(Won(o))
      BY <1>7, <3>1 DEF Evenly
    <3>3. orders'[o].pending = Vol(Awaited(o))' /\ orders'[o].confirmed = Vol(Won(o))'
      <4>1. CASE o = m
        BY <1>9, <1>13, <1>b, <3>2, <4>1
      <4>2. CASE o # m
        BY <1>8, <1>9, <1>12, <2>4, <3>2, <4>2
      <4>3. QED
        BY <4>1, <4>2
    <3>4. Vol(Awaited(o))' \in Nat
      <4>1. Awaited(o)' \in SUBSET DOMAIN trades /\ Amounts' = Amounts
        BY <1>1 DEF Awaited, Of, Amounts
      <4>2. Vol(Awaited(o)') \in Nat
        BY <4>1, TradeSets DEF BalanceInv
      <4>3. QED
        BY <4>1, <4>2 DEF Vol
    <3>5. QED
      BY <1>7, <3>3, <3>4 DEF Evenly
  <2>5. QED
    BY <2>3, <2>4
<1>19. Unmarked'
  BY <1>1, <1>2, <1>6 DEF Unmarked
<1>20. QED
  BY <1>17, <1>18, <1>19 DEF CountInv

LEMMA CountSettleTrade ==
  ASSUME BalanceInv, Structure, Structure', LiveInv, CountInv, NEW i \in due,
         SettleTrade(i, TRUE)
  PROVE  CountInv'
<1>1. /\ pc = "settleTrade" /\ pc' = "settleMaker" /\ UNCHANGED <<orders, taker, row, outcome>>
      /\ crashes' = crashes
  BY DEF SettleTrade, Db
<1>2. /\ Live' = Live /\ i \notin Live /\ Settling = {i} /\ Settling' = {} /\ TradesKept
  BY LiveSettleTrade
<1>3. /\ \A j \in DOMAIN trades : trades'[j].status = IF j = i THEN outcome ELSE trades[j].status
      /\ outcome \in Outcome /\ i \in DOMAIN trades
  BY SettleTradeKeeps DEF BalanceInv, TypeOK
<1>4. trades[i].status = "pending"
  BY <1>2 DEF CountInv, Unmarked
<1>5. \A o : Of(o)' = Of(o) /\ Of(o) \subseteq DOMAIN trades
  BY <1>2 DEF Of, TradesKept
<1>6. \A o : Counted(o)' = Counted(o) /\ Awaited(o)' = Awaited(o) /\ Won(o)' = Won(o)
  <2>1. outcome = "successful" \/ outcome = "failed"
    BY <1>3 DEF Outcome
  <2>2. \A o : Counted(o)' = Counted(o)
    BY <1>1, <1>2, <1>3, <1>4, <1>5, <2>1 DEF Counted
  <2>3. \A o : Awaited(o)' = Awaited(o)
    BY <1>1, <1>2, <1>3, <1>4, <1>5, <2>1 DEF Awaited
  <2>4. \A o : Won(o)' = Won(o)
    BY <1>1, <1>2, <1>3, <1>4, <1>5, <2>1 DEF Won
  <2>5. QED
    BY <2>2, <2>3, <2>4
<1>7. \A o : /\ Vol(Counted(o))' = Vol(Counted(o)) /\ Vol(Awaited(o))' = Vol(Awaited(o))
             /\ Vol(Won(o))' = Vol(Won(o))
  <2>1. \A o : /\ Counted(o) \in SUBSET DOMAIN trades /\ Awaited(o) \in SUBSET DOMAIN trades
               /\ Won(o) \in SUBSET DOMAIN trades
    BY CountSets
  <2>2. \A S \in SUBSET DOMAIN trades : Sum(Amounts', S) = Vol(S)
    BY <1>2, VolKept
  <2>3. QED
    BY <1>6, <2>1, <2>2 DEF Vol
<1>8. \A o : Reserved(o)' = 0 /\ Reserved(o) = 0
  BY <1>1 DEF Reserved, Untraded
<1>9. /\ Vol(Counted(taker))' = Vol(Counted(taker)) /\ Vol(Awaited(taker))' = Vol(Awaited(taker))
      /\ Vol(Won(taker))' = Vol(Won(taker)) /\ Reserved(taker)' = Reserved(taker)
  <2>1. /\ Counted(taker)' = Counted(taker) /\ Awaited(taker)' = Awaited(taker)
        /\ Won(taker)' = Won(taker)
    <3> DEFINE t == taker
    <3>1. /\ Counted(t)' = Counted(t) /\ Awaited(t)' = Awaited(t) /\ Won(t)' = Won(t)
      <4>1. Of(taker)' = Of(taker) /\ Of(taker) \subseteq DOMAIN trades
        BY <1>1, <1>2 DEF Of, TradesKept
      <4>2. outcome = "successful" \/ outcome = "failed"
        BY <1>3 DEF Outcome
      <4>3. QED
        BY <1>1, <1>2, <1>3, <1>4, <4>1, <4>2 DEF Counted, Awaited, Won
    <3>2. QED
      BY <3>1
  <2>2. \A S \in SUBSET DOMAIN trades : Sum(Amounts', S) = Vol(S)
    BY <1>2, VolKept
  <2>3. /\ Counted(taker) \in SUBSET DOMAIN trades /\ Awaited(taker) \in SUBSET DOMAIN trades
        /\ Won(taker) \in SUBSET DOMAIN trades
    BY CountSets
  <2>4. Reserved(taker)' = Reserved(taker)
    BY <1>1 DEF Reserved, Untraded
  <2>5. QED
    BY <2>1, <2>2, <2>3, <2>4 DEF Vol
<1>10. Present' = Present
  BY <1>1 DEF Present
<1>11. ConfirmedCovered'
  BY <1>1, <1>7, <1>9, <1>10 DEF CountInv, ConfirmedCovered, AtSettle
<1>12. Matching'
  BY <1>1, <1>7, <1>8, <1>9, <1>10 DEF CountInv, Matching, Evenly, AtSettle
<1>13. QED
  BY <1>2, <1>11, <1>12 DEF CountInv, Unmarked

LEMMA CountSettleTaker ==
  ASSUME BalanceInv, Structure, Structure', LiveInv, CountInv, SettleTaker(TRUE)
  PROVE  CountInv'
<1> DEFINE u == AutoSetStatusByAmounts(row)
<1>1. /\ pc = "settleMaker" /\ pc' = "idle" /\ trades' = trades /\ crashes' = crashes
      /\ orders' = [orders EXCEPT ![taker] = u] /\ AtSettle /\ ~AtSettle'
  BY DEF SettleTaker, Return, UpdateOrder, AtSettle, Db
<1>2. /\ u \in Row /\ u.pending = row.pending /\ u.confirmed = row.confirmed
  BY AutoSetStatusBalanced, AutoSetStatusFields DEF BalanceInv, TypeOK, RowAtWork
<1>3. taker \in Present
  BY <1>1 DEF Structure, SettleKnown, Present
<1>4. Live' \subseteq Live /\ Settling = {} /\ Settling' = {} /\ TradesKept
  BY LiveSettleTaker
<1>5. \A o : Reserved(o)' = 0 /\ Reserved(o) = 0
  BY <1>1 DEF Reserved, Untraded
<1> HIDE DEF u
<1>6. Present' = Present /\ orders'[taker] = u
      /\ \A o \in Present : o # taker => orders'[o] = orders[o]
  <2>1. u # NoRow /\ orders \in [Order -> Row \cup {NoRow}] /\ taker \in Order
    BY <1>2, <1>3, OrderAssumption DEF BalanceInv, TypeOK, Present
  <2>2. orders[taker] # NoRow
    BY <1>3 DEF Present
  <2>3. QED
    BY <1>1, <2>1, <2>2 DEF Present
<1>7. \A i \in DOMAIN trades : trades'[i].status = trades[i].status
  BY <1>1
<1>8. /\ \A o : Vol(Counted(o))' \in Nat /\ Vol(Counted(o)) <= Vol(Counted(o))'
      /\ \A o : Vol(Awaited(o))' = Vol(Awaited(o)) /\ Vol(Won(o))' = Vol(Won(o))
  BY <1>4, <1>7, SameStatusesGrow, CountedGrows, SameStatusesEven
<1>9. ConfirmedCovered'
  <2> SUFFICES ASSUME NEW o \in Present
               PROVE  orders'[o].confirmed <= Vol(Counted(o))'
    BY <1>1, <1>6 DEF ConfirmedCovered
  <2>1. Vol(Counted(o)) \in Nat
    BY CountSets
  <2>2. CASE o = taker
    <3>1. row.confirmed <= Vol(Counted(o)) /\ row.confirmed \in Int
      BY <1>1, <2>2, RowAmounts DEF CountInv, ConfirmedCovered, BalanceInv, TypeOK
    <3>2. QED
      BY <1>2, <1>6, <1>8, <2>1, <2>2, <3>1
  <2>3. CASE o # taker
    <3>1. orders[o].confirmed <= Vol(Counted(o)) /\ orders[o].confirmed \in Int
      BY PresentRows, RowAmounts DEF CountInv, ConfirmedCovered
    <3>2. QED
      BY <1>6, <1>8, <2>1, <2>3, <3>1
  <2>4. QED
    BY <2>2, <2>3
<1>10. Matching'
  <2> SUFFICES ASSUME crashes = 0, NEW o \in Present
               PROVE  Evenly(o, orders[o])'
    BY <1>1, <1>6 DEF Matching
  <2>1. CASE o = taker
    <3>1. Evenly(o, row)
      BY <1>1, <2>1 DEF CountInv, Matching
    <3>2. QED
      BY <1>2, <1>5, <1>6, <1>8, <2>1, <3>1 DEF Evenly
  <2>2. CASE o # taker
    <3>1. Evenly(o, orders[o])
      BY <2>2 DEF CountInv, Matching
    <3>2. QED
      BY <1>5, <1>6, <1>8, <2>2, <3>1 DEF Evenly
  <2>3. QED
    BY <2>1, <2>2
<1>11. QED
  BY <1>4, <1>9, <1>10 DEF CountInv, Unmarked

\* A step that changes nothing the counts are made of.
LEMMA CountStill ==
  ASSUME BalanceInv, CountInv, TradesKept, Live' = Live, Settling' = Settling,
         \A i \in DOMAIN trades : trades'[i].status = trades[i].status,
         UNCHANGED <<orders, pc, taker, row, match, todo, outcome, crashes>>
  PROVE  CountInv'
<1>1. \A o : /\ Counted(o)' = Counted(o) /\ Awaited(o)' = Awaited(o) /\ Won(o)' = Won(o)
             /\ Reserved(o)' = Reserved(o)
  BY DEF Counted, Awaited, Won, Of, TradesKept, Reserved, Untraded, Makers
<1>2. \A S \in SUBSET DOMAIN trades : Sum(Amounts', S) = Vol(S)
  BY VolKept
<1>3. \A o : /\ Counted(o) \in SUBSET DOMAIN trades /\ Awaited(o) \in SUBSET DOMAIN trades
             /\ Won(o) \in SUBSET DOMAIN trades
  BY CountSets
<1>4. \A o : /\ Vol(Counted(o))' = Vol(Counted(o)) /\ Vol(Awaited(o))' = Vol(Awaited(o))
             /\ Vol(Won(o))' = Vol(Won(o))
  BY <1>1, <1>2, <1>3 DEF Vol
<1>5. /\ Vol(Counted(taker))' = Vol(Counted(taker)) /\ Vol(Awaited(taker))' = Vol(Awaited(taker))
      /\ Vol(Won(taker))' = Vol(Won(taker)) /\ Reserved(taker)' = Reserved(taker)
  <2>1. /\ Counted(taker)' = Counted(taker) /\ Awaited(taker)' = Awaited(taker)
        /\ Won(taker)' = Won(taker) /\ Reserved(taker)' = Reserved(taker)
    BY DEF Counted, Awaited, Won, Of, TradesKept, Reserved, Untraded, Makers
  <2>2. QED
    BY <1>2, <1>3, <2>1 DEF Vol
<1>6. ConfirmedCovered'
  BY <1>4, <1>5 DEF CountInv, ConfirmedCovered, Present, AtSettle
<1>7. Matching'
  BY <1>1, <1>4, <1>5 DEF CountInv, Matching, Evenly, Present, AtSettle
<1>8. Unmarked'
  <2>1. Settling \subseteq DOMAIN trades
    BY DEF Settling, BalanceInv, TypeOK
  <2>2. QED
    BY <2>1 DEF CountInv, Unmarked
<1>9. QED
  BY <1>6, <1>7, <1>8 DEF CountInv

LEMMA CountLauncher ==
  ASSUME BalanceInv, Structure, CountInv, Launcher
  PROVE  CountInv'
<1>1. UNCHANGED <<orders, pc, taker, row, match, todo, outcome, crashes>>
  BY LauncherWrites DEF BalanceInv, locals, faults
<1>2. QED
  BY <1>1, LiveLauncher, LaunchKeeps, CountStill DEF BalanceInv

\* A crash and a restart leave the confirmed amounts covered.
LEMMA CountDown ==
  ASSUME BalanceInv, CountInv, TradesKept, Live' \subseteq Live, Settling' = {},
         trades' = trades, orders' = orders, ~AtSettle', crashes' # 0
  PROVE  CountInv'
<1>1. \A i \in DOMAIN trades : trades'[i].status = trades[i].status
  OBVIOUS
<1>2. \A o : Vol(Counted(o))' \in Nat /\ Vol(Counted(o)) <= Vol(Counted(o))'
  BY <1>1, SameStatusesGrow, CountedGrows
<1>3. \A o \in Present : /\ orders[o].confirmed <= Vol(Counted(o)) /\ orders[o].confirmed \in Int
                         /\ Vol(Counted(o)) \in Nat
  BY PresentRows, RowAmounts, CountSets DEF CountInv, ConfirmedCovered
<1>4. \A o \in Present : orders[o].confirmed <= Vol(Counted(o))'
  BY <1>2, <1>3
<1>5. ConfirmedCovered'
  BY <1>4 DEF ConfirmedCovered, Present
<1>6. QED
  BY <1>5 DEF CountInv, Matching, Unmarked

LEMMA CountHandlerStep ==
  ASSUME BalanceInv, Structure, Structure', BookFits, StatusAgrees, NoDust, LiveInv, PendingInv,
         CountInv, dbErrors' = 0, HandlerStep
  PROVE  CountInv'
<1>0. ASSUME NEW ok \in BOOLEAN, Db(ok)
      PROVE  ok = TRUE
  BY <1>0, DbSaved DEF BalanceInv
<1>1. ASSUME NEW m \in Order, MakerMissing(m)
      PROVE  FALSE
  BY <1>1, BookMakerMissing
<1>2. CASE FinishTaker
  BY <1>2, CountFinishTaker
<1>3. CASE ReadTrades
  BY <1>3, CountReadTrades
<1>4. ASSUME NEW ok \in BOOLEAN, NEW m \in Order,
             UpdateMaker(m, ok) \/ SaveMakerAgain(m, ok) \/ InsertTrade(m, ok)
      PROVE  CountInv'
  <2>1. CASE InsertTrade(m, ok)
    <3>1. ok = TRUE
      BY <1>0, <2>1 DEF InsertTrade
    <3>2. QED
      BY <2>1, <3>1, CountInsertTrade
  <2>2. QED
    BY <1>4, <2>1, CountUpdateMaker, BookSaveMakerAgain
<1>5. ASSUME NEW ok \in BOOLEAN,
             \/ InsertTransaction(ok)
             \/ InsertLaunchLog(ok)
             \/ InsertTaker(ok)
             \/ UpdateLaunchLogsStatus(ok)
             \/ SettleTaker(ok)
      PROVE  CountInv'
  <2>1. ok = TRUE
    BY <1>0, <1>5 DEF InsertTransaction, InsertLaunchLog, InsertTaker, UpdateLaunchLogsStatus,
                      SettleTaker
  <2>2. QED
    BY <1>5, <2>1, CountInsertTransaction, CountInsertLaunchLog, CountInsertTaker,
       CountUpdateLaunchLogsStatus, CountSettleTaker
<1>6. ASSUME NEW ok \in BOOLEAN, NEW i \in due,
             SettleMaker(i, ok) \/ SettleTrade(i, ok)
      PROVE  CountInv'
  <2>1. ok = TRUE
    BY <1>0, <1>6 DEF SettleMaker, SettleTrade
  <2>2. QED
    BY <1>6, <2>1, CountSettleMaker, CountSettleTrade
<1>7. QED
  BY <1>1, <1>2, <1>3, <1>4, <1>5, <1>6 DEF HandlerStep

LEMMA CountNext ==
  ASSUME BalanceInv, Structure, Structure', BookFits, StatusAgrees, NoDust, LiveInv, PendingInv,
         CountInv, dbErrors' = 0, [Next]_vars
  PROVE  CountInv'
<1>0. crashes \in Nat
  BY BoundAssumption DEF BalanceInv, TypeOK
<1>1. ASSUME NEW o \in Order, HandleNewOrder(o)
      PROVE  CountInv'
  BY <1>1, CountNewOrder
<1>2. ASSUME NEW o \in Order, NEW ok \in BOOLEAN, HandleCancelOrder(o, ok)
      PROVE  CountInv'
  <2>1. ok = TRUE
    BY <1>2, DbSaved DEF HandleCancelOrder, BalanceInv
  <2>2. QED
    BY <1>2, <2>1, CountCancelOrder
<1>3. ASSUME Launcher \/ \E t \in DOMAIN txs : Confirm(t)
      PROVE  CountInv'
  BY <1>3, CountTransactionResult, CountLauncher DEF Confirm
<1>4. CASE HandlerStep
  BY <1>4, CountHandlerStep
<1>5. CASE Crash
  <2>1. orders' = orders /\ trades' = trades /\ pc' = "down" /\ crashes' # 0
    BY <1>0, <1>5 DEF Crash, db
  <2>2. QED
    BY <1>5, <2>1, LiveCrash, CountDown DEF AtSettle
<1>6. CASE NewMarketHandler
  <2>1. /\ orders' = orders /\ trades' = trades /\ pc = "down" /\ pc' = "idle"
        /\ crashes' = crashes
    BY <1>6 DEF NewMarketHandler, db, faults
  <2>2. crashes # 0
    BY <2>1 DEF CountInv, Matching
  <2>3. QED
    BY <1>6, <2>1, <2>2, LiveNewMarketHandler, CountDown DEF AtSettle
<1>7. CASE UNCHANGED vars
  <2>1. /\ UNCHANGED <<orders, pc, taker, row, match, todo, outcome, crashes>>
        /\ UNCHANGED <<txs, trades, due, tx>>
    BY <1>7 DEF vars, db, locals, faults
  <2>2. Live' = Live /\ Settling' = Settling
    BY <2>1 DEF Live, Settling, Newest
  <2>3. QED
    BY <2>1, <2>2, SameTradesKept, CountStill
<1>8. QED
  BY <1>1, <1>2, <1>3, <1>4, <1>5, <1>6, <1>7 DEF Next, Launcher

-----------------------------------------------------------------------------
(* The inductive invariant of the handler. Each part holds under the       *)
(* conditions it names; HandlerInv needs none.                             *)
ExactInv == ~Dust /\ dbErrors = 0 /\ repeats = 0 => LiveInv /\ PendingInv /\ CountInv

HandlerInv == BalanceInv /\ Structure /\ BookInv /\ StatusInv /\ ExactInv

LEMMA HandlerInit == Init => HandlerInv
<1> SUFFICES ASSUME Init PROVE HandlerInv
  OBVIOUS
<1>1. BalanceInv /\ Structure /\ BookInv
  BY BalanceInit, StructureInit, BookInit DEF BookInv
<1>2. StatusInv
  BY DEF Init, StatusInv, StatusAgrees, Present, NoDust, AtNewOrder
<1>3. ExactInv
  BY LiveInit, PendingInit, CountInit DEF ExactInv
<1>4. QED
  BY <1>1, <1>2, <1>3 DEF HandlerInv

LEMMA HandlerNext ==
  ASSUME HandlerInv, [Next]_vars
  PROVE  HandlerInv'
<1>1. BalanceInv /\ Structure /\ BookInv /\ StatusInv
  BY DEF HandlerInv
<1>2. BalanceInv' /\ Structure' /\ BookInv' /\ StatusInv'
  BY <1>1, BalanceNext, StructureNext, BookNext, StatusNext
<1>3. ExactInv'
  <2> SUFFICES ASSUME ~Dust, dbErrors' = 0, repeats' = 0
               PROVE  LiveInv' /\ PendingInv' /\ CountInv'
    BY DEF ExactInv
  <2>1. dbErrors = 0 /\ repeats = 0
    BY <1>1, FaultsGrow DEF BalanceInv
  <2>2. BookFits /\ StatusAgrees /\ NoDust /\ LiveInv /\ PendingInv /\ CountInv
    BY <1>1, <2>1 DEF HandlerInv, BookInv, StatusInv, ExactInv
  <2>3. QED
    BY <1>1, <1>2, <2>2, LiveNext, PendingNext, CountNext
<1>4. QED
  BY <1>2, <1>3 DEF HandlerInv

-----------------------------------------------------------------------------
(* What the invariant says of the amounts of a row.                        *)
Signed ==
  \A o \in Present : NonNegative(orders[o]) /\ orders[o].amount = AmountOf[o]

LEMMA RowsSigned ==
  ASSUME BalanceInv, Structure, TableFits, PendingInv
  PROVE  Signed
<1> SUFFICES ASSUME NEW o \in Present
             PROVE  NonNegative(orders[o]) /\ orders[o].amount = AmountOf[o]
  BY DEF Signed
<1>1. orders[o].available >= 0 /\ orders[o].confirmed >= 0 /\ orders[o].canceled >= 0
  BY DEF TableFits, RowSigns
<1>2. orders[o].pending >= Vol(Ours(o)) + Reserved(o)
  BY DEF PendingInv, PendingCovers
<1>3. Vol(Ours(o)) \in Nat /\ Reserved(o) \in Nat /\ orders[o].pending \in Int
  BY PresentRows
<1>4. orders[o].pending >= 0
  BY <1>2, <1>3
<1>5. orders[o].amount = AmountOf[o]
  BY DEF Structure, RowsKnown, Present
<1>6. QED
  BY <1>1, <1>4, <1>5 DEF NonNegative

\* With neither dust, nor failed writes, nor results reported again.
Exact ==
  /\ BalanceInv /\ Structure /\ BookFits /\ TableFits /\ StatusAgrees /\ NoDust
  /\ LiveInv /\ PendingInv /\ CountInv /\ Signed

\* Exact is what HandlerInv says where nothing went wrong.
LEMMA HandlerExact ==
  ASSUME HandlerInv, ~Dust, dbErrors = 0, repeats = 0
  PROVE  Exact
<1>1. /\ BalanceInv /\ Structure /\ BookFits /\ TableFits /\ StatusAgrees /\ NoDust
      /\ LiveInv /\ PendingInv /\ CountInv
  BY DEF HandlerInv, BookInv, StatusInv, ExactInv
<1>2. QED
  BY <1>1, RowsSigned DEF Exact

\* No budget for faults, no faults.
LEMMA FaultFree ==
  ASSUME TypeOK, MaxDbErrors = 0, MaxRepeats = 0
  PROVE  dbErrors = 0 /\ repeats = 0
  BY DEF TypeOK

-----------------------------------------------------------------------------
(* What the invariant says of the properties.                              *)
\* Traded is the volume of the trades with those statuses.
LEMMA TradedVolume ==
  ASSUME BalanceInv, NEW o, NEW S
  PROVE  /\ Traded(o, S) = Vol({i \in Of(o) : trades[i].status \in S})
         /\ {i \in Of(o) : trades[i].status \in S} \in SUBSET DOMAIN trades
<1> DEFINE D == {j \in DOMAIN trades : /\ o \in {trades[j].maker, trades[j].taker}
                                       /\ trades[j].status \in S}
<1>1. D = {i \in Of(o) : trades[i].status \in S} /\ D \subseteq DOMAIN trades
  BY DEF Of
<1>2. [i \in D |-> trades[i].amount] = [i \in D |-> Amounts[i]]
  BY <1>1 DEF Amounts
<1>3. Traded(o, S) = Total([i \in D |-> trades[i].amount])
  BY DEF Traded
<1> HIDE DEF D
<1>4. QED
  BY <1>1, <1>2, <1>3 DEF Vol, Sum

LEMMA UncrossedBook == ASSUME BookInv PROVE NoCrossedBook
<1> SUFFICES ASSUME dbErrors = 0, NEW o \in Order, book[o] > 0, NEW m \in Crossing(o)
             PROVE  FALSE
  BY DEF NoCrossedBook
<1>1. m \in Order /\ book[m] > 0 /\ Crosses(o, m)
  BY DEF Crossing, Crosses
<1>2. QED
  BY <1>1 DEF BookInv, TableFits, Uncrossed

LEMMA BackedBook == ASSUME HandlerInv PROVE BookBacked
<1> SUFFICES ASSUME pc # "down", dbErrors = 0, NEW o \in Present,
                    (~Dust /\ repeats = 0) \/ Rests(o).status = "pending" \/ book[o] > 0
             PROVE  book[o] = Rests(o).available
  BY DEF BookBacked
<1>1. BookFits /\ TableFits /\ o \in Order /\ book[o] \in Nat
  BY DEF HandlerInv, BookInv, BalanceInv, TypeOK, Present
<1>2. CASE Rests(o).status = "pending" \/ book[o] > 0
  BY <1>1, <1>2 DEF BookFits, Backed
<1>3. CASE ~Dust /\ repeats = 0 /\ Rests(o).status # "pending" /\ ~(book[o] > 0)
  <2>1. CASE pc = "makers" /\ o \in todo
    BY <1>1, <2>1 DEF BookFits, TodoFits, Rests
  <2>2. CASE ~(pc = "makers" /\ o \in todo)
    <3>1. Rests(o) = orders[o]
      BY <2>2 DEF Rests
    <3>2. Sunk(orders[o])
      BY <1>1, <1>3, <3>1 DEF TableFits, RowSigns
    <3>3. NonNegative(orders[o])
      BY <1>3, HandlerExact DEF Exact, Signed
    <3>4. orders[o].available \in Int /\ orders[o].pending \in Int
      BY PresentRows, RowAmounts DEF HandlerInv
    <3>5. orders[o].available = 0
      BY <3>2, <3>3, <3>4 DEF Sunk, NonNegative
    <3>6. QED
      BY <1>1, <1>3, <3>1, <3>5
  <2>3. QED
    BY <2>1, <2>2
<1>4. QED
  BY <1>2, <1>3

LEMMA OverSettledNever == ASSUME Exact PROVE NeverOverSettled
<1> USE DEF Exact
<1> SUFFICES ASSUME NEW o \in Present
             PROVE  /\ orders[o].pending >= 0
                    /\ orders[o].confirmed <= Traded(o, {"pending", "successful"})
  BY DEF NeverOverSettled
<1> DEFINE D == {i \in Of(o) : trades[i].status \in {"pending", "successful"}}
<1>1. orders[o].pending >= 0
  BY DEF Signed, NonNegative
<1>2. orders[o].confirmed <= Vol(Counted(o)) /\ orders[o].confirmed \in Int
      /\ Vol(Counted(o)) \in Nat
  BY PresentRows, RowAmounts, CountSets DEF CountInv, ConfirmedCovered
<1>3. Traded(o, {"pending", "successful"}) = Vol(D) /\ D \in SUBSET DOMAIN trades
  BY TradedVolume
<1>4. Counted(o) \in SUBSET D
  <2> SUFFICES ASSUME NEW i \in Counted(o)
               PROVE  i \in D
    OBVIOUS
  <2>1. i \in Of(o) /\ i \in DOMAIN trades /\ trades[i].status # "failed"
    BY DEF Counted, Of
  <2>2. trades[i].status \in TxStatus
    <3>1. trades[i] \in Trade
      BY <2>1, TradeFields DEF BalanceInv
    <3>2. QED
      BY <3>1 DEF Trade
  <2>3. QED
    BY <2>1, <2>2 DEF TxStatus, Outcome
<1>5. Vol(Counted(o)) <= Vol(D) /\ Vol(D) \in Nat
  BY <1>3, <1>4, VolMonotone, TradeSets DEF BalanceInv
<1> HIDE DEF D
<1>6. QED
  BY <1>1, <1>2, <1>3, <1>5

LEMMA AmountsMatch == ASSUME Exact PROVE AmountsMatchTrades
<1> USE DEF Exact
<1> SUFFICES ASSUME pc = "idle", crashes = 0, NEW o \in Present
             PROVE  /\ orders[o].pending = Traded(o, {"pending"})
                    /\ orders[o].confirmed = Traded(o, {"successful"})
  BY DEF AmountsMatchTrades
<1>1. Evenly(o, orders[o])
  BY DEF CountInv, Matching, AtSettle
<1>2. Settling = {} /\ Reserved(o) = 0
  BY DEF Settling, Reserved, Untraded
<1>3. /\ Awaited(o) = {i \in Of(o) : trades[i].status \in {"pending"}}
      /\ Won(o) = {i \in Of(o) : trades[i].status \in {"successful"}}
  BY <1>2 DEF Awaited, Won
<1>4. Vol(Awaited(o)) = Traded(o, {"pending"}) /\ Vol(Won(o)) = Traded(o, {"successful"})
  BY <1>3, TradedVolume
<1>5. Vol(Awaited(o)) \in Nat
  BY CountSets
<1>6. QED
  BY <1>1, <1>2, <1>4, <1>5 DEF Evenly

-----------------------------------------------------------------------------
(* Finished orders: what every write of a row finds there.                 *)
\* Rows with the same fields are one row.
LEMMA SameRow ==
  ASSUME NEW r \in Row, NEW u \in Row,
         u.amount = r.amount, u.available = r.available, u.pending = r.pending,
         u.confirmed = r.confirmed, u.canceled = r.canceled, u.status = r.status
  PROVE  u = r
  BY DEF Row

\* What a finished row has left: nothing available, nothing pending.
LEMMA FinishedSpent ==
  ASSUME Exact, NEW o \in Present, orders[o].status # "pending"
  PROVE  orders[o].available = 0 /\ orders[o].pending = 0
<1> USE DEF Exact
<1>1. orders[o] \in Row /\ Balanced(orders[o]) /\ o \in Order
  BY PresentRows
<1>2. NonNegative(orders[o])
  BY DEF Signed
<1>3. StatusOf(orders[o]) # "pending"
  BY DEF StatusAgrees
<1>4. ~(orders[o].available + orders[o].pending > 0)
  BY <1>1, <1>2, <1>3, PendingStatus DEF NonNegative
<1>5. QED
  BY <1>1, <1>2, <1>4, RowAmounts DEF NonNegative

\* The rows the two loops write are not finished.
LEMMA MatchedOpen ==
  ASSUME Exact, NEW m \in Order, NEW ok, UpdateMaker(m, ok)
  PROVE  m \in Present /\ orders[m].status = "pending"
<1>1. pc = "makers" /\ m \in todo /\ m \in Present /\ AtNewOrder
  BY DEF UpdateMaker, Present, AtNewOrder
<1>2. orders[m].available >= match.fill[m] /\ match.fill[m] > 0
  BY <1>1 DEF Exact, BookFits, TodoFits, Structure, NewOrderKnown, Makers
<1>3. match.fill[m] \in Nat /\ orders[m].available \in Int
  BY <1>1, PresentRows, RowAmounts DEF Exact, BalanceInv, TypeOK, Match
<1>4. orders[m].available # 0
  BY <1>2, <1>3
<1>5. QED
  BY <1>1, <1>4, FinishedSpent

LEMMA SettledOpen ==
  ASSUME Exact, Structure', NEW i \in due, NEW ok, SettleMaker(i, ok)
  PROVE  trades[i].maker \in Present /\ orders[trades[i].maker].status = "pending"
<1> DEFINE m == trades[i].maker
<1>1. /\ m \in Present /\ orders[m].pending >= trades[i].amount /\ trades[i].amount > 0
      /\ trades[i].amount \in Nat
  BY SettledOrders DEF Exact
<1>2. orders[m].pending \in Int
  BY <1>1, PresentRows DEF Exact
<1> HIDE DEF m
<1>3. orders[m].pending # 0
  BY <1>1, <1>2
<1>4. QED
  BY <1>1, <1>3, FinishedSpent DEF m

LEMMA TakerOpen ==
  ASSUME Exact, NEW ok, SettleTaker(ok)
  PROVE  taker \in Present /\ orders[taker].status = "pending"
<1>1. AtSettle
  BY DEF SettleTaker, AtSettle
<1>2. taker \in Present
  BY <1>1 DEF Exact, Structure, SettleKnown, Present
<1>3. orders[taker].pending > 0
  BY <1>1 DEF Exact, PendingInv, SettleExact
<1>4. orders[taker].pending # 0
  BY <1>3
<1>5. QED
  BY <1>2, <1>4, FinishedSpent

\* A late cancel of a finished order writes the row that is there.
LEMMA CancelFinished ==
  ASSUME Exact, NEW o \in Present, orders[o].status # "pending"
  PROVE  Canceled(orders[o]) = orders[o]
<1> DEFINE r == orders[o]
           u == Canceled(r)
<1>1. r \in Row /\ Balanced(r) /\ r.available = 0 /\ r.status = StatusOf(r)
  BY PresentRows, FinishedSpent DEF Exact, StatusAgrees
<1> HIDE DEF r
<1>2. u \in Row
  BY <1>1, CanceledBalanced
<1>3. /\ u.amount = r.amount /\ u.available = 0 /\ u.pending = r.pending
      /\ u.confirmed = r.confirmed /\ u.canceled = r.canceled + r.available
      /\ u.status = StatusOf(u)
  BY <1>1, CanceledFields
<1> HIDE DEF u
<1>4. u.canceled = r.canceled
  BY <1>1, <1>3, RowAmounts
<1>5. StatusOf(u) = StatusOf(r)
  BY <1>1, <1>3, <1>4 DEF StatusOf
<1>6. u = r
  BY <1>1, <1>2, <1>3, <1>4, <1>5, SameRow
<1>7. QED
  BY <1>6 DEF u, r

\* The writes of a row, all of them.
LEMMA Writes ==
  ASSUME BookFits, [Next]_vars
  PROVE  \/ orders' = orders
         \/ \E o \in Order, ok \in BOOLEAN : UpdateMaker(o, ok) \/ HandleCancelOrder(o, ok)
         \/ \E ok \in BOOLEAN : InsertTaker(ok) \/ SettleTaker(ok)
         \/ \E i \in due, ok \in BOOLEAN : SettleMaker(i, ok)
<1>1. ASSUME NEW m \in Order, NEW ok \in BOOLEAN,
             MakerMissing(m) \/ SaveMakerAgain(m, ok)
      PROVE  FALSE
  BY <1>1, BookMakerMissing, BookSaveMakerAgain
<1>2. ASSUME NEW m \in Order, NEW ok \in BOOLEAN,
             \/ FinishTaker \/ ReadTrades \/ InsertTrade(m, ok) \/ InsertTransaction(ok)
             \/ InsertLaunchLog(ok) \/ UpdateLaunchLogsStatus(ok)
      PROVE  orders' = orders
  BY <1>2 DEF FinishTaker, ReadTrades, InsertTrade, InsertTransaction, InsertLaunchLog,
              UpdateLaunchLogsStatus, db
<1>3. ASSUME NEW i \in due, NEW ok \in BOOLEAN, SettleTrade(i, ok)
      PROVE  orders' = orders
  BY <1>3 DEF SettleTrade
<1>4. CASE HandlerStep
  <2>1. CASE \/ \E ok \in BOOLEAN : InsertTaker(ok) \/ SettleTaker(ok)
             \/ \E i \in due, ok \in BOOLEAN : SettleMaker(i, ok)
             \/ \E o \in Order, ok \in BOOLEAN : UpdateMaker(o, ok)
    BY <2>1
  <2>2. CASE \/ FinishTaker \/ ReadTrades
             \/ \E m \in Order, ok \in BOOLEAN :
                  \/ InsertTrade(m, ok) \/ InsertTransaction(ok)
                  \/ InsertLaunchLog(ok) \/ UpdateLaunchLogsStatus(ok)
             \/ \E i \in due, ok \in BOOLEAN : SettleTrade(i, ok)
    <3>1. \E m : m \in Order
      BY OrderAssumption
    <3>2. QED
      BY <1>2, <1>3, <2>2, <3>1
  <2>3. \E m : m \in Order
    BY OrderAssumption
  <2>4. QED
    BY <1>1, <1>4, <2>1, <2>2, <2>3 DEF HandlerStep
<1>5. ASSUME NEW o \in Order, HandleNewOrder(o)
      PROVE  orders' = orders
  BY <1>5 DEF HandleNewOrder, db
<1>6. ASSUME Launcher \/ \E t \in DOMAIN txs : Confirm(t)
      PROVE  orders' = orders
  BY <1>6 DEF Confirm, HandleTransactionResult, Launcher, LauncherStep, LauncherStop, LaunchLog,
              LaunchTransaction, LaunchTrade, db
<1>7. ASSUME Crash \/ NewMarketHandler \/ UNCHANGED vars
      PROVE  orders' = orders
  BY <1>7 DEF Crash, NewMarketHandler, vars, db
<1>8. QED
  BY <1>4, <1>5, <1>6, <1>7 DEF Next, Launcher

LEMMA FinishedStays ==
  ASSUME Exact, Structure', [Next]_vars
  PROVE  \A o \in Present : orders[o].status # "pending" => orders'[o] = orders[o]
<1> SUFFICES ASSUME NEW p \in Present, orders[p].status # "pending"
             PROVE  orders'[p] = orders[p]
  OBVIOUS
<1>0. orders \in [Order -> Row \cup {NoRow}] /\ p \in Order
  BY DEF Exact, BalanceInv, TypeOK, Present
<1>1. ASSUME NEW m \in Order, NEW ok \in BOOLEAN, UpdateMaker(m, ok)
      PROVE  orders'[p] = orders[p]
  <2>1. p # m
    BY <1>1, MatchedOpen
  <2>2. QED
    BY <1>0, <1>1, <2>1 DEF UpdateMaker, UpdateOrder
<1>2. ASSUME NEW o \in Order, NEW ok \in BOOLEAN, HandleCancelOrder(o, ok)
      PROVE  orders'[p] = orders[p]
  <2>1. orders' = IF ok THEN [orders EXCEPT ![o] = Canceled(orders[o])] ELSE orders
    BY <1>2 DEF HandleCancelOrder, UpdateOrder
  <2>2. Canceled(orders[p]) = orders[p]
    BY CancelFinished
  <2>3. QED
    BY <1>0, <2>1, <2>2
<1>3. ASSUME NEW ok \in BOOLEAN, InsertTaker(ok)
      PROVE  orders'[p] = orders[p]
  <2>1. AtNewOrder
    BY <1>3 DEF InsertTaker, AtNewOrder
  <2>2. p # taker
    BY <2>1 DEF Exact, Structure, NewOrderKnown, Present
  <2>3. QED
    BY <1>0, <1>3, <2>2 DEF InsertTaker, UpdateOrder
<1>4. ASSUME NEW ok \in BOOLEAN, SettleTaker(ok)
      PROVE  orders'[p] = orders[p]
  <2>1. p # taker
    BY <1>4, TakerOpen
  <2>2. QED
    BY <1>0, <1>4, <2>1 DEF SettleTaker, UpdateOrder
<1>5. ASSUME NEW i \in due, NEW ok \in BOOLEAN, SettleMaker(i, ok)
      PROVE  orders'[p] = orders[p]
  <2>1. p # trades[i].maker
    BY <1>5, SettledOpen
  <2>2. QED
    BY <1>0, <1>5, <2>1 DEF SettleMaker, UpdateOrder
<1>6. QED
  BY <1>1, <1>2, <1>3, <1>4, <1>5, Writes DEF Exact

-----------------------------------------------------------------------------
(* The ledger: every write of a row is a step of OrderLedger.              *)
\* The entry of a row, and the ledger of the table.
Entry(r) == [available |-> r.available, pending |-> r.pending,
             confirmed |-> r.confirmed, canceled |-> r.canceled]

LedgerOf == [o \in Order |-> IF orders[o] = NoRow THEN NoRow ELSE Entry(orders[o])]

LEMMA EntryAllowed ==
  ASSUME NEW o \in Order, NEW r \in Row, Balanced(r), NonNegative(r), r.amount = AmountOf[o]
  PROVE  Entry(r) \in Ledger!Entries(o) /\ Entry(r) # NoRow
<1> DEFINE a == r.available
           b == r.pending
           c == r.confirmed
           d == r.canceled
           n == AmountOf[o]
<1>1. a \in Nat /\ b \in Nat /\ c \in Nat /\ d \in Nat /\ n \in Nat /\ a + b + c + d = n
  BY RowAmounts, OrderAssumption DEF Balanced, NonNegative
<1>2. Entry(r) = [available |-> a, pending |-> b, confirmed |-> c, canceled |-> d]
  BY DEF Entry
<1> HIDE DEF a, b, c, d
<1>3. a \in 0 .. n /\ b \in 0 .. n /\ c \in 0 .. n /\ d \in 0 .. n
  <2> HIDE DEF n
  <2> QED
    BY <1>1
<1>4. Entry(r) \in Ledger!Entries(o)
  BY <1>1, <1>2, <1>3 DEF Ledger!Entries
<1>5. Entry(r) # NoRow
  BY <1>1, <1>2, OrderAssumption
<1>6. QED
  BY <1>4, <1>5

\* A write of a row there is moves that entry.
LEMMA LedgerWrite ==
  ASSUME TypeOK, NEW m \in Order, NEW u \in Row, orders' = [orders EXCEPT ![m] = u]
  PROVE  LedgerOf' = [LedgerOf EXCEPT ![m] = Entry(u)]
<1>1. u # NoRow /\ orders \in [Order -> Row \cup {NoRow}]
  BY OrderAssumption DEF TypeOK
<1>2. QED
  BY <1>1 DEF LedgerOf, Entry

LEMMA LedgerAdvance ==
  ASSUME Exact, Exact', NEW m \in Present, NEW u \in Row, orders' = [orders EXCEPT ![m] = u],
         u.available <= orders[m].available, u.canceled >= orders[m].canceled,
         u.confirmed - orders[m].confirmed \in 0 .. orders[m].pending
  PROVE  Ledger!Advance(m)
<1>1. m \in Order /\ orders[m] # NoRow /\ u # NoRow /\ orders \in [Order -> Row \cup {NoRow}]
  BY OrderAssumption DEF Present, Exact, BalanceInv, TypeOK
<1>2. orders'[m] = u /\ m \in Present'
  BY <1>1 DEF Present
<1>3. NonNegative(u) /\ u.amount = AmountOf[m] /\ Balanced(u)
  BY <1>2 DEF Exact, Signed, BalanceInv, AmountsBalanced, NonNegative, Balanced
<1>4. NonNegative(orders[m]) /\ orders[m].amount = AmountOf[m] /\ Balanced(orders[m])
      /\ orders[m] \in Row
  BY PresentRows DEF Exact, Signed
<1>5. /\ Entry(u) \in Ledger!Entries(m) /\ Entry(orders[m]) # NoRow
  BY <1>1, <1>3, <1>4, EntryAllowed
<1>6. LedgerOf' = [LedgerOf EXCEPT ![m] = Entry(u)] /\ LedgerOf[m] = Entry(orders[m])
  BY <1>1, LedgerWrite DEF Exact, BalanceInv, LedgerOf
<1>7. /\ Entry(u).available <= LedgerOf[m].available
      /\ Entry(u).canceled >= LedgerOf[m].canceled
      /\ Entry(u).confirmed - LedgerOf[m].confirmed \in 0 .. LedgerOf[m].pending
  BY <1>6 DEF Entry
<1>8. QED
  BY <1>5, <1>6, <1>7 DEF Ledger!Advance, LedgerOf, Entry

LEMMA LedgerUpdateMaker ==
  ASSUME Exact, Exact', dbErrors' = 0, NEW m \in Order, NEW ok \in BOOLEAN, UpdateMaker(m, ok)
  PROVE  Ledger!Advance(m)
<1> DEFINE u == MakerAfter(m)
<1>1. /\ orders' = [orders EXCEPT ![m] = u] /\ u.canceled = orders[m].canceled
      /\ u.available = orders[m].available - match.fill[m]
  BY StatusUpdateMaker DEF Exact
<1>2. m \in Present /\ orders[m] # NoRow
  BY MatchedOpen DEF Present
<1>3. u \in Row /\ u.confirmed = orders[m].confirmed /\ match.fill[m] \in Nat /\ orders[m] \in Row
  BY <1>2, MakerAfterFields DEF Exact
<1> HIDE DEF u
<1>4. NonNegative(orders[m])
  BY <1>2 DEF Exact, Signed
<1>5. /\ u.available <= orders[m].available /\ u.canceled >= orders[m].canceled
      /\ u.confirmed - orders[m].confirmed \in 0 .. orders[m].pending
  BY <1>1, <1>3, <1>4, RowAmounts DEF NonNegative
<1>6. QED
  BY <1>1, <1>2, <1>3, <1>5, LedgerAdvance

LEMMA LedgerCancelOrder ==
  ASSUME Exact, Exact', NEW o \in Order, HandleCancelOrder(o, TRUE)
  PROVE  Ledger!Advance(o)
<1> DEFINE u == Canceled(orders[o])
<1>1. orders' = [orders EXCEPT ![o] = u] /\ o \in Present
  BY DEF HandleCancelOrder, UpdateOrder, Present
<1>2. orders[o] \in Row /\ Balanced(orders[o]) /\ NonNegative(orders[o])
  BY <1>1, PresentRows DEF Exact, Signed
<1>3. /\ u \in Row /\ u.available = 0 /\ u.confirmed = orders[o].confirmed
      /\ u.canceled = orders[o].canceled + orders[o].available
  BY <1>2, CanceledBalanced, CanceledFields
<1> HIDE DEF u
<1>4. /\ u.available <= orders[o].available /\ u.canceled >= orders[o].canceled
      /\ u.confirmed - orders[o].confirmed \in 0 .. orders[o].pending
  BY <1>2, <1>3, RowAmounts DEF NonNegative
<1>5. QED
  BY <1>1, <1>3, <1>4, LedgerAdvance

LEMMA LedgerInsertTaker ==
  ASSUME Exact, Exact', InsertTaker(TRUE)
  PROVE  \E o \in Order : Ledger!Place(o)
<1>1. /\ AtNewOrder /\ orders' = [orders EXCEPT ![taker] = row]
  BY DEF InsertTaker, UpdateOrder, AtNewOrder
<1>2. taker \in Order /\ row \in Row /\ orders[taker] = NoRow /\ row # NoRow
  BY <1>1, OrderAssumption
     DEF Exact, BalanceInv, TypeOK, LocalsKnown, Structure, NewOrderKnown, AtNewOrder
<1>3. row.confirmed = 0
  BY <1>1 DEF Exact, BookFits, TakerFits
<1>4. PICK o \in Order : o = taker
  BY <1>2
<1>5. orders'[o] = row /\ o \in Present'
  BY <1>1, <1>2, <1>4 DEF Present, Exact, BalanceInv, TypeOK
<1>6. NonNegative(row) /\ row.amount = AmountOf[o] /\ Balanced(row)
  BY <1>5 DEF Exact, Signed, BalanceInv, AmountsBalanced, NonNegative, Balanced
<1>7. Entry(row) \in Ledger!Entries(o)
  BY <1>2, <1>6, EntryAllowed
<1>8. LedgerOf' = [LedgerOf EXCEPT ![o] = Entry(row)] /\ LedgerOf[o] = NoRow
  BY <1>1, <1>2, <1>4, LedgerWrite DEF Exact, BalanceInv, LedgerOf
<1>9. Entry(row).confirmed = 0
  BY <1>3 DEF Entry
<1>10. Ledger!Place(o)
  BY <1>7, <1>8, <1>9 DEF Ledger!Place, LedgerOf, Entry
<1>11. QED
  BY <1>10

LEMMA LedgerSettleMaker ==
  ASSUME Exact, Exact', NEW i \in due, SettleMaker(i, TRUE)
  PROVE  \E m \in Order : Ledger!Advance(m)
<1> DEFINE n == trades[i].amount
           u == AutoSetStatusByAmounts(Settled(orders[trades[i].maker], n, outcome))
<1>1. PICK m \in Present : m = trades[i].maker
  BY SettledOpen DEF Exact
<1>2. m \in Order
  BY DEF Present
<1>3. /\ u \in Row /\ u.available = orders[m].available
      /\ u.confirmed = (IF outcome = "successful" THEN orders[m].confirmed + n
                                                  ELSE orders[m].confirmed)
      /\ u.canceled = (IF outcome = "successful" THEN orders[m].canceled
                                                 ELSE orders[m].canceled + n)
      /\ UpdateOrder(trades[i].maker, u, TRUE)
  BY <1>1, SettleMakerWrites DEF Exact
<1>4. orders[m].pending >= n /\ n \in Nat
  BY <1>1, SettledOrders DEF Exact
<1>5. orders[m] \in Row /\ NonNegative(orders[m])
  BY PresentRows DEF Exact, Signed
<1> HIDE DEF u
<1>6. orders' = [orders EXCEPT ![m] = u]
  BY <1>1, <1>3 DEF UpdateOrder
<1> HIDE DEF n
<1>7. /\ u.available <= orders[m].available /\ u.canceled >= orders[m].canceled
      /\ u.confirmed - orders[m].confirmed \in 0 .. orders[m].pending
  BY <1>3, <1>4, <1>5, RowAmounts DEF NonNegative
<1>8. Ledger!Advance(m)
  BY <1>3, <1>6, <1>7, LedgerAdvance
<1>9. QED
  BY <1>2, <1>8

LEMMA LedgerSettleTaker ==
  ASSUME Exact, Exact', SettleTaker(TRUE)
  PROVE  \E m \in Order : Ledger!Advance(m)
<1> DEFINE u == AutoSetStatusByAmounts(row)
<1>1. AtSettle /\ orders' = [orders EXCEPT ![taker] = u]
  BY DEF SettleTaker, UpdateOrder, AtSettle
<1>2. PICK m \in Present : m = taker
  BY TakerOpen
<1>3. m \in Order
  BY DEF Present
<1>4. /\ u \in Row /\ u.available = row.available /\ u.pending = row.pending
      /\ u.confirmed = row.confirmed /\ u.canceled = row.canceled
      /\ u.amount = row.amount /\ Balanced(u)
  BY AutoSetStatusBalanced, AutoSetStatusFields DEF Exact, BalanceInv, TypeOK, RowAtWork
<1>5. /\ row.available = orders[m].available /\ row.confirmed >= orders[m].confirmed
      /\ row.canceled >= orders[m].canceled /\ row.amount = AmountOf[m]
  BY <1>1, <1>2 DEF Exact, BookFits, SettleFits, Structure, SettleKnown
<1>6. /\ orders[m] \in Row /\ NonNegative(orders[m]) /\ Balanced(orders[m])
      /\ orders[m].amount = AmountOf[m]
  BY PresentRows DEF Exact, Signed
<1> HIDE DEF u
<1>7. u.pending >= 0
  <2>1. row.pending >= Vol(Ours(taker)) /\ row.pending \in Int
    BY <1>1, RowAmounts DEF Exact, PendingInv, SettleExact, BalanceInv, TypeOK
  <2>2. Vol(Ours(taker)) \in Nat
    BY <1>2, PresentRows DEF Exact
  <2>3. QED
    BY <1>4, <2>1, <2>2
<1>8. /\ u.available <= orders[m].available /\ u.canceled >= orders[m].canceled
      /\ u.confirmed - orders[m].confirmed \in 0 .. orders[m].pending
  BY <1>4, <1>5, <1>6, <1>7, RowAmounts DEF NonNegative, Balanced
<1>9. Ledger!Advance(m)
  BY <1>1, <1>2, <1>4, <1>8, LedgerAdvance
<1>10. QED
  BY <1>3, <1>9

LEMMA LedgerStep ==
  ASSUME Exact, Exact', dbErrors' = 0, [Next]_vars
  PROVE  Ledger!Next \/ LedgerOf' = LedgerOf
<1>0. ASSUME NEW ok \in BOOLEAN, Db(ok)
      PROVE  ok = TRUE
  BY <1>0, DbSaved DEF Exact, BalanceInv
<1>1. CASE orders' = orders
  BY <1>1 DEF LedgerOf, Entry
<1>2. ASSUME NEW o \in Order, NEW ok \in BOOLEAN,
             UpdateMaker(o, ok) \/ HandleCancelOrder(o, ok)
      PROVE  Ledger!Advance(o)
  <2>1. Db(ok)
    BY <1>2 DEF UpdateMaker, HandleCancelOrder
  <2>2. ok = TRUE
    BY <1>0, <2>1
  <2>3. QED
    BY <1>2, <2>2, LedgerUpdateMaker, LedgerCancelOrder
<1>3. ASSUME NEW ok \in BOOLEAN, InsertTaker(ok) \/ SettleTaker(ok)
      PROVE  Ledger!Next
  <2>1. Db(ok)
    BY <1>3 DEF InsertTaker, SettleTaker
  <2>2. ok = TRUE
    BY <1>0, <2>1
  <2>3. CASE InsertTaker(ok)
    <3>1. \E o \in Order : Ledger!Place(o)
      BY <2>2, <2>3, LedgerInsertTaker
    <3>2. QED
      BY <3>1 DEF Ledger!Next
  <2>4. CASE SettleTaker(ok)
    <3>1. \E m \in Order : Ledger!Advance(m)
      BY <2>2, <2>4, LedgerSettleTaker
    <3>2. QED
      BY <3>1 DEF Ledger!Next
  <2>5. QED
    BY <1>3, <2>3, <2>4
<1>4. ASSUME NEW i \in due, NEW ok \in BOOLEAN, SettleMaker(i, ok)
      PROVE  Ledger!Next
  <2>1. Db(ok)
    BY <1>4 DEF SettleMaker
  <2>2. SettleMaker(i, TRUE)
    BY <1>0, <1>4, <2>1
  <2>3. QED
    BY <2>2, LedgerSettleMaker DEF Ledger!Next
<1>5. ASSUME NEW o \in Order, NEW ok \in BOOLEAN,
             UpdateMaker(o, ok) \/ HandleCancelOrder(o, ok)
      PROVE  Ledger!Next
  BY <1>2, <1>5 DEF Ledger!Next
<1>6. QED
  BY <1>1, <1>3, <1>4, <1>5, Writes DEF Exact

LEMMA LedgerInit == Init => Ledger!Init
  BY DEF Init, Ledger!Init

-----------------------------------------------------------------------------
(* The handler's invariant holds at every point of every handler, with any *)
(* number of crashes, failed writes and repeated results.                  *)
THEOREM HandlerInvariant == Spec => []HandlerInv
<1>1. Init => HandlerInv
  BY HandlerInit
<1>2. HandlerInv /\ [Next]_vars => HandlerInv'
  BY HandlerNext
<1>3. QED
  BY <1>1, <1>2, PTL DEF Spec

(* Two orders resting in the book never cross each other, not even when    *)
(* NewMarketHandler re-inserted them from a table that a crash left in the *)
(* middle of a match, and whatever matches the book canceled; only a write *)
(* of a row that failed can bring it about.                                *)
THEOREM BookNeverCrossed == Spec => []NoCrossedBook
<1>1. HandlerInv => NoCrossedBook
  BY UncrossedBook DEF HandlerInv
<1>2. QED
  BY <1>1, HandlerInvariant, PTL

(* What HandleNewOrder, HandleCancelOrder and NewMarketHandler leave in    *)
(* the in-memory book is what the rows of the orders say is available.     *)
THEOREM BookIsBacked == Spec => []BookBacked
<1>1. HandlerInv => BookBacked
  BY BackedBook
<1>2. QED
  BY <1>1, HandlerInvariant, PTL

(* Every row has the status its amounts call for, even the rows that       *)
(* handleNewOrder saves without AutoSetStatusByAmounts, as long as the     *)
(* book leaves no dust and no write fails; crashes and results that are    *)
(* reported again do not matter.                                           *)
THEOREM StatusIsExact == Spec => [](~Dust /\ dbErrors = 0 => StatusAgrees)
<1>1. HandlerInv => (~Dust /\ dbErrors = 0 => StatusAgrees)
  BY DEF HandlerInv, StatusInv
<1>2. QED
  BY <1>1, HandlerInvariant, PTL

(* handleTransactionResult confirms no order beyond its trades and unlocks *)
(* nothing that is not locked, wherever the engine was stopped, as long as *)
(* the book leaves no dust, no write fails and no result is reported again. *)
THEOREM SettledOnlyOnce ==
  Spec => [](~Dust /\ dbErrors = 0 /\ repeats = 0 => NeverOverSettled)
<1>1. HandlerInv => (~Dust /\ dbErrors = 0 /\ repeats = 0 => NeverOverSettled)
  BY HandlerExact, OverSettledNever
<1>2. QED
  BY <1>1, HandlerInvariant, PTL

(* Between two events the pending amount of an order is the volume of its  *)
(* pending trades and its confirmed amount that of its successful ones,    *)
(* under the same conditions and while nothing has crashed.                *)
THEOREM AmountsAreTrades ==
  Spec => [](~Dust /\ dbErrors = 0 /\ repeats = 0 => AmountsMatchTrades)
<1>1. HandlerInv => (~Dust /\ dbErrors = 0 /\ repeats = 0 => AmountsMatchTrades)
  BY HandlerExact, AmountsMatch
<1>2. QED
  BY <1>1, HandlerInvariant, PTL

\* The steps of a behaviour without such faults are between exact states.
LEMMA ExactAlways ==
  ASSUME ~Dust, MaxDbErrors = 0, MaxRepeats = 0
  PROVE  Spec => [](Exact /\ dbErrors = 0)
<1>1. HandlerInv => Exact /\ dbErrors = 0
  BY HandlerExact, FaultFree DEF HandlerInv, BalanceInv
<1>2. QED
  BY <1>1, HandlerInvariant, PTL

(* Once an order is full filled, canceled or partly filled, no event and   *)
(* no restart changes its row: handleCancelOrder writes it as it is, and   *)
(* neither a match nor a result can reach it, however many crashes.        *)
THEOREM FinishedForGood ==
  ASSUME ~Dust, MaxDbErrors = 0, MaxRepeats = 0
  PROVE  Spec => FinishedIsFinal
<1>1. Exact /\ Exact' /\ [Next]_vars =>
        [\A o \in Present : orders[o].status # "pending" => orders'[o] = orders[o]]_vars
  <2> SUFFICES ASSUME Exact, Exact', [Next]_vars
               PROVE  \A o \in Present : orders[o].status # "pending" => orders'[o] = orders[o]
    OBVIOUS
  <2>1. Structure'
    BY DEF Exact
  <2>2. QED
    BY <2>1, FinishedStays
<1>2. QED
  BY <1>1, ExactAlways, PTL DEF Spec, FinishedIsFinal

(* The orders table implements OrderLedger: InsertOrder of the taker       *)
(* places an order, each write of a row moves units of one order forward,  *)
(* and every other step of engine and launcher leaves the amounts alone,   *)
(* with any number of crashes and restarts.                                *)
THEOREM ImplementsLedger ==
  ASSUME ~Dust, MaxDbErrors = 0, MaxRepeats = 0
  PROVE  Spec => LedgerSpec
<1>1. (Exact /\ dbErrors = 0) /\ (Exact /\ dbErrors = 0)' /\ [Next]_vars =>
        Ledger!Next \/ LedgerOf' = LedgerOf
  BY LedgerStep
<1>2. Ledger!Next \/ LedgerOf' = LedgerOf => [Ledger!Next]_LedgerOf
  OBVIOUS
<1>3. QED
  BY <1>1, <1>2, LedgerInit, ExactAlways, PTL DEF Spec, LedgerSpec, Ledger!Spec, LedgerOf, Entry
=============================================================================
