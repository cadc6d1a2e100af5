----------------------------- MODULE Settlement -----------------------------
(***************************************************************************)
(* From a launch log to a settled trade: the launcher                      *)
(* (backend/cli/launcher/main.go) sends what the engine and the admin API  *)
(* have put in table launch_logs and stores the hashes, the chain mines,   *)
(* the watcher (backend/cli/watcher/main.go) scans the blocks and reports  *)
(* the results through the Redis queue, and the engine settles the trades. *)
(* The four run on their own and share only the tables, the queue and the  *)
(* cached block number; each may crash between any two of its steps.       *)
(*                                                                         *)
(* A hash is the position of the transaction in the chain's list of sent   *)
(* transactions, 0 standing for NULL.  The engine is the handler of one    *)
(* market.  What it does with the orders of a match or of a result is in   *)
(* module MarketHandler; here are the writes other processes can see or a  *)
(* crash can part.                                                         *)
(***************************************************************************)
EXTENDS Integers, Sequences, FiniteSets

CONSTANTS
  Log,          \* IDs of launch logs, in the order they are inserted
  KindOf,       \* item_type of each
  TradesOf,     \* number of trades of each
  BlockSize,    \* most transactions in a block
  MaxLauncherFaults, \* most failed sends and crashes of the launcher together
  MaxPushErrors, MaxWatcherCrashes, MaxEngineCrashes

ASSUME LogAssumption ==
  /\ Log \subseteq Nat
  /\ IsFiniteSet(Log)
  /\ KindOf \in [Log -> {"hydroTrade", "hydroApprove"}]
  /\ TradesOf \in [Log -> Nat]
  /\ \A l \in Log : KindOf[l] = "hydroTrade" <=> TradesOf[l] > 0

ASSUME ChainAssumption == BlockSize \in Nat \ {0}

VARIABLES
  logs,      \* table launch_logs
  txs,       \* table transactions, by the launch log of the transaction
  trades,    \* table trades, likewise
  settled,   \* how often each trade's amount left pending in the maker's row
  takerSettled, \* and how often in the taker's

  sent,      \* the chain: every transaction it accepted, in order of nonce
  head,      \* the chain's last block

  lpc,       \* launcher: where Run is
  batch,     \* launchLogs not yet reached
  at,        \* the launch log at work
  hash,      \* its hash
  unhashed,  \* its trades that have not been saved yet

  wpc,       \* watcher: where it is
  block,     \* the block it is in
  found,     \* that block's transactions not yet handled
  cached,    \* HYDRO_WATCHER_BLOCK_NUMBER_CACHE_KEY, 0 if empty
  reported,  \* how often each launch log's result was pushed (history)

  queue,     \* HYDRO_ENGINE_EVENTS_QUEUE_KEY
  epc,       \* engine: where handleNewOrder or handleTransactionResult is
  event,     \* the result at work
  todo,      \* trades (launch log, number) it has still to write
  listed,    \* all the trades it found by the result's hash

  sendErrors, pushErrors, lcrashes, wcrashes, ecrashes

tables   == <<logs, txs, trades, settled, takerSettled>>
chain    == <<sent, head>>
launcher == <<lpc, batch, at, hash, unhashed>>
watcher  == <<wpc, block, found, cached, reported>>
engine   == <<epc, event, todo, listed>>
faults   == <<sendErrors, pushErrors, lcrashes, wcrashes, ecrashes>>
vars     == <<tables, chain, launcher, watcher, queue, engine, faults>>

-----------------------------------------------------------------------------
Outcome == {"successful", "failed"}

Statuses == {"absent", "created", "pending"} \cup Outcome

Event == [hash : Nat, status : Outcome]

NoEvent == [hash |-> 0, status |-> "failed"]

MutResultOf(h) == "successful"
ResultOf(h) == IF sent[h].ok THEN "successful" ELSE "failed"

Init ==
  /\ logs = [l \in Log |-> [status |-> "absent", hash |-> 0]]
  /\ txs = [l \in Log |-> [status |-> "pending", hash |-> 0]]
  /\ trades = [l \in Log |->
                 [i \in 1 .. TradesOf[l] |-> [status |-> "absent", hash |-> 0]]]
  /\ settled = [l \in Log |-> [i \in 1 .. TradesOf[l] |-> 0]]
  /\ takerSettled = settled
  /\ sent = <<>>
  /\ head = 0
  /\ lpc = "poll" /\ batch = {} /\ at = 0 /\ hash = 0 /\ unhashed = {}
  /\ wpc = "scan" /\ block = 0 /\ found = {} /\ cached = 0
  /\ reported = [l \in Log |-> 0]
  /\ queue = <<>>
  /\ epc = "idle" /\ event = NoEvent /\ todo = {} /\ listed = {}
  /\ sendErrors = 0 /\ pushErrors = 0
  /\ lcrashes = 0 /\ wcrashes = 0 /\ ecrashes = 0

-----------------------------------------------------------------------------
(* A match: the engine inserts the transaction and its launch log, then    *)
(* the trades, one by one.                                                 *)
NextLog(l) ==
  /\ logs[l].status = "absent"
  /\ \A k \in Log : k < l => logs[k].status # "absent"

InsertLog(l) ==
  /\ epc = "idle"
  /\ KindOf[l] = "hydroTrade"
  /\ NextLog(l)
  /\ logs' = [logs EXCEPT ![l].status = "created"]
  /\ todo' = {<<l, i>> : i \in DOMAIN trades[l]}
  /\ epc' = "insert"
  /\ UNCHANGED <<txs, trades, settled, takerSettled, chain, launcher, watcher, queue,
                 event, listed, faults>>

InsertTrade(x) ==
  /\ epc = "insert"
  /\ x \in todo
  /\ \A y \in todo : x[2] <= y[2]
  /\ trades' = [trades EXCEPT ![x[1]][x[2]].status = "pending"]
  /\ todo' = todo \ {x}
  /\ epc' = IF todo = {x} THEN "idle" ELSE "insert"
  /\ UNCHANGED <<logs, txs, settled, takerSettled, chain, launcher, watcher, queue,
                 event, listed, faults>>

(* The admin API's approval, which has no transaction and no trades.       *)
ApproveToken(l) ==
  /\ KindOf[l] = "hydroApprove"
  /\ NextLog(l)
  /\ logs' = [logs EXCEPT ![l].status = "created"]
  /\ UNCHANGED <<txs, trades, settled, takerSettled, chain, launcher, watcher, queue,
                 engine, faults>>

-----------------------------------------------------------------------------
(* The launcher.                                                           *)
MutCreatedAlsoPending == {l \in Log : logs[l].status \in {"created", "pending"}}
Created == {l \in Log : logs[l].status = "created"}

FindAllCreated ==
  /\ lpc = "poll"
  /\ Created # {}
  /\ batch' = Created
  /\ lpc' = "send"
  /\ UNCHANGED <<tables, chain, at, hash, unhashed, watcher, queue, engine, faults>>

MutOldest(l) == l \in batch
Oldest(l) == l \in batch /\ \A k \in batch : l <= k

Accepted(l) == sent' = Append(sent, [log |-> l, block |-> 0, ok |-> FALSE])

SendRawTransaction(l) ==
  /\ lpc = "send"
  /\ Oldest(l)
  /\ Accepted(l)
  /\ at' = l
  /\ hash' = Len(sent) + 1
  /\ batch' = batch \ {l}
  /\ lpc' = "saveLog"
  /\ UNCHANGED <<tables, head, unhashed, watcher, queue, engine, faults>>

(* An error is a panic, whether or not the node took the transaction.      *)
LauncherStops ==
  /\ lpc' = "down"
  /\ batch' = {}
  /\ at' = 0
  /\ hash' = 0
  /\ unhashed' = {}

SendFails(l) ==
  /\ lpc = "send"
  /\ Oldest(l)
  /\ sendErrors + lcrashes < MaxLauncherFaults
  /\ sendErrors' = sendErrors + 1
  /\ Accepted(l) \/ UNCHANGED sent
  /\ LauncherStops
  /\ UNCHANGED <<tables, head, watcher, queue, engine, pushErrors, lcrashes,
                 wcrashes, ecrashes>>

Continue == IF batch = {} THEN "poll" ELSE "send"

(* UpdateLaunchLogToPending: the launch log, then its transaction, then    *)
(* each trade it finds by then.  A failed write is a panic, like a crash   *)
(* before it.  A trade found has no result: it has had no hash.            *)
MutSaveLogHashOnly ==
  /\ lpc = "saveLog"
  /\ logs' = [logs EXCEPT ![at].hash = hash]
  /\ lpc' = IF KindOf[at] = "hydroApprove" THEN Continue ELSE "saveTx"
  /\ UNCHANGED <<txs, trades, settled, takerSettled, chain, batch, at, hash, unhashed,
                 watcher, queue, engine, faults>>
SaveLog ==
  /\ lpc = "saveLog"
  /\ logs' = [logs EXCEPT ![at] = [status |-> "pending", hash |-> hash]]
  /\ lpc' = IF KindOf[at] = "hydroApprove" THEN Continue ELSE "saveTx"
  /\ UNCHANGED <<txs, trades, settled, takerSettled, chain, batch, at, hash, unhashed,
                 watcher, queue, engine, faults>>

SaveTransaction ==
  /\ lpc = "saveTx"
  /\ txs' = [txs EXCEPT ![at].hash = hash]
  /\ unhashed' = {i \in DOMAIN trades[at] : trades[at][i].status # "absent"}
  /\ lpc' = IF unhashed' = {} THEN Continue ELSE "saveTrades"
  /\ UNCHANGED <<logs, trades, settled, takerSettled, chain, batch, at, hash, watcher,
                 queue, engine, faults>>

SaveTrade(i) ==
  /\ lpc = "saveTrades"
  /\ i \in unhashed
  /\ \A j \in unhashed : i <= j
  /\ trades' = [trades EXCEPT ![at][i] = [status |-> "pending", hash |-> hash]]
  /\ unhashed' = unhashed \ {i}
  /\ lpc' = IF unhashed = {i} THEN Continue ELSE "saveTrades"
  /\ UNCHANGED <<logs, txs, settled, takerSettled, chain, batch, at, hash, watcher,
                 queue, engine, faults>>

LauncherCrash ==
  /\ lpc # "down"
  /\ sendErrors + lcrashes < MaxLauncherFaults
  /\ lcrashes' = lcrashes + 1
  /\ LauncherStops
  /\ UNCHANGED <<tables, chain, watcher, queue, engine, sendErrors, pushErrors,
                 wcrashes, ecrashes>>

LauncherStart ==
  /\ lpc = "down"
  /\ lpc' = "poll"
  /\ UNCHANGED <<tables, chain, batch, at, hash, unhashed, watcher, queue, engine,
                 faults>>

Launcher ==
  \/ FindAllCreated
  \/ \E l \in Log : SendRawTransaction(l)
  \/ SaveLog
  \/ SaveTransaction
  \/ \E i \in unhashed : SaveTrade(i)
  \/ LauncherStart

-----------------------------------------------------------------------------
(* The chain, external: a block takes the oldest transactions sent, and    *)
(* each succeeds or reverts.                                               *)
Unmined == {h \in DOMAIN sent : sent[h].block = 0}

Mine ==
  /\ head' = head + 1
  /\ \E picked \in SUBSET Unmined, good \in SUBSET Unmined :
       /\ picked # {}
       /\ Cardinality(picked) <= BlockSize
       /\ good \subseteq picked
       /\ \A h \in picked, k \in Unmined \ picked : h < k
       /\ sent' = [h \in DOMAIN sent |->
                     IF h \in picked
                     THEN [sent[h] EXCEPT !.block = head + 1, !.ok = h \in good]
                     ELSE sent[h]]
  /\ UNCHANGED <<tables, launcher, watcher, queue, engine, faults>>

-----------------------------------------------------------------------------
(* The watcher: block after block, transaction after transaction.          *)
InBlock(b) == {h \in DOMAIN sent : sent[h].block = b}

ScanBlock ==
  /\ wpc = "scan"
  /\ found = {}
  /\ block < head
  /\ block' = block + 1
  /\ found' = InBlock(block')
  /\ UNCHANGED <<tables, chain, launcher, wpc, cached, reported, queue, engine, faults>>

FirstFound(h) == h \in found /\ \A k \in found : h <= k

LogsByHash(h) == {l \in Log : logs[l].hash = h}

(* TxHandlerFunc of a transaction no launch log has the hash of, or whose  *)
(* launch log is not pending.                                              *)
SkipTransaction(h) ==
  /\ wpc = "scan"
  /\ FirstFound(h)
  /\ \A l \in LogsByHash(h) : logs[l].status # "pending"
  /\ found' = found \ {h}
  /\ UNCHANGED <<tables, chain, launcher, wpc, block, cached, reported, queue, engine,
                 faults>>

ConfirmApproval(h) ==
  /\ wpc = "scan"
  /\ FirstFound(h)
  /\ \E l \in LogsByHash(h) :
       /\ logs[l].status = "pending"
       /\ KindOf[l] = "hydroApprove"
       /\ logs' = [logs EXCEPT ![l].status = ResultOf(h)]
  /\ found' = found \ {h}
  /\ UNCHANGED <<txs, trades, settled, takerSettled, chain, launcher, wpc, block, cached,
                 reported, queue, engine, faults>>

(* A failed push is logged and forgotten.                                  *)
PushConfirmation(h, ok) ==
  /\ wpc = "scan"
  /\ FirstFound(h)
  /\ \E l \in LogsByHash(h) :
       logs[l].status = "pending" /\ KindOf[l] = "hydroTrade"
  /\ ~ok => pushErrors < MaxPushErrors
  /\ pushErrors' = IF ok THEN pushErrors ELSE pushErrors + 1
  /\ queue' = IF ok THEN Append(queue, [hash |-> h, status |-> ResultOf(h)])
                    ELSE queue
  /\ reported' = [l \in Log |-> IF ok /\ l \in LogsByHash(h) THEN reported[l] + 1
                                                           ELSE reported[l]]
  /\ wpc' = "saveBlock"
  /\ UNCHANGED <<tables, chain, launcher, block, found, cached, engine, sendErrors,
                 lcrashes, wcrashes, ecrashes>>

MutSaveBlockAhead(h) ==
  /\ wpc = "saveBlock"
  /\ FirstFound(h)
  /\ cached' = head
  /\ found' = found \ {h}
  /\ wpc' = "scan"
  /\ UNCHANGED <<tables, chain, launcher, block, reported, queue, engine, faults>>
SaveBlock(h) ==
  /\ wpc = "saveBlock"
  /\ FirstFound(h)
  /\ cached' = block
  /\ found' = found \ {h}
  /\ wpc' = "scan"
  /\ UNCHANGED <<tables, chain, launcher, block, reported, queue, engine, faults>>

WatcherCrash ==
  /\ wpc # "down"
  /\ wcrashes < MaxWatcherCrashes
  /\ wcrashes' = wcrashes + 1
  /\ wpc' = "down"
  /\ found' = {}
  /\ UNCHANGED <<tables, chain, launcher, block, cached, reported, queue, engine,
                 sendErrors, pushErrors, lcrashes, ecrashes>>

(* main: from the block after the cached one, or from the first.           *)
WatcherStart ==
  /\ wpc = "down"
  /\ block' = cached
  /\ wpc' = "scan"
  /\ UNCHANGED <<tables, chain, launcher, found, cached, reported, queue, engine, faults>>

Watcher ==
  \/ ScanBlock
  \/ \E h \in found :
       \/ SkipTransaction(h)
       \/ ConfirmApproval(h)
       \/ PushConfirmation(h, TRUE)
       \/ SaveBlock(h)
  \/ WatcherStart

-----------------------------------------------------------------------------
(* The engine: handleTransactionResult.  A hash no transaction has is a    *)
(* panic, and the event is gone.                                           *)
TransactionsByHash(h) == {l \in Log : txs[l].hash = h}

MutTakeConfirmationLeavesIt ==
  /\ epc = "idle"
  /\ queue # <<>>
  /\ \E l \in TransactionsByHash(Head(queue).hash) :
       txs' = [txs EXCEPT ![l].status = Head(queue).status]
  /\ event' = Head(queue)
  /\ epc' = "log"
  /\ UNCHANGED <<logs, trades, settled, takerSettled, chain, launcher, watcher, queue,
                 todo, listed, faults>>
TakeConfirmation ==
  /\ epc = "idle"
  /\ queue # <<>>
  /\ queue' = Tail(queue)
  /\ LET e == Head(queue)
     IN  \/ /\ TransactionsByHash(e.hash) = {}
            /\ UNCHANGED <<txs, epc, event>>
         \/ \E l \in TransactionsByHash(e.hash) :
              /\ txs' = [txs EXCEPT ![l].status = e.status]
              /\ event' = e
              /\ epc' = "log"
  /\ UNCHANGED <<logs, trades, settled, takerSettled, chain, launcher, watcher, todo,
                 listed, faults>>

ConfirmLog ==
  /\ epc = "log"
  /\ logs' = [l \in Log |-> IF l \in TransactionsByHash(event.hash)
                            THEN [logs[l] EXCEPT !.status = event.status]
                            ELSE logs[l]]
  /\ epc' = "trades"
  /\ UNCHANGED <<txs, trades, settled, takerSettled, chain, launcher, watcher, queue,
                 event, todo, listed, faults>>

(* The trades found by the hash, none being a panic.                       *)
MutTradesByTransaction ==
  UNION {{<<l, i>> : i \in DOMAIN trades[l]} : l \in TransactionsByHash(event.hash)}
TradesByHash ==
  UNION {{<<l, i>> : i \in {j \in DOMAIN trades[l] : trades[l][j].hash = event.hash}} :
          l \in Log}

FindTrades ==
  /\ epc = "trades"
  /\ todo' = TradesByHash
  /\ listed' = TradesByHash
  /\ IF TradesByHash = {}
     THEN epc' = "idle" /\ event' = NoEvent
     ELSE epc' = "maker" /\ UNCHANGED event
  /\ UNCHANGED <<tables, chain, launcher, watcher, queue, faults>>

(* The newest first: its maker's row, the trade itself, and after the last *)
(* one the taker's row, for all of them.                                   *)
Newest(x) == x \in todo /\ \A y \in todo : y[2] <= x[2]

SettleMaker(x) ==
  /\ epc = "maker"
  /\ Newest(x)
  /\ settled' = [settled EXCEPT ![x[1]][x[2]] = @ + 1]
  /\ epc' = "trade"
  /\ UNCHANGED <<logs, txs, trades, takerSettled, chain, launcher, watcher, queue,
                 event, todo, listed, faults>>

SettleTrade(x) ==
  /\ epc = "trade"
  /\ Newest(x)
  /\ trades' = [trades EXCEPT ![x[1]][x[2]].status = event.status]
  /\ todo' = todo \ {x}
  /\ epc' = IF todo = {x} THEN "taker" ELSE "maker"
  /\ UNCHANGED <<logs, txs, settled, takerSettled, chain, launcher, watcher, queue,
                 event, listed, faults>>

SettleTaker ==
  /\ epc = "taker"
  /\ takerSettled' = [l \in Log |-> [i \in DOMAIN trades[l] |->
                        IF <<l, i>> \in listed THEN takerSettled[l][i] + 1
                                              ELSE takerSettled[l][i]]]
  /\ listed' = {}
  /\ event' = NoEvent
  /\ epc' = "idle"
  /\ UNCHANGED <<logs, txs, trades, settled, chain, launcher, watcher, queue, todo,
                 faults>>

EngineCrash ==
  /\ epc # "down"
  /\ ecrashes < MaxEngineCrashes
  /\ ecrashes' = ecrashes + 1
  /\ epc' = "down"
  /\ event' = NoEvent
  /\ todo' = {}
  /\ listed' = {}
  /\ UNCHANGED <<tables, chain, launcher, watcher, queue, sendErrors, pushErrors,
                 lcrashes, wcrashes>>

EngineStart ==
  /\ epc = "down"
  /\ epc' = "idle"
  /\ UNCHANGED <<tables, chain, launcher, watcher, queue, event, todo, listed, faults>>

Engine ==
  \/ TakeConfirmation
  \/ ConfirmLog
  \/ FindTrades
  \/ \E x \in todo : InsertTrade(x) \/ SettleMaker(x) \/ SettleTrade(x)
  \/ SettleTaker
  \/ EngineStart

-----------------------------------------------------------------------------
Next ==
  \/ \E l \in Log : InsertLog(l) \/ ApproveToken(l) \/ SendFails(l)
  \/ Launcher
  \/ Mine
  \/ Watcher
  \/ \E h \in found : PushConfirmation(h, FALSE)
  \/ Engine
  \/ LauncherCrash
  \/ WatcherCrash
  \/ EngineCrash

Spec == Init /\ [][Next]_vars

(* Each process is run again when it stops (restart: always in the compose *)
(* files) and polls for ever; the chain mines what it has accepted.        *)
FairSpec ==
  /\ Spec
  /\ WF_vars(Launcher)
  /\ WF_vars(Mine)
  /\ WF_vars(Watcher)
  /\ WF_vars(Engine)
-----------------------------------------------------------------------------
Row == [status : Statuses, hash : Nat]

AllTrades == UNION {{<<l, i>> : i \in 1 .. TradesOf[l]} : l \in Log}

TypeOK ==
  /\ logs \in [Log -> Row]
  /\ txs \in [Log -> Row]
  /\ \A l \in Log : /\ trades[l] \in [1 .. TradesOf[l] -> Row]
                    /\ settled[l] \in [1 .. TradesOf[l] -> Nat]
                    /\ takerSettled[l] \in [1 .. TradesOf[l] -> Nat]
  /\ sent \in Seq([log : Log, block : Nat, ok : BOOLEAN])
  /\ head \in Nat
  /\ lpc \in {"poll", "send", "saveLog", "saveTx", "saveTrades", "down"}
  /\ batch \subseteq Log
  /\ at \in Log \cup {0}
  /\ hash \in 0 .. Len(sent)
  /\ unhashed \subseteq Nat
  /\ wpc \in {"scan", "saveBlock", "down"}
  /\ block \in 0 .. head
  /\ found \subseteq DOMAIN sent
  /\ cached \in 0 .. head
  /\ reported \in [Log -> Nat]
  /\ queue \in Seq(Event)
  /\ epc \in {"idle", "insert", "log", "trades", "maker", "trade", "taker", "down"}
  /\ event \in Event
  /\ todo \subseteq AllTrades
  /\ listed \subseteq AllTrades

(* A result in any of the three tables, or on its way to them, is what the *)
(* chain did with the transaction whose hash stands next to it, whichever  *)
(* process crashed and however often a launch log was sent.                *)
IsResult(r) ==
  r.status \in Outcome =>
    /\ r.hash \in DOMAIN sent
    /\ sent[r.hash].block > 0
    /\ r.status = "successful" <=> sent[r.hash].ok

ResultsAreMined ==
  /\ \A l \in Log : /\ IsResult(logs[l])
                    /\ IsResult(txs[l])
                    /\ \A i \in DOMAIN trades[l] : IsResult(trades[l][i])
  /\ \A i \in DOMAIN queue : IsResult(queue[i])

(* While the launcher does not crash and no send fails, a launch log is    *)
(* sent once, however the polls and the writes interleave with the rest.   *)
Attempts(l) == {h \in DOMAIN sent : sent[h].log = l}

SentOnce ==
  \A l \in Log : Cardinality(Attempts(l)) <= 1 + lcrashes + sendErrors

(* The settlements reach the chain in the order the engine decided them: a *)
(* later launch log never overtakes an earlier one, retries included.      *)
SentInOrder ==
  \A h, k \in DOMAIN sent : h < k => sent[h].log <= sent[k].log

(* A result is pushed once in each life of the watcher at most, although a *)
(* restarted one scans again what it had scanned; and a trade's amount     *)
(* leaves pending, in either order's row, once for each time its result    *)
(* was pushed at most, whatever the queue holds and wherever the engine    *)
(* crashes.                                                                *)
SettledAsReported ==
  \A l \in Log :
    /\ reported[l] <= 1 + wcrashes
    /\ \A i \in DOMAIN trades[l] : /\ settled[l][i] <= reported[l]
                                   /\ takerSettled[l][i] <= reported[l]

(* The three rows of a settlement agree: no trade is final whose amount is *)
(* still pending in its maker's row, the taker's row is never ahead of the *)
(* maker's, and while the engine has not crashed only the trade at work    *)
(* has a settled maker and no result, and only a result at work has        *)
(* settled makers and a pending taker.                                     *)
AtWork(l, i) == epc = "trade" /\ Newest(<<l, i>>)

SettledIffFinal ==
  \A l \in Log : \A i \in DOMAIN trades[l] :
    /\ trades[l][i].status \in Outcome => settled[l][i] > 0
    /\ takerSettled[l][i] <= settled[l][i]
    /\ ecrashes = 0 =>
         /\ settled[l][i] > 0 => trades[l][i].status \in Outcome \/ AtWork(l, i)
         /\ settled[l][i] > takerSettled[l][i] => <<l, i>> \in listed

(* The launch log's life (module LaunchLifecycle).                         *)
Stage == [l \in Log |-> logs[l].status]

SentLogs == {sent[h].log : h \in DOMAIN sent}

ResultsOf ==
  [l \in Log |-> {IF sent[h].ok THEN "successful" ELSE "failed" :
                   h \in {k \in Attempts(l) : sent[k].block > 0}}]

Lifecycle == INSTANCE LaunchLifecycle WITH
  stage <- Stage, accepted <- SentLogs, results <- ResultsOf

LifecycleSpec == Lifecycle!Spec

(* A launch log and its trades get the result of the transaction whose     *)
(* hash is stored with all of them, as long as the watcher has not yet     *)
(* come past that transaction.  What excuses it is a later crash of the    *)
(* engine or a lost push, and a crash of the watcher only if another       *)
(* transaction of the same block has moved the cached block number.        *)
Stored(l) ==
  /\ logs[l].status = "pending"
  /\ KindOf[l] = "hydroTrade" => txs[l].hash = logs[l].hash
  /\ \A i \in DOMAIN trades[l] : trades[l][i].hash = logs[l].hash

Ahead(h) ==
  \/ sent[h].block = 0
  \/ sent[h].block > IF wpc = "down" THEN cached ELSE block
  \/ h \in found /\ ~(wpc = "saveBlock" /\ FirstFound(h))

SharesBlock(h) ==
  \E k \in DOMAIN sent : h \in DOMAIN sent \ {k} /\ sent[k].block = sent[h].block

Concluded(l) ==
  /\ logs[l].status \in Outcome
  /\ \A i \in DOMAIN trades[l] : trades[l][i].status \in Outcome

StoredLogConcludes ==
  \A l \in Log, n \in 0 .. MaxEngineCrashes + MaxPushErrors, w \in 0 .. MaxWatcherCrashes :
    /\ Stored(l)
    /\ Ahead(logs[l].hash)
    /\ ecrashes + pushErrors = n
    /\ wcrashes = w
    ~> \/ Concluded(l)
       \/ ecrashes + pushErrors > n
       \/ wcrashes > w /\ SharesBlock(logs[l].hash)
=============================================================================
