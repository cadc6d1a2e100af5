--------------------------- MODULE SettlementProofs ---------------------------
(* Theorems about Settlement, for any launch logs and any number of faults. *)
EXTENDS Settlement, FiniteSetTheorems, FunctionTheorems, SequenceTheorems, TLAPS

Saving == {"saveLog", "saveTx", "saveTrades"}

(* The types with what TypeOK leaves out: the launcher that saves is at a  *)
(* launch log.                                                             *)
Typed ==
  /\ TypeOK
  /\ DOMAIN trades = Log /\ DOMAIN settled = Log /\ DOMAIN takerSettled = Log
  /\ lpc \in Saving => at \in Log

LogEntry == [log : Log, block : Nat, ok : BOOLEAN]

-----------------------------------------------------------------------------
(* The chain.                                                              *)
LEMMA ResultTyped ==
  ASSUME Typed, NEW h \in DOMAIN sent
  PROVE  ResultOf(h) \in Outcome /\ h \in Nat
  BY DEF Typed, TypeOK, ResultOf, Outcome

LEMMA AcceptedGrows ==
  ASSUME Typed, NEW l \in Log, Accepted(l)
  PROVE  /\ sent' \in Seq(LogEntry)
         /\ Len(sent') = Len(sent) + 1
         /\ DOMAIN sent' = 1 .. Len(sent) + 1
         /\ \A h \in DOMAIN sent : sent'[h] = sent[h]
         /\ sent'[Len(sent) + 1].log = l
<1>1. sent \in Seq(LogEntry)
  BY DEF Typed, TypeOK, LogEntry
<1>2. [log |-> l, block |-> 0, ok |-> FALSE] \in LogEntry
  BY Zenon DEF LogEntry
<1> DEFINE e == [log |-> l, block |-> 0, ok |-> FALSE]
<1>3. e.log = l
  OBVIOUS
<1>4. sent' = Append(sent, e)
  BY DEF Accepted
<1> HIDE DEF e
<1>5. /\ sent' \in Seq(LogEntry)
      /\ Len(sent') = Len(sent) + 1
      /\ \A i \in 1 .. Len(sent) : sent'[i] = sent[i]
      /\ sent'[Len(sent) + 1] = e
  BY <1>1, <1>2, <1>4, AppendProperties DEF e
<1>6. DOMAIN sent = 1 .. Len(sent) /\ DOMAIN sent' = 1 .. Len(sent')
  BY <1>1, <1>5
<1> QED
  BY <1>3, <1>5, <1>6

LEMMA Stamped ==
  ASSUME NEW r \in LogEntry, NEW b \in Nat, NEW o \in BOOLEAN
  PROVE  /\ [r EXCEPT !.block = b, !.ok = o] \in LogEntry
         /\ [r EXCEPT !.block = b, !.ok = o].log = r.log
  BY Zenon DEF LogEntry

LEMMA MineGrows ==
  ASSUME Typed, Mine
  PROVE  /\ sent' \in Seq(LogEntry)
         /\ Len(sent') = Len(sent)
         /\ DOMAIN sent' = DOMAIN sent
         /\ \A h \in DOMAIN sent : /\ sent'[h].log = sent[h].log
                                   /\ sent[h].block > 0 => sent'[h] = sent[h]
<1>1. sent \in Seq(LogEntry) /\ head \in Nat
  BY DEF Typed, TypeOK, LogEntry
<1>2. PICK picked \in SUBSET Unmined, good \in SUBSET Unmined :
        sent' = [h \in DOMAIN sent |->
                   IF h \in picked
                   THEN [sent[h] EXCEPT !.block = head + 1, !.ok = h \in good]
                   ELSE sent[h]]
  BY DEF Mine
<1>3. \A h \in DOMAIN sent : sent[h] \in LogEntry
  BY <1>1
<1>4. \A h \in DOMAIN sent :
        /\ [sent[h] EXCEPT !.block = head + 1, !.ok = h \in good] \in LogEntry
        /\ [sent[h] EXCEPT !.block = head + 1, !.ok = h \in good].log = sent[h].log
  <2>1. head + 1 \in Nat
    BY <1>1
  <2> SUFFICES ASSUME NEW h \in DOMAIN sent
               PROVE  /\ [sent[h] EXCEPT !.block = head + 1, !.ok = h \in good] \in LogEntry
                      /\ [sent[h] EXCEPT !.block = head + 1, !.ok = h \in good].log
                           = sent[h].log
    OBVIOUS
  <2>2. sent[h] \in LogEntry
    BY <1>3
  <2>3. (h \in good) \in BOOLEAN
    OBVIOUS
  <2> QED
    BY <2>1, <2>2, <2>3, Stamped, Zenon
<1>5. DOMAIN sent' = DOMAIN sent /\ \A h \in DOMAIN sent : sent'[h] \in LogEntry
  BY <1>2, <1>3, <1>4, Zenon
<1>6. DOMAIN sent = 1 .. Len(sent) /\ Len(sent) \in Nat
  BY <1>1
<1>7. sent' \in [1 .. Len(sent) -> LogEntry]
  BY <1>2, <1>5, <1>6, Zenon
<1>8. sent' \in Seq(LogEntry)
  BY <1>6, <1>7, SeqDef
<1>9. Len(sent') = Len(sent)
  BY <1>5, <1>6, <1>8
<1>10. ASSUME NEW h \in DOMAIN sent
       PROVE  /\ sent'[h].log = sent[h].log
              /\ sent[h].block > 0 => sent'[h] = sent[h]
  <2>1. h \in picked => sent[h].block = 0
    BY DEF Unmined
  <2>2. CASE h \in picked
    <3>1. sent'[h] = [sent[h] EXCEPT !.block = head + 1, !.ok = h \in good]
      BY <1>2, <2>2, Zenon
    <3>2. sent'[h].log = sent[h].log
      BY <1>4, <3>1, Zenon
    <3> QED
      BY <2>1, <2>2, <3>2
  <2>3. CASE h \notin picked
    BY <1>2, <2>3, Zenon
  <2> QED
    BY <2>2, <2>3
<1> QED
  BY <1>5, <1>8, <1>9, <1>10

(* Grown: the chain forgets nothing and changes no result.                 *)
Grown ==
  /\ DOMAIN sent \subseteq DOMAIN sent'
  /\ \A h \in DOMAIN sent : /\ sent'[h].log = sent[h].log
                            /\ sent[h].block > 0 => sent'[h] = sent[h]

Sends == (\E l \in Log : Accepted(l)) \/ Mine \/ UNCHANGED sent

LEMMA NextSends == Next => Sends
  BY DEF Next, Sends, InsertLog, InsertTrade, ApproveToken, SendFails, Launcher,
         FindAllCreated, SendRawTransaction, SaveLog, SaveTransaction, SaveTrade,
         LauncherStart, Watcher, ScanBlock, SkipTransaction, ConfirmApproval,
         PushConfirmation, SaveBlock, WatcherStart, Engine, TakeConfirmation,
         ConfirmLog, FindTrades, SettleMaker, SettleTrade, SettleTaker, EngineStart,
         LauncherCrash, WatcherCrash, EngineCrash, chain

LEMMA SendsGrow == Typed /\ Sends => Grown
<1> SUFFICES ASSUME Typed, Sends PROVE Grown
  OBVIOUS
<1>1. CASE UNCHANGED sent
  BY <1>1 DEF Grown
<1>2. CASE Mine
  BY <1>2, MineGrows DEF Grown
<1>3. ASSUME NEW l \in Log, Accepted(l) PROVE Grown
  <2>1. DOMAIN sent = 1 .. Len(sent) /\ Len(sent) \in Nat
    BY DEF Typed, TypeOK
  <2> QED
    BY <1>3, <2>1, AcceptedGrows DEF Grown
<1> QED
  BY <1>1, <1>2, <1>3 DEF Sends

-----------------------------------------------------------------------------
(* The types, table by table and process by process.                       *)
TablesTyped ==
  /\ logs \in [Log -> Row]
  /\ txs \in [Log -> Row]
  /\ DOMAIN trades = Log /\ DOMAIN settled = Log /\ DOMAIN takerSettled = Log
  /\ \A l \in Log : /\ trades[l] \in [1 .. TradesOf[l] -> Row]
                    /\ settled[l] \in [1 .. TradesOf[l] -> Nat]
                    /\ takerSettled[l] \in [1 .. TradesOf[l] -> Nat]

ChainTyped ==
  /\ sent \in Seq(LogEntry)
  /\ head \in Nat

LauncherTyped ==
  /\ lpc \in {"poll", "send", "saveLog", "saveTx", "saveTrades", "down"}
  /\ batch \subseteq Log
  /\ at \in Log \cup {0}
  /\ hash \in 0 .. Len(sent)
  /\ unhashed \subseteq Nat
  /\ lpc \in Saving => at \in Log

WatcherTyped ==
  /\ wpc \in {"scan", "saveBlock", "down"}
  /\ block \in 0 .. head
  /\ found \subseteq DOMAIN sent
  /\ cached \in 0 .. head
  /\ reported \in [Log -> Nat]

EngineTyped ==
  /\ queue \in Seq(Event)
  /\ epc \in {"idle", "insert", "log", "trades", "maker", "trade", "taker", "down"}
  /\ event \in Event
  /\ todo \subseteq AllTrades
  /\ listed \subseteq AllTrades

LEMMA TypedParts ==
  Typed <=> TablesTyped /\ ChainTyped /\ LauncherTyped /\ WatcherTyped /\ EngineTyped
  BY Zenon DEF Typed, TypeOK, TablesTyped, ChainTyped, LauncherTyped, WatcherTyped,
               EngineTyped, LogEntry

LEMMA TypedNext ==
  TablesTyped' /\ ChainTyped' /\ LauncherTyped' /\ WatcherTyped' /\ EngineTyped'
    => Typed'
  BY Zenon DEF Typed, TypeOK, TablesTyped, ChainTyped, LauncherTyped, WatcherTyped,
               EngineTyped, LogEntry

LEMMA TablesAlone == TablesTyped /\ UNCHANGED tables => TablesTyped'
  BY DEF TablesTyped, tables

LEMMA ChainAlone == ChainTyped /\ UNCHANGED chain => ChainTyped'
  BY DEF ChainTyped, chain

LEMMA LauncherAlone ==
  LauncherTyped /\ ChainTyped /\ UNCHANGED launcher
    /\ Len(sent') >= Len(sent) /\ ChainTyped' => LauncherTyped'
  BY DEF LauncherTyped, ChainTyped, launcher

LEMMA WatcherAlone ==
  WatcherTyped /\ ChainTyped /\ UNCHANGED watcher
    /\ DOMAIN sent \subseteq DOMAIN sent' /\ head' \in {head, head + 1} => WatcherTyped'
  BY DEF WatcherTyped, ChainTyped, watcher

LEMMA EngineAlone == EngineTyped /\ UNCHANGED <<queue, engine>> => EngineTyped'
  BY DEF EngineTyped, engine

LEMMA NoEventTyped == NoEvent \in Event
  BY DEF NoEvent, Event, Outcome

LEMMA RowTyped ==
  ASSUME NEW s \in Statuses, NEW h \in Nat
  PROVE  /\ [status |-> s, hash |-> h] \in Row
         /\ \A r \in Row : /\ [r EXCEPT !.status = s] \in Row
                           /\ [r EXCEPT !.hash = h] \in Row
  BY Zenon DEF Row

LEMMA TableTyped ==
  ASSUME NEW f \in [Log -> Row], NEW l \in Log, NEW s \in Statuses, NEW h \in Nat
  PROVE  /\ [f EXCEPT ![l].status = s] \in [Log -> Row]
         /\ [f EXCEPT ![l].hash = h] \in [Log -> Row]
<1>1. /\ [f[l] EXCEPT !.status = s] \in Row
      /\ [f[l] EXCEPT !.hash = h] \in Row
  BY RowTyped
<1> QED
  BY <1>1

LEMMA TradeKey ==
  /\ \A x \in AllTrades : x[1] \in Log /\ x[2] \in 1 .. TradesOf[x[1]] /\ x = <<x[1], x[2]>>
  /\ \A l \in Log : \A i \in 1 .. TradesOf[l] : <<l, i>> \in AllTrades
  BY DEF AllTrades

LEMMA StillTyped ==
  ASSUME Typed, UNCHANGED chain
  PROVE  /\ ChainTyped'
         /\ UNCHANGED tables => TablesTyped'
         /\ UNCHANGED launcher => LauncherTyped'
         /\ UNCHANGED watcher => WatcherTyped'
         /\ UNCHANGED <<queue, engine>> => EngineTyped'
<1> USE TypedParts
<1>1. ChainTyped'
  BY ChainAlone
<1> QED
  BY <1>1, TablesAlone, LauncherAlone, WatcherAlone, EngineAlone DEF chain,
     ChainTyped

LEMMA InsertLogTyped ==
  ASSUME Typed, NEW l \in Log, InsertLog(l)
  PROVE  Typed'
<1> USE TypedParts
<1>1. TablesTyped'
  <2>1. logs' \in [Log -> Row]
    BY TableTyped DEF InsertLog, TablesTyped, Statuses
  <2> QED
    BY <2>1 DEF InsertLog, TablesTyped
<1>2. EngineTyped'
  <2>1. DOMAIN trades[l] = 1 .. TradesOf[l]
    BY DEF TablesTyped
  <2>2. todo' \subseteq AllTrades
    BY <2>1, TradeKey DEF InsertLog
  <2> QED
    BY <2>2 DEF InsertLog, EngineTyped
<1> QED
  BY <1>1, <1>2, StillTyped, TypedNext DEF InsertLog

(* The trades with the new status of one of them.                          *)
LEMMA OneStatus ==
  ASSUME Typed, NEW a \in Log, NEW b \in 1 .. TradesOf[a], NEW v \in Statuses,
         trades' = [trades EXCEPT ![a][b].status = v]
  PROVE  /\ DOMAIN trades' = Log
         /\ \A l \in Log : trades'[l] \in [1 .. TradesOf[l] -> Row]
         /\ \A l \in Log : \A i \in 1 .. TradesOf[l] :
              trades'[l][i] = IF l = a /\ i = b THEN [trades[l][i] EXCEPT !.status = v]
                                               ELSE trades[l][i]
<1> DEFINE n == [trades[a][b] EXCEPT !.status = v]
           r == [trades[a] EXCEPT ![b] = n]
<1>1. DOMAIN trades = Log /\ \A l \in Log : trades[l] \in [1 .. TradesOf[l] -> Row]
  BY TypedParts DEF TablesTyped
<1>2. trades[a] \in [1 .. TradesOf[a] -> Row]
  BY <1>1
<1>3. trades[a][b] \in Row
  BY <1>2
<1>4. n \in Row
  BY <1>3, Zenon DEF Row
<1>5. trades' = [trades EXCEPT ![a] = r]
  OBVIOUS
<1> HIDE DEF n
<1>6. r \in [1 .. TradesOf[a] -> Row] /\ \A i \in 1 .. TradesOf[a] :
        r[i] = IF i = b THEN n ELSE trades[a][i]
  BY <1>2, <1>4
<1> HIDE DEF r
<1>7. DOMAIN trades' = Log /\ \A l \in Log : trades'[l] = IF l = a THEN r ELSE trades[l]
  BY <1>1, <1>5
<1>8. \A l \in Log : trades'[l] \in [1 .. TradesOf[l] -> Row]
  BY <1>1, <1>6, <1>7
<1>9. \A l \in Log : \A i \in 1 .. TradesOf[l] :
        trades'[l][i] = IF l = a /\ i = b THEN n ELSE trades[l][i]
  BY <1>6, <1>7
<1>10. \A l \in Log : \A i \in 1 .. TradesOf[l] : l = a /\ i = b => n = [trades[l][i] EXCEPT !.status = v]
  BY DEF n
<1> QED
  BY <1>7, <1>8, <1>9, <1>10

LEMMA InsertTradeTyped ==
  ASSUME Typed, NEW x \in todo, InsertTrade(x)
  PROVE  Typed'
<1> USE TypedParts
<1>1. TablesTyped'
  <2>1. x \in AllTrades /\ "pending" \in Statuses
    BY DEF EngineTyped, Statuses
  <2>2. trades' = [trades EXCEPT ![x[1]][x[2]].status = "pending"]
    BY DEF InsertTrade
  <2>3. DOMAIN trades' = Log /\ \A l \in Log : trades'[l] \in [1 .. TradesOf[l] -> Row]
    BY <2>1, <2>2, OneStatus, TradeKey
  <2> QED
    BY <2>3 DEF InsertTrade, TablesTyped
<1>2. EngineTyped'
  BY DEF InsertTrade, EngineTyped
<1> QED
  BY <1>1, <1>2, StillTyped, TypedNext DEF InsertTrade

LEMMA ApproveTokenTyped ==
  ASSUME Typed, NEW l \in Log, ApproveToken(l)
  PROVE  Typed'
<1> USE TypedParts
<1>1. TablesTyped'
  <2>1. logs' \in [Log -> Row]
    BY TableTyped DEF ApproveToken, TablesTyped, Statuses
  <2> QED
    BY <2>1 DEF ApproveToken, TablesTyped
<1> QED
  BY <1>1, StillTyped, TypedNext DEF ApproveToken

LEMMA FindAllCreatedTyped ==
  ASSUME Typed, FindAllCreated
  PROVE  Typed'
<1> USE TypedParts
<1>1. LauncherTyped'
  BY DEF FindAllCreated, Created, LauncherTyped, Saving, chain
<1> QED
  BY <1>1, StillTyped, TypedNext DEF FindAllCreated

LEMMA SendTyped ==
  ASSUME Typed, NEW l \in Log, SendRawTransaction(l)
  PROVE  Typed'
<1> USE TypedParts
<1>1. TablesTyped'
  BY TablesAlone DEF SendRawTransaction
<1>2. ChainTyped'
  BY AcceptedGrows DEF SendRawTransaction, ChainTyped
<1>3. LauncherTyped'
  BY AcceptedGrows DEF SendRawTransaction, LauncherTyped, ChainTyped, Oldest
<1>4. WatcherTyped'
  BY AcceptedGrows DEF SendRawTransaction, WatcherTyped, ChainTyped, watcher
<1>5. EngineTyped'
  BY EngineAlone DEF SendRawTransaction
<1> QED
  BY <1>1, <1>2, <1>3, <1>4, <1>5, TypedNext

LEMMA SendFailsTyped ==
  ASSUME Typed, NEW l \in Log, SendFails(l)
  PROVE  Typed'
<1> USE TypedParts
<1>1. TablesTyped'
  BY TablesAlone DEF SendFails
<1>2. ChainTyped'
  <2>1. CASE Accepted(l)
    BY <2>1, AcceptedGrows DEF SendFails, ChainTyped, LauncherTyped,
       LauncherStops, WatcherTyped, watcher, Saving
  <2>2. CASE UNCHANGED sent
    BY <2>2 DEF SendFails, ChainTyped, LauncherTyped, LauncherStops, WatcherTyped,
       watcher, Saving
  <2> QED
    BY <2>1, <2>2 DEF SendFails
<1>3. LauncherTyped'
  <2>1. CASE Accepted(l)
    BY <2>1, AcceptedGrows DEF SendFails, ChainTyped, LauncherTyped,
       LauncherStops, WatcherTyped, watcher, Saving
  <2>2. CASE UNCHANGED sent
    BY <2>2 DEF SendFails, ChainTyped, LauncherTyped, LauncherStops, WatcherTyped,
       watcher, Saving
  <2> QED
    BY <2>1, <2>2 DEF SendFails
<1>4. WatcherTyped'
  <2>1. CASE Accepted(l)
    BY <2>1, AcceptedGrows DEF SendFails, ChainTyped, LauncherTyped,
       LauncherStops, WatcherTyped, watcher, Saving
  <2>2. CASE UNCHANGED sent
    BY <2>2 DEF SendFails, ChainTyped, LauncherTyped, LauncherStops, WatcherTyped,
       watcher, Saving
  <2> QED
    BY <2>1, <2>2 DEF SendFails
<1>5. EngineTyped'
  BY EngineAlone DEF SendFails
<1> QED
  BY <1>1, <1>2, <1>3, <1>4, <1>5, TypedNext

LEMMA SaveLogTyped ==
  ASSUME Typed, SaveLog
  PROVE  Typed'
<1> USE TypedParts
<1>1. TablesTyped'
  <2>1. hash \in Nat
    BY DEF SaveLog, LauncherTyped, ChainTyped
  <2>2. [status |-> "pending", hash |-> hash] \in Row
    BY <2>1, RowTyped DEF Statuses
  <2>3. logs' \in [Log -> Row]
    BY <2>2 DEF SaveLog, TablesTyped
  <2> QED
    BY <2>3 DEF SaveLog, TablesTyped
<1>2. LauncherTyped'
  BY DEF SaveLog, Continue, LauncherTyped, Saving, chain
<1> QED
  BY <1>1, <1>2, StillTyped, TypedNext DEF SaveLog

LEMMA SaveTransactionTyped ==
  ASSUME Typed, SaveTransaction
  PROVE  Typed'
<1> USE TypedParts
<1>1. TablesTyped'
  <2>1. hash \in Nat /\ at \in Log
    BY DEF SaveTransaction, LauncherTyped, Saving, ChainTyped
  <2>2. "absent" \in Statuses
    BY DEF Statuses
  <2>3. txs' \in [Log -> Row]
    BY <2>1, <2>2, TableTyped DEF SaveTransaction, TablesTyped
  <2> QED
    BY <2>3 DEF SaveTransaction, TablesTyped
<1>2. LauncherTyped'
  <2>1. at \in Log
    BY DEF SaveTransaction, LauncherTyped, Saving
  <2>2. DOMAIN trades[at] = 1 .. TradesOf[at]
    BY <2>1 DEF TablesTyped
  <2> QED
    BY <2>1, <2>2 DEF SaveTransaction, Continue, LauncherTyped, Saving, chain
<1> QED
  BY <1>1, <1>2, StillTyped, TypedNext DEF SaveTransaction

LEMMA SaveTradeTyped ==
  ASSUME Typed, NEW i \in unhashed, SaveTrade(i)
  PROVE  Typed'
<1> USE TypedParts
<1>1. TablesTyped'
  <2>1. hash \in Nat /\ at \in Log
    BY DEF SaveTrade, LauncherTyped, Saving, ChainTyped
  <2>2. [status |-> "pending", hash |-> hash] \in Row
    BY <2>1, RowTyped DEF Statuses
  <2>3. trades' = [trades EXCEPT ![at] =
                     [trades[at] EXCEPT ![i] = [status |-> "pending", hash |-> hash]]]
    BY DEF SaveTrade
  <2>4. [trades[at] EXCEPT ![i] = [status |-> "pending", hash |-> hash]]
          \in [1 .. TradesOf[at] -> Row]
    BY <2>1, <2>2 DEF TablesTyped
  <2> QED
    BY <2>1, <2>3, <2>4 DEF SaveTrade, TablesTyped
<1>2. LauncherTyped'
  BY DEF SaveTrade, Continue, LauncherTyped, Saving, chain
<1> QED
  BY <1>1, <1>2, StillTyped, TypedNext DEF SaveTrade

LEMMA LauncherCrashTyped ==
  ASSUME Typed, LauncherCrash
  PROVE  Typed'
<1> USE TypedParts
<1>1. LauncherTyped'
  BY DEF LauncherCrash, LauncherStops, LauncherTyped, ChainTyped, Saving, chain
<1> QED
  BY <1>1, StillTyped, TypedNext DEF LauncherCrash

LEMMA LauncherStartTyped ==
  ASSUME Typed, LauncherStart
  PROVE  Typed'
<1> USE TypedParts
<1>1. LauncherTyped'
  BY DEF LauncherStart, LauncherTyped, Saving, chain
<1> QED
  BY <1>1, StillTyped, TypedNext DEF LauncherStart

LEMMA MineTyped ==
  ASSUME Typed, Mine
  PROVE  Typed'
<1> USE TypedParts
<1>1. TablesTyped'
  BY TablesAlone DEF Mine
<1>2. ChainTyped'
  <2>1. head' = head + 1
    BY DEF Mine
  <2> QED
    BY <2>1, MineGrows DEF ChainTyped
<1>3. LauncherTyped'
  <2>1. Len(sent') >= Len(sent)
    BY MineGrows DEF ChainTyped
  <2> QED
    BY <1>2, <2>1, LauncherAlone DEF Mine
<1>4. WatcherTyped'
  <2>1. head' = head + 1
    BY DEF Mine
  <2> QED
    BY <2>1, MineGrows, WatcherAlone DEF Mine
<1>5. EngineTyped'
  BY EngineAlone DEF Mine
<1> QED
  BY <1>1, <1>2, <1>3, <1>4, <1>5, TypedNext

LEMMA ScanBlockTyped ==
  ASSUME Typed, ScanBlock
  PROVE  Typed'
<1> USE TypedParts
<1>1. WatcherTyped'
  BY DEF ScanBlock, InBlock, WatcherTyped, ChainTyped, chain
<1> QED
  BY <1>1, StillTyped, TypedNext DEF ScanBlock

LEMMA SkipTransactionTyped ==
  ASSUME Typed, NEW h \in found, SkipTransaction(h)
  PROVE  Typed'
<1> USE TypedParts
<1>1. WatcherTyped'
  BY DEF SkipTransaction, WatcherTyped, chain
<1> QED
  BY <1>1, StillTyped, TypedNext DEF SkipTransaction

LEMMA ConfirmApprovalTyped ==
  ASSUME Typed, NEW h \in found, ConfirmApproval(h)
  PROVE  Typed'
<1> USE TypedParts
<1>1. TablesTyped'
  <2>1. ResultOf(h) \in Statuses
    BY DEF ResultOf, Statuses, Outcome
  <2>2. PICK l \in Log : logs' = [logs EXCEPT ![l].status = ResultOf(h)]
    BY DEF ConfirmApproval, LogsByHash
  <2>3. logs \in [Log -> Row] /\ 0 \in Nat
    BY DEF TablesTyped
  <2>4. logs' \in [Log -> Row]
    BY <2>1, <2>2, <2>3, TableTyped, Zenon
  <2> QED
    BY <2>4 DEF ConfirmApproval, TablesTyped
<1>2. WatcherTyped'
  BY DEF ConfirmApproval, WatcherTyped, chain
<1> QED
  BY <1>1, <1>2, StillTyped, TypedNext DEF ConfirmApproval

LEMMA PushConfirmationTyped ==
  ASSUME Typed, NEW h \in found, NEW ok \in BOOLEAN,
         PushConfirmation(h, ok)
  PROVE  Typed'
<1> USE TypedParts
<1>1. WatcherTyped'
  <2>1. reported' \in [Log -> Nat]
    BY DEF PushConfirmation, WatcherTyped
  <2> QED
    BY <2>1 DEF PushConfirmation, WatcherTyped, chain
<1>2. EngineTyped'
  <2>1. h \in Nat /\ ResultOf(h) \in Outcome
    BY DEF WatcherTyped, ChainTyped, ResultOf, Outcome
  <2>2. [hash |-> h, status |-> ResultOf(h)] \in Event
    BY <2>1, Zenon DEF Event
  <2>3. queue' = Append(queue, [hash |-> h, status |-> ResultOf(h)]) \/ queue' = queue
    BY DEF PushConfirmation
  <2>4. queue' \in Seq(Event)
    BY <2>2, <2>3, AppendProperties DEF EngineTyped
  <2> QED
    BY <2>4 DEF PushConfirmation, EngineTyped, engine
<1> QED
  BY <1>1, <1>2, StillTyped, TypedNext DEF PushConfirmation

LEMMA SaveBlockTyped ==
  ASSUME Typed, NEW h \in found, SaveBlock(h)
  PROVE  Typed'
<1> USE TypedParts
<1>1. WatcherTyped'
  BY DEF SaveBlock, WatcherTyped, chain
<1> QED
  BY <1>1, StillTyped, TypedNext DEF SaveBlock

LEMMA WatcherCrashTyped ==
  ASSUME Typed, WatcherCrash
  PROVE  Typed'
<1> USE TypedParts
<1>1. WatcherTyped'
  BY DEF WatcherCrash, WatcherTyped, chain
<1> QED
  BY <1>1, StillTyped, TypedNext DEF WatcherCrash

LEMMA WatcherStartTyped ==
  ASSUME Typed, WatcherStart
  PROVE  Typed'
<1> USE TypedParts
<1>1. WatcherTyped'
  BY DEF WatcherStart, WatcherTyped, chain
<1> QED
  BY <1>1, StillTyped, TypedNext DEF WatcherStart

LEMMA TakeConfirmationTyped ==
  ASSUME Typed, TakeConfirmation
  PROVE  Typed'
<1> USE TypedParts
<1>1. TablesTyped'
  <2>1. Head(queue) \in Event
    BY HeadTailProperties DEF TakeConfirmation, EngineTyped
  <2>2. Head(queue).status \in Statuses
    BY <2>1 DEF Event, Statuses
  <2>3. \/ UNCHANGED txs
        \/ \E l \in Log : txs' = [txs EXCEPT ![l].status = Head(queue).status]
    BY Zenon DEF TakeConfirmation, TransactionsByHash
  <2>4. txs \in [Log -> Row] /\ 0 \in Nat
    BY DEF TablesTyped
  <2>5. ASSUME NEW l \in Log, txs' = [txs EXCEPT ![l].status = Head(queue).status]
         PROVE  txs' \in [Log -> Row]
    BY <2>2, <2>4, <2>5, TableTyped, Zenon
  <2>6. txs' \in [Log -> Row]
    BY <2>3, <2>4, <2>5
  <2> QED
    BY <2>6 DEF TakeConfirmation, TablesTyped
<1>2. EngineTyped'
  <2>1. Head(queue) \in Event /\ Tail(queue) \in Seq(Event)
    BY HeadTailProperties DEF TakeConfirmation, EngineTyped
  <2> QED
    BY <2>1 DEF TakeConfirmation, EngineTyped, engine
<1> QED
  BY <1>1, <1>2, StillTyped, TypedNext DEF TakeConfirmation

LEMMA ConfirmLogTyped ==
  ASSUME Typed, ConfirmLog
  PROVE  Typed'
<1> USE TypedParts
<1>1. TablesTyped'
  <2>1. event.status \in Statuses
    BY DEF EngineTyped, Event, Statuses
  <2>2. \A l \in Log : [logs[l] EXCEPT !.status = event.status] \in Row
    BY <2>1, RowTyped DEF TablesTyped
  <2>3. logs' \in [Log -> Row]
    BY <2>2 DEF ConfirmLog, TablesTyped
  <2> QED
    BY <2>3 DEF ConfirmLog, TablesTyped
<1>2. EngineTyped'
  BY DEF ConfirmLog, EngineTyped
<1> QED
  BY <1>1, <1>2, StillTyped, TypedNext DEF ConfirmLog

LEMMA FindTradesTyped ==
  ASSUME Typed, FindTrades
  PROVE  Typed'
<1> USE TypedParts
<1>1. EngineTyped'
  <2>1. \A l \in Log : DOMAIN trades[l] = 1 .. TradesOf[l]
    BY DEF TablesTyped
  <2>2. TradesByHash \subseteq AllTrades
    <3>1. ASSUME NEW x \in TradesByHash PROVE x \in AllTrades
      <4>1. PICK l \in Log : x \in {<<l, i>> :
                               i \in {j \in DOMAIN trades[l] : trades[l][j].hash = event.hash}}
        BY <3>1, Zenon DEF TradesByHash
      <4> QED
        BY <2>1, <4>1, TradeKey
    <3> QED
      BY <3>1
  <2> QED
    BY <2>2, NoEventTyped DEF FindTrades, EngineTyped
<1> QED
  BY <1>1, StillTyped, TypedNext DEF FindTrades

(* The counts with one more settlement of one trade.                       *)
LEMMA OneMaker ==
  ASSUME Typed, NEW a \in Log, NEW b \in 1 .. TradesOf[a],
         settled' = [settled EXCEPT ![a][b] = @ + 1]
  PROVE  /\ DOMAIN settled' = Log
         /\ \A l \in Log : settled'[l] \in [1 .. TradesOf[l] -> Nat]
         /\ \A l \in Log : \A i \in 1 .. TradesOf[l] :
              settled'[l][i] = IF l = a /\ i = b THEN settled[l][i] + 1
                                               ELSE settled[l][i]
<1> DEFINE n == settled[a][b] + 1
           r == [settled[a] EXCEPT ![b] = n]
<1>1. DOMAIN settled = Log /\ \A l \in Log : settled[l] \in [1 .. TradesOf[l] -> Nat]
  BY TypedParts DEF TablesTyped
<1>2. settled[a] \in [1 .. TradesOf[a] -> Nat]
  BY <1>1
<1>3. settled[a][b] \in Nat
  BY <1>2
<1>4. n \in Nat
  BY <1>3
<1>5. settled' = [settled EXCEPT ![a] = r]
  OBVIOUS
<1> HIDE DEF n
<1>6. r \in [1 .. TradesOf[a] -> Nat] /\ \A i \in 1 .. TradesOf[a] :
        r[i] = IF i = b THEN n ELSE settled[a][i]
  BY <1>2, <1>4
<1> HIDE DEF r
<1>7. DOMAIN settled' = Log /\ \A l \in Log : settled'[l] = IF l = a THEN r ELSE settled[l]
  BY <1>1, <1>5
<1>8. \A l \in Log : settled'[l] \in [1 .. TradesOf[l] -> Nat]
  BY <1>1, <1>6, <1>7
<1>9. \A l \in Log : \A i \in 1 .. TradesOf[l] :
        settled'[l][i] = IF l = a /\ i = b THEN n ELSE settled[l][i]
  BY <1>6, <1>7
<1>10. \A l \in Log : \A i \in 1 .. TradesOf[l] : l = a /\ i = b => n = settled[l][i] + 1
  BY DEF n
<1> QED
  BY <1>7, <1>8, <1>9, <1>10

LEMMA SettleMakerTyped ==
  ASSUME Typed, NEW x \in todo, SettleMaker(x)
  PROVE  Typed'
<1> USE TypedParts
<1>1. x \in AllTrades
  BY DEF EngineTyped
<1>2. TablesTyped'
  <2>1. settled' = [settled EXCEPT ![x[1]][x[2]] = @ + 1]
    BY DEF SettleMaker
  <2> QED
    BY <1>1, <2>1, OneMaker, TradeKey DEF SettleMaker, TablesTyped
<1>3. EngineTyped'
  BY DEF SettleMaker, EngineTyped
<1> QED
  BY <1>2, <1>3, StillTyped, TypedNext DEF SettleMaker

LEMMA SettleTradeTyped ==
  ASSUME Typed, NEW x \in todo, SettleTrade(x)
  PROVE  Typed'
<1> USE TypedParts
<1>1. TablesTyped'
  <2>1. x \in AllTrades /\ event.status \in Statuses
    BY DEF EngineTyped, Event, Statuses
  <2>2. trades' = [trades EXCEPT ![x[1]][x[2]].status = event.status]
    BY DEF SettleTrade
  <2>3. DOMAIN trades' = Log /\ \A l \in Log : trades'[l] \in [1 .. TradesOf[l] -> Row]
    BY <2>1, <2>2, OneStatus, TradeKey
  <2> QED
    BY <2>3 DEF SettleTrade, TablesTyped
<1>2. EngineTyped'
  BY DEF SettleTrade, EngineTyped
<1> QED
  BY <1>1, <1>2, StillTyped, TypedNext DEF SettleTrade

LEMMA SettleTakerTyped ==
  ASSUME Typed, SettleTaker
  PROVE  Typed'
<1> USE TypedParts
<1>1. TablesTyped'
  <2>1. \A l \in Log : DOMAIN trades[l] = 1 .. TradesOf[l]
    BY DEF TablesTyped
  <2>2. \A l \in Log : \A i \in 1 .. TradesOf[l] : takerSettled[l][i] \in Nat
    BY DEF TablesTyped
  <2>3. \A l \in Log : takerSettled'[l] \in [1 .. TradesOf[l] -> Nat]
    BY <2>1, <2>2 DEF SettleTaker
  <2>4. DOMAIN takerSettled' = Log
    BY DEF SettleTaker
  <2> QED
    BY <2>3, <2>4 DEF SettleTaker, TablesTyped
<1>2. EngineTyped'
  BY NoEventTyped DEF SettleTaker, EngineTyped
<1> QED
  BY <1>1, <1>2, StillTyped, TypedNext DEF SettleTaker

LEMMA EngineCrashTyped ==
  ASSUME Typed, EngineCrash
  PROVE  Typed'
<1> USE TypedParts
<1>1. EngineTyped'
  BY NoEventTyped DEF EngineCrash, EngineTyped
<1> QED
  BY <1>1, StillTyped, TypedNext DEF EngineCrash

LEMMA EngineStartTyped ==
  ASSUME Typed, EngineStart
  PROVE  Typed'
<1> USE TypedParts
<1>1. EngineTyped'
  BY DEF EngineStart, EngineTyped
<1> QED
  BY <1>1, StillTyped, TypedNext DEF EngineStart

-----------------------------------------------------------------------------
(* The initial states, and any step.                                       *)
LEMMA InitTyped == Init => Typed
<1> SUFFICES ASSUME Init PROVE Typed
  OBVIOUS
<1>1. \A s \in Statuses : [status |-> s, hash |-> 0] \in Row
  BY RowTyped
<1>2. {"absent", "pending"} \subseteq Statuses
  BY DEF Statuses
<1>3. /\ [status |-> "absent", hash |-> 0] \in Row
      /\ [status |-> "pending", hash |-> 0] \in Row
  BY <1>1, <1>2
<1>4. TablesTyped
  <2>1. logs \in [Log -> Row] /\ txs \in [Log -> Row]
    BY <1>3 DEF Init
  <2>2. DOMAIN trades = Log /\ DOMAIN settled = Log /\ DOMAIN takerSettled = Log
    BY DEF Init
  <2>3. \A l \in Log : trades[l] \in [1 .. TradesOf[l] -> Row]
    BY <1>3 DEF Init
  <2>4. \A l \in Log : /\ settled[l] \in [1 .. TradesOf[l] -> Nat]
                       /\ takerSettled[l] \in [1 .. TradesOf[l] -> Nat]
    BY DEF Init
  <2> QED
    BY <2>1, <2>2, <2>3, <2>4 DEF TablesTyped
<1>5. /\ sent = <<>> /\ head = 0 /\ queue = <<>>
      /\ lpc = "poll" /\ batch = {} /\ at = 0 /\ hash = 0 /\ unhashed = {}
      /\ wpc = "scan" /\ block = 0 /\ found = {} /\ cached = 0
      /\ epc = "idle" /\ event = NoEvent /\ todo = {} /\ listed = {}
      /\ reported = [l \in Log |-> 0]
  BY Zenon DEF Init
<1>6. ChainTyped /\ LauncherTyped /\ WatcherTyped /\ EngineTyped
  BY <1>5, NoEventTyped DEF ChainTyped, LauncherTyped, WatcherTyped, EngineTyped,
     Saving
<1> QED
  BY <1>4, <1>6, TypedParts

LEMMA StutterTyped == Typed /\ UNCHANGED vars => Typed'
<1> SUFFICES ASSUME Typed, UNCHANGED vars PROVE Typed'
  BY DEF vars
<1>1. TablesTyped' /\ ChainTyped'
  BY TypedParts, TablesAlone, ChainAlone DEF vars
<1>2. LauncherTyped' /\ WatcherTyped' /\ EngineTyped'
  BY TypedParts, <1>1, LauncherAlone, WatcherAlone, EngineAlone DEF vars, chain,
     ChainTyped
<1> QED
  BY <1>1, <1>2, TypedNext

LEMMA NextTyped == Typed /\ [Next]_vars => Typed'
<1> SUFFICES ASSUME Typed, [Next]_vars PROVE Typed'
  OBVIOUS
<1>1. CASE \E l \in Log : InsertLog(l) \/ ApproveToken(l) \/ SendFails(l)
  BY <1>1, InsertLogTyped, ApproveTokenTyped, SendFailsTyped
<1>2. CASE Launcher
  BY <1>2, FindAllCreatedTyped, SendTyped, SaveLogTyped, SaveTransactionTyped,
     SaveTradeTyped, LauncherStartTyped DEF Launcher
<1>3. CASE Mine
  BY <1>3, MineTyped
<1>4. CASE Watcher
  BY <1>4, ScanBlockTyped, SkipTransactionTyped, ConfirmApprovalTyped,
     PushConfirmationTyped, SaveBlockTyped, WatcherStartTyped DEF Watcher
<1>5. CASE \E h \in found : PushConfirmation(h, FALSE)
  BY <1>5, PushConfirmationTyped
<1>6. CASE Engine
  BY <1>6, InsertTradeTyped, TakeConfirmationTyped, ConfirmLogTyped, FindTradesTyped,
     SettleMakerTyped, SettleTradeTyped, SettleTakerTyped, EngineStartTyped DEF Engine
<1>7. CASE LauncherCrash \/ WatcherCrash \/ EngineCrash
  BY <1>7, LauncherCrashTyped, WatcherCrashTyped, EngineCrashTyped
<1>8. CASE UNCHANGED vars
  BY <1>8, StutterTyped
<1> QED
  BY <1>1, <1>2, <1>3, <1>4, <1>5, <1>6, <1>7, <1>8 DEF Next

(* The tables, the chain and the four processes keep their types, whatever *)
(* crashes and whatever is sent again.                                     *)
THEOREM SettlementTypeCorrect == Spec => []TypeOK
<1>1. Typed => TypeOK
  BY DEF Typed
<1> QED
  BY <1>1, InitTyped, NextTyped, PTL DEF Spec

-----------------------------------------------------------------------------
(* What ResultsAreMined rests on: a launch log is at most created while its *)
(* transaction has no hash; then the two have the same, and the launcher,  *)
(* which writes the one after the other, is at a transaction without one.  *)
ResultIn(r, s) ==
  r.status \in Outcome =>
    /\ r.hash \in DOMAIN s
    /\ s[r.hash].block > 0
    /\ r.status = "successful" <=> s[r.hash].ok

Unsent(l) == logs[l].status \in {"absent", "created"}

UnsentHasNoHash ==
  /\ \A l \in Log : Unsent(l) => txs[l].hash = 0
  /\ \A l \in batch : txs[l].hash = 0

SameHash ==
  \A l \in Log : /\ txs[l].hash = 0 => txs[l].status = "pending"
                 /\ txs[l].hash # 0 => logs[l].hash = txs[l].hash

LauncherAtWork ==
  /\ lpc \in {"saveLog", "saveTx"} => txs[at].hash = 0
  /\ lpc = "saveTx" => logs[at].hash = hash /\ ~Unsent(at)
  /\ lpc \in Saving => at \notin batch /\ hash # 0

(* The trades of a transaction get its hash, and none has one before.      *)
TradeHashes ==
  /\ \A l \in Log : \A i \in 1 .. TradesOf[l] : trades[l][i].hash \in {0, txs[l].hash}
  /\ lpc = "saveTrades" =>
       /\ txs[at].hash = hash
       /\ \A i \in 1 .. TradesOf[at] : i \in unhashed => trades[at][i].hash = 0

FoundMined == \A h \in found : sent[h].block > 0

Settling == {"log", "trades", "maker", "trade", "taker"}

EventMined == epc \in Settling => ResultIn(event, sent)

(* The trades still to be settled are those of the result.                 *)
TodoFound ==
  epc \in {"maker", "trade"} => \A x \in todo : trades[x[1]][x[2]].hash = event.hash

ResultInv ==
  /\ UnsentHasNoHash
  /\ SameHash
  /\ LauncherAtWork
  /\ TradeHashes
  /\ FoundMined
  /\ EventMined
  /\ TodoFound
  /\ ResultsAreMined

LEMMA ResultsAreMinedIn ==
  ResultsAreMined <=>
    /\ \A l \in Log : /\ ResultIn(logs[l], sent)
                      /\ ResultIn(txs[l], sent)
                      /\ \A i \in DOMAIN trades[l] : ResultIn(trades[l][i], sent)
    /\ \A i \in DOMAIN queue : ResultIn(queue[i], sent)
  BY Zenon DEF ResultsAreMined, IsResult, ResultIn

LEMMA ResultsAreMinedNext ==
  ResultsAreMined' <=>
    /\ \A l \in Log : /\ ResultIn(logs'[l], sent')
                      /\ ResultIn(txs'[l], sent')
                      /\ \A i \in DOMAIN trades'[l] : ResultIn(trades'[l][i], sent')
    /\ \A i \in DOMAIN queue' : ResultIn(queue'[i], sent')
  BY Zenon DEF ResultsAreMined, IsResult, ResultIn

LEMMA ResultKept ==
  ASSUME Grown, NEW r, ResultIn(r, sent)
  PROVE  ResultIn(r, sent')
  BY DEF Grown, ResultIn

(* What no process does to what the chain did with a transaction.          *)
LEMMA FoundKept ==
  ASSUME Typed, Grown, FoundMined, UNCHANGED found
  PROVE  FoundMined'
  BY TypedParts DEF Grown, FoundMined, WatcherTyped

LEMMA EventKept ==
  ASSUME Grown, EventMined, UNCHANGED engine
  PROVE  EventMined'
  BY ResultKept DEF EventMined, engine

LEMMA ResultsKept ==
  ASSUME Grown, ResultsAreMined, UNCHANGED <<logs, txs, trades, queue>>
  PROVE  ResultsAreMined'
  BY ResultKept, ResultsAreMinedIn, ResultsAreMinedNext

LEMMA LogsKept ==
  ASSUME UnsentHasNoHash, SameHash, LauncherAtWork, UNCHANGED <<logs, txs, launcher>>
  PROVE  UnsentHasNoHash' /\ SameHash' /\ LauncherAtWork'
  BY DEF UnsentHasNoHash, SameHash, LauncherAtWork, Unsent, launcher

LEMMA HashesKept ==
  ASSUME Typed, TradeHashes, UNCHANGED txs,
         \A l \in Log : \A i \in 1 .. TradesOf[l] : trades'[l][i].hash = trades[l][i].hash,
         lpc' # "saveTrades" \/ UNCHANGED <<lpc, at, hash, unhashed>>
  PROVE  TradeHashes'
<1>1. lpc = "saveTrades" => at \in Log
  BY DEF Typed, Saving
<1> QED
  BY <1>1 DEF TradeHashes

LEMMA StillResults ==
  ASSUME Typed, Grown, ResultInv
  PROVE  /\ UNCHANGED <<logs, txs, launcher>> =>
              UnsentHasNoHash' /\ SameHash' /\ LauncherAtWork'
         /\ (/\ UNCHANGED <<txs, trades>>
             /\ lpc' # "saveTrades" \/ UNCHANGED <<lpc, at, hash, unhashed>>)
              => TradeHashes'
         /\ UNCHANGED found => FoundMined'
         /\ UNCHANGED engine => EventMined'
         /\ epc' \notin Settling => EventMined' /\ TodoFound'
         /\ UNCHANGED <<engine, trades>> => TodoFound'
         /\ UNCHANGED <<logs, txs, trades, queue>> => ResultsAreMined'
<1>1. (/\ UNCHANGED <<txs, trades>>
       /\ lpc' # "saveTrades" \/ UNCHANGED <<lpc, at, hash, unhashed>>)
        => TradeHashes'
  BY HashesKept DEF ResultInv
<1>2. epc' \notin Settling => EventMined' /\ TodoFound'
  BY DEF EventMined, TodoFound, Settling
<1>3. UNCHANGED <<engine, trades>> => TodoFound'
  BY DEF ResultInv, TodoFound, engine
<1> QED
  BY <1>1, <1>2, <1>3, LogsKept, FoundKept, EventKept, ResultsKept DEF ResultInv

LEMMA InsertLogResults ==
  ASSUME Typed, Typed', Grown, ResultInv, NEW l \in Log, InsertLog(l)
  PROVE  ResultInv'
<1> USE DEF ResultInv
<1>1. UnsentHasNoHash'
  BY TypedParts DEF InsertLog, NextLog, Unsent, Saving, TablesTyped, LauncherTyped, Row,
     Statuses, Outcome, UnsentHasNoHash, launcher
<1>2. SameHash'
  BY TypedParts DEF InsertLog, NextLog, Unsent, Saving, TablesTyped, LauncherTyped, Row,
     Statuses, Outcome, SameHash
<1>3. LauncherAtWork'
  BY TypedParts DEF InsertLog, NextLog, Unsent, Saving, TablesTyped, LauncherTyped, Row,
     Statuses, Outcome, LauncherAtWork, launcher
<1>4. ResultsAreMined'
  BY ResultKept, ResultsAreMinedIn, ResultsAreMinedNext, TypedParts DEF InsertLog,
     Unsent, Saving, TablesTyped, LauncherTyped, Row, Statuses, Outcome, ResultIn
<1> QED
  BY <1>1, <1>2, <1>3, <1>4, StillResults DEF InsertLog, Settling, tables, chain, launcher,
     watcher, engine

LEMMA InsertTradeResults ==
  ASSUME Typed, Typed', Grown, ResultInv, NEW x \in todo, InsertTrade(x)
  PROVE  ResultInv'
<1> USE DEF ResultInv
<1>1. /\ UNCHANGED <<logs, txs, queue, launcher, watcher>>
      /\ epc' \notin Settling
      /\ trades' = [trades EXCEPT ![x[1]][x[2]].status = "pending"]
      /\ x[1] \in Log /\ x[2] \in 1 .. TradesOf[x[1]] /\ "pending" \in Statuses
  BY TypedParts, TradeKey DEF InsertTrade, Settling, EngineTyped, Statuses
<1>2. \A l \in Log : \A i \in 1 .. TradesOf[l] :
        /\ trades'[l][i] = trades[l][i] \/ trades'[l][i].status = "pending"
        /\ trades'[l][i].hash = trades[l][i].hash
  BY <1>1, OneStatus, TypedParts DEF TablesTyped, Row
<1>3. ResultsAreMined'
  <2>1. \A l \in Log : /\ DOMAIN trades[l] = 1 .. TradesOf[l]
                       /\ DOMAIN trades'[l] = 1 .. TradesOf[l]
    BY <1>1, OneStatus, TypedParts DEF TablesTyped
  <2>2. ASSUME NEW l \in Log, NEW i \in DOMAIN trades'[l]
        PROVE  ResultIn(trades'[l][i], sent')
    <3>1. CASE trades'[l][i] = trades[l][i]
      <4>1. ResultIn(trades[l][i], sent)
        BY <2>1, ResultsAreMinedIn
      <4> QED
        BY <3>1, <4>1, ResultKept, Zenon
    <3>2. CASE trades'[l][i].status = "pending"
      BY <3>2 DEF ResultIn, Outcome
    <3> QED
      BY <1>2, <2>1, <3>1, <3>2
  <2> QED
    BY <1>1, <2>2, ResultKept, ResultsAreMinedIn, ResultsAreMinedNext
<1>4. TradeHashes'
  BY <1>1, <1>2, HashesKept DEF launcher
<1> QED
  BY <1>1, <1>3, <1>4, StillResults DEF watcher, launcher

LEMMA ApproveTokenResults ==
  ASSUME Typed, Typed', Grown, ResultInv, NEW l \in Log, ApproveToken(l)
  PROVE  ResultInv'
<1> USE DEF ResultInv
<1>1. UnsentHasNoHash'
  BY TypedParts DEF ApproveToken, NextLog, Unsent, Saving, TablesTyped, LauncherTyped, Row,
     Statuses, Outcome, UnsentHasNoHash, launcher
<1>2. SameHash'
  BY TypedParts DEF ApproveToken, NextLog, Unsent, Saving, TablesTyped, LauncherTyped, Row,
     Statuses, Outcome, SameHash
<1>3. LauncherAtWork'
  BY TypedParts DEF ApproveToken, NextLog, Unsent, Saving, TablesTyped, LauncherTyped, Row,
     Statuses, Outcome, LauncherAtWork, launcher
<1>4. ResultsAreMined'
  BY ResultKept, ResultsAreMinedIn, ResultsAreMinedNext, TypedParts DEF ApproveToken,
     NextLog, Unsent, Saving, TablesTyped, LauncherTyped, Row, Statuses, Outcome, ResultIn
<1> QED
  BY <1>1, <1>2, <1>3, <1>4, StillResults DEF ApproveToken, tables, chain, launcher,
     watcher, engine

LEMMA FindAllCreatedResults ==
  ASSUME Typed, Typed', Grown, ResultInv, FindAllCreated
  PROVE  ResultInv'
<1> USE DEF ResultInv
<1>1. UnsentHasNoHash'
  BY TypedParts DEF FindAllCreated, Unsent, Saving, TablesTyped, LauncherTyped,
     Row, Statuses, Outcome, UnsentHasNoHash, Created, tables
<1>2. SameHash'
  BY TypedParts DEF FindAllCreated, Unsent, Saving, TablesTyped, LauncherTyped,
     Row, Statuses, Outcome, SameHash, tables
<1>3. LauncherAtWork'
  BY TypedParts DEF FindAllCreated, Unsent, Saving, TablesTyped, LauncherTyped,
     Row, Statuses, Outcome, LauncherAtWork, tables
<1> QED
  BY <1>1, <1>2, <1>3, StillResults DEF FindAllCreated, tables, chain, launcher,
     watcher, engine

LEMMA SendResults ==
  ASSUME Typed, Typed', Grown, ResultInv, NEW l \in Log, SendRawTransaction(l)
  PROVE  ResultInv'
<1> USE DEF ResultInv
<1>1. UnsentHasNoHash'
  BY TypedParts DEF SendRawTransaction, Unsent, Saving, TablesTyped,
     LauncherTyped, Row, Statuses, Outcome, UnsentHasNoHash, tables
<1>2. SameHash'
  BY TypedParts DEF SendRawTransaction, Unsent, Saving, TablesTyped,
     LauncherTyped, Row, Statuses, Outcome, SameHash, tables
<1>3. LauncherAtWork'
  BY TypedParts DEF SendRawTransaction, Unsent, Saving, TablesTyped,
     LauncherTyped, Row, Statuses, Outcome, UnsentHasNoHash, LauncherAtWork,
     Oldest, tables
<1> QED
  BY <1>1, <1>2, <1>3, StillResults DEF SendRawTransaction, tables, chain,
     launcher, watcher, engine

LEMMA SendFailsResults ==
  ASSUME Typed, Typed', Grown, ResultInv, NEW l \in Log, SendFails(l)
  PROVE  ResultInv'
<1> USE DEF ResultInv
<1>1. UnsentHasNoHash'
  BY TypedParts DEF SendFails, Unsent, Saving, TablesTyped, LauncherTyped, Row,
     Statuses, Outcome, UnsentHasNoHash, tables, LauncherStops
<1>2. SameHash'
  BY TypedParts DEF SendFails, Unsent, Saving, TablesTyped, LauncherTyped, Row,
     Statuses, Outcome, SameHash, tables
<1>3. LauncherAtWork'
  BY TypedParts DEF SendFails, Unsent, Saving, TablesTyped, LauncherTyped, Row,
     Statuses, Outcome, LauncherAtWork, LauncherStops
<1> QED
  BY <1>1, <1>2, <1>3, StillResults DEF SendFails, LauncherStops, tables, chain,
     launcher, watcher, engine

LEMMA SaveLogResults ==
  ASSUME Typed, Typed', Grown, ResultInv, SaveLog
  PROVE  ResultInv'
<1> USE DEF ResultInv
<1>1. UnsentHasNoHash'
  BY TypedParts DEF SaveLog, Unsent, Saving, TablesTyped, LauncherTyped, Row,
     Statuses, Outcome, UnsentHasNoHash
<1>2. SameHash'
  BY TypedParts DEF SaveLog, Unsent, Saving, TablesTyped, LauncherTyped, Row,
     Statuses, Outcome, SameHash, LauncherAtWork
<1>3. LauncherAtWork'
  BY TypedParts DEF SaveLog, Unsent, Saving, TablesTyped, LauncherTyped, Row,
     Statuses, Outcome, LauncherAtWork, Continue
<1>4. ResultsAreMined'
  BY ResultKept, ResultsAreMinedIn, ResultsAreMinedNext, TypedParts DEF SaveLog,
     Unsent, Saving, TablesTyped, LauncherTyped, Row, Statuses, Outcome, ResultIn
<1> QED
  BY <1>1, <1>2, <1>3, <1>4, StillResults DEF SaveLog, Continue, tables, chain,
     launcher, watcher, engine

LEMMA SaveTransactionResults ==
  ASSUME Typed, Typed', Grown, ResultInv, SaveTransaction
  PROVE  ResultInv'
<1> USE DEF ResultInv
<1>1. UnsentHasNoHash'
  BY TypedParts DEF SaveTransaction, Unsent, Saving, TablesTyped, LauncherTyped,
     Row, Statuses, Outcome, UnsentHasNoHash, LauncherAtWork
<1>2. SameHash'
  BY TypedParts DEF SaveTransaction, Unsent, Saving, TablesTyped, LauncherTyped,
     Row, Statuses, Outcome, SameHash, LauncherAtWork
<1>3. LauncherAtWork'
  BY TypedParts DEF SaveTransaction, Unsent, Saving, TablesTyped, LauncherTyped,
     Row, Statuses, Outcome, LauncherAtWork, Continue
<1>4. ResultsAreMined'
  <2>1. lpc = "saveTx" /\ at \in Log
    BY TypedParts DEF SaveTransaction, LauncherTyped, Saving
  <2>2. txs[at].hash = 0
    BY <2>1 DEF LauncherAtWork
  <2>3. txs[at].status = "pending"
    BY <2>1, <2>2 DEF SameHash
  <2>4. \A l \in Log : txs'[l] = txs[l] \/ txs'[l].status = "pending"
    BY <2>1, <2>3, TypedParts DEF SaveTransaction, TablesTyped, Row
  <2>5. UNCHANGED <<logs, trades, queue>>
    BY DEF SaveTransaction
  <2>6. \A l \in Log : ResultIn(txs'[l], sent')
    BY <2>4, ResultKept, ResultsAreMinedIn DEF ResultIn, Outcome
  <2> QED
    BY <2>5, <2>6, ResultKept, ResultsAreMinedIn, ResultsAreMinedNext
<1>5. TradeHashes'
  <2>1. /\ lpc = "saveTx" /\ at \in Log /\ txs[at].hash = 0 /\ UNCHANGED <<trades, at, hash>>
        /\ txs' = [txs EXCEPT ![at].hash = hash] /\ txs \in [Log -> Row]
    BY TypedParts DEF SaveTransaction, LauncherTyped, Saving, LauncherAtWork, TablesTyped
  <2>2. txs'[at].hash = hash /\ \A l \in Log : l # at => txs'[l] = txs[l]
    BY <2>1 DEF Row
  <2>3. \A i \in 1 .. TradesOf[at] : trades[at][i].hash = 0
    BY <2>1 DEF TradeHashes
  <2> QED
    BY <2>1, <2>2, <2>3 DEF TradeHashes
<1> QED
  BY <1>1, <1>2, <1>3, <1>4, <1>5, StillResults DEF SaveTransaction, tables, chain,
     launcher, watcher, engine

LEMMA SaveTradeResults ==
  ASSUME Typed, Typed', Grown, ResultInv, NEW i \in unhashed, SaveTrade(i)
  PROVE  ResultInv'
<1> USE DEF ResultInv
<1>1. UnsentHasNoHash'
  BY TypedParts DEF SaveTrade, Unsent, Saving, TablesTyped, LauncherTyped, Row,
     Statuses, Outcome, UnsentHasNoHash, LauncherAtWork
<1>2. SameHash'
  BY TypedParts DEF SaveTrade, Unsent, Saving, TablesTyped, LauncherTyped, Row,
     Statuses, Outcome, SameHash, LauncherAtWork
<1>3. LauncherAtWork'
  BY TypedParts DEF SaveTrade, Unsent, Saving, TablesTyped, LauncherTyped, Row,
     Statuses, Outcome, LauncherAtWork, Continue
<1>4. ResultsAreMined'
  <2>1. at \in Log
    BY TypedParts DEF SaveTrade, LauncherTyped, Saving
  <2>2. DOMAIN trades = Log /\ \A l \in Log : DOMAIN trades[l] = 1 .. TradesOf[l]
    BY TypedParts DEF TablesTyped
  <2>3. \A l \in Log : \A k \in DOMAIN trades'[l] :
         /\ k \in DOMAIN trades[l]
         /\ trades'[l][k] = trades[l][k] \/ trades'[l][k].status = "pending"
    BY <2>1, <2>2 DEF SaveTrade
  <2>4. UNCHANGED <<logs, txs, queue>>
    BY DEF SaveTrade
  <2>5. \A l \in Log : \A k \in DOMAIN trades'[l] : ResultIn(trades'[l][k], sent')
    BY <2>3, ResultKept, ResultsAreMinedIn DEF ResultIn, Outcome
  <2> QED
    BY <2>4, <2>5, ResultKept, ResultsAreMinedIn, ResultsAreMinedNext
<1>5. /\ at \in Log /\ lpc = "saveTrades" /\ UNCHANGED <<txs, at, hash, engine>>
      /\ unhashed' \subseteq unhashed
      /\ trades' = [trades EXCEPT ![at][i] = [status |-> "pending", hash |-> hash]]
      /\ DOMAIN trades = Log /\ \A l \in Log : DOMAIN trades[l] = 1 .. TradesOf[l]
  BY TypedParts DEF SaveTrade, LauncherTyped, Saving, TablesTyped
<1>6. \A l \in Log : \A j \in 1 .. TradesOf[l] :
        IF l = at /\ j = i THEN trades'[l][j].hash = hash
                          ELSE trades'[l][j] = trades[l][j]
  BY <1>5
<1>7. txs[at].hash = hash /\ \A j \in 1 .. TradesOf[at] : j \in unhashed => trades[at][j].hash = 0
  BY <1>5 DEF TradeHashes
<1>8. TradeHashes'
  <2>1. i \notin unhashed'
    BY DEF SaveTrade
  <2> QED
    BY <1>5, <1>6, <1>7, <2>1 DEF TradeHashes
<1>9. TodoFound'
  <2> SUFFICES ASSUME epc \in {"maker", "trade"}, NEW x \in todo
               PROVE  trades'[x[1]][x[2]].hash = event.hash
    BY <1>5 DEF TodoFound, engine
  <2>1. trades[x[1]][x[2]].hash = event.hash
    BY DEF TodoFound
  <2>2. event.hash # 0
    BY TypedParts DEF EventMined, ResultIn, Settling, EngineTyped, Event, ChainTyped
  <2>3. x[1] \in Log /\ x[2] \in 1 .. TradesOf[x[1]]
    BY TypedParts, TradeKey DEF EngineTyped
  <2>4. ~(x[1] = at /\ x[2] = i)
    BY <1>7, <2>1, <2>2, <2>3
  <2> QED
    BY <1>6, <2>1, <2>3, <2>4
<1> QED
  BY <1>1, <1>2, <1>3, <1>4, <1>8, <1>9, StillResults DEF SaveTrade, tables, chain,
     launcher, watcher, engine

LEMMA LauncherCrashResults ==
  ASSUME Typed, Typed', Grown, ResultInv, LauncherCrash
  PROVE  ResultInv'
<1> USE DEF ResultInv
<1>1. UnsentHasNoHash'
  BY TypedParts DEF LauncherCrash, Unsent, Saving, TablesTyped, LauncherTyped,
     Row, Statuses, Outcome, UnsentHasNoHash, tables, LauncherStops
<1>2. SameHash'
  BY TypedParts DEF LauncherCrash, Unsent, Saving, TablesTyped, LauncherTyped,
     Row, Statuses, Outcome, SameHash, tables
<1>3. LauncherAtWork'
  BY TypedParts DEF LauncherCrash, Unsent, Saving, TablesTyped, LauncherTyped,
     Row, Statuses, Outcome, LauncherAtWork, LauncherStops
<1> QED
  BY <1>1, <1>2, <1>3, StillResults DEF LauncherCrash, LauncherStops, tables, chain,
     launcher, watcher, engine

LEMMA LauncherStartResults ==
  ASSUME Typed, Typed', Grown, ResultInv, LauncherStart
  PROVE  ResultInv'
<1> USE DEF ResultInv
<1>1. UnsentHasNoHash'
  BY TypedParts DEF LauncherStart, Unsent, Saving, TablesTyped, LauncherTyped,
     Row, Statuses, Outcome, UnsentHasNoHash, tables
<1>2. SameHash'
  BY TypedParts DEF LauncherStart, Unsent, Saving, TablesTyped, LauncherTyped,
     Row, Statuses, Outcome, SameHash, tables
<1>3. LauncherAtWork'
  BY TypedParts DEF LauncherStart, Unsent, Saving, TablesTyped, LauncherTyped,
     Row, Statuses, Outcome, LauncherAtWork
<1> QED
  BY <1>1, <1>2, <1>3, StillResults DEF LauncherStart, tables, chain, launcher,
     watcher, engine

LEMMA MineResults ==
  ASSUME Typed, Typed', Grown, ResultInv, Mine
  PROVE  ResultInv'
  BY StillResults DEF ResultInv, Mine, tables, chain, launcher, watcher, engine

LEMMA ScanBlockResults ==
  ASSUME Typed, Typed', Grown, ResultInv, ScanBlock
  PROVE  ResultInv'
<1> USE DEF ResultInv
<1>1. FoundMined'
  BY TypedParts DEF ScanBlock, InBlock, FoundMined, WatcherTyped, ChainTyped, chain
<1> QED
  BY <1>1, StillResults DEF ScanBlock, tables, chain, launcher, watcher, engine

LEMMA SkipTransactionResults ==
  ASSUME Typed, Typed', Grown, ResultInv, NEW h \in found, SkipTransaction(h)
  PROVE  ResultInv'
<1> USE DEF ResultInv
<1>1. FoundMined'
  BY DEF SkipTransaction, FoundMined, chain
<1> QED
  BY <1>1, StillResults DEF SkipTransaction, tables, chain, launcher, watcher,
     engine

LEMMA ConfirmApprovalResults ==
  ASSUME Typed, Typed', Grown, ResultInv, NEW h \in found, ConfirmApproval(h)
  PROVE  ResultInv'
<1> USE DEF ResultInv
<1>1. UnsentHasNoHash'
  <2>1. \A l \in Log : Unsent(l)' => Unsent(l)
    BY TypedParts DEF ConfirmApproval, Unsent, Saving, TablesTyped, LauncherTyped,
       Row, Statuses, Outcome, ResultOf, LogsByHash
  <2>2. UNCHANGED <<txs, batch>>
    BY DEF ConfirmApproval, launcher
  <2> QED
    BY <2>1, <2>2 DEF UnsentHasNoHash
<1>2. SameHash'
  BY TypedParts DEF ConfirmApproval, Unsent, Saving, TablesTyped, LauncherTyped,
     Row, Statuses, Outcome, SameHash, LogsByHash
<1>3. LauncherAtWork'
  BY TypedParts DEF ConfirmApproval, Unsent, Saving, TablesTyped, LauncherTyped,
     Row, Statuses, Outcome, LauncherAtWork, launcher, LogsByHash, ResultOf
<1>4. FoundMined'
  BY TypedParts DEF ConfirmApproval, Unsent, Saving, TablesTyped, LauncherTyped,
     Row, Statuses, Outcome, FoundMined, chain
<1>5. ResultsAreMined'
  BY ResultKept, ResultsAreMinedIn, ResultsAreMinedNext, TypedParts DEF
     ConfirmApproval, Unsent, Saving, TablesTyped, LauncherTyped, Row, Statuses,
     Outcome, ResultIn, ResultOf, LogsByHash, FoundMined, chain, WatcherTyped
<1> QED
  BY <1>1, <1>2, <1>3, <1>4, <1>5, StillResults DEF ConfirmApproval, tables,
     chain, launcher, watcher, engine

LEMMA PushConfirmationResults ==
  ASSUME Typed, Typed', Grown, ResultInv, NEW h \in found, NEW ok \in BOOLEAN,
         PushConfirmation(h, ok)
  PROVE  ResultInv'
<1> USE DEF ResultInv
<1>1. ResultsAreMined'
  BY ResultKept, ResultsAreMinedIn, ResultsAreMinedNext, TypedParts DEF
     PushConfirmation, Unsent, Saving, TablesTyped, LauncherTyped, Row, Statuses,
     Outcome, ResultIn, ResultOf, FoundMined, chain, WatcherTyped, EngineTyped,
     tables
<1> QED
  BY <1>1, StillResults DEF PushConfirmation, tables, chain, launcher, watcher,
     engine

LEMMA SaveBlockResults ==
  ASSUME Typed, Typed', Grown, ResultInv, NEW h \in found, SaveBlock(h)
  PROVE  ResultInv'
<1> USE DEF ResultInv
<1>1. FoundMined'
  BY DEF SaveBlock, FoundMined, chain
<1> QED
  BY <1>1, StillResults DEF SaveBlock, tables, chain, launcher, watcher, engine

LEMMA WatcherCrashResults ==
  ASSUME Typed, Typed', Grown, ResultInv, WatcherCrash
  PROVE  ResultInv'
<1> USE DEF ResultInv
<1>1. FoundMined'
  BY DEF WatcherCrash, FoundMined, chain
<1> QED
  BY <1>1, StillResults DEF WatcherCrash, tables, chain, launcher, watcher, engine

LEMMA WatcherStartResults ==
  ASSUME Typed, Typed', Grown, ResultInv, WatcherStart
  PROVE  ResultInv'
  BY StillResults DEF ResultInv, WatcherStart, tables, chain, launcher, watcher,
     engine

LEMMA TakeConfirmationResults ==
  ASSUME Typed, Typed', Grown, ResultInv, TakeConfirmation
  PROVE  ResultInv'
<1> USE DEF ResultInv
<1>a. PICK e \in Event :
         /\ e = Head(queue)
         /\ e.status \in Outcome
         /\ ResultIn(e, sent)
         /\ queue' = Tail(queue)
         /\ Len(queue) > 0
  <2>1. Head(queue) \in Event
    BY TypedParts, HeadTailProperties DEF TakeConfirmation, EngineTyped
  <2>2. 1 \in DOMAIN queue /\ Head(queue) = queue[1] /\ Len(queue) > 0
    BY TypedParts, HeadTailProperties DEF TakeConfirmation, EngineTyped
  <2>3. ResultIn(Head(queue), sent)
    BY <2>2, ResultsAreMinedIn
  <2>4. Head(queue).status \in Outcome
    BY <2>1 DEF Event
  <2> QED
    BY <2>1, <2>2, <2>3, <2>4 DEF TakeConfirmation
<1>b. /\ UNCHANGED <<logs, trades, launcher, watcher>>
      /\ epc' \in {"idle", "log"}
      /\ \/ UNCHANGED <<txs, engine>>
         \/ \E l \in Log : /\ txs[l].hash = e.hash
                           /\ txs' = [txs EXCEPT ![l].status = e.status]
                           /\ event' = e
  BY <1>a DEF TakeConfirmation, TransactionsByHash, engine
<1>c. e.hash # 0
  BY <1>a, TypedParts DEF ResultIn, ChainTyped
<1>d. \A l \in Log : /\ txs'[l].hash = txs[l].hash
                     /\ \/ txs'[l] = txs[l]
                        \/ txs'[l].hash = e.hash /\ txs'[l].status = e.status
  BY <1>b, TypedParts DEF TablesTyped, Row
<1>1. UnsentHasNoHash'
  BY <1>b, <1>d, TypedParts DEF UnsentHasNoHash, Unsent, launcher, LauncherTyped
<1>2. SameHash'
  BY <1>b, <1>c, <1>d DEF SameHash
<1>3. LauncherAtWork'
  BY <1>b, <1>d, TypedParts DEF LauncherAtWork, Unsent, launcher, LauncherTyped,
     Saving
<1>4. FoundMined'
  BY <1>b, FoundKept DEF watcher
<1>5. EventMined'
  <2>1. ResultIn(e, sent')
    BY <1>a, ResultKept
  <2> QED
    BY <2>1, <1>b, EventKept DEF EventMined, engine
<1>6. ResultsAreMined'
  <2>1. \A l \in Log : ResultIn(txs'[l], sent')
    BY <1>a, <1>d, ResultKept, ResultsAreMinedIn DEF ResultIn
  <2>2. \A i \in DOMAIN queue' : i + 1 \in DOMAIN queue /\ queue'[i] = queue[i + 1]
    BY <1>a, TypedParts, HeadTailProperties DEF EngineTyped
  <2>3. \A i \in DOMAIN queue' : ResultIn(queue'[i], sent')
    BY <2>2, ResultKept, ResultsAreMinedIn
  <2> QED
    BY <1>b, <2>1, <2>3, ResultKept, ResultsAreMinedIn, ResultsAreMinedNext
<1>7. TodoFound'
  BY <1>b DEF TodoFound
<1>8. TradeHashes'
  <2>1. lpc = "saveTrades" => at \in Log
    BY DEF Typed, Saving
  <2> QED
    BY <1>b, <1>d, <2>1 DEF TradeHashes, launcher
<1> QED
  BY <1>1, <1>2, <1>3, <1>4, <1>5, <1>6, <1>7, <1>8, StillResults

LEMMA ConfirmLogResults ==
  ASSUME Typed, Typed', Grown, ResultInv, ConfirmLog
  PROVE  ResultInv'
<1> USE DEF ResultInv
<1>a. /\ UNCHANGED <<txs, trades, queue, event, launcher, watcher>>
      /\ event.status \in Outcome
      /\ ResultIn(event, sent)
  BY TypedParts DEF ConfirmLog, EventMined, Settling, EngineTyped, Event
<1>b. event.hash # 0
  BY <1>a, TypedParts DEF ResultIn, ChainTyped
<1>c. \A l \in Log : /\ logs'[l].hash = logs[l].hash
                     /\ \/ logs'[l] = logs[l]
                        \/ logs'[l].status = event.status /\ txs[l].hash = event.hash
  BY TypedParts DEF ConfirmLog, TransactionsByHash, TablesTyped, Row
<1>d. \A l \in Log : Unsent(l)' => Unsent(l)
  BY <1>a, <1>c DEF Unsent, Outcome
<1>e. \A l \in Log : \/ logs'[l] = logs[l]
                     \/ logs'[l].status = event.status /\ logs'[l].hash = event.hash
  <2> SUFFICES ASSUME NEW l \in Log
               PROVE  \/ logs'[l] = logs[l]
                      \/ logs'[l].status = event.status /\ logs'[l].hash = event.hash
    OBVIOUS
  <2>1. CASE logs'[l] = logs[l]
    BY <2>1
  <2>2. CASE logs'[l].status = event.status /\ txs[l].hash = event.hash
    <3>1. logs[l].hash = txs[l].hash
      BY <1>b, <2>2 DEF SameHash
    <3> QED
      BY <1>c, <2>2, <3>1
  <2> QED
    BY <1>c, <2>1, <2>2
<1>1. UnsentHasNoHash'
  BY <1>a, <1>d DEF UnsentHasNoHash, launcher
<1>2. SameHash'
  BY <1>a, <1>c DEF SameHash
<1>3. LauncherAtWork'
  BY <1>a, <1>c, <1>d, TypedParts DEF LauncherAtWork, launcher, LauncherTyped,
     Saving
<1>4. EventMined'
  <2>1. ResultIn(event, sent')
    BY <1>a, ResultKept
  <2> QED
    BY <2>1, <1>a DEF EventMined
<1>5. ResultsAreMined'
  <2>1. \A l \in Log : \/ logs'[l] = logs[l]
                       \/ logs'[l].status = event.status /\ logs'[l].hash = event.hash
    BY <1>e
  <2>2. \A l \in Log : ResultIn(logs'[l], sent')
    BY <1>a, <2>1, ResultKept, ResultsAreMinedIn DEF ResultIn
  <2> QED
    BY <1>a, <2>2, ResultKept, ResultsAreMinedIn, ResultsAreMinedNext
<1>6. TodoFound'
  BY DEF ConfirmLog, TodoFound
<1> QED
  BY <1>1, <1>2, <1>3, <1>4, <1>5, <1>6, StillResults DEF ConfirmLog, tables, chain,
     launcher, watcher, engine

LEMMA FindTradesResults ==
  ASSUME Typed, Typed', Grown, ResultInv, FindTrades
  PROVE  ResultInv'
<1> USE DEF ResultInv
<1>1. EventMined'
  BY ResultKept DEF FindTrades, EventMined, Settling
<1>2. TodoFound'
  <2> SUFFICES ASSUME epc' = "maker", NEW x \in TradesByHash
               PROVE  trades[x[1]][x[2]].hash = event.hash
    BY DEF FindTrades, TodoFound, tables
  <2>1. PICK l \in Log : x \in {<<l, i>> :
                           i \in {j \in DOMAIN trades[l] : trades[l][j].hash = event.hash}}
    BY Zenon DEF TradesByHash
  <2> QED
    BY <2>1
<1> QED
  BY <1>1, <1>2, StillResults DEF FindTrades, tables, chain, launcher, watcher

LEMMA SettleMakerResults ==
  ASSUME Typed, Typed', Grown, ResultInv, NEW x \in todo, SettleMaker(x)
  PROVE  ResultInv'
<1> USE DEF ResultInv
<1>1. EventMined'
  BY ResultKept DEF SettleMaker, EventMined, Settling
<1>2. TodoFound'
  BY DEF SettleMaker, TodoFound
<1> QED
  BY <1>1, <1>2, StillResults DEF SettleMaker, chain, launcher, watcher

LEMMA SettleTradeResults ==
  ASSUME Typed, Typed', Grown, ResultInv, NEW x \in todo, SettleTrade(x)
  PROVE  ResultInv'
<1> USE DEF ResultInv
<1>1. /\ UNCHANGED <<logs, txs, queue, event, launcher, watcher>>
      /\ epc = "trade" /\ epc' \in {"maker", "taker"} /\ todo' \subseteq todo
      /\ event.status \in Outcome /\ event.status \in Statuses
      /\ ResultIn(event, sent)
      /\ x[1] \in Log /\ x[2] \in 1 .. TradesOf[x[1]]
      /\ trades' = [trades EXCEPT ![x[1]][x[2]].status = event.status]
  BY TypedParts, TradeKey DEF SettleTrade, EventMined, Settling, EngineTyped, Event, Statuses
<1>2. trades[x[1]][x[2]].hash = event.hash
  BY <1>1 DEF TodoFound
<1>3. \A l \in Log : \A i \in 1 .. TradesOf[l] :
        /\ \/ trades'[l][i] = trades[l][i]
           \/ trades'[l][i].status = event.status /\ trades'[l][i].hash = event.hash
        /\ trades'[l][i].hash = trades[l][i].hash
  BY <1>1, <1>2, OneStatus, TypedParts DEF TablesTyped, Row
<1>4. ResultsAreMined'
  <2>1. \A l \in Log : /\ DOMAIN trades[l] = 1 .. TradesOf[l]
                       /\ DOMAIN trades'[l] = 1 .. TradesOf[l]
    BY <1>1, OneStatus, TypedParts DEF TablesTyped
  <2>2. ASSUME NEW l \in Log, NEW i \in DOMAIN trades'[l]
        PROVE  ResultIn(trades'[l][i], sent')
    <3>1. CASE trades'[l][i] = trades[l][i]
      <4>1. ResultIn(trades[l][i], sent)
        BY <2>1, ResultsAreMinedIn
      <4> QED
        BY <3>1, <4>1, ResultKept, Zenon
    <3>2. CASE trades'[l][i].status = event.status /\ trades'[l][i].hash = event.hash
      <4>1. ResultIn(event, sent')
        BY <1>1, ResultKept
      <4> QED
        BY <3>2, <4>1 DEF ResultIn
    <3> QED
      BY <1>3, <2>1, <3>1, <3>2
  <2> QED
    BY <1>1, <2>2, ResultKept, ResultsAreMinedIn, ResultsAreMinedNext
<1>5. TradeHashes'
  BY <1>1, <1>3, HashesKept DEF launcher
<1>6. EventMined'
  BY <1>1, ResultKept DEF EventMined
<1>7. TodoFound'
  <2>1. \A y \in todo : y[1] \in Log /\ y[2] \in 1 .. TradesOf[y[1]]
    BY TypedParts, TradeKey DEF EngineTyped
  <2> QED
    BY <1>1, <1>3, <2>1 DEF TodoFound
<1> QED
  BY <1>1, <1>4, <1>5, <1>6, <1>7, StillResults DEF launcher, watcher

LEMMA SettleTakerResults ==
  ASSUME Typed, Typed', Grown, ResultInv, SettleTaker
  PROVE  ResultInv'
  BY StillResults DEF ResultInv, SettleTaker, Settling, chain, launcher, watcher

LEMMA EngineCrashResults ==
  ASSUME Typed, Typed', Grown, ResultInv, EngineCrash
  PROVE  ResultInv'
<1> USE DEF ResultInv
<1>1. EventMined'
  BY DEF EngineCrash, EventMined, Settling
<1> QED
  BY <1>1, StillResults DEF EngineCrash, Settling, tables, chain, launcher, watcher, engine

LEMMA EngineStartResults ==
  ASSUME Typed, Typed', Grown, ResultInv, EngineStart
  PROVE  ResultInv'
<1> USE DEF ResultInv
<1>1. EventMined'
  BY DEF EngineStart, EventMined, Settling
<1> QED
  BY <1>1, StillResults DEF EngineStart, Settling, tables, chain, launcher, watcher, engine

LEMMA StutterResults ==
  ASSUME Typed, Typed', Grown, ResultInv, UNCHANGED vars
  PROVE  ResultInv'
<1>1. UnsentHasNoHash' /\ SameHash' /\ LauncherAtWork'
  BY LogsKept DEF ResultInv, vars, tables
<1>2. FoundMined' /\ EventMined' /\ ResultsAreMined'
  BY FoundKept, EventKept, ResultsKept DEF ResultInv, vars, tables, watcher
<1>3. TradeHashes' /\ TodoFound'
  BY StillResults DEF vars, tables, launcher, engine
<1> QED
  BY <1>1, <1>2, <1>3 DEF ResultInv

LEMMA NextResults ==
  ASSUME Typed, Typed', Grown, ResultInv, [Next]_vars
  PROVE  ResultInv'
<1>1. CASE \E l \in Log : InsertLog(l) \/ ApproveToken(l) \/ SendFails(l)
  BY <1>1, InsertLogResults, ApproveTokenResults, SendFailsResults
<1>2. CASE Launcher
  BY <1>2, FindAllCreatedResults, SendResults, SaveLogResults,
     SaveTransactionResults,
     SaveTradeResults, LauncherStartResults DEF Launcher
<1>3. CASE Mine
  BY <1>3, MineResults
<1>4. CASE Watcher
  BY <1>4, ScanBlockResults, SkipTransactionResults, ConfirmApprovalResults,
     PushConfirmationResults, SaveBlockResults, WatcherStartResults DEF Watcher
<1>5. CASE \E h \in found : PushConfirmation(h, FALSE)
  BY <1>5, PushConfirmationResults
<1>6. CASE Engine
  BY <1>6, InsertTradeResults, TakeConfirmationResults, ConfirmLogResults,
     FindTradesResults, SettleMakerResults, SettleTradeResults, SettleTakerResults,
     EngineStartResults DEF Engine
<1>7. CASE LauncherCrash \/ WatcherCrash \/ EngineCrash
  BY <1>7, LauncherCrashResults, WatcherCrashResults, EngineCrashResults
<1>8. CASE UNCHANGED vars
  BY <1>8, StutterResults
<1> QED
  BY <1>1, <1>2, <1>3, <1>4, <1>5, <1>6, <1>7, <1>8 DEF Next

LEMMA InitResults == Init => ResultInv
<1> SUFFICES ASSUME Init PROVE ResultInv
  OBVIOUS
<1>1. /\ \A l \in Log : /\ logs[l].status = "absent"
                        /\ txs[l].status = "pending" /\ txs[l].hash = 0
                        /\ \A i \in DOMAIN trades[l] : trades[l][i].status = "absent"
      /\ queue = <<>>
  BY DEF Init
<1>2. ResultsAreMined
  BY <1>1, ResultsAreMinedIn DEF ResultIn, Outcome
<1>3. UnsentHasNoHash /\ SameHash /\ LauncherAtWork /\ FoundMined /\ EventMined
  BY <1>1 DEF Init, UnsentHasNoHash, SameHash, LauncherAtWork, FoundMined,
     EventMined, Saving, Settling
<1>4. TradeHashes /\ TodoFound
  BY DEF Init, TradeHashes, TodoFound
<1> QED
  BY <1>2, <1>3, <1>4 DEF ResultInv

LEMMA NextGrows == Typed /\ [Next]_vars => Grown
  BY NextSends, SendsGrow DEF vars, chain, Sends

(* No table and no message ever holds a result the chain did not give to   *)
(* the transaction of that hash, though the launcher may send a launch log *)
(* again, the watcher report it again, and each process stop between any   *)
(* two writes.                                                             *)
THEOREM ResultsAreTheChains == Spec => []ResultsAreMined
<1>1. Init => Typed /\ ResultInv
  BY InitTyped, InitResults
<1>2. Typed /\ ResultInv /\ [Next]_vars => Typed' /\ ResultInv'
  BY NextTyped, NextGrows, NextResults
<1>3. Typed /\ ResultInv => ResultsAreMined
  BY DEF ResultInv
<1> QED
  BY <1>1, <1>2, <1>3, PTL DEF Spec

-----------------------------------------------------------------------------
(* What SentInOrder rests on: launch logs are inserted in order, so those  *)
(* still to be sent, in the batch or in the table, come after those sent.  *)
InsertedInOrder ==
  \A k, l \in Log :
    k < l /\ logs[l].status # "absent" => logs[k].status # "absent"

Exists(l) == logs[l].status # "absent"

SentExists ==
  /\ \A h \in DOMAIN sent : Exists(sent[h].log)
  /\ \A l \in batch : Exists(l)
  /\ lpc = "saveLog" => Exists(at)

StillToSend(l) == l \in batch \/ logs[l].status = "created"

SentBefore ==
  \A h \in DOMAIN sent, l \in Log : StillToSend(l) => sent[h].log <= l

BatchFirst ==
  \A k \in batch, l \in Log :
    /\ logs[l].status = "created"
    /\ l \notin batch
    /\ ~(lpc = "saveLog" /\ l = at)
    => k < l

OrderInv ==
  /\ InsertedInOrder
  /\ SentExists
  /\ SentBefore
  /\ BatchFirst
  /\ SentInOrder

(* The steps that insert a launch log.                                     *)
Inserts(l) == InsertLog(l) \/ ApproveToken(l)

LEMMA InsertedLog ==
  ASSUME Typed, NEW l \in Log, Inserts(l)
  PROVE  /\ logs[l].status = "absent"
         /\ \A k \in Log : k < l => logs[k].status # "absent"
         /\ logs'[l].status = "created" /\ logs'[l].hash = logs[l].hash
         /\ \A k \in Log \ {l} : logs'[k] = logs[k]
         /\ UNCHANGED <<txs, trades, settled, takerSettled, chain, launcher, watcher, queue,
                        event, listed, faults>>
<1>1. /\ logs[l].status = "absent"
      /\ \A k \in Log : k < l => logs[k].status # "absent"
      /\ logs' = [logs EXCEPT ![l].status = "created"]
      /\ UNCHANGED <<txs, trades, settled, takerSettled, chain, launcher, watcher, queue,
                     event, listed, faults>>
  BY DEF Inserts, InsertLog, ApproveToken, NextLog, engine
<1>2. logs \in [Log -> Row]
  BY TypedParts DEF TablesTyped
<1> QED
  BY <1>1, <1>2 DEF Row

(* The steps that leave the launch logs and the launcher alone.            *)
Quiet ==
  \/ Mine
  \/ ScanBlock \/ WatcherStart \/ WatcherCrash
  \/ \E h \in found : \/ SkipTransaction(h) \/ SaveBlock(h)
                      \/ \E ok \in BOOLEAN : PushConfirmation(h, ok)
  \/ TakeConfirmation \/ FindTrades \/ SettleTaker \/ EngineCrash \/ EngineStart
  \/ \E x \in todo : InsertTrade(x) \/ SettleMaker(x) \/ SettleTrade(x)
  \/ UNCHANGED vars

LEMMA NextSplit ==
  [Next]_vars => \/ Quiet
                 \/ \E l \in Log : Inserts(l) \/ SendFails(l)
                 \/ Launcher
                 \/ LauncherCrash \/ ConfirmLog \/ \E h \in found : ConfirmApproval(h)
  BY DEF Next, Inserts, Quiet, Watcher, Engine

LEMMA QuietStep ==
  ASSUME Typed, Quiet
  PROVE  UNCHANGED <<logs, lpc, batch, at, hash>> /\ DOMAIN sent' = DOMAIN sent
<1>1. CASE Mine
  BY <1>1, MineGrows DEF Mine, tables, launcher
<1>2. CASE ~Mine
  BY <1>2 DEF Quiet, ScanBlock, WatcherStart, WatcherCrash, SkipTransaction,
     SaveBlock,
     PushConfirmation, TakeConfirmation, FindTrades, InsertTrade, SettleMaker, SettleTrade,
     SettleTaker, EngineCrash, EngineStart, vars, tables, chain, launcher
<1> QED
  BY <1>1, <1>2

(* A step that inserts no launch log.                                      *)
NothingNew ==
  \A l \in Log : /\ Exists(l) => Exists(l)'
                 /\ ~Exists(l) => ~Exists(l)'
                 /\ logs'[l].status = "created" => logs[l].status = "created"

LEMMA LogsNumbers == \A l \in Log : l \in Int
  BY LogAssumption

LEMMA SentTyped ==
  ASSUME Typed
  PROVE  /\ \A h \in DOMAIN sent : h \in Nat /\ sent[h].log \in Log
         /\ DOMAIN sent = 1 .. Len(sent) /\ Len(sent) \in Nat
<1>1. sent \in Seq(LogEntry)
  BY TypedParts DEF ChainTyped
<1>2. \A h \in DOMAIN sent : h \in Nat /\ sent[h] \in LogEntry
  BY <1>1
<1>3. \A e \in LogEntry : e.log \in Log
  BY DEF LogEntry
<1> QED
  BY <1>1, <1>2, <1>3

LEMMA OrderKept ==
  ASSUME Typed, Typed', Grown, OrderInv, NothingNew, DOMAIN sent' = DOMAIN sent,
         lpc' = "saveLog" => lpc = "saveLog" /\ at' = at,
         \/ batch' = {}
         \/ batch' = batch /\ (lpc = "saveLog" => lpc' = "saveLog" /\ at' = at)
  PROVE  OrderInv'
<1> USE DEF OrderInv
<1>1. InsertedInOrder'
  BY DEF InsertedInOrder, NothingNew, Exists
<1>2. SentExists'
  BY SentTyped, TypedParts DEF SentExists, NothingNew, Grown, Exists,
     LauncherTyped, Saving
<1>3. SentBefore'
  BY SentTyped DEF SentBefore, NothingNew, Grown, StillToSend
<1>4. BatchFirst'
  BY DEF BatchFirst, NothingNew
<1>5. SentInOrder'
  BY DEF SentInOrder, Grown
<1> QED
  BY <1>1, <1>2, <1>3, <1>4, <1>5

LEMMA InsertOrder ==
  ASSUME Typed, Typed', Grown, ResultInv, OrderInv, NEW l \in Log, Inserts(l)
  PROVE  OrderInv'
<1> USE DEF OrderInv
<1>1. /\ Exists(l)'
      /\ logs'[l].status = "created"
      /\ \A k \in Log \ {l} : logs'[k] = logs[k]
      /\ ~Exists(l)
      /\ \A k \in Log : k < l => Exists(k)
  BY InsertedLog DEF Exists
<1>2. UNCHANGED <<sent, batch, lpc, at>>
  BY InsertedLog DEF chain, launcher
<1>3. \A k \in Log : Exists(k) => k < l
  BY <1>1, LogsNumbers DEF InsertedInOrder, Exists
<1>4. InsertedInOrder'
  BY <1>1, <1>3, LogsNumbers DEF InsertedInOrder, Exists
<1>5. SentExists'
  BY <1>1, <1>2, SentTyped, TypedParts DEF SentExists, Exists, LauncherTyped, Saving
<1>6. SentBefore'
  <2>1. \A h \in DOMAIN sent : sent[h].log < l
    BY <1>3, SentTyped DEF SentExists
  <2>2. \A k \in Log \ {l} : StillToSend(k)' => StillToSend(k)
    BY <1>1, <1>2 DEF StillToSend
  <2> QED
    BY <1>2, <2>1, <2>2, SentTyped, LogsNumbers DEF SentBefore
<1>7. BatchFirst'
  <2>1. \A k \in batch : k < l
    BY <1>3, TypedParts DEF SentExists, LauncherTyped
  <2> QED
    BY <1>1, <1>2, <2>1 DEF BatchFirst
<1>8. SentInOrder'
  BY <1>2 DEF SentInOrder
<1> QED
  BY <1>4, <1>5, <1>6, <1>7, <1>8

LEMMA FindAllCreatedOrder ==
  ASSUME Typed, Typed', Grown, ResultInv, OrderInv, FindAllCreated
  PROVE  OrderInv'
<1> USE DEF OrderInv
<1>1. UNCHANGED <<sent, logs>> /\ batch' = Created /\ lpc' = "send"
  BY DEF FindAllCreated, chain, tables
<1>2. InsertedInOrder' /\ SentInOrder'
  BY <1>1 DEF InsertedInOrder, SentInOrder
<1>3. SentExists' /\ SentBefore' /\ BatchFirst'
  BY <1>1 DEF SentExists, SentBefore, BatchFirst, Created, StillToSend, Exists
<1> QED
  BY <1>2, <1>3

(* The launch log sent is the first of those still to send.                *)
LEMMA SentLast ==
  ASSUME Typed, Grown, OrderInv, NEW l \in batch, Accepted(l), UNCHANGED logs,
         \A k \in Log : StillToSend(k) => l <= k,
         batch' = batch \ {l} \/ batch' = {},
         lpc' = "saveLog" => at' = l
  PROVE  InsertedInOrder' /\ SentExists' /\ SentBefore' /\ SentInOrder'
<1> USE DEF OrderInv
<1>1. l \in Log
  BY TypedParts DEF LauncherTyped
<1>2. /\ DOMAIN sent' = 1 .. Len(sent) + 1
      /\ \A h \in DOMAIN sent : sent'[h] = sent[h]
      /\ sent'[Len(sent) + 1].log = l
  BY <1>1, AcceptedGrows
<1>3. \A h \in DOMAIN sent' : /\ h \in DOMAIN sent \/ h = Len(sent) + 1
                              /\ h \in Nat
  BY <1>2, SentTyped
<1>4. \A h \in DOMAIN sent : sent[h].log <= l
  BY <1>1 DEF SentBefore, StillToSend
<1>5. InsertedInOrder'
  BY DEF InsertedInOrder
<1>6. SentExists'
  BY <1>2, <1>3 DEF SentExists, Exists
<1>7. SentBefore'
  <2>1. \A k \in Log : StillToSend(k)' => StillToSend(k)
    BY DEF StillToSend
  <2> QED
    BY <1>2, <1>3, <2>1 DEF SentBefore
<1>8. SentInOrder'
  <2> SUFFICES ASSUME NEW h \in DOMAIN sent', NEW k \in DOMAIN sent', h < k
               PROVE  sent'[h].log <= sent'[k].log
    BY DEF SentInOrder
  <2>1. h \in DOMAIN sent
    BY <1>3, SentTyped
  <2>2. CASE k \in DOMAIN sent
    BY <1>2, <2>1, <2>2 DEF SentInOrder
  <2>3. CASE k = Len(sent) + 1
    BY <1>2, <1>4, <2>1, <2>3
  <2> QED
    BY <1>3, <2>2, <2>3
<1> QED
  BY <1>5, <1>6, <1>7, <1>8

LEMMA SendOrder ==
  ASSUME Typed, Typed', Grown, ResultInv, OrderInv, NEW l \in Log, SendRawTransaction(l)
  PROVE  OrderInv'
<1> USE DEF OrderInv
<1>1. /\ UNCHANGED logs
      /\ l \in batch
      /\ lpc = "send"
      /\ \A k \in Log : StillToSend(k) => l <= k
  <2>1. \A k \in Log \ batch : logs[k].status = "created" => l < k
    BY DEF SendRawTransaction, Oldest, BatchFirst
  <2> QED
    BY <2>1, LogsNumbers DEF SendRawTransaction, Oldest, StillToSend, tables
<1>2. InsertedInOrder' /\ SentExists' /\ SentBefore' /\ SentInOrder'
  BY <1>1, SentLast DEF SendRawTransaction
<1>3. BatchFirst'
  BY <1>1 DEF SendRawTransaction, BatchFirst
<1> QED
  BY <1>2, <1>3

LEMMA SendFailsOrder ==
  ASSUME Typed, Typed', Grown, ResultInv, OrderInv, NEW l \in Log, SendFails(l)
  PROVE  OrderInv'
<1> USE DEF OrderInv
<1>1. /\ UNCHANGED logs
      /\ l \in batch
      /\ lpc = "send"
      /\ \A k \in Log : StillToSend(k) => l <= k
  <2>1. \A k \in Log \ batch : logs[k].status = "created" => l < k
    BY DEF SendFails, Oldest, BatchFirst
  <2> QED
    BY <2>1, LogsNumbers DEF SendFails, Oldest, StillToSend, tables
<1>2. batch' = {} /\ lpc' = "down"
  BY DEF SendFails, LauncherStops
<1>3. CASE Accepted(l)
  <2>1. InsertedInOrder' /\ SentExists' /\ SentBefore' /\ SentInOrder'
    BY <1>1, <1>2, <1>3, SentLast
  <2> QED
    BY <1>2, <2>1 DEF BatchFirst
<1>4. CASE UNCHANGED sent
  <2>1. NothingNew
    BY <1>1 DEF NothingNew, Exists
  <2> QED
    BY <1>2, <1>4, <2>1, OrderKept
<1> QED
  BY <1>3, <1>4 DEF SendFails

LEMMA SaveLogOrder ==
  ASSUME Typed, Typed', Grown, ResultInv, OrderInv, SaveLog
  PROVE  OrderInv'
<1> USE DEF OrderInv
<1>1. /\ at \in Log
      /\ Exists(at)
      /\ logs'[at].status = "pending"
      /\ \A l \in Log \ {at} : logs'[l] = logs[l]
      /\ UNCHANGED <<sent, batch, at>>
      /\ lpc' # "saveLog"
  BY TypedParts DEF SaveLog, Continue, SentExists, TablesTyped, LauncherTyped,
     Saving, chain
<1>2. NothingNew
  BY <1>1 DEF NothingNew, Exists
<1>3. InsertedInOrder' /\ SentInOrder'
  BY <1>1, <1>2 DEF InsertedInOrder, SentInOrder, NothingNew, Exists
<1>4. SentExists'
  BY <1>1, <1>2, SentTyped, TypedParts DEF SentExists, NothingNew, Exists,
     LauncherTyped
<1>5. SentBefore'
  BY <1>1, <1>2 DEF SentBefore, NothingNew, StillToSend
<1>6. BatchFirst'
  BY <1>1, <1>2 DEF BatchFirst, NothingNew
<1> QED
  BY <1>3, <1>4, <1>5, <1>6

LEMMA SaveTransactionOrder ==
  ASSUME Typed, Typed', Grown, ResultInv, OrderInv, SaveTransaction
  PROVE  OrderInv'
<1>1. NothingNew
  BY DEF SaveTransaction, NothingNew, Exists, tables
<1>2. DOMAIN sent' = DOMAIN sent
  BY DEF SaveTransaction, chain
<1> QED
  BY <1>1, <1>2, OrderKept DEF SaveTransaction, launcher, Continue

LEMMA SaveTradeOrder ==
  ASSUME Typed, Typed', Grown, ResultInv, OrderInv, NEW i \in unhashed, SaveTrade(i)
  PROVE  OrderInv'
<1>1. NothingNew
  BY DEF SaveTrade, NothingNew, Exists, tables
<1>2. DOMAIN sent' = DOMAIN sent
  BY DEF SaveTrade, chain
<1> QED
  BY <1>1, <1>2, OrderKept DEF SaveTrade, launcher, Continue

LEMMA LauncherCrashOrder ==
  ASSUME Typed, Typed', Grown, ResultInv, OrderInv, LauncherCrash
  PROVE  OrderInv'
<1>1. NothingNew
  BY DEF LauncherCrash, NothingNew, Exists, tables
<1>2. DOMAIN sent' = DOMAIN sent
  BY DEF LauncherCrash, chain
<1> QED
  BY <1>1, <1>2, OrderKept DEF LauncherCrash, launcher, LauncherStops

LEMMA LauncherStartOrder ==
  ASSUME Typed, Typed', Grown, ResultInv, OrderInv, LauncherStart
  PROVE  OrderInv'
<1>1. NothingNew
  BY DEF LauncherStart, NothingNew, Exists, tables
<1>2. DOMAIN sent' = DOMAIN sent
  BY DEF LauncherStart, chain
<1> QED
  BY <1>1, <1>2, OrderKept DEF LauncherStart, launcher

LEMMA QuietOrder ==
  ASSUME Typed, Typed', Grown, ResultInv, OrderInv, Quiet
  PROVE  OrderInv'
<1>1. NothingNew
  BY QuietStep DEF NothingNew, Exists
<1> QED
  BY <1>1, QuietStep, OrderKept

LEMMA ConfirmApprovalOrder ==
  ASSUME Typed, Typed', Grown, ResultInv, OrderInv, NEW h \in found, ConfirmApproval(h)
  PROVE  OrderInv'
<1>1. PICK l \in Log : /\ logs[l].status = "pending"
                       /\ logs' = [logs EXCEPT ![l].status = ResultOf(h)]
  BY DEF ConfirmApproval, LogsByHash
<1>2. ResultOf(h) \in Outcome
  BY DEF ResultOf, Outcome
<1>3. NothingNew
  BY <1>1, <1>2, TypedParts DEF NothingNew, Exists, TablesTyped, Row, Outcome
<1> QED
  BY <1>3, OrderKept DEF ConfirmApproval, chain, launcher

LEMMA ConfirmLogOrder ==
  ASSUME Typed, Typed', Grown, ResultInv, OrderInv, ConfirmLog
  PROVE  OrderInv'
<1>1. /\ event.status \in Outcome
      /\ event.hash # 0
  BY TypedParts DEF ConfirmLog, ResultInv, EventMined, Settling, ResultIn, EngineTyped,
     Event, ChainTyped
<1>2. \A l \in Log : \/ logs'[l] = logs[l]
                     \/ logs'[l].status = event.status /\ txs[l].hash = event.hash
  BY TypedParts DEF ConfirmLog, TransactionsByHash, TablesTyped, Row
<1>3. \A l \in Log : txs[l].hash = event.hash => Exists(l)
  BY <1>1 DEF ResultInv, UnsentHasNoHash, Unsent, Exists
<1>4. NothingNew
  BY <1>1, <1>2, <1>3 DEF NothingNew, Exists, Outcome
<1> QED
  BY <1>4, OrderKept DEF ConfirmLog, chain, launcher

LEMMA NextOrder ==
  ASSUME Typed, Typed', Grown, ResultInv, OrderInv, [Next]_vars
  PROVE  OrderInv'
<1>1. CASE Quiet
  BY <1>1, QuietOrder
<1>2. CASE \E l \in Log : Inserts(l) \/ SendFails(l)
  BY <1>2, InsertOrder, SendFailsOrder
<1>3. CASE Launcher
  BY <1>3, FindAllCreatedOrder, SendOrder, SaveLogOrder, SaveTransactionOrder,
     SaveTradeOrder, LauncherStartOrder DEF Launcher
<1>4. CASE LauncherCrash \/ ConfirmLog \/ \E h \in found : ConfirmApproval(h)
  BY <1>4, LauncherCrashOrder, ConfirmLogOrder, ConfirmApprovalOrder
<1> QED
  BY <1>1, <1>2, <1>3, <1>4, NextSplit

LEMMA InitOrder == Init => OrderInv
<1> SUFFICES ASSUME Init PROVE OrderInv
  OBVIOUS
<1>1. /\ \A l \in Log : logs[l].status = "absent"
      /\ sent = <<>> /\ batch = {} /\ lpc = "poll"
  BY DEF Init
<1> QED
  BY <1>1 DEF OrderInv, InsertedInOrder, SentExists, SentBefore, StillToSend,
     BatchFirst,
              SentInOrder, Exists

(* No settlement overtakes an earlier one on its way to the chain, however *)
(* often the launcher stops, or a send fails whose transaction the node    *)
(* took all the same, and the launch log is sent once more.                *)
THEOREM SettlementsInOrder == Spec => []SentInOrder
<1>1. Init => Typed /\ ResultInv /\ OrderInv
  BY InitTyped, InitResults, InitOrder
<1>2. Typed /\ ResultInv /\ OrderInv /\ [Next]_vars => Typed' /\ ResultInv' /\ OrderInv'
  BY NextTyped, NextGrows, NextResults, NextOrder
<1>3. Typed /\ ResultInv /\ OrderInv => SentInOrder
  BY DEF OrderInv
<1> QED
  BY <1>1, <1>2, <1>3, PTL DEF Spec

-----------------------------------------------------------------------------
(* Settlement implements LaunchLifecycle.  A hash belongs to the launch    *)
(* log it was got for, and what the launcher still has to send or to note  *)
(* is created and no more.                                                 *)
Own(h, l) == h \in DOMAIN sent /\ sent[h].log = l

HashesOwned ==
  /\ \A l \in Log : logs[l].hash # 0 => Own(logs[l].hash, l)
  /\ lpc = "saveLog" => Own(hash, at)

UnsentAtWork ==
  /\ \A l \in batch : logs[l].status = "created"
  /\ lpc = "saveLog" => logs[at].status = "created"

OwnerInv == HashesOwned /\ UnsentAtWork

(* A step of the life of one launch log.                                   *)
LEMMA OwnKept ==
  ASSUME Grown, NEW h, NEW l, Own(h, l)
  PROVE  h \in DOMAIN sent' /\ sent'[h].log = l
  BY DEF Grown, Own

LEMMA OwnersKept ==
  ASSUME Typed, Grown, OwnerInv,
         \A l \in Log : logs'[l].hash = logs[l].hash,
         \A l \in Log : logs[l].status = "created" => logs'[l].status = "created",
         \/ batch' = {} /\ lpc' # "saveLog"
         \/ UNCHANGED <<batch, at, hash>> /\ (lpc' = "saveLog" => lpc = "saveLog")
  PROVE  OwnerInv'
<1>1. HashesOwned'
  BY OwnKept DEF OwnerInv, HashesOwned, Own
<1>2. UnsentAtWork'
  BY TypedParts DEF OwnerInv, UnsentAtWork, LauncherTyped, Saving
<1> QED
  BY <1>1, <1>2 DEF OwnerInv

LEMMA ConfirmedLogs ==
  ASSUME Typed, ResultInv, ConfirmLog
  PROVE  /\ event.status \in Outcome
         /\ ResultIn(event, sent)
         /\ \A l \in Log : /\ logs'[l].hash = logs[l].hash
                           /\ \/ logs'[l] = logs[l]
                              \/ /\ logs'[l].status = event.status
                                 /\ logs[l].hash = event.hash
                                 /\ event.hash # 0
                                 /\ ~Unsent(l)
<1>1. /\ event.status \in Outcome
      /\ ResultIn(event, sent)
      /\ event.hash # 0
  BY TypedParts DEF ConfirmLog, ResultInv, EventMined, Settling, ResultIn, EngineTyped,
     Event, ChainTyped
<1>2. \A l \in Log : /\ logs'[l].hash = logs[l].hash
                     /\ \/ logs'[l] = logs[l]
                        \/ logs'[l].status = event.status /\ txs[l].hash = event.hash
  BY TypedParts DEF ConfirmLog, TransactionsByHash, TablesTyped, Row
<1>3. \A l \in Log : txs[l].hash = event.hash => logs[l].hash = event.hash /\ ~Unsent(l)
  BY <1>1 DEF ResultInv, UnsentHasNoHash, SameHash
<1> QED
  BY <1>1, <1>2, <1>3

LEMMA SentNew ==
  ASSUME Typed, NEW l \in Log, Accepted(l)
  PROVE  /\ DOMAIN sent' = DOMAIN sent \cup {Len(sent) + 1}
         /\ Len(sent) + 1 \notin DOMAIN sent
         /\ \A h \in DOMAIN sent : sent'[h] = sent[h]
         /\ sent'[Len(sent) + 1].log = l
         /\ sent'[Len(sent) + 1].block = 0
<1>1. DOMAIN sent = 1 .. Len(sent) /\ Len(sent) \in Nat
  BY SentTyped
<1> DEFINE e == [log |-> l, block |-> 0, ok |-> FALSE]
<1>2. e \in LogEntry
  BY Zenon DEF LogEntry
<1>3. sent'[Len(sent) + 1] = e
  <2>1. sent \in Seq(LogEntry) /\ sent' = Append(sent, e)
    BY TypedParts DEF ChainTyped, Accepted
  <2> HIDE DEF e
  <2> QED
    BY <1>2, <2>1, AppendProperties
<1>4. sent'[Len(sent) + 1].block = 0
  BY <1>3
<1> HIDE DEF e
<1>5. /\ DOMAIN sent' = 1 .. Len(sent) + 1
      /\ \A h \in DOMAIN sent : sent'[h] = sent[h]
      /\ sent'[Len(sent) + 1].log = l
  BY AcceptedGrows
<1>6. /\ 1 .. Len(sent) + 1 = (1 .. Len(sent)) \cup {Len(sent) + 1}
      /\ Len(sent) + 1 \notin 1 .. Len(sent)
  BY <1>1
<1> QED
  BY <1>1, <1>4, <1>5, <1>6

LEMMA InsertOwner ==
  ASSUME Typed, Typed', Grown, ResultInv, OwnerInv, NEW l \in Log, Inserts(l)
  PROVE  OwnerInv'
<1>1. \A k \in Log : /\ logs'[k].hash = logs[k].hash
                     /\ logs[k].status = "created" => logs'[k].status = "created"
  BY InsertedLog
<1> QED
  BY <1>1, OwnersKept, InsertedLog DEF launcher

LEMMA FindAllCreatedOwner ==
  ASSUME Typed, Typed', Grown, ResultInv, OwnerInv, FindAllCreated
  PROVE  OwnerInv'
  BY DEF FindAllCreated, Created, OwnerInv, HashesOwned, UnsentAtWork, Own,
     tables, chain

LEMMA SendOwner ==
  ASSUME Typed, Typed', Grown, ResultInv, OwnerInv, NEW l \in Log, SendRawTransaction(l)
  PROVE  OwnerInv'
<1>1. HashesOwned'
  <2>1. lpc' = "saveLog" /\ hash' = Len(sent) + 1 /\ at' = l /\ UNCHANGED logs
    BY DEF SendRawTransaction, tables
  <2>2. Own(hash, at)'
    BY <2>1, SentNew DEF SendRawTransaction, Own
  <2> QED
    BY <2>1, <2>2, OwnKept DEF OwnerInv, HashesOwned, Own
<1>2. UnsentAtWork'
  BY DEF SendRawTransaction, Oldest, OwnerInv, UnsentAtWork, tables
<1> QED
  BY <1>1, <1>2 DEF OwnerInv

LEMMA SendFailsOwner ==
  ASSUME Typed, Typed', Grown, ResultInv, OwnerInv, NEW l \in Log, SendFails(l)
  PROVE  OwnerInv'
  BY OwnersKept DEF SendFails, tables, launcher, LauncherStops

LEMMA SaveLogOwner ==
  ASSUME Typed, Typed', Grown, ResultInv, OwnerInv, SaveLog
  PROVE  OwnerInv'
<1>1. /\ at \in Log /\ at \notin batch
      /\ logs'[at].hash = hash
      /\ \A l \in Log \ {at} : logs'[l] = logs[l]
      /\ UNCHANGED <<sent, batch, at, hash>>
      /\ lpc' # "saveLog"
      /\ Own(hash, at)
  BY TypedParts DEF SaveLog, Continue, OwnerInv, HashesOwned, ResultInv,
     LauncherAtWork,
                    TablesTyped, LauncherTyped, Saving, chain
<1>2. HashesOwned'
  BY <1>1 DEF OwnerInv, HashesOwned, Own
<1>3. UnsentAtWork'
  BY <1>1, TypedParts DEF OwnerInv, UnsentAtWork, LauncherTyped
<1> QED
  BY <1>2, <1>3 DEF OwnerInv

LEMMA SaveTransactionOwner ==
  ASSUME Typed, Typed', Grown, ResultInv, OwnerInv, SaveTransaction
  PROVE  OwnerInv'
  BY OwnersKept DEF SaveTransaction, tables, launcher, Continue

LEMMA SaveTradeOwner ==
  ASSUME Typed, Typed', Grown, ResultInv, OwnerInv, NEW i \in unhashed, SaveTrade(i)
  PROVE  OwnerInv'
  BY OwnersKept DEF SaveTrade, tables, launcher, Continue

LEMMA LauncherCrashOwner ==
  ASSUME Typed, Typed', Grown, ResultInv, OwnerInv, LauncherCrash
  PROVE  OwnerInv'
  BY OwnersKept DEF LauncherCrash, tables, launcher, LauncherStops

LEMMA LauncherStartOwner ==
  ASSUME Typed, Typed', Grown, ResultInv, OwnerInv, LauncherStart
  PROVE  OwnerInv'
  BY OwnersKept DEF LauncherStart, tables, launcher

LEMMA QuietOwner ==
  ASSUME Typed, Typed', Grown, ResultInv, OwnerInv, Quiet
  PROVE  OwnerInv'
  BY QuietStep, OwnersKept

LEMMA ConfirmApprovalOwner ==
  ASSUME Typed, Typed', Grown, ResultInv, OwnerInv, NEW h \in found, ConfirmApproval(h)
  PROVE  OwnerInv'
<1>1. \A k \in Log : /\ logs'[k].hash = logs[k].hash
                     /\ logs[k].status = "created" => logs'[k].status = "created"
  BY TypedParts DEF ConfirmApproval, LogsByHash, TablesTyped, Row
<1> QED
  BY <1>1, OwnersKept DEF ConfirmApproval, launcher

LEMMA ConfirmLogOwner ==
  ASSUME Typed, Typed', Grown, ResultInv, OwnerInv, ConfirmLog
  PROVE  OwnerInv'
<1>1. \A k \in Log : /\ logs'[k].hash = logs[k].hash
                     /\ logs[k].status = "created" => logs'[k].status = "created"
  BY ConfirmedLogs DEF Unsent
<1> QED
  BY <1>1, OwnersKept DEF ConfirmLog, launcher

LEMMA NextOwner ==
  ASSUME Typed, Typed', Grown, ResultInv, OwnerInv, [Next]_vars
  PROVE  OwnerInv'
<1>1. CASE Quiet
  BY <1>1, QuietOwner
<1>2. CASE \E l \in Log : Inserts(l) \/ SendFails(l)
  BY <1>2, InsertOwner, SendFailsOwner
<1>3. CASE Launcher
  BY <1>3, FindAllCreatedOwner, SendOwner, SaveLogOwner, SaveTransactionOwner,
     SaveTradeOwner, LauncherStartOwner DEF Launcher
<1>4. CASE LauncherCrash \/ ConfirmLog \/ \E h \in found : ConfirmApproval(h)
  BY <1>4, LauncherCrashOwner, ConfirmLogOwner, ConfirmApprovalOwner
<1> QED
  BY <1>1, <1>2, <1>3, <1>4, NextSplit

LEMMA InitOwner == Init => OwnerInv
<1> SUFFICES ASSUME Init PROVE OwnerInv
  OBVIOUS
<1>1. (\A l \in Log : logs[l].hash = 0) /\ batch = {} /\ lpc = "poll"
  BY DEF Init
<1> QED
  BY <1>1 DEF OwnerInv, HashesOwned, UnsentAtWork

(* The steps of one life.                                                  *)
LEMMA NoStage ==
  ASSUME UNCHANGED sent, \A l \in Log : logs'[l].status = logs[l].status
  PROVE  UNCHANGED Lifecycle!vars
<1>1. UNCHANGED Stage
  BY DEF Stage
<1>2. UNCHANGED <<SentLogs, ResultsOf>>
  BY DEF SentLogs, ResultsOf, Attempts
<1> QED
  BY <1>1, <1>2 DEF Lifecycle!vars

LEMMA OneStage ==
  ASSUME Typed, Typed', UNCHANGED sent, NEW l \in Log,
         \A k \in Log \ {l} : logs'[k].status = logs[k].status
  PROVE  /\ Stage' = [Stage EXCEPT ![l] = logs'[l].status]
         /\ Stage[l] = logs[l].status
         /\ UNCHANGED <<SentLogs, ResultsOf>>
<1>1. Stage' = [Stage EXCEPT ![l] = logs'[l].status] /\ Stage[l] = logs[l].status
  BY DEF Stage
<1>2. UNCHANGED <<SentLogs, ResultsOf>>
  BY DEF SentLogs, ResultsOf, Attempts
<1> QED
  BY <1>1, <1>2

LEMMA ResultOfOwn ==
  ASSUME NEW r, NEW l \in Log, Own(r.hash, l), ResultIn(r, sent), r.status \in Outcome
  PROVE  r.status \in ResultsOf[l]
<1>1. /\ r.hash \in {k \in Attempts(l) : sent[k].block > 0}
      /\ r.status = IF sent[r.hash].ok THEN "successful" ELSE "failed"
  BY DEF Own, ResultIn, Attempts, Outcome
<1> QED
  BY <1>1, Zenon DEF ResultsOf

LEMMA AcceptedLife ==
  ASSUME Typed, NEW l \in Log, Accepted(l), UNCHANGED logs, logs[l].status = "created"
  PROVE  Lifecycle!Accept(l)
<1>1. UNCHANGED Stage /\ Stage[l] = "created"
  BY DEF Stage
<1>2. SentLogs' = SentLogs \cup {l}
  BY SentNew DEF SentLogs
<1>3. \A k \in Log : {h \in Attempts(k) : sent[h].block > 0}'
                       = {h \in Attempts(k) : sent[h].block > 0}
  BY SentNew DEF Attempts
<1>4. \A k \in Log :
        \A h \in {h \in Attempts(k) : sent[h].block > 0} : sent'[h] = sent[h]
  BY SentNew DEF Attempts
<1>5. UNCHANGED ResultsOf
  BY <1>3, <1>4 DEF ResultsOf
<1> QED
  BY <1>1, <1>2, <1>5 DEF Lifecycle!Accept

LEMMA MineLife ==
  ASSUME Typed, Grown, Mine
  PROVE  Lifecycle!Block
<1>1. DOMAIN sent' = DOMAIN sent /\ UNCHANGED logs
  BY MineGrows DEF Mine, tables
<1>2. UNCHANGED Stage
  BY <1>1 DEF Stage
<1>3. UNCHANGED SentLogs
  BY <1>1 DEF Grown, SentLogs
<1>4. \A l \in Log : UNCHANGED Attempts(l)
  BY <1>1 DEF Grown, Attempts
<1>5. ResultsOf' \in [Log -> SUBSET Lifecycle!Outcome]
  BY DEF ResultsOf, Lifecycle!Outcome
<1>6. ASSUME NEW l \in Log
      PROVE  ResultsOf[l] \subseteq ResultsOf'[l]
  <2>1. \A h \in {k \in Attempts(l) : sent[k].block > 0} :
          h \in {k \in Attempts(l) : sent[k].block > 0}' /\ sent'[h] = sent[h]
    BY <1>4 DEF Grown, Attempts
  <2> QED
    BY <2>1 DEF ResultsOf
<1>7. ASSUME NEW l \in Log, ResultsOf'[l] # ResultsOf[l]
      PROVE  l \in SentLogs
  <2>1. CASE Attempts(l) = {}
    BY <1>4, <1>7, <2>1 DEF ResultsOf
  <2>2. CASE Attempts(l) # {}
    BY <2>2 DEF SentLogs, Attempts
  <2> QED
    BY <2>1, <2>2
<1> QED
  BY <1>2, <1>3, <1>5, <1>6, <1>7 DEF Lifecycle!Block

LEMMA ConcludeLife ==
  ASSUME Typed, Typed', UNCHANGED sent, NEW l \in Log, logs[l].status = "pending",
         \A k \in Log \ {l} : logs'[k].status = logs[k].status,
         logs'[l].status \in ResultsOf[l]
  PROVE  Lifecycle!Conclude(l)
  BY OneStage DEF Lifecycle!Conclude

LEMMA LifeStep ==
  ASSUME Typed, Typed', Grown, ResultInv, OwnerInv, [Next]_vars
  PROVE  [Lifecycle!Next]_Lifecycle!vars
<1> USE DEF Lifecycle!Next
<1>1. ASSUME NEW l \in Log, Inserts(l) PROVE Lifecycle!Create(l)
  <2>1. /\ logs[l].status = "absent" /\ logs'[l].status = "created"
        /\ \A k \in Log \ {l} : logs'[k] = logs[k]
        /\ UNCHANGED sent
    BY <1>1, InsertedLog DEF chain
  <2> QED
    BY <2>1, OneStage DEF Lifecycle!Create
<1>2. ASSUME NEW l \in Log, SendFails(l) PROVE [Lifecycle!Accept(l)]_Lifecycle!vars
  <2>1. logs[l].status = "created" /\ UNCHANGED logs
    BY <1>2 DEF SendFails, Oldest, OwnerInv, UnsentAtWork, tables
  <2>2. CASE Accepted(l)
    BY <2>1, <2>2, AcceptedLife
  <2>3. CASE UNCHANGED sent
    BY <2>1, <2>3, NoStage
  <2> QED
    BY <1>2, <2>2, <2>3 DEF SendFails
<1>3. ASSUME NEW l \in Log, SendRawTransaction(l) PROVE Lifecycle!Accept(l)
  <2>1. logs[l].status = "created" /\ UNCHANGED logs /\ Accepted(l)
    BY <1>3 DEF SendRawTransaction, Oldest, OwnerInv, UnsentAtWork, tables
  <2> QED
    BY <2>1, AcceptedLife
<1>4. ASSUME SaveLog PROVE Lifecycle!Track(at) /\ at \in Log
  <2>1. /\ at \in Log
        /\ logs[at].status = "created" /\ logs'[at].status = "pending"
        /\ \A k \in Log \ {at} : logs'[k] = logs[k]
        /\ UNCHANGED sent
        /\ Own(hash, at)
    BY <1>4, TypedParts DEF SaveLog, OwnerInv, HashesOwned, UnsentAtWork,
       TablesTyped,
                            LauncherTyped, Saving, chain
  <2>2. at \in SentLogs
    BY <2>1 DEF Own, SentLogs
  <2> QED
    BY <2>1, <2>2, OneStage DEF Lifecycle!Track
<1>5. ASSUME NEW h \in found, ConfirmApproval(h)
      PROVE  \E l \in Log : Lifecycle!Conclude(l)
  <2>1. PICK l \in Log : /\ logs[l].hash = h
                         /\ logs[l].status = "pending"
                         /\ logs' = [logs EXCEPT ![l].status = ResultOf(h)]
    BY <1>5 DEF ConfirmApproval, LogsByHash
  <2>2. /\ logs'[l].status = ResultOf(h) /\ logs'[l].hash = h
        /\ \A k \in Log \ {l} : logs'[k] = logs[k]
        /\ UNCHANGED sent
    BY <1>5, <2>1, TypedParts DEF ConfirmApproval, TablesTyped, Row, chain
  <2>3. h # 0 /\ sent[h].block > 0 /\ h \in DOMAIN sent
    BY TypedParts DEF ResultInv, FoundMined, WatcherTyped, ChainTyped
  <2>4. Own(h, l)
    BY <2>1, <2>3 DEF OwnerInv, HashesOwned
  <2>5. ResultOf(h) \in ResultsOf[l]
    <3>1. h \in {k \in Attempts(l) : sent[k].block > 0}
      BY <2>3, <2>4 DEF Own, Attempts
    <3> QED
      BY <3>1 DEF ResultsOf, ResultOf
  <2> QED
    BY <2>1, <2>2, <2>5, ConcludeLife
<1>6. ASSUME ConfirmLog
      PROVE  [\E l \in Log : Lifecycle!Conclude(l)]_Lifecycle!vars
  <2>1. UNCHANGED sent
    BY <1>6 DEF ConfirmLog, chain
  <2>2. CASE \A l \in Log : logs'[l].status = logs[l].status
    BY <2>1, <2>2, NoStage
  <2>3. ASSUME NEW l \in Log, logs'[l].status # logs[l].status
        PROVE  Lifecycle!Conclude(l)
    <3>1. /\ logs'[l].status = event.status /\ event.status \in Outcome
          /\ logs[l].hash = event.hash /\ event.hash # 0 /\ ~Unsent(l)
          /\ ResultIn(event, sent)
      BY <1>6, <2>3, ConfirmedLogs
    <3>2. Own(event.hash, l)
      BY <3>1 DEF OwnerInv, HashesOwned
    <3>3. \A k \in Log \ {l} : logs'[k].status = logs[k].status
      BY <1>6, <3>2, ConfirmedLogs DEF OwnerInv, HashesOwned, Own
    <3>4. logs[l].status \notin Outcome
      <4>1. ResultIn(logs[l], sent)
        BY ResultsAreMinedIn DEF ResultInv
      <4> QED
        BY <2>3, <3>1, <4>1 DEF ResultIn, Outcome
    <3>5. logs[l].status = "pending"
      BY <3>1, <3>4, TypedParts DEF Unsent, TablesTyped, Row, Statuses
    <3>6. event.status \in ResultsOf[l]
      BY <3>1, <3>2, ResultOfOwn
    <3> QED
      BY <2>1, <3>1, <3>3, <3>5, <3>6, ConcludeLife
  <2> QED
    BY <2>2, <2>3
<1>7. CASE Mine
  BY <1>7, MineLife
<1>8. ASSUME UNCHANGED <<logs, sent>>
      PROVE  UNCHANGED Lifecycle!vars
  BY <1>8, NoStage
<1>9. CASE Launcher
  <2>1. CASE \/ FindAllCreated \/ SaveTransaction \/ LauncherStart
             \/ \E i \in unhashed : SaveTrade(i)
    BY <1>8, <2>1 DEF FindAllCreated, SaveTransaction, LauncherStart, SaveTrade,
       tables, chain
  <2> QED
    BY <1>3, <1>4, <1>9, <2>1 DEF Launcher
<1>10. CASE Watcher
  <2>1. CASE ScanBlock \/ WatcherStart
    BY <1>8, <2>1 DEF ScanBlock, WatcherStart, tables, chain
  <2>2. ASSUME NEW h \in found,
               SkipTransaction(h) \/ PushConfirmation(h, TRUE) \/ SaveBlock(h)
        PROVE  UNCHANGED <<logs, sent>>
    BY <2>2 DEF SkipTransaction, PushConfirmation, SaveBlock, tables, chain
  <2> QED
    BY <1>5, <1>8, <1>10, <2>1, <2>2 DEF Watcher
<1>11. CASE \E h \in found : PushConfirmation(h, FALSE)
  BY <1>8, <1>11 DEF PushConfirmation, tables, chain
<1>12. CASE Engine
  <2>1. CASE TakeConfirmation \/ FindTrades \/ SettleTaker \/ EngineStart
    BY <1>8, <2>1 DEF TakeConfirmation, FindTrades, SettleTaker, EngineStart, tables,
       chain
  <2>2. ASSUME NEW x \in todo, InsertTrade(x) \/ SettleMaker(x) \/ SettleTrade(x)
        PROVE  UNCHANGED <<logs, sent>>
    BY <2>2 DEF InsertTrade, SettleMaker, SettleTrade, chain
  <2> QED
    BY <1>6, <1>8, <1>12, <2>1, <2>2 DEF Engine
<1>13. CASE LauncherCrash \/ WatcherCrash \/ EngineCrash \/ UNCHANGED vars
  BY <1>8, <1>13 DEF LauncherCrash, WatcherCrash, EngineCrash, vars, tables, chain
<1> QED
  BY <1>1, <1>2, <1>7, <1>9, <1>10, <1>11, <1>12, <1>13 DEF Next, Inserts

LEMMA InitLife == Init => Lifecycle!Init
<1> SUFFICES ASSUME Init PROVE Lifecycle!Init
  OBVIOUS
<1>1. (\A l \in Log : logs[l].status = "absent") /\ sent = <<>>
  BY DEF Init
<1>2. Stage = [l \in Log |-> "absent"]
  BY <1>1 DEF Stage
<1>3. SentLogs = {}
  BY <1>1 DEF SentLogs
<1>4. ResultsOf = [l \in Log |-> {}]
  BY <1>1 DEF ResultsOf, Attempts
<1> QED
  BY <1>2, <1>3, <1>4 DEF Lifecycle!Init

(* Launcher, chain, watcher and engine together implement the life of each *)
(* launch log: pending only after the chain took a transaction of its own, *)
(* and then one result the chain gave to one of them, for good.            *)
THEOREM ImplementsLifecycle == Spec => LifecycleSpec
<1>1. Init => Typed /\ ResultInv /\ OwnerInv /\ Lifecycle!Init
  BY InitTyped, InitResults, InitOwner, InitLife
<1>2. Typed /\ ResultInv /\ OwnerInv /\ [Next]_vars => Typed' /\ ResultInv' /\ OwnerInv'
  BY NextTyped, NextGrows, NextResults, NextOwner
<1>3. Typed /\ ResultInv /\ OwnerInv /\ [Next]_vars => [Lifecycle!Next]_Lifecycle!vars
  BY NextTyped, NextGrows, LifeStep
<1> QED
  BY <1>1, <1>2, <1>3, PTL DEF Spec, LifecycleSpec, Lifecycle!Spec

-----------------------------------------------------------------------------
(* What SentOnce rests on: a launch log that can still be sent has not been *)
(* sent, but for the attempts that ended in a crash or an error; one whose  *)
(* hash the launcher holds, or has stored, is never sent again.             *)
CanBeSent(l) == Unsent(l) /\ ~(lpc = "saveLog" /\ at = l)

OnceInv ==
  /\ lcrashes \in Nat /\ sendErrors \in Nat
  /\ \A l \in Log : Cardinality(Attempts(l)) <=
                      lcrashes + sendErrors + (IF CanBeSent(l) THEN 0 ELSE 1)

LEMMA AttemptsFinite ==
  ASSUME Typed, NEW l
  PROVE  IsFiniteSet(Attempts(l)) /\ Cardinality(Attempts(l)) \in Nat
<1>1. Len(sent) \in Int /\ 1 \in Int /\ DOMAIN sent = 1 .. Len(sent)
  BY SentTyped
<1>2. IsFiniteSet(DOMAIN sent)
  BY <1>1, FS_Interval
<1>3. IsFiniteSet(Attempts(l))
  BY <1>2, FS_Subset DEF Attempts
<1> QED
  BY <1>3, FS_CardinalityType

LEMMA OneMoreAttempt ==
  ASSUME Typed, NEW l \in Log, Accepted(l)
  PROVE  /\ Cardinality(Attempts(l)') = Cardinality(Attempts(l)) + 1
         /\ \A k \in Log \ {l} : Attempts(k)' = Attempts(k)
<1>1. /\ Attempts(l)' = Attempts(l) \cup {Len(sent) + 1}
      /\ Len(sent) + 1 \notin Attempts(l)
      /\ \A k \in Log \ {l} : Attempts(k)' = Attempts(k)
  BY SentNew DEF Attempts
<1>2. Cardinality(Attempts(l) \cup {Len(sent) + 1}) = Cardinality(Attempts(l)) + 1
  BY <1>1, AttemptsFinite, FS_AddElement
<1> QED
  BY <1>1, <1>2

LEMMA SameAttempts ==
  ASSUME Grown, DOMAIN sent' = DOMAIN sent
  PROVE  \A l : Attempts(l)' = Attempts(l)
  BY DEF Attempts, Grown

LEMMA OnceKept ==
  ASSUME Typed, OnceInv, UNCHANGED <<lcrashes, sendErrors>>,
         \A l \in Log : Attempts(l)' = Attempts(l),
         \A l \in Log : CanBeSent(l)' => CanBeSent(l)
  PROVE  OnceInv'
<1> SUFFICES ASSUME NEW l \in Log
             PROVE  Cardinality(Attempts(l)') <=
                      lcrashes + sendErrors + (IF CanBeSent(l)' THEN 0 ELSE 1)
  BY DEF OnceInv
<1>1. Cardinality(Attempts(l)') = Cardinality(Attempts(l)) /\ Cardinality(Attempts(l)) \in Nat
  BY AttemptsFinite
<1>2. Cardinality(Attempts(l)) <= lcrashes + sendErrors + (IF CanBeSent(l) THEN 0 ELSE 1)
  BY DEF OnceInv
<1>3. lcrashes \in Nat /\ sendErrors \in Nat
  BY DEF OnceInv
<1>4. CanBeSent(l)' => CanBeSent(l)
  OBVIOUS
<1>5. CASE CanBeSent(l)
  BY <1>1, <1>2, <1>3, <1>5
<1>6. CASE ~CanBeSent(l)
  BY <1>1, <1>2, <1>3, <1>4, <1>6
<1> QED
  BY <1>5, <1>6

(* A crash or an error gives each launch log one attempt more.             *)
LEMMA OnceMore ==
  ASSUME Typed, OnceInv,
         lcrashes' \in Nat, sendErrors' \in Nat,
         lcrashes' + sendErrors' = lcrashes + sendErrors + 1,
         UNCHANGED sent \/ \E l \in Log : CanBeSent(l) /\ Accepted(l)
  PROVE  OnceInv'
<1>1. lcrashes \in Nat /\ sendErrors \in Nat
  BY DEF OnceInv
<1> SUFFICES ASSUME NEW l \in Log
             PROVE  Cardinality(Attempts(l)') <=
                      lcrashes' + sendErrors' + (IF CanBeSent(l)' THEN 0 ELSE 1)
  BY DEF OnceInv
<1>2. Cardinality(Attempts(l)) \in Nat
  BY AttemptsFinite
<1>3. Cardinality(Attempts(l)) <= lcrashes + sendErrors + (IF CanBeSent(l) THEN 0 ELSE 1)
  BY DEF OnceInv
<1>4. \/ Attempts(l)' = Attempts(l)
      \/ CanBeSent(l) /\ Cardinality(Attempts(l)') = Cardinality(Attempts(l)) + 1
  <2>1. CASE UNCHANGED sent
    BY <2>1 DEF Attempts
  <2>2. ASSUME NEW k \in Log, CanBeSent(k), Accepted(k)
        PROVE  \/ Attempts(l)' = Attempts(l)
               \/ CanBeSent(l) /\ Cardinality(Attempts(l)') = Cardinality(Attempts(l)) + 1
    <3>1. CASE k = l
      BY <2>2, <3>1, OneMoreAttempt
    <3>2. CASE k # l
      BY <2>2, <3>2, OneMoreAttempt
    <3> QED
      BY <3>1, <3>2
  <2> QED
    BY <2>1, <2>2
<1> DEFINE n == Cardinality(Attempts(l))
           m == Cardinality(Attempts(l)')
           old == lcrashes + sendErrors
           new == lcrashes' + sendErrors'
<1>5. new = old + 1
  OBVIOUS
<1>6. old \in Nat
  BY <1>1
<1>7. n \in Nat /\ n <= old + (IF CanBeSent(l) THEN 0 ELSE 1)
  BY <1>2, <1>3
<1>8. m = n \/ (CanBeSent(l) /\ m = n + 1)
  BY <1>4
<1> HIDE DEF n, m, old, new
<1>9. m \in Nat /\ m <= new
  BY <1>5, <1>6, <1>7, <1>8
<1>10. m <= new + (IF CanBeSent(l)' THEN 0 ELSE 1)
  BY <1>5, <1>6, <1>9
<1> QED
  BY <1>10 DEF m, new

LEMMA SendOnce ==
  ASSUME Typed, OwnerInv, OnceInv, NEW l \in Log, SendRawTransaction(l)
  PROVE  OnceInv'
<1>1. /\ Accepted(l) /\ lpc = "send" /\ lpc' = "saveLog" /\ at' = l
      /\ UNCHANGED <<logs, lcrashes, sendErrors>> /\ logs[l].status = "created"
  BY DEF SendRawTransaction, Oldest, OwnerInv, UnsentAtWork, tables, faults
<1> SUFFICES ASSUME NEW k \in Log
             PROVE  Cardinality(Attempts(k)') <=
                      lcrashes + sendErrors + (IF CanBeSent(k)' THEN 0 ELSE 1)
  BY <1>1 DEF OnceInv
<1>2. Cardinality(Attempts(k)) \in Nat /\ lcrashes \in Nat /\ sendErrors \in Nat
  BY AttemptsFinite DEF OnceInv
<1>3. Cardinality(Attempts(k)) <= lcrashes + sendErrors + (IF CanBeSent(k) THEN 0 ELSE 1)
  BY DEF OnceInv
<1>4. CASE k = l
  <2>1. CanBeSent(k) /\ ~CanBeSent(k)'
    BY <1>1, <1>4 DEF CanBeSent, Unsent
  <2>2. Cardinality(Attempts(k)') = Cardinality(Attempts(k)) + 1
    BY <1>1, <1>4, OneMoreAttempt
  <2> QED
    BY <1>2, <1>3, <2>1, <2>2
<1>5. CASE k # l
  <2>1. CanBeSent(k) <=> CanBeSent(k)'
    BY <1>1, <1>5 DEF CanBeSent, Unsent
  <2>2. Attempts(k)' = Attempts(k)
    BY <1>1, <1>5, OneMoreAttempt
  <2>3. CASE CanBeSent(k)
    BY <1>2, <1>3, <2>1, <2>2, <2>3
  <2>4. CASE ~CanBeSent(k)
    BY <1>2, <1>3, <2>1, <2>2, <2>4
  <2> QED
    BY <2>3, <2>4
<1> QED
  BY <1>4, <1>5

LEMMA SendFailsOnce ==
  ASSUME Typed, OwnerInv, OnceInv, NEW l \in Log, SendFails(l)
  PROVE  OnceInv'
<1>1. /\ lpc = "send" /\ sendErrors' = sendErrors + 1
      /\ UNCHANGED lcrashes /\ logs[l].status = "created"
  BY DEF SendFails, Oldest, OwnerInv, UnsentAtWork
<1>2. CanBeSent(l)
  BY <1>1 DEF CanBeSent, Unsent
<1>3. UNCHANGED sent \/ Accepted(l)
  BY DEF SendFails
<1>4. lcrashes \in Nat /\ sendErrors \in Nat
  BY DEF OnceInv
<1> QED
  BY <1>1, <1>2, <1>3, <1>4, OnceMore

LEMMA LauncherOnce ==
  ASSUME Typed, OwnerInv, OnceInv, Launcher
  PROVE  OnceInv'
<1>1. CASE \E l \in Log : SendRawTransaction(l)
  BY <1>1, SendOnce
<1>2. CASE SaveLog
  <2>1. /\ lpc = "saveLog" /\ at \in Log
        /\ logs'[at].status = "pending"
        /\ \A l \in Log \ {at} : logs'[l] = logs[l]
        /\ UNCHANGED <<sent, lcrashes, sendErrors>>
    BY <1>2, TypedParts DEF SaveLog, TablesTyped, LauncherTyped, Saving, chain, faults
  <2>2. \A l \in Log : CanBeSent(l)' => CanBeSent(l)
    BY <2>1 DEF CanBeSent, Unsent
  <2> QED
    BY <2>1, <2>2, OnceKept DEF Attempts
<1>3. CASE FindAllCreated \/ SaveTransaction \/ (\E i \in unhashed : SaveTrade(i)) \/ LauncherStart
  <2>1. /\ lpc # "saveLog"
        /\ UNCHANGED <<logs, sent, lcrashes, sendErrors>>
    BY <1>3 DEF FindAllCreated, SaveTransaction, SaveTrade, LauncherStart, tables,
       chain, faults
  <2> QED
    BY <2>1, OnceKept DEF Attempts, CanBeSent, Unsent
<1> QED
  BY <1>1, <1>2, <1>3 DEF Launcher

LEMMA OtherOnce ==
  ASSUME Typed, Grown, ResultInv, OnceInv,
         LauncherCrash \/ ConfirmLog \/ \E h \in found : ConfirmApproval(h)
  PROVE  OnceInv'
<1>1. CASE LauncherCrash
  <2>1. lcrashes' = lcrashes + 1 /\ UNCHANGED <<sent, sendErrors>>
    BY <1>1 DEF LauncherCrash, chain
  <2> QED
    BY <2>1, OnceMore DEF OnceInv
<1>2. CASE ConfirmLog
  <2>1. UNCHANGED <<sent, lpc, at, lcrashes, sendErrors>>
    BY <1>2 DEF ConfirmLog, chain, launcher, faults
  <2>2. \A l \in Log : Unsent(l)' => Unsent(l)
    BY <1>2, ConfirmedLogs DEF Unsent, Outcome
  <2> QED
    BY <2>1, <2>2, OnceKept DEF Attempts, CanBeSent
<1>3. ASSUME NEW h \in found, ConfirmApproval(h)
      PROVE  OnceInv'
  <2>1. UNCHANGED <<sent, lpc, at, lcrashes, sendErrors>>
    BY <1>3 DEF ConfirmApproval, chain, launcher, faults
  <2>2. \A l \in Log : Unsent(l)' => Unsent(l)
    BY <1>3, TypedParts DEF ConfirmApproval, LogsByHash, TablesTyped, Row, Unsent,
       ResultOf
  <2> QED
    BY <2>1, <2>2, OnceKept DEF Attempts, CanBeSent
<1> QED
  BY <1>1, <1>2, <1>3

LEMMA QuietOnce ==
  ASSUME Typed, Grown, OnceInv, Quiet
  PROVE  OnceInv'
<1>1. /\ UNCHANGED <<logs, lpc, at>>
      /\ \A l : Attempts(l)' = Attempts(l)
  BY QuietStep, SameAttempts
<1>2. UNCHANGED <<lcrashes, sendErrors>>
  BY DEF Quiet, Mine, ScanBlock, WatcherStart, WatcherCrash, SkipTransaction, SaveBlock,
     PushConfirmation, TakeConfirmation, FindTrades, InsertTrade, SettleMaker, SettleTrade,
     SettleTaker, EngineCrash, EngineStart, vars, faults
<1> QED
  BY <1>1, <1>2, OnceKept DEF CanBeSent, Unsent

LEMMA NextOnce ==
  ASSUME Typed, Grown, ResultInv, OwnerInv, OnceInv, [Next]_vars
  PROVE  OnceInv'
<1>1. CASE Quiet
  BY <1>1, QuietOnce
<1>2. ASSUME NEW l \in Log, Inserts(l) PROVE OnceInv'
  <2>1. /\ UNCHANGED <<sent, lpc, at, lcrashes, sendErrors>>
        /\ \A k \in Log : Unsent(k)' => Unsent(k)
    BY <1>2, InsertedLog DEF Unsent, chain, launcher, faults
  <2> QED
    BY <2>1, OnceKept DEF Attempts, CanBeSent
<1>3. ASSUME NEW l \in Log, SendFails(l) PROVE OnceInv'
  BY <1>3, SendFailsOnce
<1>4. CASE Launcher
  BY <1>4, LauncherOnce
<1>5. CASE LauncherCrash \/ ConfirmLog \/ \E h \in found : ConfirmApproval(h)
  BY <1>5, OtherOnce
<1> QED
  BY <1>1, <1>2, <1>3, <1>4, <1>5, NextSplit

LEMMA InitOnce == Init => OnceInv
<1> SUFFICES ASSUME Init PROVE OnceInv
  OBVIOUS
<1>1. sent = <<>> /\ lcrashes = 0 /\ sendErrors = 0
  BY DEF Init
<1>2. \A l \in Log : Attempts(l) = {}
  BY <1>1 DEF Attempts
<1>3. Cardinality({}) = 0
  BY FS_EmptySet
<1>4. \A l \in Log : Cardinality(Attempts(l)) = 0
  BY <1>2, <1>3
<1> QED
  BY <1>1, <1>4 DEF OnceInv

(* A launch log reaches the chain once, but for the times the launcher was *)
(* stopped or a send failed, at whatever place between SendRawTransaction  *)
(* and the hash that UpdateLaunchLogToPending stores.                      *)
THEOREM LaunchSentOnce == Spec => []SentOnce
<1>1. Init => Typed /\ ResultInv /\ OwnerInv /\ OnceInv
  BY InitTyped, InitResults, InitOwner, InitOnce
<1>2. Typed /\ ResultInv /\ OwnerInv /\ OnceInv /\ [Next]_vars
      => Typed' /\ ResultInv' /\ OwnerInv' /\ OnceInv'
  BY NextTyped, NextGrows, NextResults, NextOwner, NextOnce
<1>3. Typed /\ OnceInv => SentOnce
  <2> SUFFICES ASSUME Typed, OnceInv, NEW l \in Log
               PROVE  Cardinality(Attempts(l)) <= 1 + lcrashes + sendErrors
    BY DEF SentOnce
  <2>1. /\ Cardinality(Attempts(l)) \in Nat /\ lcrashes \in Nat /\ sendErrors \in Nat
        /\ Cardinality(Attempts(l)) <=
             lcrashes + sendErrors + (IF CanBeSent(l) THEN 0 ELSE 1)
    BY AttemptsFinite DEF OnceInv
  <2> QED
    BY <2>1
<1> QED
  BY <1>1, <1>2, <1>3, PTL DEF Spec

-----------------------------------------------------------------------------
(* What a step does to a launch log: it may be inserted, it is not taken   *)
(* back, and only the launcher gives it a hash.                            *)
LEMMA LogMoves ==
  ASSUME Typed, ResultInv, OwnerInv, [Next]_vars, NEW l \in Log
  PROVE  /\ Unsent(l)' => Unsent(l)
         /\ Exists(l) => Exists(l)'
         /\ ~(SaveLog /\ l = at) => logs'[l].hash = logs[l].hash
<1>1. CASE Quiet
  BY <1>1, QuietStep DEF Unsent, Exists
<1>2. ASSUME NEW k \in Log, Inserts(k)
      PROVE  /\ Unsent(l)' => Unsent(l)
             /\ Exists(l) => Exists(l)'
             /\ logs'[l].hash = logs[l].hash
  BY <1>2, InsertedLog DEF Unsent, Exists
<1>3. CASE Launcher
  <2>1. CASE SaveLog
    <3>1. /\ at \in Log /\ logs[at].status = "created" /\ logs'[at].status = "pending"
          /\ \A k \in Log \ {at} : logs'[k] = logs[k]
      BY <2>1, TypedParts DEF SaveLog, TablesTyped, LauncherTyped, Saving, OwnerInv,
         UnsentAtWork
    <3> QED
      BY <2>1, <3>1 DEF Unsent, Exists
  <2>2. CASE ~SaveLog
    BY <1>3, <2>2 DEF Launcher, FindAllCreated, SendRawTransaction, SaveTransaction,
       SaveTrade, LauncherStart, tables, Unsent, Exists
  <2> QED
    BY <2>1, <2>2
<1>4. ASSUME LauncherCrash \/ \E k \in Log : SendFails(k)
      PROVE  UNCHANGED logs
  BY <1>4 DEF LauncherCrash, SendFails, tables
<1>5. CASE ConfirmLog
  BY <1>5, ConfirmedLogs DEF Unsent, Exists, Outcome
<1>6. ASSUME NEW h \in found, ConfirmApproval(h)
      PROVE  /\ Unsent(l)' => Unsent(l)
             /\ Exists(l) => Exists(l)'
             /\ logs'[l].hash = logs[l].hash
  <2>1. PICK k \in Log : /\ logs[k].status = "pending"
                         /\ logs' = [logs EXCEPT ![k].status = ResultOf(h)]
    BY <1>6 DEF ConfirmApproval, LogsByHash
  <2>2. logs'[l] = logs[l] \/ (logs'[l].status = ResultOf(h) /\ logs'[l].hash = logs[l].hash)
    BY <2>1, TypedParts DEF TablesTyped, Row
  <2>3. ResultOf(h) \in Outcome
    BY DEF ResultOf, Outcome
  <2> QED
    BY <2>2, <2>3 DEF Unsent, Exists, Outcome
<1> QED
  BY <1>1, <1>2, <1>3, <1>4, <1>5, <1>6, NextSplit DEF Unsent, Exists

-----------------------------------------------------------------------------
(* What SettledIffFinal rests on.  The maker's row is ahead of the taker's *)
(* by the trades the engine has done and the taker's row still lacks.      *)
Done(l, i) == <<l, i>> \in listed /\ (<<l, i>> \notin todo \/ AtWork(l, i))

Accounts ==
  \A l \in Log : \A i \in 1 .. TradesOf[l] :
    /\ takerSettled[l][i] + (IF Done(l, i) THEN 1 ELSE 0) <= settled[l][i]
    /\ ecrashes = 0 =>
         settled[l][i] = takerSettled[l][i] + (IF Done(l, i) THEN 1 ELSE 0)

(* Nothing is settled for a trade without a hash, so the launcher, which   *)
(* writes "pending" with the hash, takes no result back.                   *)
Finals ==
  \A l \in Log : \A i \in 1 .. TradesOf[l] :
    /\ trades[l][i].status \in Outcome => settled[l][i] > 0
    /\ trades[l][i].hash = 0 => settled[l][i] = 0
    /\ ecrashes = 0 /\ settled[l][i] > 0 =>
         trades[l][i].status \in Outcome \/ AtWork(l, i)

(* Nor has a trade a hash before it is inserted, and that is after its     *)
(* launch log; so neither does the engine that inserts it.                 *)
Inserting ==
  /\ \A l \in Log : \A i \in 1 .. TradesOf[l] :
       /\ trades[l][i].status = "absent" => trades[l][i].hash = 0
       /\ ~Exists(l) => trades[l][i].status = "absent"
  /\ epc = "insert" =>
       \A x \in todo : Exists(x[1]) /\ trades[x[1]][x[2]].status = "absent"
  /\ lpc = "saveTrades" =>
       \A i \in 1 .. TradesOf[at] : i \in unhashed => trades[at][i].status # "absent"

Lists ==
  /\ epc \in {"maker", "trade"} => todo \subseteq listed
  /\ epc = "taker" => todo = {}
  /\ epc \notin {"maker", "trade", "taker"} => listed = {}
  /\ ecrashes \in Nat

TradesInv == Accounts /\ Finals /\ Inserting /\ Lists

LEMMA TradesTyped ==
  ASSUME Typed, NEW l \in Log
  PROVE  /\ DOMAIN trades[l] = 1 .. TradesOf[l]
         /\ \A i \in 1 .. TradesOf[l] : /\ trades[l][i] \in Row
                                        /\ settled[l][i] \in Nat
                                        /\ takerSettled[l][i] \in Nat
                                        /\ i \in Nat
  BY TypedParts, LogAssumption DEF TablesTyped

LEMMA SettledFromTrades ==
  ASSUME Typed, TradesInv
  PROVE  SettledIffFinal
<1> SUFFICES ASSUME NEW l \in Log, NEW i \in 1 .. TradesOf[l]
             PROVE  /\ trades[l][i].status \in Outcome => settled[l][i] > 0
                    /\ takerSettled[l][i] <= settled[l][i]
                    /\ ecrashes = 0 =>
                         /\ settled[l][i] > 0 =>
                              trades[l][i].status \in Outcome \/ AtWork(l, i)
                         /\ settled[l][i] > takerSettled[l][i] => <<l, i>> \in listed
  BY TradesTyped DEF SettledIffFinal
<1>1. settled[l][i] \in Nat /\ takerSettled[l][i] \in Nat
  BY TradesTyped
<1>2. /\ takerSettled[l][i] <= settled[l][i]
      /\ ecrashes = 0 => (settled[l][i] > takerSettled[l][i] => Done(l, i))
  BY <1>1 DEF TradesInv, Accounts
<1> QED
  BY <1>2 DEF TradesInv, Finals, Done

(* The trades the engine has found belong to one launch log: the one whose *)
(* transaction has the hash.  So only one of them is the newest.           *)
LEMMA FoundTrades ==
  ASSUME Typed, ResultInv, OwnerInv, epc \in {"maker", "trade"}, NEW x \in todo
  PROVE  /\ x[1] \in Log /\ x[2] \in 1 .. TradesOf[x[1]] /\ x = <<x[1], x[2]>>
         /\ event.hash # 0 /\ event.status \in Outcome
         /\ trades[x[1]][x[2]].hash = event.hash
         /\ txs[x[1]].hash = event.hash /\ logs[x[1]].hash = event.hash
         /\ sent[event.hash].log = x[1]
<1>1. x[1] \in Log /\ x[2] \in 1 .. TradesOf[x[1]] /\ x = <<x[1], x[2]>>
  BY TypedParts, TradeKey DEF EngineTyped
<1>2. event.hash # 0 /\ event.status \in Outcome
  BY TypedParts DEF ResultInv, EventMined, ResultIn, Settling, EngineTyped, Event, ChainTyped
<1>3. trades[x[1]][x[2]].hash = event.hash
  BY DEF ResultInv, TodoFound
<1>4. txs[x[1]].hash = event.hash
  BY <1>1, <1>2, <1>3 DEF ResultInv, TradeHashes
<1>5. logs[x[1]].hash = event.hash
  BY <1>1, <1>2, <1>4 DEF ResultInv, SameHash
<1>6. sent[event.hash].log = x[1]
  BY <1>1, <1>2, <1>5 DEF OwnerInv, HashesOwned, Own
<1> QED
  BY <1>1, <1>2, <1>3, <1>4, <1>5, <1>6

LEMMA OneNewest ==
  ASSUME Typed, ResultInv, OwnerInv, epc \in {"maker", "trade"},
         NEW x \in todo, NEW y \in todo, Newest(x), Newest(y)
  PROVE  x = y
<1>1. x[2] <= y[2] /\ y[2] <= x[2]
  BY DEF Newest
<1>2. x[2] \in Nat /\ y[2] \in Nat
  BY FoundTrades, TradesTyped
<1>3. x[1] = y[1] /\ x = <<x[1], x[2]>> /\ y = <<y[1], y[2]>>
  BY FoundTrades
<1> QED
  BY <1>1, <1>2, <1>3

-----------------------------------------------------------------------------
(* A step that leaves the trades, the amounts and what the engine is at.   *)
LEMMA TradesKept ==
  ASSUME Typed, TradesInv, UNCHANGED <<trades, settled, takerSettled, epc, todo, listed,
                                       ecrashes>>,
         \A l \in Log : Exists(l) => Exists(l)',
         lpc' # "saveTrades" \/ UNCHANGED <<lpc, at, unhashed>>
  PROVE  TradesInv'
<1>1. \A l, i : AtWork(l, i)' = AtWork(l, i) /\ Done(l, i)' = Done(l, i)
  BY DEF AtWork, Newest, Done
<1>2. Accounts' /\ Finals'
  BY <1>1 DEF TradesInv, Accounts, Finals
<1>3. \A x \in todo : x[1] \in Log
  BY TypedParts, TradeKey DEF EngineTyped
<1>4. Inserting'
  BY <1>3 DEF TradesInv, Inserting
<1>5. Lists'
  BY DEF TradesInv, Lists
<1> QED
  BY <1>2, <1>4, <1>5 DEF TradesInv

(* A step of an engine that settles nothing, before it and after it.       *)
LEMMA IdleTrades ==
  ASSUME Typed, TradesInv, UNCHANGED <<trades, settled, takerSettled, ecrashes>>,
         epc \notin {"maker", "trade", "taker"}, epc' \notin {"trade", "taker"},
         epc' = "maker" => listed' = todo', epc' # "maker" => listed' = {},
         epc' # "insert",
         \A l \in Log : Exists(l) => Exists(l)',
         UNCHANGED launcher
  PROVE  TradesInv'
<1>1. \A l, i : ~AtWork(l, i)' /\ ~AtWork(l, i) /\ ~Done(l, i)' /\ ~Done(l, i)
  BY DEF AtWork, Done, TradesInv, Lists
<1>2. Accounts' /\ Finals'
  BY <1>1 DEF TradesInv, Accounts, Finals
<1>3. Inserting'
  BY DEF TradesInv, Inserting, launcher
<1>4. Lists'
  BY DEF TradesInv, Lists
<1> QED
  BY <1>2, <1>3, <1>4 DEF TradesInv

LEMMA InsertTrades ==
  ASSUME Typed, TradesInv, NEW l \in Log, Inserts(l),
         \A k \in Log : Exists(k) => Exists(k)'
  PROVE  TradesInv'
<1>1. /\ UNCHANGED <<trades, settled, takerSettled, listed, ecrashes, launcher>>
      /\ ~Exists(l) /\ Exists(l)'
  BY InsertedLog DEF Exists, faults
<1>2. CASE ApproveToken(l)
  BY <1>1, <1>2, TradesKept DEF ApproveToken, engine, launcher
<1>3. CASE InsertLog(l)
  <2>1. epc = "idle" /\ epc' = "insert" /\ todo' = {<<l, i>> : i \in 1 .. TradesOf[l]}
    BY <1>3, TradesTyped DEF InsertLog
  <2>2. \A k, i : ~AtWork(k, i)' /\ ~AtWork(k, i) /\ ~Done(k, i)' /\ ~Done(k, i)
    BY <1>1, <2>1 DEF AtWork, Done, TradesInv, Lists
  <2>3. Accounts' /\ Finals'
    BY <1>1, <2>2 DEF TradesInv, Accounts, Finals
  <2>4. \A x \in todo' : x[1] = l /\ x[2] \in 1 .. TradesOf[l]
    BY <2>1
  <2>5. Inserting'
    BY <1>1, <2>1, <2>4 DEF TradesInv, Inserting, launcher
  <2>6. Lists'
    BY <1>1, <2>1 DEF TradesInv, Lists
  <2> QED
    BY <2>3, <2>5, <2>6 DEF TradesInv
<1> QED
  BY <1>2, <1>3 DEF Inserts

LEMMA InsertTradeTrades ==
  ASSUME Typed, TradesInv, NEW x \in todo, InsertTrade(x)
  PROVE  TradesInv'
<1>1. /\ UNCHANGED <<logs, settled, takerSettled, listed, ecrashes, launcher>>
      /\ epc = "insert" /\ epc' \in {"idle", "insert"} /\ todo' = todo \ {x}
      /\ trades' = [trades EXCEPT ![x[1]][x[2]].status = "pending"]
      /\ x[1] \in Log /\ x[2] \in 1 .. TradesOf[x[1]] /\ "pending" \in Statuses
      /\ \A y \in todo : /\ y[1] \in Log /\ y[2] \in 1 .. TradesOf[y[1]]
                         /\ y = <<y[1], y[2]>>
  BY TypedParts, TradeKey DEF InsertTrade, EngineTyped, Statuses, faults
<1>2. \A l \in Log : \A i \in 1 .. TradesOf[l] :
        /\ trades'[l][i].hash = trades[l][i].hash
        /\ \/ trades'[l][i] = trades[l][i]
           \/ l = x[1] /\ i = x[2] /\ trades'[l][i].status = "pending"
        /\ ~(l = x[1] /\ i = x[2]) => trades'[l][i] = trades[l][i]
  BY <1>1, OneStatus, TradesTyped DEF Row
<1>3. Exists(x[1]) /\ trades[x[1]][x[2]].status = "absent" /\ trades[x[1]][x[2]].hash = 0
  BY <1>1 DEF TradesInv, Inserting
<1>4. settled[x[1]][x[2]] = 0
  BY <1>1, <1>3 DEF TradesInv, Finals
<1>5. \A l, i : ~AtWork(l, i)' /\ ~AtWork(l, i) /\ ~Done(l, i)' /\ ~Done(l, i)
  BY <1>1 DEF AtWork, Done, TradesInv, Lists
<1>6. Accounts'
  BY <1>1, <1>5 DEF TradesInv, Accounts
<1>7. Finals'
  BY <1>1, <1>2, <1>4, <1>5 DEF TradesInv, Finals, Outcome
<1>8. Inserting'
  <2>1. \A l : Exists(l)' = Exists(l)
    BY <1>1 DEF Exists
  <2>2. \A y \in todo' : trades'[y[1]][y[2]] = trades[y[1]][y[2]]
    BY <1>1, <1>2
  <2>3. lpc = "saveTrades" => at \in Log
    BY DEF Typed, Saving
  <2>4. \A l \in Log : \A i \in 1 .. TradesOf[l] :
          /\ trades'[l][i].status = "absent" => trades'[l][i].hash = 0
          /\ ~Exists(l)' => trades'[l][i].status = "absent"
    BY <1>2, <1>3, <2>1 DEF TradesInv, Inserting
  <2>5. epc' = "insert" =>
          \A y \in todo' : Exists(y[1])' /\ trades'[y[1]][y[2]].status = "absent"
    BY <1>1, <2>1, <2>2 DEF TradesInv, Inserting
  <2>6. lpc' = "saveTrades" =>
          \A i \in 1 .. TradesOf[at'] : i \in unhashed' => trades'[at'][i].status # "absent"
    BY <1>1, <1>2, <2>3 DEF TradesInv, Inserting, launcher
  <2> QED
    BY <2>4, <2>5, <2>6 DEF Inserting
<1>9. Lists'
  BY <1>1 DEF TradesInv, Lists
<1> QED
  BY <1>6, <1>7, <1>8, <1>9 DEF TradesInv

LEMMA SaveTransactionTrades ==
  ASSUME Typed, TradesInv, SaveTransaction
  PROVE  TradesInv'
<1>1. /\ UNCHANGED <<logs, trades, settled, takerSettled, epc, todo, listed, ecrashes, at>>
      /\ at \in Log /\ unhashed' = {i \in DOMAIN trades[at] : trades[at][i].status # "absent"}
  BY TypedParts DEF SaveTransaction, engine, faults, LauncherTyped, Saving
<1>2. \A l, i : AtWork(l, i)' = AtWork(l, i) /\ Done(l, i)' = Done(l, i)
  BY <1>1 DEF AtWork, Newest, Done
<1>3. \A l : Exists(l)' = Exists(l)
  BY <1>1 DEF Exists
<1>4. Accounts' /\ Finals'
  BY <1>1, <1>2 DEF TradesInv, Accounts, Finals
<1>5. Inserting'
  BY <1>1, <1>3 DEF TradesInv, Inserting
<1>6. Lists'
  BY <1>1 DEF TradesInv, Lists
<1> QED
  BY <1>4, <1>5, <1>6 DEF TradesInv

(* The trade that SaveTrade writes, and those it leaves.                   *)
LEMMA SavedTrade ==
  ASSUME Typed, NEW i \in unhashed, SaveTrade(i)
  PROVE  /\ at \in Log
         /\ \A l \in Log : \A j \in 1 .. TradesOf[l] :
              \/ trades'[l][j] = trades[l][j] /\ ~(l = at /\ j = i)
              \/ /\ l = at /\ j = i
                 /\ trades'[l][j] = [status |-> "pending", hash |-> hash]
<1>1. /\ at \in Log /\ DOMAIN trades = Log
      /\ \A l \in Log : DOMAIN trades[l] = 1 .. TradesOf[l]
      /\ trades' = [trades EXCEPT ![at][i] = [status |-> "pending", hash |-> hash]]
  BY TypedParts DEF SaveTrade, LauncherTyped, Saving, TablesTyped
<1> QED
  BY <1>1

LEMMA SaveTradeTrades ==
  ASSUME Typed, ResultInv, TradesInv, NEW i \in unhashed, SaveTrade(i)
  PROVE  TradesInv'
<1>1. /\ UNCHANGED <<logs, settled, takerSettled, epc, todo, listed, ecrashes, at>>
      /\ lpc = "saveTrades" /\ unhashed' = unhashed \ {i} /\ at \in Log
  BY SavedTrade DEF SaveTrade, engine, faults
<1>2. \A l \in Log : \A j \in 1 .. TradesOf[l] :
        \/ trades'[l][j] = trades[l][j]
        \/ /\ l = at /\ j = i /\ trades'[l][j].status = "pending"
           /\ trades[l][j].status # "absent"
           /\ trades[l][j].hash = 0 /\ settled[l][j] = 0
  <2> SUFFICES ASSUME NEW l \in Log, NEW j \in 1 .. TradesOf[l], l = at /\ j = i
               PROVE  /\ trades'[l][j].status = "pending"
                      /\ trades[l][j].status # "absent"
                      /\ trades[l][j].hash = 0 /\ settled[l][j] = 0
    BY SavedTrade
  <2>1. trades'[l][j].status = "pending"
    BY SavedTrade
  <2>2. trades[l][j].status # "absent" /\ trades[l][j].hash = 0
    BY <1>1 DEF TradesInv, Inserting, ResultInv, TradeHashes
  <2>3. settled[l][j] = 0
    BY <2>2 DEF TradesInv, Finals
  <2> QED
    BY <2>1, <2>2, <2>3
<1>3. \A l, j : AtWork(l, j)' = AtWork(l, j) /\ Done(l, j)' = Done(l, j)
  BY <1>1 DEF AtWork, Newest, Done
<1>4. \A l : Exists(l)' = Exists(l)
  BY <1>1 DEF Exists
<1>5. Accounts'
  BY <1>1, <1>3 DEF TradesInv, Accounts
<1>6. Finals'
  BY <1>1, <1>2, <1>3 DEF TradesInv, Finals, Outcome
<1>7. Inserting'
  <2>1. \A x \in todo : x[1] \in Log /\ x[2] \in 1 .. TradesOf[x[1]]
    BY TypedParts, TradeKey DEF EngineTyped
  <2>2. \A l \in Log : \A j \in 1 .. TradesOf[l] :
          /\ trades'[l][j].status = "absent" => trades'[l][j].hash = 0
          /\ ~Exists(l)' => trades'[l][j].status = "absent"
    BY <1>2, <1>4 DEF TradesInv, Inserting
  <2>3. epc' = "insert" =>
          \A x \in todo' : Exists(x[1])' /\ trades'[x[1]][x[2]].status = "absent"
    BY <1>1, <1>2, <1>4, <2>1 DEF TradesInv, Inserting
  <2>4. \A j \in 1 .. TradesOf[at'] : j \in unhashed' => trades'[at'][j].status # "absent"
    BY <1>1, <1>2 DEF TradesInv, Inserting
  <2> QED
    BY <2>2, <2>3, <2>4 DEF Inserting
<1>8. Lists'
  BY <1>1 DEF TradesInv, Lists
<1> QED
  BY <1>5, <1>6, <1>7, <1>8 DEF TradesInv

-----------------------------------------------------------------------------
(* The amounts with one more.                                              *)
LEMMA OneMore ==
  ASSUME Typed, NEW x \in todo, SettleMaker(x)
  PROVE  /\ x[1] \in Log /\ x[2] \in 1 .. TradesOf[x[1]]
         /\ \A l \in Log : \A i \in 1 .. TradesOf[l] :
              settled'[l][i] = settled[l][i] + (IF <<l, i>> = x THEN 1 ELSE 0)
<1>1. x[1] \in Log /\ x[2] \in 1 .. TradesOf[x[1]] /\ x = <<x[1], x[2]>>
  BY TypedParts, TradeKey DEF EngineTyped
<1>2. /\ DOMAIN settled = Log /\ \A l \in Log : settled[l] \in [1 .. TradesOf[l] -> Nat]
      /\ settled' = [settled EXCEPT ![x[1]][x[2]] = @ + 1]
  BY TypedParts DEF SettleMaker, TablesTyped
<1>3. settled' = [settled EXCEPT ![x[1]] = [settled[x[1]] EXCEPT ![x[2]] =
                                              settled[x[1]][x[2]] + 1]]
  BY <1>2
<1>4. \A l \in Log : settled'[l] = IF l = x[1]
                                   THEN [settled[x[1]] EXCEPT ![x[2]] = settled[x[1]][x[2]] + 1]
                                   ELSE settled[l]
  BY <1>1, <1>2, <1>3
<1>5. \A l \in Log : \A i \in 1 .. TradesOf[l] :
        settled'[l][i] = IF l = x[1] /\ i = x[2] THEN settled[l][i] + 1 ELSE settled[l][i]
  BY <1>1, <1>2, <1>4
<1>6. \A l, i : <<l, i>> = x <=> l = x[1] /\ i = x[2]
  BY <1>1
<1>7. \A l \in Log : \A i \in 1 .. TradesOf[l] : settled[l][i] \in Nat
  BY <1>2
<1> QED
  BY <1>1, <1>5, <1>6, <1>7

LEMMA SettleMakerTrades ==
  ASSUME Typed, ResultInv, OwnerInv, TradesInv, NEW x \in todo, SettleMaker(x)
  PROVE  TradesInv'
<1>1. /\ UNCHANGED <<logs, trades, takerSettled, todo, listed, ecrashes, launcher>>
      /\ epc = "maker" /\ epc' = "trade" /\ Newest(x) /\ todo \subseteq listed
  BY DEF SettleMaker, TradesInv, Lists, faults
<1>2. \A y : Newest(y)' = Newest(y)
  BY <1>1 DEF Newest
<1>3. \A y \in todo : Newest(y) => y = x
  BY <1>1, OneNewest
<1>4. \A l, i : /\ AtWork(l, i)' <=> <<l, i>> = x
                /\ ~AtWork(l, i)
  BY <1>1, <1>2, <1>3 DEF AtWork, Newest
<1>5. \A l, i : Done(l, i)' <=> Done(l, i) \/ <<l, i>> = x
  BY <1>1, <1>4 DEF Done
<1>6. \A l, i : <<l, i>> = x => ~Done(l, i)
  BY <1>4 DEF Done
<1>7. Accounts'
  <2> SUFFICES ASSUME NEW l \in Log, NEW i \in 1 .. TradesOf[l]
               PROVE  /\ takerSettled[l][i] + (IF Done(l, i)' THEN 1 ELSE 0) <= settled'[l][i]
                      /\ ecrashes = 0 =>
                           settled'[l][i] = takerSettled[l][i] + (IF Done(l, i)' THEN 1 ELSE 0)
    BY <1>1 DEF Accounts
  <2>1. settled[l][i] \in Nat /\ takerSettled[l][i] \in Nat
    BY TradesTyped
  <2>2. settled'[l][i] = settled[l][i] + (IF <<l, i>> = x THEN 1 ELSE 0)
    BY OneMore
  <2>3. /\ takerSettled[l][i] + (IF Done(l, i) THEN 1 ELSE 0) <= settled[l][i]
        /\ ecrashes = 0 =>
             settled[l][i] = takerSettled[l][i] + (IF Done(l, i) THEN 1 ELSE 0)
    BY DEF TradesInv, Accounts
  <2> QED
    BY <1>5, <1>6, <2>1, <2>2, <2>3
<1>8. Finals'
  <2> SUFFICES ASSUME NEW l \in Log, NEW i \in 1 .. TradesOf[l]
               PROVE  /\ trades[l][i].status \in Outcome => settled'[l][i] > 0
                      /\ trades[l][i].hash = 0 => settled'[l][i] = 0
                      /\ ecrashes = 0 /\ settled'[l][i] > 0 =>
                           trades[l][i].status \in Outcome \/ AtWork(l, i)'
    BY <1>1 DEF Finals
  <2>1. settled[l][i] \in Nat
    BY TradesTyped
  <2>2. settled'[l][i] = settled[l][i] + (IF <<l, i>> = x THEN 1 ELSE 0)
    BY OneMore
  <2>3. <<l, i>> = x => trades[l][i].hash # 0
    BY <1>1, FoundTrades
  <2>4. /\ trades[l][i].status \in Outcome => settled[l][i] > 0
        /\ trades[l][i].hash = 0 => settled[l][i] = 0
        /\ ecrashes = 0 /\ settled[l][i] > 0 => trades[l][i].status \in Outcome
    BY <1>4 DEF TradesInv, Finals
  <2> QED
    BY <1>4, <2>1, <2>2, <2>3, <2>4
<1>9. Inserting'
  <2>1. \A l : Exists(l)' = Exists(l)
    BY <1>1 DEF Exists
  <2> QED
    BY <1>1, <2>1 DEF TradesInv, Inserting, launcher
<1>10. Lists'
  BY <1>1 DEF TradesInv, Lists
<1> QED
  BY <1>7, <1>8, <1>9, <1>10 DEF TradesInv

LEMMA SettleTradeTrades ==
  ASSUME Typed, ResultInv, OwnerInv, TradesInv, NEW x \in todo, SettleTrade(x)
  PROVE  TradesInv'
<1>1. /\ UNCHANGED <<logs, settled, takerSettled, listed, ecrashes, launcher>>
      /\ epc = "trade" /\ epc' \in {"maker", "taker"} /\ Newest(x)
      /\ todo' = todo \ {x} /\ (epc' = "taker" => todo' = {})
      /\ todo \subseteq listed
      /\ trades' = [trades EXCEPT ![x[1]][x[2]].status = event.status]
  BY DEF SettleTrade, TradesInv, Lists, faults
<1>2. /\ x[1] \in Log /\ x[2] \in 1 .. TradesOf[x[1]] /\ x = <<x[1], x[2]>>
      /\ event.status \in Outcome /\ event.status \in Statuses /\ event.hash # 0
      /\ trades[x[1]][x[2]].hash = event.hash
  BY <1>1, FoundTrades DEF Statuses
<1>3. \A y \in todo : Newest(y) => y = x
  BY <1>1, OneNewest
<1>4. \A l, i : /\ AtWork(l, i) <=> <<l, i>> = x
                /\ ~AtWork(l, i)'
  BY <1>1, <1>3 DEF AtWork, Newest
<1>5. \A l, i : Done(l, i)' <=> Done(l, i)
  BY <1>1, <1>4 DEF Done
<1>6. \A l \in Log : \A i \in 1 .. TradesOf[l] :
        /\ trades'[l][i].hash = trades[l][i].hash
        /\ \/ trades'[l][i] = trades[l][i] /\ <<l, i>> # x
           \/ <<l, i>> = x /\ trades'[l][i].status = event.status
  <2> SUFFICES ASSUME NEW l \in Log, NEW i \in 1 .. TradesOf[l]
               PROVE  /\ trades'[l][i].hash = trades[l][i].hash
                      /\ \/ trades'[l][i] = trades[l][i] /\ <<l, i>> # x
                         \/ <<l, i>> = x /\ trades'[l][i].status = event.status
    OBVIOUS
  <2>1. trades'[l][i] = IF l = x[1] /\ i = x[2]
                        THEN [trades[l][i] EXCEPT !.status = event.status]
                        ELSE trades[l][i]
    <3>1. /\ x[1] \in Log
          /\ x[2] \in 1 .. TradesOf[x[1]]
          /\ event.status \in Statuses
          /\ trades' = [trades EXCEPT ![x[1]][x[2]].status = event.status]
      BY <1>1, <1>2
    <3>2. \A k \in Log : \A j \in 1 .. TradesOf[k] :
            trades'[k][j] = IF k = x[1] /\ j = x[2]
                            THEN [trades[k][j] EXCEPT !.status = event.status]
                            ELSE trades[k][j]
      BY ONLY Typed, <3>1, OneStatus
    <3> QED
      BY <3>2
  <2>2. trades[l][i] \in Row
    BY TradesTyped
  <2>3. <<l, i>> = x <=> l = x[1] /\ i = x[2]
    BY <1>2
  <2> QED
    BY <2>1, <2>2, <2>3 DEF Row
<1>7. Accounts'
  BY <1>1, <1>5 DEF TradesInv, Accounts
<1>8. settled[x[1]][x[2]] > 0
  <2>1. Done(x[1], x[2])
    BY <1>1, <1>2, <1>4 DEF Done
  <2>2. takerSettled[x[1]][x[2]] + 1 <= settled[x[1]][x[2]]
    BY <1>2, <2>1 DEF TradesInv, Accounts
  <2>3. takerSettled[x[1]][x[2]] \in Nat /\ settled[x[1]][x[2]] \in Nat
    BY <1>2, TradesTyped
  <2> QED
    BY <2>2, <2>3
<1>9. Finals'
  <2> SUFFICES ASSUME NEW l \in Log, NEW i \in 1 .. TradesOf[l]
               PROVE  /\ trades'[l][i].status \in Outcome => settled[l][i] > 0
                      /\ trades'[l][i].hash = 0 => settled[l][i] = 0
                      /\ ecrashes = 0 /\ settled[l][i] > 0 => trades'[l][i].status \in Outcome
    BY <1>1 DEF Finals
  <2>1. CASE <<l, i>> = x
    <3>1. l = x[1] /\ i = x[2]
      BY <1>2, <2>1
    <3> QED
      BY <1>2, <1>6, <1>8, <2>1, <3>1
  <2>2. CASE <<l, i>> # x
    BY <1>4, <1>6, <2>2 DEF TradesInv, Finals
  <2> QED
    BY <2>1, <2>2
<1>10. Inserting'
  <2>1. \A l : Exists(l)' = Exists(l)
    BY <1>1 DEF Exists
  <2>2. trades[x[1]][x[2]].status # "absent" /\ Exists(x[1]) /\ event.status # "absent"
    BY <1>2 DEF TradesInv, Inserting, Outcome
  <2>3. lpc = "saveTrades" => at \in Log
    BY DEF Typed, Saving
  <2>4. \A l, i : <<l, i>> = x => l = x[1] /\ i = x[2]
    BY <1>2
  <2>5. \A l \in Log : \A i \in 1 .. TradesOf[l] :
          /\ trades'[l][i].status = "absent" => trades'[l][i].hash = 0
          /\ ~Exists(l)' => trades'[l][i].status = "absent"
    BY <1>6, <2>1, <2>2, <2>4 DEF TradesInv, Inserting
  <2>6. lpc' = "saveTrades" =>
          \A i \in 1 .. TradesOf[at'] : i \in unhashed' => trades'[at'][i].status # "absent"
    BY <1>1, <1>6, <2>2, <2>3 DEF TradesInv, Inserting, launcher
  <2> QED
    BY <1>1, <2>5, <2>6 DEF Inserting
<1>11. Lists'
  BY <1>1 DEF TradesInv, Lists
<1> QED
  BY <1>7, <1>9, <1>10, <1>11 DEF TradesInv

LEMMA SettleTakerTrades ==
  ASSUME Typed, TradesInv, SettleTaker
  PROVE  TradesInv'
<1>1. /\ UNCHANGED <<logs, trades, settled, ecrashes, launcher>>
      /\ epc = "taker" /\ epc' = "idle" /\ todo = {} /\ listed' = {}
      /\ \A l \in Log : \A i \in 1 .. TradesOf[l] :
           takerSettled'[l][i] = IF <<l, i>> \in listed THEN takerSettled[l][i] + 1
                                                       ELSE takerSettled[l][i]
  BY TradesTyped DEF SettleTaker, TradesInv, Lists, faults
<1>2. \A l, i : /\ ~AtWork(l, i)' /\ ~AtWork(l, i) /\ ~Done(l, i)'
                /\ Done(l, i) <=> <<l, i>> \in listed
  BY <1>1 DEF AtWork, Done
<1>3. Accounts'
  <2> SUFFICES ASSUME NEW l \in Log, NEW i \in 1 .. TradesOf[l]
               PROVE  /\ takerSettled'[l][i] + (IF Done(l, i)' THEN 1 ELSE 0) <= settled[l][i]
                      /\ ecrashes = 0 =>
                           settled[l][i] = takerSettled'[l][i] + (IF Done(l, i)' THEN 1 ELSE 0)
    BY <1>1 DEF Accounts
  <2>1. settled[l][i] \in Nat /\ takerSettled[l][i] \in Nat
    BY TradesTyped
  <2>2. /\ takerSettled[l][i] + (IF Done(l, i) THEN 1 ELSE 0) <= settled[l][i]
        /\ ecrashes = 0 =>
             settled[l][i] = takerSettled[l][i] + (IF Done(l, i) THEN 1 ELSE 0)
    BY DEF TradesInv, Accounts
  <2>3. ~Done(l, i)'
    BY <1>2
  <2>4. CASE <<l, i>> \in listed
    <3>1. Done(l, i) /\ takerSettled'[l][i] = takerSettled[l][i] + 1
      BY <1>1, <1>2, <2>4
    <3> QED
      BY <2>1, <2>2, <2>3, <3>1
  <2>5. CASE <<l, i>> \notin listed
    <3>1. ~Done(l, i) /\ takerSettled'[l][i] = takerSettled[l][i]
      BY <1>1, <1>2, <2>5
    <3> QED
      BY <2>1, <2>2, <2>3, <3>1
  <2> QED
    BY <2>4, <2>5
<1>4. Finals'
  BY <1>1, <1>2 DEF TradesInv, Finals
<1>5. Inserting'
  <2>1. \A l : Exists(l)' = Exists(l)
    BY <1>1 DEF Exists
  <2> QED
    BY <1>1, <2>1 DEF TradesInv, Inserting, launcher
<1>6. Lists'
  BY <1>1 DEF TradesInv, Lists
<1> QED
  BY <1>3, <1>4, <1>5, <1>6 DEF TradesInv

LEMMA EngineCrashTrades ==
  ASSUME Typed, TradesInv, EngineCrash
  PROVE  TradesInv'
<1>1. /\ UNCHANGED <<logs, trades, settled, takerSettled, launcher>>
      /\ epc' = "down" /\ listed' = {} /\ ecrashes' \in Nat /\ ecrashes' # 0
  BY DEF EngineCrash, tables, TradesInv, Lists
<1>2. \A l, i : ~Done(l, i)'
  BY <1>1 DEF Done
<1>3. Accounts'
  <2> SUFFICES ASSUME NEW l \in Log, NEW i \in 1 .. TradesOf[l]
               PROVE  takerSettled[l][i] + 0 <= settled[l][i]
    BY <1>1, <1>2 DEF Accounts
  <2>1. settled[l][i] \in Nat /\ takerSettled[l][i] \in Nat
    BY TradesTyped
  <2>2. takerSettled[l][i] + (IF Done(l, i) THEN 1 ELSE 0) <= settled[l][i]
    BY DEF TradesInv, Accounts
  <2> QED
    BY <2>1, <2>2
<1>4. Finals'
  BY <1>1 DEF TradesInv, Finals
<1>5. Inserting'
  <2>1. \A l : Exists(l)' = Exists(l)
    BY <1>1 DEF Exists
  <2> QED
    BY <1>1, <2>1 DEF TradesInv, Inserting, launcher
<1>6. Lists'
  BY <1>1 DEF Lists
<1> QED
  BY <1>3, <1>4, <1>5, <1>6 DEF TradesInv

LEMMA NextTrades ==
  ASSUME Typed, ResultInv, OwnerInv, TradesInv, [Next]_vars
  PROVE  TradesInv'
<1>0. \A l \in Log : Exists(l) => Exists(l)'
  BY LogMoves
<1>1. ASSUME NEW l \in Log, Inserts(l) PROVE TradesInv'
  BY <1>0, <1>1, InsertTrades
<1>2. CASE SaveTransaction \/ SettleTaker \/ EngineCrash
  BY <1>2, SaveTransactionTrades, SettleTakerTrades, EngineCrashTrades
<1>3. ASSUME NEW i \in unhashed, SaveTrade(i) PROVE TradesInv'
  BY <1>3, SaveTradeTrades
<1>4. ASSUME NEW x \in todo, InsertTrade(x) \/ SettleMaker(x) \/ SettleTrade(x)
      PROVE  TradesInv'
  BY <1>4, InsertTradeTrades, SettleMakerTrades, SettleTradeTrades
<1>5. CASE TakeConfirmation \/ ConfirmLog \/ FindTrades \/ EngineStart
  <2>1. /\ UNCHANGED <<trades, settled, takerSettled, ecrashes, launcher>>
        /\ epc \notin {"maker", "trade", "taker"}
        /\ epc' \in {"idle", "log", "trades", "maker"}
        /\ epc' = "maker" => listed' = todo'
    BY <1>5 DEF TakeConfirmation, ConfirmLog, FindTrades, EngineStart, tables, faults, engine
  <2>2. epc' # "maker" => listed' = {}
    BY <1>5, <2>1 DEF TakeConfirmation, ConfirmLog, FindTrades, EngineStart, TradesInv, Lists
  <2> QED
    BY <1>0, <2>1, <2>2, IdleTrades
<1>6. CASE /\ Quiet
           /\ ~(TakeConfirmation \/ FindTrades \/ SettleTaker \/ EngineCrash \/ EngineStart)
           /\ ~\E x \in todo : InsertTrade(x) \/ SettleMaker(x) \/ SettleTrade(x)
  <2>1. UNCHANGED <<trades, settled, takerSettled, epc, todo, listed, ecrashes, lpc, at, unhashed>>
    BY <1>6 DEF Quiet, Mine, ScanBlock, WatcherStart, WatcherCrash, SkipTransaction, SaveBlock,
       PushConfirmation, vars, tables, engine, faults, launcher
  <2> QED
    BY <1>0, <2>1, TradesKept
<1>7. CASE \/ FindAllCreated \/ LauncherStart \/ LauncherCrash \/ SaveLog
           \/ \E l \in Log : SendRawTransaction(l) \/ SendFails(l)
           \/ \E h \in found : ConfirmApproval(h)
  <2>1. /\ UNCHANGED <<trades, settled, takerSettled, epc, todo, listed, ecrashes>>
        /\ lpc' # "saveTrades" \/ UNCHANGED <<lpc, at, unhashed>>
    BY <1>7 DEF FindAllCreated, LauncherStart, LauncherCrash, LauncherStops, SaveLog, Continue,
       SendRawTransaction, SendFails, ConfirmApproval, tables, engine, faults, launcher
  <2> QED
    BY <1>0, <2>1, TradesKept
<1> QED
  BY <1>1, <1>2, <1>3, <1>4, <1>5, <1>6, <1>7, NextSplit DEF Launcher

LEMMA InitTrades == Init => TradesInv
<1> SUFFICES ASSUME Init PROVE TradesInv
  OBVIOUS
<1>1. /\ lpc = "poll" /\ epc = "idle" /\ listed = {} /\ todo = {} /\ ecrashes = 0
      /\ \A l \in Log : logs[l].status = "absent"
  BY DEF Init
<1>2. \A l \in Log : \A i \in 1 .. TradesOf[l] :
        /\ trades[l][i].status = "absent" /\ trades[l][i].hash = 0
        /\ settled[l][i] = 0 /\ takerSettled[l][i] = 0
  <2> SUFFICES ASSUME NEW l \in Log, NEW i \in 1 .. TradesOf[l]
               PROVE  /\ trades[l][i] = [status |-> "absent", hash |-> 0]
                      /\ settled[l][i] = 0 /\ takerSettled[l][i] = 0
    OBVIOUS
  <2>1. /\ trades[l] = [k \in 1 .. TradesOf[l] |-> [status |-> "absent", hash |-> 0]]
        /\ settled[l] = [k \in 1 .. TradesOf[l] |-> 0] /\ takerSettled = settled
    BY DEF Init
  <2> QED
    BY <2>1, Zenon
<1>3. \A l, i : ~Done(l, i)
  BY <1>1 DEF Done
<1>4. Accounts
  BY <1>2, <1>3 DEF Accounts
<1>5. Finals
  BY <1>2 DEF Finals, Outcome
<1>6. Inserting /\ Lists
  BY <1>1, <1>2 DEF Inserting, Lists
<1> QED
  BY <1>4, <1>5, <1>6 DEF TradesInv

(* The three rows of a settlement agree, although the engine writes them   *)
(* one after the other, the launcher that stores a trade's hash writes it  *)
(* as pending again, and a result may be reported twice: no trade is final *)
(* whose amount is pending, no taker's row is ahead of the maker's, and    *)
(* what is settled in part is the result at work, or an engine stopped.    *)
THEOREM SettledMeansFinal == Spec => []SettledIffFinal
<1>1. Init => Typed /\ ResultInv /\ OwnerInv /\ TradesInv
  BY InitTyped, InitResults, InitOwner, InitTrades
<1>2. Typed /\ ResultInv /\ OwnerInv /\ TradesInv /\ [Next]_vars
      => Typed' /\ ResultInv' /\ OwnerInv' /\ TradesInv'
  BY NextTyped, NextGrows, NextResults, NextOwner, NextTrades
<1>3. Typed /\ TradesInv => SettledIffFinal
  BY SettledFromTrades
<1> QED
  BY <1>1, <1>2, <1>3, PTL DEF Spec

-----------------------------------------------------------------------------
(* What SettledAsReported rests on: of the reports of a launch log some    *)
(* are still in the queue, one may be in the engine's hands, and only the  *)
(* rest can have settled a trade.                                          *)
CountOf(q, h) == Cardinality({i \in DOMAIN q : q[i].hash = h})

Owed(l, i) ==
  \/ epc \in {"log", "trades"} /\ event.hash = logs[l].hash
  \/ epc \in {"maker", "trade"} /\ <<l, i>> \in todo /\ ~AtWork(l, i)

Claims(l, i) ==
  settled[l][i] + CountOf(queue, logs[l].hash) + (IF Owed(l, i) THEN 1 ELSE 0)

Reports ==
  \A l \in Log :
    /\ logs[l].hash = 0 => reported[l] = 0
    /\ logs[l].hash # 0 => \A i \in 1 .. TradesOf[l] : Claims(l, i) <= reported[l]

(* What is reported is some launch log's, and none has a hash unsent.      *)
Known(h) == \E l \in Log : logs[l].hash = h

HashesKnown ==
  /\ \A i \in DOMAIN queue : Known(queue[i].hash)
  /\ epc \in {"log", "trades"} => Known(event.hash)
  /\ \A l \in Log : Unsent(l) => logs[l].hash = 0

(* A watcher comes past a transaction once in its life.                    *)
Passed(l) == wpc # "down" /\ logs[l].hash # 0 /\ ~Ahead(logs[l].hash)

ReportedInLives ==
  /\ wcrashes \in Nat
  /\ \A l \in Log : reported[l] <= wcrashes + (IF Passed(l) THEN 1 ELSE 0)
  /\ \A h \in found : sent[h].block = block
  /\ wpc = "down" => found = {}

ReportInv == Reports /\ HashesKnown /\ ReportedInLives

-----------------------------------------------------------------------------
LEMMA CountTyped ==
  ASSUME NEW q \in Seq(Event), NEW h
  PROVE  /\ IsFiniteSet({i \in DOMAIN q : q[i].hash = h})
         /\ CountOf(q, h) \in Nat
<1>1. IsFiniteSet(DOMAIN q)
  <2>1. DOMAIN q = 1 .. Len(q) /\ Len(q) \in Nat
    OBVIOUS
  <2> QED
    BY <2>1, FS_Interval
<1>2. IsFiniteSet({i \in DOMAIN q : q[i].hash = h})
  BY <1>1, FS_Subset
<1> QED
  BY <1>2, FS_CardinalityType DEF CountOf

LEMMA NoneOf ==
  ASSUME NEW q, NEW h, \A i \in DOMAIN q : q[i].hash # h
  PROVE  CountOf(q, h) = 0
<1>1. {i \in DOMAIN q : q[i].hash = h} = {}
  OBVIOUS
<1> QED
  BY <1>1, FS_EmptySet DEF CountOf

\* The queue with one result more.
LEMMA CountAppend ==
  ASSUME NEW q \in Seq(Event), NEW e \in Event, NEW h
  PROVE  CountOf(Append(q, e), h) = CountOf(q, h) + (IF e.hash = h THEN 1 ELSE 0)
<1> DEFINE S == {i \in DOMAIN q : q[i].hash = h}
           n == Len(q) + 1
           T == {i \in DOMAIN Append(q, e) : Append(q, e)[i].hash = h}
<1>1. Len(q) \in Nat /\ DOMAIN q = 1 .. Len(q)
  OBVIOUS
<1>2. /\ Append(q, e) \in Seq(Event) /\ Len(Append(q, e)) = Len(q) + 1
      /\ \A i \in 1 .. Len(q) : Append(q, e)[i] = q[i]
      /\ Append(q, e)[Len(q) + 1] = e
  BY AppendProperties
<1>3. DOMAIN Append(q, e) = 1 .. Len(q) + 1
  BY <1>1, <1>2
<1>4. T = IF e.hash = h THEN S \cup {n} ELSE S
  BY <1>1, <1>2, <1>3
<1>5. n \notin S
  BY <1>1
<1>6. IsFiniteSet(S) /\ Cardinality(S) \in Nat
  BY CountTyped DEF CountOf
<1>7. Cardinality(S \cup {n}) = Cardinality(S) + 1
  BY <1>5, <1>6, FS_AddElement
<1>8. CountOf(Append(q, e), h) = Cardinality(T) /\ CountOf(q, h) = Cardinality(S)
  BY DEF CountOf
<1> HIDE DEF S, T, n
<1>9. CASE e.hash = h
  BY <1>4, <1>6, <1>7, <1>8, <1>9
<1>10. CASE e.hash # h
  BY <1>4, <1>6, <1>8, <1>10
<1> QED
  BY <1>9, <1>10

\* The rest of the queue.
LEMMA CountTail ==
  ASSUME NEW q \in Seq(Event), q # <<>>, NEW h
  PROVE  /\ Head(q) \in Event /\ 1 \in DOMAIN q /\ Head(q) = q[1]
         /\ \A i \in DOMAIN Tail(q) : i + 1 \in DOMAIN q /\ Tail(q)[i] = q[i + 1]
         /\ CountOf(q, h) = CountOf(Tail(q), h) + (IF Head(q).hash = h THEN 1 ELSE 0)
<1> DEFINE S == {i \in DOMAIN q : q[i].hash = h}
           T == {i \in DOMAIN Tail(q) : Tail(q)[i].hash = h}
           R == S \ {1}
           f == [i \in T |-> i + 1]
<1>1. Len(q) \in Nat \ {0} /\ DOMAIN q = 1 .. Len(q)
  BY EmptySeq
<1>2. /\ Tail(q) \in Seq(Event) /\ Len(Tail(q)) = Len(q) - 1
      /\ \A i \in 1 .. Len(Tail(q)) : Tail(q)[i] = q[i + 1]
      /\ Head(q) \in Event
  BY HeadTailProperties
<1>3. DOMAIN Tail(q) = 1 .. Len(q) - 1
  BY <1>1, <1>2
<1>4. /\ \A i \in 1 .. Len(q) - 1 : i + 1 \in 1 .. Len(q) /\ i \in Int
      /\ \A j \in 2 .. Len(q) : j - 1 \in 1 .. Len(q) - 1 /\ (j - 1) + 1 = j
      /\ \A j \in 1 .. Len(q) : j # 1 => j \in 2 .. Len(q)
  BY <1>1
<1>5. Head(q) = q[1] /\ 1 \in 1 .. Len(q)
  BY <1>1, HeadTailProperties
<1>6. f \in Bijection(T, R)
  <2>1. f \in [T -> R]
    <3> SUFFICES ASSUME NEW i \in T PROVE i + 1 \in R
      OBVIOUS
    <3>1. i \in 1 .. Len(q) - 1 /\ q[i + 1].hash = h
      BY <1>2, <1>3
    <3>2. i + 1 \in 1 .. Len(q) /\ i + 1 # 1
      BY <1>1, <3>1
    <3> QED
      BY <1>1, <3>1, <3>2
  <2>2. \A i, j \in T : f[i] = f[j] => i = j
    <3>1. T \subseteq Int
      BY <1>3
    <3> QED
      BY <3>1
  <2>3. \A j \in R : \E i \in T : f[i] = j
    <3> SUFFICES ASSUME NEW j \in R PROVE \E i \in T : f[i] = j
      OBVIOUS
    <3>1. j \in 2 .. Len(q) /\ q[j].hash = h
      BY <1>1, <1>4
    <3>2. j - 1 \in 1 .. Len(q) - 1 /\ (j - 1) + 1 = j
      BY <1>4, <3>1
    <3>3. j - 1 \in T
      BY <1>2, <1>3, <3>1, <3>2
    <3>4. f[j - 1] = j
      BY <3>2, <3>3
    <3> QED
      BY <3>3, <3>4
  <2> HIDE DEF f, T, R
  <2>4. f \in Surjection(T, R)
    BY <2>1, <2>3, Fun_IsSurj
  <2>5. f \in Injection(T, R)
    BY <2>1, <2>2, Fun_IsInj
  <2> QED
    BY <2>4, <2>5 DEF Bijection
<1>7. IsFiniteSet(T) /\ Cardinality(T) \in Nat
  BY <1>2, CountTyped DEF CountOf
<1>8. IsFiniteSet(R) /\ Cardinality(R) = Cardinality(T)
  <2>1. ExistsBijection(T, R)
    BY <1>6 DEF ExistsBijection
  <2> HIDE DEF T, R
  <2> QED
    BY <1>7, <2>1, FS_Bijection
<1>9. IF Head(q).hash = h THEN S = R \cup {1} ELSE S = R
  BY <1>1, <1>5
<1>10. Cardinality(R \cup {1}) = Cardinality(R) + 1
  BY <1>8, FS_AddElement
<1>11. CountOf(q, h) = Cardinality(S) /\ CountOf(Tail(q), h) = Cardinality(T)
  BY DEF CountOf
<1>12. /\ Head(q) \in Event /\ 1 \in DOMAIN q /\ Head(q) = q[1]
       /\ \A i \in DOMAIN Tail(q) : i + 1 \in DOMAIN q /\ Tail(q)[i] = q[i + 1]
  BY <1>1, <1>2, <1>3, <1>4, <1>5
<1>13. CountOf(q, h) = CountOf(Tail(q), h) + (IF Head(q).hash = h THEN 1 ELSE 0)
  <2> HIDE DEF S, T, R
  <2>1. CASE Head(q).hash = h
    BY <1>7, <1>8, <1>9, <1>10, <1>11, <2>1
  <2>2. CASE Head(q).hash # h
    BY <1>7, <1>8, <1>9, <1>11, <2>2
  <2> QED
    BY <2>1, <2>2
<1> QED
  BY <1>12, <1>13

-----------------------------------------------------------------------------
LEMMA ReportsTyped ==
  ASSUME Typed, NEW l \in Log, NEW i \in 1 .. TradesOf[l]
  PROVE  /\ settled[l][i] \in Nat /\ reported[l] \in Nat
         /\ queue \in Seq(Event) /\ CountOf(queue, logs[l].hash) \in Nat
         /\ Claims(l, i) \in Nat
<1>1. /\ settled[l][i] \in Nat /\ reported[l] \in Nat /\ queue \in Seq(Event)
      /\ CountOf(queue, logs[l].hash) \in Nat
  BY TradesTyped, TypedParts, CountTyped DEF WatcherTyped, EngineTyped
<1> QED
  BY <1>1 DEF Claims

\* What is owed to a trade of a launch log without a hash.
LEMMA NothingOwed ==
  ASSUME Typed, ResultInv, OwnerInv, TradesInv, NEW l \in Log, logs[l].hash = 0,
         NEW i \in 1 .. TradesOf[l]
  PROVE  settled[l][i] = 0 /\ ~Owed(l, i)
<1>1. txs[l].hash = 0
  BY DEF ResultInv, SameHash
<1>2. trades[l][i].hash = 0
  BY <1>1 DEF ResultInv, TradeHashes
<1>3. epc \in {"log", "trades"} => event.hash # 0
  BY TypedParts DEF ResultInv, EventMined, ResultIn, Settling, EngineTyped, Event, ChainTyped
<1>4. epc \in {"maker", "trade"} => <<l, i>> \notin todo
  <2> SUFFICES ASSUME epc \in {"maker", "trade"}, <<l, i>> \in todo PROVE FALSE
    OBVIOUS
  <2>1. logs[<<l, i>>[1]].hash = event.hash /\ event.hash # 0
    BY FoundTrades
  <2> QED
    BY <2>1
<1> QED
  BY <1>2, <1>3, <1>4 DEF TradesInv, Finals, Owed

LEMMA ReportedFromReports ==
  ASSUME Typed, ResultInv, OwnerInv, TradesInv, ReportInv
  PROVE  SettledAsReported
<1> SUFFICES ASSUME NEW l \in Log
             PROVE  /\ reported[l] <= 1 + wcrashes
                    /\ \A i \in 1 .. TradesOf[l] : /\ settled[l][i] <= reported[l]
                                                   /\ takerSettled[l][i] <= reported[l]
  BY TradesTyped DEF SettledAsReported
<1>1. reported[l] \in Nat /\ wcrashes \in Nat
  BY TypedParts DEF WatcherTyped, ReportInv, ReportedInLives
<1>2. reported[l] <= wcrashes + (IF Passed(l) THEN 1 ELSE 0)
  BY DEF ReportInv, ReportedInLives
<1>3. reported[l] <= 1 + wcrashes
  BY <1>1, <1>2
<1>4. ASSUME NEW i \in 1 .. TradesOf[l]
      PROVE  settled[l][i] <= reported[l] /\ takerSettled[l][i] <= reported[l]
  <2>1. /\ settled[l][i] \in Nat /\ takerSettled[l][i] \in Nat
        /\ CountOf(queue, logs[l].hash) \in Nat
    BY ReportsTyped, TradesTyped
  <2>2. settled[l][i] <= reported[l]
    <3>1. CASE logs[l].hash = 0
      BY <1>1, <3>1, NothingOwed
    <3>2. CASE logs[l].hash # 0
      <4>1. Claims(l, i) <= reported[l]
        BY <3>2 DEF ReportInv, Reports
      <4> QED
        BY <1>1, <2>1, <4>1 DEF Claims
    <3> QED
      BY <3>1, <3>2
  <2>3. takerSettled[l][i] <= settled[l][i]
    BY SettledFromTrades, TradesTyped DEF SettledIffFinal
  <2> QED
    BY <1>1, <2>1, <2>2, <2>3
<1> QED
  BY <1>3, <1>4

-----------------------------------------------------------------------------
(* The claims on the reports.  No step makes them more, but the one that   *)
(* reports.                                                                *)
LEMMA ClaimsKept ==
  ASSUME Typed, NEW l \in Log, NEW i \in 1 .. TradesOf[l],
         logs'[l].hash = logs[l].hash, UNCHANGED <<settled, queue>>,
         Owed(l, i)' => Owed(l, i)
  PROVE  Claims(l, i)' <= Claims(l, i)
<1>1. settled[l][i] \in Nat /\ CountOf(queue, logs[l].hash) \in Nat
  BY ReportsTyped
<1> QED
  BY <1>1 DEF Claims

LEMMA TakeClaims ==
  ASSUME Typed, TakeConfirmation, NEW l \in Log, NEW i \in 1 .. TradesOf[l]
  PROVE  Claims(l, i)' <= Claims(l, i)
<1>1. /\ epc = "idle" /\ queue \in Seq(Event) /\ queue # <<>> /\ queue' = Tail(queue)
      /\ UNCHANGED <<logs, settled, todo>>
      /\ epc' \in {"idle", "log"} /\ (epc' = "log" => event' = Head(queue))
  BY TypedParts DEF TakeConfirmation, EngineTyped
<1>2. /\ settled[l][i] \in Nat
      /\ CountOf(queue, logs[l].hash) = CountOf(queue', logs[l].hash)
           + (IF Head(queue).hash = logs[l].hash THEN 1 ELSE 0)
  BY <1>1, TradesTyped, CountTail
<1>3. CountOf(queue', logs[l].hash) \in Nat
  <2>1. Tail(queue) \in Seq(Event)
    BY <1>1, HeadTailProperties
  <2> QED
    BY <1>1, <2>1, CountTyped
<1>4. Owed(l, i)' => Head(queue).hash = logs[l].hash
  BY <1>1 DEF Owed
<1>5. Claims(l, i)' = settled[l][i] + CountOf(queue', logs[l].hash)
                        + (IF Owed(l, i)' THEN 1 ELSE 0)
  BY <1>1 DEF Claims
<1>6. Claims(l, i) = settled[l][i] + CountOf(queue, logs[l].hash)
  <2>1. ~Owed(l, i)
    BY <1>1 DEF Owed
  <2> QED
    BY <1>2, <1>3, <2>1 DEF Claims
<1> QED
  BY <1>2, <1>3, <1>4, <1>5, <1>6

LEMMA FindClaims ==
  ASSUME Typed, ResultInv, FindTrades, NEW l \in Log, NEW i \in 1 .. TradesOf[l]
  PROVE  Claims(l, i)' <= Claims(l, i)
<1>1. /\ epc = "trades" /\ UNCHANGED <<logs, settled, queue>>
      /\ epc' \in {"idle", "maker"} /\ todo' = TradesByHash
      /\ event.hash # 0
  BY TypedParts DEF FindTrades, tables, ResultInv, EventMined, ResultIn, Settling, EngineTyped,
     Event, ChainTyped
<1>2. ASSUME <<l, i>> \in TradesByHash PROVE event.hash = logs[l].hash
  <2>1. PICK k \in Log : <<l, i>> \in {<<k, j>> :
                           j \in {m \in DOMAIN trades[k] : trades[k][m].hash = event.hash}}
    BY <1>2, Zenon DEF TradesByHash
  <2>2. trades[l][i].hash = event.hash
    BY <2>1
  <2>3. txs[l].hash = event.hash
    BY <1>1, <2>2 DEF ResultInv, TradeHashes
  <2> QED
    BY <1>1, <2>3 DEF ResultInv, SameHash
<1>3. Owed(l, i)' => Owed(l, i)
  BY <1>1, <1>2 DEF Owed
<1> QED
  BY <1>1, <1>3, ClaimsKept

LEMMA SettleMakerClaims ==
  ASSUME Typed, NEW x \in todo, SettleMaker(x), NEW l \in Log, NEW i \in 1 .. TradesOf[l]
  PROVE  Claims(l, i)' <= Claims(l, i)
<1>1. /\ epc = "maker" /\ epc' = "trade" /\ Newest(x) /\ UNCHANGED <<logs, queue, todo>>
  BY DEF SettleMaker
<1>2. settled'[l][i] = settled[l][i] + (IF <<l, i>> = x THEN 1 ELSE 0)
  BY OneMore
<1>3. settled[l][i] \in Nat /\ CountOf(queue, logs[l].hash) \in Nat
  BY ReportsTyped
<1>4. CASE <<l, i>> = x
  <2>1. Owed(l, i)
    BY <1>1, <1>4 DEF Owed, AtWork
  <2>2. ~Owed(l, i)'
    BY <1>1, <1>4 DEF Owed, AtWork, Newest
  <2> QED
    BY <1>1, <1>2, <1>3, <1>4, <2>1, <2>2 DEF Claims
<1>5. CASE <<l, i>> # x
  <2>1. Owed(l, i)' => Owed(l, i)
    BY <1>1 DEF Owed, AtWork
  <2> QED
    BY <1>1, <1>2, <1>3, <1>5, <2>1 DEF Claims
<1> QED
  BY <1>4, <1>5

LEMMA SettleTradeClaims ==
  ASSUME Typed, ResultInv, OwnerInv, NEW x \in todo, SettleTrade(x),
         NEW l \in Log, NEW i \in 1 .. TradesOf[l]
  PROVE  Claims(l, i)' <= Claims(l, i)
<1>1. /\ epc = "trade" /\ epc' \in {"maker", "taker"} /\ Newest(x)
      /\ todo' = todo \ {x} /\ UNCHANGED <<logs, settled, queue>>
  BY DEF SettleTrade
<1>2. \A y \in todo : Newest(y) => y = x
  BY <1>1, OneNewest
<1>3. Owed(l, i)' => Owed(l, i)
  BY <1>1, <1>2 DEF Owed, AtWork
<1> QED
  BY <1>1, <1>3, ClaimsKept

LEMMA OtherClaims ==
  ASSUME Typed, NEW l \in Log, NEW i \in 1 .. TradesOf[l], logs'[l].hash = logs[l].hash,
         UNCHANGED <<settled, queue>>,
         \/ epc' \notin {"log", "trades", "maker", "trade"}
         \/ UNCHANGED <<epc, event, todo>>
         \/ epc = "log" /\ epc' = "trades" /\ event' = event
  PROVE  Claims(l, i)' <= Claims(l, i)
<1>1. Owed(l, i)' => Owed(l, i)
  BY DEF Owed, AtWork, Newest
<1> QED
  BY <1>1, ClaimsKept

(* The steps that report nothing and give no launch log a hash.            *)
LEMMA NextClaims ==
  ASSUME Typed, ResultInv, OwnerInv, TradesInv, [Next]_vars, ~SaveLog,
         ~\E h \in found : PushConfirmation(h, TRUE),
         NEW l \in Log, NEW i \in 1 .. TradesOf[l]
  PROVE  Claims(l, i)' <= Claims(l, i)
<1>0. logs'[l].hash = logs[l].hash
  BY LogMoves
<1>1. CASE TakeConfirmation \/ FindTrades
  BY <1>1, TakeClaims, FindClaims
<1>2. ASSUME NEW x \in todo, SettleMaker(x) \/ SettleTrade(x)
      PROVE  Claims(l, i)' <= Claims(l, i)
  BY <1>2, SettleMakerClaims, SettleTradeClaims
<1>3. CASE \/ ConfirmLog \/ SettleTaker \/ EngineCrash \/ EngineStart
           \/ \E x \in todo : InsertTrade(x)
           \/ \E k \in Log : InsertLog(k)
  <2>1. /\ UNCHANGED <<settled, queue>>
        /\ \/ epc' \notin {"log", "trades", "maker", "trade"}
           \/ epc = "log" /\ epc' = "trades" /\ event' = event
    BY <1>3 DEF ConfirmLog, SettleTaker, EngineCrash, EngineStart, InsertTrade, InsertLog, tables
  <2> QED
    BY <1>0, <2>1, OtherClaims
<1>4. CASE /\ ~(TakeConfirmation \/ FindTrades)
           /\ ~\E x \in todo : SettleMaker(x) \/ SettleTrade(x)
           /\ ~\/ ConfirmLog \/ SettleTaker \/ EngineCrash \/ EngineStart
               \/ \E x \in todo : InsertTrade(x)
               \/ \E k \in Log : InsertLog(k)
  <2>1. UNCHANGED <<settled, queue, epc, event, todo>>
    BY <1>4 DEF Next, ApproveToken, SendFails, Launcher, FindAllCreated, SendRawTransaction,
       SaveTransaction, SaveTrade, LauncherStart, LauncherCrash, Mine, Watcher, ScanBlock,
       SkipTransaction, ConfirmApproval, PushConfirmation, SaveBlock, WatcherStart, WatcherCrash,
       Engine, vars, tables, engine
  <2> QED
    BY <1>0, <2>1, OtherClaims
<1> QED
  BY <1>1, <1>2, <1>3, <1>4

-----------------------------------------------------------------------------
(* A report: the watcher is at a transaction that is ahead of it, and past *)
(* it afterwards.                                                          *)
LEMMA Pushed ==
  ASSUME Typed, ResultInv, OwnerInv, ReportInv, NEW h \in found, PushConfirmation(h, TRUE)
  PROVE  \E l \in Log :
           /\ logs[l].hash = h /\ h # 0
           /\ \A k \in Log : reported'[k] = IF k = l THEN reported[k] + 1 ELSE reported[k]
           /\ \A k \in Log : logs[k].hash = h => k = l
           /\ \E e \in Event : e.hash = h /\ queue' = Append(queue, e)
           /\ wpc = "scan" /\ Ahead(h) /\ ~Ahead(h)'
           /\ \A k : Ahead(k)' => Ahead(k)
           /\ UNCHANGED <<logs, settled, epc, event, todo, sent, block, found, wcrashes>>
<1>1. /\ UNCHANGED <<logs, settled, epc, event, todo, sent, block, found, wcrashes>>
      /\ wpc = "scan" /\ wpc' = "saveBlock" /\ FirstFound(h)
      /\ queue' = Append(queue, [hash |-> h, status |-> ResultOf(h)])
      /\ \A k \in Log : reported'[k] = IF k \in LogsByHash(h) THEN reported[k] + 1
                                                             ELSE reported[k]
  BY DEF PushConfirmation, tables, chain, engine
<1>2. PICK l \in Log : logs[l].hash = h
  BY DEF PushConfirmation, LogsByHash
<1>3. h \in DOMAIN sent /\ h # 0 /\ h \in Nat
  BY TypedParts, SentTyped DEF WatcherTyped
<1>4. \A k \in Log : logs[k].hash = h => k = l
  BY <1>2, <1>3 DEF OwnerInv, HashesOwned, Own
<1>5. [hash |-> h, status |-> ResultOf(h)] \in Event
  BY <1>3, ResultTyped DEF Event
<1>6. Ahead(h)
  BY <1>1 DEF Ahead
<1>7. sent[h].block = block /\ block \in Nat /\ sent[h].block > 0
  BY TypedParts DEF ReportInv, ReportedInLives, WatcherTyped, ChainTyped, ResultInv, FoundMined
<1>8. \A k : FirstFound(k)' = FirstFound(k)
  BY <1>1 DEF FirstFound
<1>9. ~Ahead(h)'
  BY <1>1, <1>7, <1>8 DEF Ahead
<1>10. \A k : Ahead(k)' => Ahead(k)
  BY <1>1, <1>8 DEF Ahead
<1>11. \A k \in Log : k \in LogsByHash(h) <=> k = l
  BY <1>2, <1>4 DEF LogsByHash
<1>12. \E e \in Event : e.hash = h /\ queue' = Append(queue, e)
  BY <1>1, <1>5
<1> QED
  BY <1>1, <1>2, <1>3, <1>4, <1>6, <1>9, <1>10, <1>11, <1>12

LEMMA PushReports ==
  ASSUME Typed, Typed', ResultInv, OwnerInv, TradesInv, ReportInv, NEW h \in found,
         PushConfirmation(h, TRUE)
  PROVE  ReportInv'
<1> USE DEF ReportInv
<1>1. PICK l \in Log :
        /\ logs[l].hash = h /\ h # 0
        /\ \A k \in Log : reported'[k] = IF k = l THEN reported[k] + 1 ELSE reported[k]
        /\ \A k \in Log : logs[k].hash = h => k = l
        /\ \E e \in Event : e.hash = h /\ queue' = Append(queue, e)
        /\ wpc = "scan" /\ Ahead(h) /\ ~Ahead(h)'
        /\ \A k : Ahead(k)' => Ahead(k)
        /\ UNCHANGED <<logs, settled, epc, event, todo, sent, block, found, wcrashes>>
  BY Pushed
<1>2. PICK e \in Event : e.hash = h /\ queue' = Append(queue, e)
  BY <1>1
<1>3. queue \in Seq(Event)
  BY TypedParts DEF EngineTyped
<1>4. wpc' = "saveBlock"
  BY DEF PushConfirmation
<1>5. Reports'
  <2> SUFFICES ASSUME NEW k \in Log
               PROVE  /\ logs[k].hash = 0 => reported'[k] = 0
                      /\ logs[k].hash # 0 =>
                           \A i \in 1 .. TradesOf[k] : Claims(k, i)' <= reported'[k]
    BY <1>1 DEF Reports
  <2>1. logs[k].hash = 0 => reported'[k] = 0
    BY <1>1 DEF Reports
  <2>2. ASSUME logs[k].hash # 0, NEW i \in 1 .. TradesOf[k]
        PROVE  Claims(k, i)' <= reported'[k]
    <3>1. /\ settled[k][i] \in Nat /\ reported[k] \in Nat
          /\ CountOf(queue, logs[k].hash) \in Nat
      BY ReportsTyped
    <3>2. Claims(k, i) <= reported[k]
      BY <2>2 DEF Reports
    <3>3. CountOf(queue', logs[k].hash) = CountOf(queue, logs[k].hash)
                                            + (IF k = l THEN 1 ELSE 0)
      BY <1>1, <1>2, <1>3, CountAppend
    <3>4. Owed(k, i)' = Owed(k, i)
      BY <1>1 DEF Owed, AtWork, Newest
    <3>5. Claims(k, i)' = settled[k][i] + CountOf(queue', logs[k].hash)
                            + (IF Owed(k, i) THEN 1 ELSE 0)
      BY <1>1, <3>4 DEF Claims
    <3>6. reported'[k] = IF k = l THEN reported[k] + 1 ELSE reported[k]
      BY <1>1
    <3> DEFINE owed == IF Owed(k, i) THEN 1 ELSE 0
    <3>7. /\ owed \in Nat /\ settled[k][i] + CountOf(queue, logs[k].hash) + owed <= reported[k]
          /\ Claims(k, i)' = settled[k][i] + CountOf(queue', logs[k].hash) + owed
      BY <3>2, <3>5 DEF Claims
    <3> HIDE DEF owed
    <3>8. CASE k = l
      BY <3>1, <3>3, <3>6, <3>7, <3>8
    <3>9. CASE k # l
      BY <3>1, <3>3, <3>6, <3>7, <3>9
    <3> QED
      BY <3>8, <3>9
  <2> QED
    BY <2>1, <2>2
<1>6. HashesKnown'
  <2>1. \A i \in DOMAIN queue' : queue'[i].hash = h
                                 \/ (i \in DOMAIN queue /\ queue'[i] = queue[i])
    BY <1>2, <1>3, AppendProperties
  <2>2. Known(h) /\ \A k : Known(k)' = Known(k)
    BY <1>1 DEF Known
  <2> QED
    BY <1>1, <2>1, <2>2 DEF HashesKnown, Unsent
<1>7. ReportedInLives'
  <2> SUFFICES ASSUME NEW k \in Log
               PROVE  reported'[k] <= wcrashes + (IF Passed(k)' THEN 1 ELSE 0)
    BY <1>1, <1>4 DEF ReportedInLives
  <2>1. reported[k] \in Nat /\ wcrashes \in Nat
    BY TypedParts DEF WatcherTyped, ReportedInLives
  <2>2. reported[k] <= wcrashes + (IF Passed(k) THEN 1 ELSE 0)
    BY DEF ReportedInLives
  <2>3. CASE k = l
    <3>1. ~Passed(k) /\ Passed(k)'
      BY <1>1, <1>4, <2>3 DEF Passed
    <3> QED
      BY <1>1, <2>1, <2>2, <2>3, <3>1
  <2>4. CASE k # l
    <3>1. Passed(k) => Passed(k)'
      BY <1>1, <1>4 DEF Passed
    <3> QED
      BY <1>1, <2>1, <2>2, <2>4, <3>1
  <2> QED
    BY <2>3, <2>4
<1> QED
  BY <1>5, <1>6, <1>7

(* The launcher gives a launch log a hash nobody knows.                    *)
LEMMA SaveLogReports ==
  ASSUME Typed, Typed', Grown, ResultInv, OwnerInv, TradesInv, TradesInv', ReportInv, SaveLog
  PROVE  ReportInv'
<1> USE DEF ReportInv
<1>1. /\ UNCHANGED <<settled, queue, epc, event, todo, watcher, sent, wcrashes>>
      /\ at \in Log /\ lpc = "saveLog" /\ hash # 0
      /\ logs[at].status = "created" /\ logs'[at].status = "pending" /\ logs'[at].hash = hash
      /\ \A k \in Log \ {at} : logs'[k] = logs[k]
      /\ Own(hash, at)
  BY TypedParts DEF SaveLog, chain, engine, faults, TablesTyped, LauncherTyped, Saving, OwnerInv,
     HashesOwned, UnsentAtWork, ResultInv, LauncherAtWork
<1>2. logs[at].hash = 0
  BY <1>1 DEF HashesKnown, Unsent
<1>3. ~Known(hash)
  BY <1>1, <1>2 DEF Known, OwnerInv, HashesOwned, Own
<1>4. \A h : Known(h) /\ h # 0 => Known(h)'
  BY <1>1, <1>2 DEF Known
<1>5. /\ \A i \in DOMAIN queue : queue[i].hash # 0
      /\ epc \in {"log", "trades"} => event.hash # 0
  <2>1. \A i \in DOMAIN queue : queue[i].status \in Outcome
    <3>1. queue \in Seq(Event)
      BY TypedParts DEF EngineTyped
    <3>2. \A i \in DOMAIN queue : queue[i] \in Event
      BY <3>1, ElementOfSeq
    <3> QED
      BY <3>2 DEF Event
  <2>2. \A i \in DOMAIN queue : ResultIn(queue[i], sent)
    BY ResultsAreMinedIn DEF ResultInv
  <2> QED
    BY <2>1, <2>2, TypedParts DEF ResultIn, ResultInv, EventMined, Settling, EngineTyped, Event,
       ChainTyped
<1>6. HashesKnown'
  BY <1>1, <1>4, <1>5 DEF HashesKnown, Unsent
<1>7. Reports'
  <2> SUFFICES ASSUME NEW k \in Log
               PROVE  /\ logs'[k].hash = 0 => reported[k] = 0
                      /\ logs'[k].hash # 0 =>
                           \A i \in 1 .. TradesOf[k] : Claims(k, i)' <= reported[k]
    BY <1>1 DEF Reports, watcher
  <2>1. CASE k = at
    <3>1. reported[k] = 0
      BY <1>2, <2>1 DEF Reports
    <3>2. ASSUME NEW i \in 1 .. TradesOf[k] PROVE Claims(k, i)' = 0
      <4>1. settled[k][i] = 0 /\ ~Owed(k, i)
        BY <1>2, <2>1, NothingOwed
      <4>2. CountOf(queue, hash) = 0
        BY <1>3, NoneOf DEF HashesKnown
      <4>3. ~Owed(k, i)'
        <5>1. epc \in {"log", "trades"} => event.hash # hash
          BY <1>3 DEF HashesKnown
        <5> QED
          BY <1>1, <2>1, <4>1, <5>1 DEF Owed, AtWork, Newest
      <4> QED
        BY <1>1, <2>1, <4>1, <4>2, <4>3 DEF Claims
    <3> QED
      BY <3>1, <3>2
  <2>2. CASE k # at
    <3>1. logs'[k].hash = logs[k].hash
      BY <1>1, <2>2
    <3>2. ASSUME NEW i \in 1 .. TradesOf[k] PROVE Claims(k, i)' = Claims(k, i)
      <4>1. Owed(k, i)' = Owed(k, i)
        BY <1>1, <3>1 DEF Owed, AtWork, Newest
      <4> QED
        BY <1>1, <3>1, <4>1 DEF Claims
    <3> QED
      BY <3>1, <3>2 DEF Reports
  <2> QED
    BY <2>1, <2>2
<1>8. ReportedInLives'
  <2> SUFFICES ASSUME NEW k \in Log
               PROVE  reported[k] <= wcrashes + (IF Passed(k)' THEN 1 ELSE 0)
    BY <1>1 DEF ReportedInLives, watcher
  <2>1. reported[k] \in Nat /\ wcrashes \in Nat
    BY TypedParts DEF WatcherTyped, ReportedInLives
  <2>2. CASE k = at
    BY <1>2, <2>1, <2>2 DEF Reports
  <2>3. CASE k # at
    <3>1. Passed(k)' = Passed(k)
      BY <1>1, <2>3 DEF Passed, Ahead, FirstFound, watcher
    <3> QED
      BY <3>1 DEF ReportedInLives
  <2> QED
    BY <2>2, <2>3
<1> QED
  BY <1>6, <1>7, <1>8

-----------------------------------------------------------------------------
(* What the queue and the engine hold after any other step.                *)
LEMMA NextKnown ==
  ASSUME Typed, ResultInv, OwnerInv, ReportInv, [Next]_vars, ~SaveLog,
         ~\E h \in found : PushConfirmation(h, TRUE)
  PROVE  HashesKnown'
<1> USE DEF ReportInv
<1>1. \A l \in Log : logs'[l].hash = logs[l].hash /\ (Unsent(l)' => Unsent(l))
  BY LogMoves
<1>2. \A h : Known(h)' = Known(h)
  BY <1>1 DEF Known
<1>3. CASE TakeConfirmation
  <2>1. /\ queue \in Seq(Event) /\ queue # <<>> /\ queue' = Tail(queue)
        /\ epc = "idle" /\ (epc' # "idle" => event' = Head(queue))
    BY <1>3, TypedParts DEF TakeConfirmation, EngineTyped
  <2>2. /\ 1 \in DOMAIN queue /\ Head(queue) = queue[1]
        /\ \A i \in DOMAIN Tail(queue) : i + 1 \in DOMAIN queue /\ Tail(queue)[i] = queue[i + 1]
    BY <2>1, CountTail
  <2> QED
    BY <1>1, <1>2, <2>1, <2>2 DEF HashesKnown
<1>4. CASE ~TakeConfirmation
  <2>1. /\ UNCHANGED queue
        /\ epc' \in {"log", "trades"} => epc \in {"log", "trades"} /\ event' = event
    BY <1>4 DEF Next, InsertLog, InsertTrade, ApproveToken, SendFails, Launcher, FindAllCreated,
       SendRawTransaction, SaveTransaction, SaveTrade, LauncherStart, LauncherCrash, Mine,
       Watcher, ScanBlock, SkipTransaction, ConfirmApproval, PushConfirmation, SaveBlock,
       WatcherStart, WatcherCrash, Engine, ConfirmLog, FindTrades, SettleMaker, SettleTrade,
       SettleTaker, EngineStart, EngineCrash, vars, engine
  <2> QED
    BY <1>1, <1>2, <2>1 DEF HashesKnown
<1> QED
  BY <1>3, <1>4

(* The watcher's other steps.                                              *)
LEMMA BlockNumbers ==
  ASSUME Typed, NEW h \in DOMAIN sent
  PROVE  sent[h].block \in Nat
<1>1. sent[h] \in LogEntry
  BY TypedParts DEF ChainTyped
<1> QED
  BY <1>1 DEF LogEntry

LEMMA LivesKept ==
  ASSUME Typed, OwnerInv, ReportInv, wcrashes' = wcrashes, UNCHANGED reported,
         \A l \in Log : logs'[l].hash = logs[l].hash,
         wpc' # "down",
         wpc # "down" => \A h \in DOMAIN sent : Ahead(h)' => Ahead(h),
         \A h \in found' : sent'[h].block = block'
  PROVE  ReportedInLives'
<1> USE DEF ReportInv
<1> SUFFICES ASSUME NEW l \in Log
             PROVE  reported[l] <= wcrashes + (IF Passed(l)' THEN 1 ELSE 0)
  BY DEF ReportedInLives
<1>1. /\ reported[l] \in Nat /\ wcrashes \in Nat
      /\ reported[l] <= wcrashes + (IF Passed(l) THEN 1 ELSE 0)
  BY TypedParts DEF WatcherTyped, ReportedInLives
<1>2. Passed(l) => Passed(l)'
  BY DEF Passed, OwnerInv, HashesOwned, Own
<1> QED
  BY <1>1, <1>2

LEMMA ScanBlockLives ==
  ASSUME Typed, OwnerInv, ReportInv, ScanBlock
  PROVE  ReportedInLives'
<1>1. /\ wpc = "scan" /\ wpc' = "scan" /\ UNCHANGED <<logs, sent, reported, wcrashes>>
      /\ block' = block + 1 /\ found' = InBlock(block + 1) /\ block \in Nat
  BY TypedParts DEF ScanBlock, tables, chain, faults, WatcherTyped, ChainTyped
<1>2. \A h \in DOMAIN sent : sent[h].block \in Nat
  BY BlockNumbers
<1>3. \A h \in found' : h \in DOMAIN sent /\ sent[h].block = block + 1
  BY <1>1 DEF InBlock
<1>4. \A h \in DOMAIN sent : Ahead(h)' => Ahead(h)
  BY <1>1, <1>2, <1>3 DEF Ahead
<1> QED
  BY <1>1, <1>3, <1>4, LivesKept

LEMMA FoundLives ==
  ASSUME Typed, ResultInv, OwnerInv, ReportInv, [Next]_vars, NEW h \in found,
         SkipTransaction(h) \/ ConfirmApproval(h) \/ SaveBlock(h)
  PROVE  ReportedInLives'
<1>1. /\ wpc # "down" /\ wpc' = "scan" /\ UNCHANGED <<sent, block, reported, wcrashes>>
      /\ found' = found \ {h} /\ FirstFound(h) /\ ~SaveLog
  BY DEF SkipTransaction, ConfirmApproval, SaveBlock, SaveLog, watcher, chain, faults
<1>2. \A k \in found \ {h} : ~FirstFound(k)
  BY <1>1, TypedParts, SentTyped DEF FirstFound, WatcherTyped
<1>3. \A k : Ahead(k)' => Ahead(k)
  BY <1>1, <1>2 DEF Ahead
<1>4. \A l \in Log : logs'[l].hash = logs[l].hash
  BY <1>1, LogMoves
<1> QED
  BY <1>1, <1>3, <1>4, LivesKept DEF ReportInv, ReportedInLives

LEMMA FailedPushLives ==
  ASSUME Typed, OwnerInv, ReportInv, NEW h \in found, PushConfirmation(h, FALSE)
  PROVE  ReportedInLives'
<1>1. /\ wpc = "scan" /\ wpc' = "saveBlock" /\ UNCHANGED <<logs, sent, block, found, wcrashes>>
      /\ reported' = [l \in Log |-> reported[l]]
  BY DEF PushConfirmation, tables, chain
<1>2. reported' = reported
  BY <1>1, TypedParts DEF WatcherTyped
<1>3. \A k : Ahead(k)' => Ahead(k)
  BY <1>1 DEF Ahead, FirstFound
<1> QED
  BY <1>1, <1>2, <1>3, LivesKept DEF ReportInv, ReportedInLives

LEMMA WatcherCrashLives ==
  ASSUME Typed, ReportInv, WatcherCrash
  PROVE  ReportedInLives'
<1>1. /\ wpc' = "down" /\ found' = {} /\ wcrashes' = wcrashes + 1
      /\ UNCHANGED <<logs, sent, reported>>
  BY DEF WatcherCrash, tables, chain
<1>2. \A l \in Log : /\ reported[l] \in Nat /\ wcrashes \in Nat
                     /\ reported[l] <= wcrashes + (IF Passed(l) THEN 1 ELSE 0)
  BY TypedParts DEF WatcherTyped, ReportInv, ReportedInLives
<1>3. \A l : ~Passed(l)'
  BY <1>1 DEF Passed
<1>4. wcrashes' \in Nat
  BY <1>1 DEF ReportInv, ReportedInLives
<1>5. \A l \in Log : reported'[l] <= wcrashes' + (IF Passed(l)' THEN 1 ELSE 0)
  BY <1>1, <1>2, <1>3
<1> QED
  BY <1>1, <1>4, <1>5 DEF ReportedInLives

LEMMA WatcherStartLives ==
  ASSUME Typed, OwnerInv, ReportInv, WatcherStart
  PROVE  ReportedInLives'
  BY LivesKept DEF WatcherStart, tables, chain, faults, ReportInv, ReportedInLives

\* A step that leaves the watcher alone.
LEMMA AloneLives ==
  ASSUME Typed, Grown, OwnerInv, ReportInv, ResultInv, UNCHANGED <<watcher, wcrashes>>,
         \A l \in Log : logs'[l].hash = logs[l].hash
  PROVE  ReportedInLives'
<1>1. UNCHANGED <<wpc, block, found, cached, reported>>
  BY DEF watcher
<1>2. \A h \in DOMAIN sent : Ahead(h)' => Ahead(h)
  <2> SUFFICES ASSUME NEW h \in DOMAIN sent, Ahead(h)' PROVE Ahead(h)
    OBVIOUS
  <2>1. sent[h].block \in Nat
    BY BlockNumbers
  <2>2. sent[h].block > 0 => sent'[h] = sent[h]
    BY DEF Grown
  <2>3. FirstFound(h)' = FirstFound(h)
    BY <1>1 DEF FirstFound
  <2> QED
    BY <1>1, <2>1, <2>2, <2>3 DEF Ahead
<1>3. \A h \in found : h \in DOMAIN sent /\ sent[h].block > 0 /\ sent[h].block = block
  BY TypedParts DEF WatcherTyped, ResultInv, FoundMined, ReportInv, ReportedInLives
<1>4. \A h \in found : sent'[h].block = block
  BY <1>3 DEF Grown
<1>5. CASE wpc # "down"
  BY <1>1, <1>2, <1>4, <1>5, LivesKept
<1>6. CASE wpc = "down"
  <2>1. \A l : ~Passed(l) /\ ~Passed(l)'
    BY <1>1, <1>6 DEF Passed
  <2> QED
    BY <1>1, <1>4, <2>1 DEF ReportInv, ReportedInLives
<1> QED
  BY <1>5, <1>6

LEMMA NextLives ==
  ASSUME Typed, Grown, ResultInv, OwnerInv, ReportInv, [Next]_vars, ~SaveLog,
         ~\E h \in found : PushConfirmation(h, TRUE)
  PROVE  ReportedInLives'
<1>0. \A l \in Log : logs'[l].hash = logs[l].hash
  BY LogMoves
<1>1. CASE ScanBlock \/ WatcherStart \/ WatcherCrash
  BY <1>1, ScanBlockLives, WatcherStartLives, WatcherCrashLives
<1>2. ASSUME NEW h \in found,
             \/ SkipTransaction(h) \/ ConfirmApproval(h) \/ SaveBlock(h)
             \/ PushConfirmation(h, FALSE)
      PROVE  ReportedInLives'
  BY <1>2, FoundLives, FailedPushLives
<1>3. CASE UNCHANGED <<watcher, wcrashes>>
  BY <1>0, <1>3, AloneLives
<1> QED
  BY <1>1, <1>2, <1>3 DEF Next, InsertLog, InsertTrade, ApproveToken, SendFails, Launcher,
     FindAllCreated, SendRawTransaction, SaveLog, SaveTransaction, SaveTrade, LauncherStart,
     LauncherCrash, Mine, Watcher, Engine, TakeConfirmation, ConfirmLog, FindTrades, SettleMaker,
     SettleTrade, SettleTaker, EngineStart, EngineCrash, vars, faults

LEMMA ReportedKept ==
  ASSUME Typed, [Next]_vars, ~\E h \in found : PushConfirmation(h, TRUE)
  PROVE  \A l \in Log : reported'[l] = reported[l]
<1>1. ASSUME NEW h \in found, PushConfirmation(h, FALSE)
      PROVE  \A l \in Log : reported'[l] = reported[l]
  BY <1>1 DEF PushConfirmation
<1>2. CASE ~\E h \in found : PushConfirmation(h, FALSE)
  <2>1. UNCHANGED reported
    BY <1>2 DEF Next, InsertLog, InsertTrade, ApproveToken, SendFails, Launcher, FindAllCreated,
       SendRawTransaction, SaveLog, SaveTransaction, SaveTrade, LauncherStart, LauncherCrash,
       Mine, Watcher, ScanBlock, SkipTransaction, ConfirmApproval, SaveBlock, WatcherStart,
       WatcherCrash, Engine, TakeConfirmation, ConfirmLog, FindTrades, SettleMaker, SettleTrade,
       SettleTaker, EngineStart, EngineCrash, vars, watcher
  <2> QED
    BY <2>1
<1> QED
  BY <1>1, <1>2

LEMMA NextReport ==
  ASSUME Typed, Typed', Grown, ResultInv, OwnerInv, TradesInv, TradesInv', ReportInv, [Next]_vars
  PROVE  ReportInv'
<1>1. ASSUME NEW h \in found, PushConfirmation(h, TRUE) PROVE ReportInv'
  BY <1>1, PushReports
<1>2. CASE SaveLog
  BY <1>2, SaveLogReports
<1>3. CASE ~SaveLog /\ ~\E h \in found : PushConfirmation(h, TRUE)
  <2>1. HashesKnown' /\ ReportedInLives'
    BY <1>3, NextKnown, NextLives
  <2>2. \A l \in Log : reported'[l] = reported[l] /\ logs'[l].hash = logs[l].hash
    BY <1>3, ReportedKept, LogMoves
  <2>3. ASSUME NEW l \in Log, logs[l].hash # 0, NEW i \in 1 .. TradesOf[l]
        PROVE  Claims(l, i)' <= reported[l]
    <3>1. Claims(l, i)' <= Claims(l, i)
      BY <1>3, NextClaims
    <3>2. Claims(l, i) <= reported[l]
      BY <2>3 DEF ReportInv, Reports
    <3>3. Claims(l, i) \in Nat /\ reported[l] \in Nat
      BY ReportsTyped
    <3>4. Claims(l, i)' \in Nat
      <4>1. /\ settled'[l][i] \in Nat /\ queue' \in Seq(Event)
        BY TypedParts DEF Typed, TypeOK
      <4>2. CountOf(queue', logs'[l].hash) \in Nat
        BY <4>1, CountTyped
      <4> QED
        BY <4>1, <4>2 DEF Claims
    <3> QED
      BY <3>1, <3>2, <3>3, <3>4
  <2>4. Reports'
    BY <2>2, <2>3 DEF ReportInv, Reports
  <2> QED
    BY <2>1, <2>4 DEF ReportInv
<1> QED
  BY <1>1, <1>2, <1>3

LEMMA InitReport == Init => ReportInv
<1> SUFFICES ASSUME Init PROVE ReportInv
  OBVIOUS
<1>1. /\ queue = <<>> /\ epc = "idle" /\ found = {} /\ wpc = "scan" /\ wcrashes = 0
      /\ \A l \in Log : logs[l].hash = 0 /\ reported[l] = 0
  BY DEF Init
<1>2. Reports
  BY <1>1 DEF Reports
<1>3. HashesKnown
  BY <1>1 DEF HashesKnown
<1>4. ReportedInLives
  BY <1>1 DEF ReportedInLives, Passed
<1> QED
  BY <1>2, <1>3, <1>4 DEF ReportInv

(* A watcher that starts again reports what it had reported, so a trade    *)
(* may be settled again; but once for each report at most, with one report *)
(* in each life of the watcher, however often the launch log was sent and  *)
(* wherever the launcher or the engine stopped.                            *)
THEOREM SettlementsAsReported == Spec => []SettledAsReported
<1>1. Init => Typed /\ ResultInv /\ OwnerInv /\ TradesInv /\ ReportInv
  BY InitTyped, InitResults, InitOwner, InitTrades, InitReport
<1>2. Typed /\ ResultInv /\ OwnerInv /\ TradesInv /\ ReportInv /\ [Next]_vars
      => Typed' /\ ResultInv' /\ OwnerInv' /\ TradesInv' /\ ReportInv'
  BY NextTyped, NextGrows, NextResults, NextOwner, NextTrades, NextReport
<1>3. Typed /\ ResultInv /\ OwnerInv /\ TradesInv /\ ReportInv => SettledAsReported
  BY ReportedFromReports
<1> QED
  BY <1>1, <1>2, <1>3, PTL DEF Spec
=============================================================================
