------------------------------ MODULE DexEngine ------------------------------
(***************************************************************************)
(* The engine process (backend/dex_engine/engine.go): one goroutine takes  *)
(* the events of the Redis queue and hands each to the goroutine of its    *)
(* market over an unbuffered channel; OPEN_MARKET and CLOSE_MARKET start   *)
(* and stop those goroutines.  The admin API (backend/admin/api/handler.go) *)
(* writes table markets and queues these two events.  What a handler does  *)
(* with an order event is module MarketHandler; here it is busy with it.   *)
(***************************************************************************)
EXTENDS Integers, Sequences, FiniteSets

CONSTANTS
  Market,
  Admin,      \* requests the admin API serves at a time
  NoMarket,   \* the market of an event that names none
  MaxEdits, MaxOrders, MaxErrors, MaxCrashes   \* bounds

ASSUME DexEngineAssumption ==
  /\ IsFiniteSet(Market)
  /\ NoMarket \notin Market
  /\ MaxEdits \in Nat
  /\ MaxOrders \in Nat
  /\ MaxErrors \in Nat
  /\ MaxCrashes \in Nat

VARIABLES
  published,   \* is_published in table markets
  queue,       \* HYDRO_ENGINE_EVENTS_QUEUE_KEY
  apc,         \* where each EditMarketHandler is
  edit,        \* its request, with what it read

  up,          \* is the engine running?
  dpc,         \* the dispatching goroutine: at Pop, or sending devent
  devent,
  handlerMap,  \* marketHandlerMap: index in handlers, 0 if none
  handlers,    \* every MarketHandler started in this run

  begun,       \* number of the last order event each market has begun
  edits, ids, errors, crashes

db      == <<published>>
admin   == <<apc, edit>>
engine  == <<up, dpc, devent, handlerMap, handlers>>
bounds  == <<edits, ids, errors, crashes>>
vars    == <<db, queue, admin, engine, begun, bounds>>

-----------------------------------------------------------------------------
Event == [type : {"open", "close", "order"}, market : Market \cup {NoMarket},
          id : Nat]

NoEvent == [type |-> "order", market |-> NoMarket, id |-> 0]

Handler == [market : Market, closed : BOOLEAN, pc : {"waiting", "busy", "stopped"}]

Edit == [market : Market, was : BOOLEAN, isPublished : {"true", "false", "omitted"}]

TypeOK ==
  /\ published \in [Market -> BOOLEAN]
  /\ queue \in Seq(Event)
  /\ apc \in [Admin -> {"idle", "save", "approve", "push"}]
  /\ edit \in [Admin -> Edit]
  /\ up \in BOOLEAN
  /\ dpc \in {"pop", "send"}
  /\ devent \in Event
  /\ handlers \in Seq(Handler)
  /\ handlerMap \in [Market -> 0 .. Len(handlers)]
  /\ begun \in [Market -> Nat]
  /\ edits \in 0 .. MaxEdits
  /\ ids \in 0 .. MaxOrders
  /\ errors \in 0 .. MaxErrors
  /\ crashes \in 0 .. MaxCrashes

Init ==
  /\ published \in [Market -> BOOLEAN]
  /\ queue = <<>>
  /\ apc = [a \in Admin |-> "idle"]
  /\ edit \in [Admin -> {[market |-> m, was |-> FALSE, isPublished |-> "omitted"] :
                           m \in Market}]
  /\ up = FALSE
  /\ dpc = "pop"
  /\ devent = NoEvent
  /\ handlerMap = [m \in Market |-> 0]
  /\ handlers = <<>>
  /\ begun = [m \in Market |-> 0]
  /\ edits = 0 /\ ids = 0 /\ errors = 0 /\ crashes = 0

-----------------------------------------------------------------------------
(* EditMarketHandler: read the market, save the whole row, approve, push.  *)
ReadMarket(a, m, wanted) ==
  /\ apc[a] = "idle"
  /\ edits < MaxEdits
  /\ edits' = edits + 1
  /\ edit' = [edit EXCEPT ![a] = [market |-> m, was |-> published[m],
                                  isPublished |-> wanted]]
  /\ apc' = [apc EXCEPT ![a] = "save"]
  /\ UNCHANGED <<db, queue, engine, begun, ids, errors, crashes>>

Publishes(e)   == ~e.was /\ e.isPublished = "true"
Unpublishes(e) == e.was /\ e.isPublished = "false"

Saved(e) == IF e.isPublished = "omitted" THEN e.was ELSE e.isPublished = "true"

Failure(ok) ==
  /\ ~ok => errors < MaxErrors
  /\ errors' = IF ok THEN errors ELSE errors + 1
  /\ UNCHANGED <<edits, ids, crashes>>

UpdateMarket(a, ok) ==
  /\ apc[a] = "save"
  /\ Failure(ok)
  /\ published' = IF ok THEN [published EXCEPT ![edit[a].market] = Saved(edit[a])]
                        ELSE published
  /\ apc' = [apc EXCEPT ![a] = IF ok /\ Publishes(edit[a]) THEN "approve"
                               ELSE IF ok /\ Unpublishes(edit[a]) THEN "push"
                               ELSE "idle"]
  /\ UNCHANGED <<queue, edit, engine, begun>>

(* Allowances are read and approvals queued as launch logs.  An error ends *)
(* the request; the row stays as saved.                                    *)
ApproveMarket(a, ok) ==
  /\ apc[a] = "approve"
  /\ Failure(ok)
  /\ apc' = [apc EXCEPT ![a] = IF ok THEN "push" ELSE "idle"]
  /\ UNCHANGED <<db, queue, edit, engine, begun>>

MutEventType(e) == IF Publishes(e) THEN "close" ELSE "open"
EventType(e) == IF Publishes(e) THEN "open" ELSE "close"

PushEvent(a, ok) ==
  /\ apc[a] = "push"
  /\ Failure(ok)
  /\ queue' = IF ok THEN Append(queue, [type   |-> EventType(edit[a]),
                                        market |-> edit[a].market, id |-> 0])
                    ELSE queue
  /\ apc' = [apc EXCEPT ![a] = "idle"]
  /\ UNCHANGED <<db, edit, engine, begun>>

(* The API, the admin API or the watcher queues an event for a market's    *)
(* handler; RESTART_ENGINE goes the same way and names no market.          *)
MutPushOrderEventFront(m) ==
  /\ ids < MaxOrders
  /\ ids' = ids + 1
  /\ queue' = <<[type |-> "order", market |-> m, id |-> ids']>> \o queue
  /\ UNCHANGED <<db, admin, engine, begun, edits, errors, crashes>>
PushOrderEvent(m) ==
  /\ ids < MaxOrders
  /\ ids' = ids + 1
  /\ queue' = Append(queue, [type |-> "order", market |-> m, id |-> ids'])
  /\ UNCHANGED <<db, admin, engine, begun, edits, errors, crashes>>

-----------------------------------------------------------------------------
(* The dispatching goroutine.                                              *)
NextEvent == Head(queue)

Popped ==
  /\ up
  /\ dpc = "pop"
  /\ queue # <<>>
  /\ queue' = Tail(queue)

Fresh(m) == [market |-> m, closed |-> FALSE, pc |-> "waiting"]

(* newMarket refuses a market that is open or not published.               *)
OpenMarket(m) ==
  /\ Popped
  /\ NextEvent.type = "open"
  /\ NextEvent.market = m
  /\ IF handlerMap[m] = 0 /\ published[m]
     THEN /\ handlers' = Append(handlers, Fresh(m))
          /\ handlerMap' = [handlerMap EXCEPT ![m] = Len(handlers) + 1]
     ELSE UNCHANGED <<handlers, handlerMap>>
  /\ UNCHANGED <<db, admin, up, dpc, devent, begun, bounds>>

MutCloseMarketKeepsEntry(m) ==
  /\ Popped
  /\ NextEvent.type = "close"
  /\ NextEvent.market = m
  /\ IF handlerMap[m] # 0
     THEN handlers' = [handlers EXCEPT ![handlerMap[m]].closed = TRUE]
     ELSE UNCHANGED handlers
  /\ UNCHANGED <<handlerMap, db, admin, up, dpc, devent, begun, bounds>>
CloseMarket(m) ==
  /\ Popped
  /\ NextEvent.type = "close"
  /\ NextEvent.market = m
  /\ IF handlerMap[m] # 0
     THEN /\ handlers' = [handlers EXCEPT ![handlerMap[m]].closed = TRUE]
          /\ handlerMap' = [handlerMap EXCEPT ![m] = 0]
     ELSE UNCHANGED <<handlers, handlerMap>>
  /\ UNCHANGED <<db, admin, up, dpc, devent, begun, bounds>>

Dispatch ==
  /\ Popped
  /\ NextEvent.type = "order"
  /\ NextEvent.market \in Market
  /\ handlerMap[NextEvent.market] # 0
  /\ devent' = NextEvent
  /\ dpc' = "send"
  /\ UNCHANGED <<db, admin, up, handlerMap, handlers, begun, bounds>>

(* "engine not support market"                                             *)
Drop ==
  /\ Popped
  /\ NextEvent.type = "order"
  /\ NextEvent.market \in Market => handlerMap[NextEvent.market] = 0
  /\ UNCHANGED <<db, admin, engine, begun, bounds>>

(* The channel is unbuffered: the send waits until the handler receives.   *)
Receive(g) ==
  /\ up
  /\ dpc = "send"
  /\ g = handlerMap[devent.market]
  /\ handlers[g].pc = "waiting"
  /\ handlers' = [handlers EXCEPT ![g].pc = "busy"]
  /\ begun' = [begun EXCEPT ![devent.market] = devent.id]
  /\ dpc' = "pop"
  /\ devent' = NoEvent
  /\ UNCHANGED <<db, queue, admin, up, handlerMap, bounds>>

(* handleEvent returns, whatever happened in it.                           *)
Handled(g) ==
  /\ up
  /\ handlers[g].pc = "busy"
  /\ handlers' = [handlers EXCEPT ![g].pc = "waiting"]
  /\ UNCHANGED <<db, queue, admin, up, dpc, devent, handlerMap, begun, bounds>>

(* The range over a closed channel ends.                                   *)
Stop(g) ==
  /\ up
  /\ handlers[g].pc = "waiting"
  /\ handlers[g].closed
  /\ handlers' = [handlers EXCEPT ![g].pc = "stopped"]
  /\ UNCHANGED <<db, queue, admin, up, dpc, devent, handlerMap, begun, bounds>>

Down ==
  /\ up' = FALSE
  /\ dpc' = "pop"
  /\ devent' = NoEvent
  /\ handlerMap' = [m \in Market |-> 0]
  /\ handlers' = <<>>

(* Wg.Wait returns as soon as no handler runs, and the process ends.       *)
Exit ==
  /\ up
  /\ \A g \in DOMAIN handlers : handlers[g].pc = "stopped"
  /\ Down
  /\ UNCHANGED <<db, queue, admin, begun, bounds>>

Crash ==
  /\ up
  /\ crashes < MaxCrashes
  /\ crashes' = crashes + 1
  /\ Down
  /\ UNCHANGED <<db, queue, admin, begun, edits, ids, errors>>

(* NewDexEngine opens the published markets (newMarket); start runs them.  *)
MutStartEmpty ==
  /\ ~up
  /\ up' = TRUE
  /\ UNCHANGED <<db, queue, admin, dpc, devent, handlerMap, handlers, begun, bounds>>
Start ==
  /\ ~up
  /\ up' = TRUE
  /\ \E s \in [1 .. Cardinality({m \in Market : published[m]}) ->
                 {m \in Market : published[m]}] :
       /\ \A m \in Market : published[m] => \E i \in DOMAIN s : s[i] = m
       /\ handlers' = [i \in DOMAIN s |-> Fresh(s[i])]
       /\ handlerMap' = [m \in Market |->
                           IF published[m] THEN CHOOSE i \in DOMAIN s : s[i] = m
                                           ELSE 0]
  /\ UNCHANGED <<db, queue, admin, dpc, devent, begun, bounds>>

-----------------------------------------------------------------------------
EditMarketStep(a, ok) ==
  UpdateMarket(a, ok) \/ ApproveMarket(a, ok) \/ PushEvent(a, ok)

Dispatcher ==
  \/ \E m \in Market : OpenMarket(m) \/ CloseMarket(m)
  \/ Dispatch
  \/ Drop
  \/ \E g \in DOMAIN handlers : Receive(g)

HandlerStep(g) == Handled(g) \/ Stop(g)

Next ==
  \/ \E a \in Admin :
       \/ \E m \in Market, w \in {"true", "false", "omitted"} : ReadMarket(a, m, w)
       \/ \E ok \in BOOLEAN : EditMarketStep(a, ok)
  \/ \E m \in Market \cup {NoMarket} : PushOrderEvent(m)
  \/ Dispatcher
  \/ \E g \in DOMAIN handlers : HandlerStep(g)
  \/ Exit
  \/ Crash
  \/ Start

Spec == Init /\ [][Next]_vars

(* Goroutines are scheduled, requests end, the container is started again  *)
(* when the process ends (restart: always in the compose files).           *)
FairSpec ==
  /\ Spec
  /\ WF_vars(Dispatcher)
  /\ WF_vars(\E g \in DOMAIN handlers : HandlerStep(g))
  /\ \A a \in Admin : WF_vars(EditMarketStep(a, TRUE))
  /\ WF_vars(Exit)
  /\ WF_vars(Start)
-----------------------------------------------------------------------------
(* A send on a closed channel would panic the goroutine that serves every  *)
(* market, outside any recover: when an event is on its way the handler of *)
(* its market is open, although CLOSE_MARKET events run in between.        *)
NeverSendsOnClosed ==
  dpc = "send" => /\ handlerMap[devent.market] # 0
                  /\ ~handlers[handlerMap[devent.market]].closed

(* The events of a market are begun in the order they were queued, across  *)
(* closing, reopening and restarts.                                        *)
BegunInOrder == [][\A m \in Market : begun'[m] >= begun[m]]_vars

(* When every request and event has been dealt with, the markets the       *)
(* engine serves are the published ones, wherever it was stopped.  The     *)
(* code has this for one request at a time and none that failed half-way.  *)
Settled ==
  /\ up
  /\ queue = <<>>
  /\ dpc = "pop"
  /\ \A a \in Admin : apc[a] = "idle"

OpenIffPublished ==
  Settled /\ errors = 0 => \A m \in Market : handlerMap[m] # 0 <=> published[m]

(* A published market is served in the end, unless it is unpublished or    *)
(* the request that published it failed.                                   *)
PublishedOpens ==
  \A m \in Market :
    published[m] ~> (handlerMap[m] # 0 \/ ~published[m] \/ errors > 0)

(* An order event never blocks the other markets for ever.                 *)
SendEnds == dpc = "send" ~> dpc = "pop"
=============================================================================
