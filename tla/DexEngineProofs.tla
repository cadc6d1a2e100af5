--------------------------- MODULE DexEngineProofs ---------------------------
(* Theorems about DexEngine, for any markets, administrators and bounds.   *)
EXTENDS DexEngine, TLAPS, SequenceTheorems, FiniteSetTheorems

(* What NeverSendsOnClosed rests on: marketHandlerMap leads each market to *)
(* an open handler of its own, and the market of an event on its way to    *)
(* one.                                                                    *)
MapPoints ==
  \A m \in Market :
    handlerMap[m] # 0 => /\ handlers[handlerMap[m]].market = m
                         /\ ~handlers[handlerMap[m]].closed

SendsSomewhere ==
  dpc = "send" => /\ up
                  /\ devent.market \in Market
                  /\ handlerMap[devent.market] # 0

Inv == TypeOK /\ MapPoints /\ SendsSomewhere

-----------------------------------------------------------------------------
(* Events and handlers.                                                    *)
LEMMA NoEventTyped == NoEvent \in Event
  BY DEF NoEvent, Event

LEMMA FreshTyped ==
  ASSUME NEW m \in Market
  PROVE  /\ Fresh(m) \in Handler
         /\ Fresh(m).market = m
         /\ ~Fresh(m).closed
  BY Zenon DEF Fresh, Handler

LEMMA HeadTyped ==
  ASSUME TypeOK, Popped
  PROVE  NextEvent \in Event /\ queue' \in Seq(Event)
  BY DEF TypeOK, Popped, NextEvent

-----------------------------------------------------------------------------
(* The initial states.                                                     *)
LEMMA EditTyped ==
  ASSUME NEW m \in Market, NEW b \in BOOLEAN, NEW w \in {"true", "false", "omitted"}
  PROVE  [market |-> m, was |-> b, isPublished |-> w] \in Edit
  BY Zenon DEF Edit

LEMMA InitInv == Init => Inv
<1> SUFFICES ASSUME Init PROVE Inv
  OBVIOUS
<1>1. edit \in [Admin -> Edit]
  <2>1. \A m \in Market : [market |-> m, was |-> FALSE, isPublished |-> "omitted"] \in Edit
    BY EditTyped
  <2>2. {[market |-> m, was |-> FALSE, isPublished |-> "omitted"] : m \in Market} \subseteq Edit
    BY <2>1
  <2> QED
    BY <2>2 DEF Init
<1>2. /\ queue = <<>> /\ handlers = <<>>
      /\ handlerMap = [m \in Market |-> 0]
      /\ begun = [m \in Market |-> 0]
      /\ edits = 0 /\ ids = 0 /\ errors = 0 /\ crashes = 0
  BY Zenon DEF Init
<1>3. /\ queue \in Seq(Event)
      /\ handlers \in Seq(Handler)
      /\ handlerMap \in [Market -> 0 .. Len(handlers)]
      /\ begun \in [Market -> Nat]
  BY <1>2
<1>5. /\ edits \in 0 .. MaxEdits
      /\ ids \in 0 .. MaxOrders
      /\ errors \in 0 .. MaxErrors
      /\ crashes \in 0 .. MaxCrashes
  BY <1>2, DexEngineAssumption
<1>6. /\ devent \in Event
      /\ apc \in [Admin -> {"idle", "save", "approve", "push"}]
  BY NoEventTyped DEF Init
<1>7. TypeOK
  BY <1>1, <1>3, <1>5, <1>6, Zenon DEF Init, TypeOK
<1>4. MapPoints /\ SendsSomewhere
  BY DEF Init, MapPoints, SendsSomewhere
<1> QED
  BY <1>4, <1>7 DEF Inv

-----------------------------------------------------------------------------
(* The admin API and the order events leave the engine alone.              *)
LEMMA EngineAlone ==
  ASSUME Inv, TypeOK', UNCHANGED engine
  PROVE  Inv'
  BY DEF Inv, MapPoints, SendsSomewhere, engine

LEMMA FailureTyped ==
  ASSUME TypeOK, NEW ok \in BOOLEAN, Failure(ok)
  PROVE  /\ edits' \in 0 .. MaxEdits
         /\ ids' \in 0 .. MaxOrders
         /\ errors' \in 0 .. MaxErrors
         /\ crashes' \in 0 .. MaxCrashes
<1>1. errors \in Nat /\ MaxErrors \in Nat /\ errors <= MaxErrors
  BY DexEngineAssumption DEF TypeOK
<1>2. errors' \in 0 .. MaxErrors
  BY <1>1 DEF Failure
<1>3. edits' = edits /\ ids' = ids /\ crashes' = crashes
  BY DEF Failure
<1> QED
  BY <1>2, <1>3 DEF TypeOK

LEMMA ReadMarketStep ==
  ASSUME Inv, NEW a \in Admin, NEW m \in Market, NEW w \in {"true", "false", "omitted"},
         ReadMarket(a, m, w)
  PROVE  Inv'
<1>1. published[m] \in BOOLEAN
  BY DEF Inv, TypeOK
<1>2. edit' \in [Admin -> Edit]
  BY <1>1, EditTyped DEF Inv, TypeOK, ReadMarket
<1>3. edits' \in 0 .. MaxEdits
  <2>1. edits \in Nat /\ edits < MaxEdits /\ edits' = edits + 1
    BY DexEngineAssumption DEF Inv, TypeOK, ReadMarket
  <2> QED
    BY <2>1, DexEngineAssumption
<1>4. apc' \in [Admin -> {"idle", "save", "approve", "push"}]
  BY DEF Inv, TypeOK, ReadMarket
<1>5. TypeOK'
  BY <1>2, <1>3, <1>4 DEF Inv, TypeOK, ReadMarket, db, engine
<1> QED
  BY <1>5, EngineAlone DEF ReadMarket

LEMMA UpdateMarketStep ==
  ASSUME Inv, NEW a \in Admin, NEW ok \in BOOLEAN, UpdateMarket(a, ok)
  PROVE  Inv'
<1>1. Saved(edit[a]) \in BOOLEAN
  BY DEF Inv, TypeOK, Edit, Saved
<1>2. published' \in [Market -> BOOLEAN]
  BY <1>1 DEF Inv, TypeOK, UpdateMarket
<1>3. apc' \in [Admin -> {"idle", "save", "approve", "push"}]
  BY DEF Inv, TypeOK, UpdateMarket
<1>4. TypeOK'
  BY <1>2, <1>3, FailureTyped DEF Inv, TypeOK, UpdateMarket, engine
<1> QED
  BY <1>4, EngineAlone DEF UpdateMarket

LEMMA ApproveMarketStep ==
  ASSUME Inv, NEW a \in Admin, NEW ok \in BOOLEAN, ApproveMarket(a, ok)
  PROVE  Inv'
<1>1. apc' \in [Admin -> {"idle", "save", "approve", "push"}]
  BY DEF Inv, TypeOK, ApproveMarket
<1>2. TypeOK'
  BY <1>1, FailureTyped DEF Inv, TypeOK, ApproveMarket, db, engine
<1> QED
  BY <1>2, EngineAlone DEF ApproveMarket

LEMMA PushEventStep ==
  ASSUME Inv, NEW a \in Admin, NEW ok \in BOOLEAN, PushEvent(a, ok)
  PROVE  Inv'
<1> DEFINE e == [type |-> EventType(edit[a]), market |-> edit[a].market, id |-> 0]
<1>1. edit[a].market \in Market
  BY DEF Inv, TypeOK, Edit
<1>2. e \in Event
  BY <1>1, Zenon DEF EventType, Event
<1>3. queue' \in Seq(Event)
  <2>1. queue \in Seq(Event)
    BY DEF Inv, TypeOK
  <2>2. queue' = Append(queue, e) \/ queue' = queue
    BY DEF PushEvent
  <2> HIDE DEF e
  <2> QED
    BY <1>2, <2>1, <2>2
<1>4. apc' \in [Admin -> {"idle", "save", "approve", "push"}]
  BY DEF Inv, TypeOK, PushEvent
<1>5. TypeOK'
  BY <1>3, <1>4, FailureTyped DEF Inv, TypeOK, PushEvent, db, engine
<1> QED
  BY <1>5, EngineAlone DEF PushEvent

LEMMA PushOrderEventStep ==
  ASSUME Inv, NEW m \in Market \cup {NoMarket}, PushOrderEvent(m)
  PROVE  Inv'
<1> DEFINE e == [type |-> "order", market |-> m, id |-> ids']
<1>1. ids' \in 0 .. MaxOrders /\ ids' \in Nat
  BY DexEngineAssumption DEF Inv, TypeOK, PushOrderEvent
<1>2. e \in Event
  BY <1>1, Zenon DEF Event
<1>3. queue' \in Seq(Event)
  <2>1. queue \in Seq(Event)
    BY DEF Inv, TypeOK
  <2>2. queue' = Append(queue, e)
    BY DEF PushOrderEvent
  <2> HIDE DEF e
  <2> QED
    BY <1>2, <2>1, <2>2
<1>4. TypeOK'
  BY <1>1, <1>3 DEF Inv, TypeOK, PushOrderEvent, db, admin, engine
<1> QED
  BY <1>4, EngineAlone DEF PushOrderEvent

-----------------------------------------------------------------------------
(* The dispatcher.                                                         *)
LEMMA PoppedTyped ==
  ASSUME Inv, Popped
  PROVE  NextEvent \in Event /\ queue' \in Seq(Event)
<1>1. queue \in Seq(Event) /\ queue # <<>>
  BY DEF Inv, TypeOK, Popped
<1> QED
  BY <1>1 DEF Popped, NextEvent

LEMMA OpenMarketStep ==
  ASSUME Inv, NEW m \in Market, OpenMarket(m)
  PROVE  Inv'
<1>1. queue' \in Seq(Event)
  BY PoppedTyped DEF OpenMarket
<1>2. handlers \in Seq(Handler) /\ handlerMap \in [Market -> 0 .. Len(handlers)]
  BY DEF Inv, TypeOK
<1>3. CASE handlers' = handlers /\ handlerMap' = handlerMap
  <2>1. TypeOK'
    BY <1>1, <1>3 DEF Inv, TypeOK, OpenMarket, db, admin, bounds
  <2> QED
    BY <2>1, <1>3, EngineAlone DEF OpenMarket, engine
<1>4. CASE /\ handlers' = Append(handlers, Fresh(m))
           /\ handlerMap' = [handlerMap EXCEPT ![m] = Len(handlers) + 1]
  <2>1. /\ handlers' \in Seq(Handler)
        /\ Len(handlers') = Len(handlers) + 1
        /\ handlers'[Len(handlers) + 1] = Fresh(m)
        /\ \A i \in 1 .. Len(handlers) : handlers'[i] = handlers[i]
    BY <1>2, <1>4, FreshTyped
  <2>2. handlerMap' \in [Market -> 0 .. Len(handlers')]
    BY <1>2, <1>4, <2>1
  <2>3. TypeOK'
    BY <1>1, <2>1, <2>2 DEF Inv, TypeOK, OpenMarket, db, admin, bounds
  <2>4. ASSUME NEW n \in Market, handlerMap'[n] # 0
        PROVE  handlers'[handlerMap'[n]].market = n /\ ~handlers'[handlerMap'[n]].closed
    <3>1. CASE n = m
      BY <1>2, <1>4, <2>1, <3>1, FreshTyped
    <3>2. CASE n # m
      <4>1. handlerMap'[n] = handlerMap[n] /\ handlerMap[n] \in 1 .. Len(handlers)
        BY <1>2, <1>4, <2>4, <3>2
      <4> QED
        BY <2>1, <2>4, <4>1 DEF Inv, MapPoints
    <3> QED
      BY <3>1, <3>2
  <2>5. SendsSomewhere'
    BY <1>2, <1>4 DEF Inv, SendsSomewhere, OpenMarket
  <2> QED
    BY <2>3, <2>4, <2>5 DEF Inv, MapPoints
<1> QED
  BY <1>3, <1>4 DEF OpenMarket

(* Closing one market leaves the handlers of the others open, since each   *)
(* has its own.                                                            *)
LEMMA CloseMarketStep ==
  ASSUME Inv, NEW m \in Market, CloseMarket(m)
  PROVE  Inv'
<1>1. queue' \in Seq(Event)
  BY PoppedTyped DEF CloseMarket
<1>2. handlers \in Seq(Handler) /\ handlerMap \in [Market -> 0 .. Len(handlers)]
  BY DEF Inv, TypeOK
<1>3. CASE handlers' = handlers /\ handlerMap' = handlerMap
  <2>1. TypeOK'
    BY <1>1, <1>3 DEF Inv, TypeOK, CloseMarket, db, admin, bounds
  <2> QED
    BY <2>1, <1>3, EngineAlone DEF CloseMarket, engine
<1>4. CASE /\ handlerMap[m] # 0
           /\ handlers' = [handlers EXCEPT ![handlerMap[m]].closed = TRUE]
           /\ handlerMap' = [handlerMap EXCEPT ![m] = 0]
  <2> DEFINE g == handlerMap[m]
  <2>1. g \in 1 .. Len(handlers) /\ handlers[g] \in Handler /\ handlers[g].market = m
    BY <1>2, <1>4 DEF Inv, MapPoints
  <2>2. [handlers[g] EXCEPT !.closed = TRUE] \in Handler
    BY <2>1 DEF Handler
  <2>3. /\ handlers' \in Seq(Handler)
        /\ Len(handlers') = Len(handlers)
        /\ \A i \in 1 .. Len(handlers) : i # g => handlers'[i] = handlers[i]
    BY <1>2, <1>4, <2>1, <2>2
  <2>4. handlerMap' \in [Market -> 0 .. Len(handlers')]
    BY <1>2, <1>4, <2>3
  <2>5. TypeOK'
    BY <1>1, <2>3, <2>4 DEF Inv, TypeOK, CloseMarket, db, admin, bounds
  <2>6. ASSUME NEW n \in Market, handlerMap'[n] # 0
        PROVE  handlers'[handlerMap'[n]].market = n /\ ~handlers'[handlerMap'[n]].closed
    <3>1. n # m /\ handlerMap'[n] = handlerMap[n] /\ handlerMap[n] \in 1 .. Len(handlers)
      BY <1>2, <1>4, <2>6
    <3>2. handlers[handlerMap[n]].market = n /\ ~handlers[handlerMap[n]].closed
      BY <2>6, <3>1 DEF Inv, MapPoints
    <3>3. handlerMap[n] # g
      BY <2>1, <3>1, <3>2
    <3> QED
      BY <2>3, <3>1, <3>2, <3>3
  <2>7. dpc' = "pop"
    BY DEF CloseMarket, Popped
  <2> QED
    BY <2>5, <2>6, <2>7 DEF Inv, MapPoints, SendsSomewhere
<1> QED
  BY <1>3, <1>4 DEF CloseMarket

LEMMA DispatchStep ==
  ASSUME Inv, Dispatch
  PROVE  Inv'
<1>1. NextEvent \in Event /\ queue' \in Seq(Event)
  BY PoppedTyped DEF Dispatch
<1>2. TypeOK'
  BY <1>1 DEF Inv, TypeOK, Dispatch, db, admin, bounds
<1>3. MapPoints' /\ SendsSomewhere'
  BY DEF Inv, MapPoints, SendsSomewhere, Dispatch, Popped
<1> QED
  BY <1>2, <1>3 DEF Inv

LEMMA DropStep ==
  ASSUME Inv, Drop
  PROVE  Inv'
<1>1. queue' \in Seq(Event)
  BY PoppedTyped DEF Drop
<1>2. TypeOK'
  BY <1>1 DEF Inv, TypeOK, Drop, db, admin, engine, bounds
<1> QED
  BY <1>2, EngineAlone DEF Drop

(* A handler moves: it stays the handler of its market, closed or not.     *)
LEMMA HandlerMoves ==
  ASSUME Inv, NEW g \in DOMAIN handlers, NEW to \in {"waiting", "busy", "stopped"},
         handlers' = [handlers EXCEPT ![g].pc = to],
         handlerMap' = handlerMap
  PROVE  /\ handlers' \in Seq(Handler)
         /\ handlerMap' \in [Market -> 0 .. Len(handlers')]
         /\ MapPoints'
<1>1. /\ handlers \in Seq(Handler)
      /\ handlerMap \in [Market -> 0 .. Len(handlers)]
      /\ g \in 1 .. Len(handlers)
      /\ handlers[g] \in Handler
  BY DEF Inv, TypeOK
<1>2. /\ [handlers[g] EXCEPT !.pc = to] \in Handler
      /\ [handlers[g] EXCEPT !.pc = to].market = handlers[g].market
      /\ [handlers[g] EXCEPT !.pc = to].closed = handlers[g].closed
  BY <1>1 DEF Handler
<1>3. /\ handlers' \in Seq(Handler)
      /\ Len(handlers') = Len(handlers)
      /\ \A i \in 1 .. Len(handlers) : /\ handlers'[i].market = handlers[i].market
                                       /\ handlers'[i].closed = handlers[i].closed
  BY <1>1, <1>2
<1>4. MapPoints'
  BY <1>1, <1>3 DEF Inv, MapPoints
<1> QED
  BY <1>1, <1>3, <1>4

LEMMA ReceiveStep ==
  ASSUME Inv, NEW g \in DOMAIN handlers, Receive(g)
  PROVE  Inv'
<1>1. /\ handlers' \in Seq(Handler)
      /\ handlerMap' \in [Market -> 0 .. Len(handlers')]
      /\ MapPoints'
  BY HandlerMoves DEF Receive
<1>2. devent \in Event /\ devent.id \in Nat /\ devent' \in Event
  BY NoEventTyped DEF Inv, TypeOK, Event, Receive
<1>3. begun' \in [Market -> Nat]
  BY <1>2 DEF Inv, TypeOK, Receive
<1>4. TypeOK'
  BY <1>1, <1>2, <1>3 DEF Inv, TypeOK, Receive, db, admin, bounds
<1> QED
  BY <1>1, <1>4 DEF Inv, SendsSomewhere, Receive

LEMMA HandlerStepStep ==
  ASSUME Inv, NEW g \in DOMAIN handlers, HandlerStep(g)
  PROVE  Inv'
<1>1. PICK to \in {"waiting", "stopped"} : handlers' = [handlers EXCEPT ![g].pc = to]
  BY DEF HandlerStep, Handled, Stop
<1>2. UNCHANGED <<db, queue, admin, up, dpc, devent, handlerMap, begun, bounds>>
  BY DEF HandlerStep, Handled, Stop
<1>3. /\ handlers' \in Seq(Handler)
      /\ handlerMap' \in [Market -> 0 .. Len(handlers')]
      /\ MapPoints'
  BY <1>1, <1>2, HandlerMoves
<1>4. TypeOK'
  BY <1>2, <1>3 DEF Inv, TypeOK, db, admin, bounds
<1> QED
  BY <1>2, <1>3, <1>4 DEF Inv, SendsSomewhere

-----------------------------------------------------------------------------
(* The process.                                                            *)
LEMMA DownStep ==
  ASSUME Inv, Down, TypeOK'
  PROVE  Inv'
  BY DEF Inv, MapPoints, SendsSomewhere, Down

LEMMA DownTyped ==
  ASSUME Down
  PROVE  /\ up' \in BOOLEAN /\ dpc' \in {"pop", "send"} /\ devent' \in Event
         /\ handlers' \in Seq(Handler)
         /\ handlerMap' \in [Market -> 0 .. Len(handlers')]
<1>1. handlers' = <<>> /\ handlerMap' = [m \in Market |-> 0]
  BY DEF Down
<1>2. handlers' \in Seq(Handler) /\ Len(handlers') = 0
  BY <1>1
<1>3. handlerMap' \in [Market -> 0 .. Len(handlers')]
  BY <1>1, <1>2
<1>4. devent' \in Event
  BY NoEventTyped DEF Down
<1> QED
  BY <1>2, <1>3, <1>4 DEF Down

LEMMA ExitStep ==
  ASSUME Inv, Exit
  PROVE  Inv'
<1>1. TypeOK'
  BY DownTyped DEF Inv, TypeOK, Exit, db, admin, bounds
<1> QED
  BY <1>1, DownStep DEF Exit

LEMMA CrashStep ==
  ASSUME Inv, Crash
  PROVE  Inv'
<1>1. crashes' \in 0 .. MaxCrashes
  BY DexEngineAssumption DEF Inv, TypeOK, Crash
<1>2. TypeOK'
  BY <1>1, DownTyped DEF Inv, TypeOK, Crash, db, admin
<1> QED
  BY <1>2, DownStep DEF Crash

LEMMA StartStep ==
  ASSUME Inv, Start
  PROVE  Inv'
<1> DEFINE M == {m \in Market : published[m]}
           n == Cardinality(M)
<1>1. n \in Nat
  BY DexEngineAssumption, FS_Subset, FS_CardinalityType
<1>2. PICK s \in [1 .. n -> M] :
        /\ \A m \in Market : published[m] => \E i \in DOMAIN s : s[i] = m
        /\ handlers' = [i \in DOMAIN s |-> Fresh(s[i])]
        /\ handlerMap' = [m \in Market |->
                            IF published[m] THEN CHOOSE i \in DOMAIN s : s[i] = m
                                            ELSE 0]
  BY DEF Start
<1> HIDE DEF n
<1>3. \A i \in 1 .. n : s[i] \in Market
  BY <1>2
<1>4. /\ handlers' = [i \in 1 .. n |-> Fresh(s[i])]
      /\ handlers' \in Seq(Handler)
      /\ Len(handlers') = n
  BY <1>1, <1>2, <1>3, FreshTyped
<1>5. ASSUME NEW m \in Market
      PROVE  /\ ~published[m] => handlerMap'[m] = 0
             /\ published[m] => handlerMap'[m] \in 1 .. n /\ s[handlerMap'[m]] = m
  BY <1>2
<1>6. handlerMap' \in [Market -> 0 .. Len(handlers')]
  BY <1>1, <1>2, <1>4, <1>5
<1>7. MapPoints'
  BY <1>3, <1>4, <1>5, FreshTyped DEF MapPoints
<1>8. TypeOK'
  BY <1>4, <1>6 DEF Inv, TypeOK, Start, db, admin, bounds
<1>9. SendsSomewhere'
  BY DEF Inv, SendsSomewhere, Start
<1> QED
  BY <1>7, <1>8, <1>9 DEF Inv

-----------------------------------------------------------------------------
LEMMA InvStep == Inv /\ [Next]_vars => Inv'
<1> SUFFICES ASSUME Inv, [Next]_vars PROVE Inv'
  OBVIOUS
<1>1. CASE UNCHANGED vars
  <2>1. TypeOK'
    BY <1>1 DEF Inv, TypeOK, vars, db, admin, engine, bounds
  <2> QED
    BY <1>1, <2>1, EngineAlone DEF vars
<1>2. ASSUME NEW a \in Admin, NEW m \in Market, NEW w \in {"true", "false", "omitted"},
             ReadMarket(a, m, w)
      PROVE  Inv'
  BY <1>2, ReadMarketStep
<1>3. ASSUME NEW a \in Admin, NEW ok \in BOOLEAN, EditMarketStep(a, ok)
      PROVE  Inv'
  BY <1>3, UpdateMarketStep, ApproveMarketStep, PushEventStep DEF EditMarketStep
<1>4. ASSUME NEW m \in Market \cup {NoMarket}, PushOrderEvent(m)
      PROVE  Inv'
  BY <1>4, PushOrderEventStep
<1>5. CASE Dispatcher
  BY <1>5, OpenMarketStep, CloseMarketStep, DispatchStep, DropStep, ReceiveStep
     DEF Dispatcher
<1>6. ASSUME NEW g \in DOMAIN handlers, HandlerStep(g)
      PROVE  Inv'
  BY <1>6, HandlerStepStep
<1>7. CASE Exit
  BY <1>7, ExitStep
<1>8. CASE Crash
  BY <1>8, CrashStep
<1>9. CASE Start
  BY <1>9, StartStep
<1> QED
  BY <1>1, <1>2, <1>3, <1>4, <1>5, <1>6, <1>7, <1>8, <1>9 DEF Next

(* The invariant, of which the theorems below are parts.                   *)
THEOREM EngineInvariant == Spec => []Inv
  BY InitInv, InvStep, PTL DEF Spec

(* Every variable keeps its type: the dispatcher takes what the admin API  *)
(* and the APIs queue, and its map stays within the handlers it started.   *)
THEOREM EngineTypeCorrect == Spec => []TypeOK
<1>1. Inv => TypeOK
  BY DEF Inv
<1> QED
  BY <1>1, EngineInvariant, PTL

(* The dispatcher never sends on a channel that CLOSE_MARKET has closed,   *)
(* for any number of markets, edits, events, failures and restarts: the    *)
(* panic that would end the engine (engine.go, start) cannot happen.       *)
THEOREM NoSendOnClosed == Spec => []NeverSendsOnClosed
<1>1. Inv => NeverSendsOnClosed
  BY DEF Inv, SendsSomewhere, MapPoints, NeverSendsOnClosed
<1> QED
  BY <1>1, EngineInvariant, PTL

-----------------------------------------------------------------------------
(* What BegunInOrder rests on: the numbers of the order events that were   *)
(* begun, of the one on its way, of those in the queue and of those still  *)
(* to come follow one another.                                             *)
Waits(i) == i \in 1 .. Len(queue) /\ queue[i].type = "order"

BegunFirst ==
  \A m \in Market :
    /\ begun[m] <= ids
    /\ dpc = "send" /\ devent.market = m => begun[m] < devent.id
    /\ \A i \in 1 .. Len(queue) :
         Waits(i) /\ queue[i].market = m => begun[m] < queue[i].id

SentNext ==
  dpc = "send" => /\ devent.id <= ids
                  /\ \A i \in 1 .. Len(queue) : Waits(i) => devent.id < queue[i].id

QueueSorted ==
  /\ \A i \in 1 .. Len(queue) : Waits(i) => queue[i].id <= ids
  /\ \A i, j \in 1 .. Len(queue) :
       i < j /\ Waits(i) /\ Waits(j) => queue[i].id < queue[j].id

OrderInv == BegunFirst /\ SentNext /\ QueueSorted

LEMMA IdTypes ==
  ASSUME TypeOK
  PROVE  /\ ids \in Nat
         /\ devent.id \in Nat
         /\ \A m \in Market : begun[m] \in Nat
         /\ \A i \in 1 .. Len(queue) : queue[i].id \in Nat
<1>1. queue \in Seq(Event)
  BY DEF TypeOK
<1>2. \A i \in 1 .. Len(queue) : queue[i] \in Event
  BY <1>1
<1> QED
  BY <1>2 DEF TypeOK, Event

LEMMA InitOrder == Init => OrderInv
<1> SUFFICES ASSUME Init PROVE OrderInv
  OBVIOUS
<1>1. /\ queue = <<>> /\ ids = 0 /\ dpc = "pop"
      /\ begun = [m \in Market |-> 0]
  BY Zenon DEF Init
<1> QED
  BY <1>1 DEF OrderInv, BegunFirst, SentNext, QueueSorted

(* A step that neither takes an event nor queues one.                      *)
LEMMA QueueAlone ==
  ASSUME OrderInv, UNCHANGED <<queue, begun, ids>>,
         dpc' = "send" => UNCHANGED <<dpc, devent>>
  PROVE  OrderInv'
  BY DEF OrderInv, BegunFirst, SentNext, QueueSorted, Waits

(* An event is queued: one of the admin API, or an order with a new number.*)
LEMMA EventQueued ==
  ASSUME TypeOK, OrderInv, NEW e \in Event, queue' = Append(queue, e),
         ids' \in Nat, ids <= ids',
         e.type = "order" => ids < e.id /\ e.id <= ids',
         UNCHANGED <<begun, dpc, devent>>
  PROVE  OrderInv'
<1>1. queue \in Seq(Event)
  BY DEF TypeOK
<1>2. /\ Len(queue) \in Nat
      /\ Len(queue') = Len(queue) + 1
      /\ queue'[Len(queue) + 1] = e
      /\ \A i \in 1 .. Len(queue) : queue'[i] = queue[i]
  BY <1>1
<1>3. e.id \in Nat
  BY DEF Event
<1>4. \A i \in 1 .. Len(queue') : i \in 1 .. Len(queue) \/ i = Len(queue) + 1
  BY <1>2
<1>5. ASSUME NEW i \in 1 .. Len(queue'), Waits(i)'
      PROVE  \/ i \in 1 .. Len(queue) /\ Waits(i) /\ queue'[i] = queue[i]
             \/ i = Len(queue) + 1 /\ queue'[i] = e /\ e.type = "order"
  BY <1>2, <1>4, <1>5 DEF Waits
<1>6. QueueSorted'
  BY <1>2, <1>3, <1>5, IdTypes DEF OrderInv, QueueSorted
<1>7. SentNext'
  BY <1>3, <1>5, IdTypes DEF OrderInv, SentNext
<1>8. BegunFirst'
  BY <1>3, <1>5, IdTypes DEF OrderInv, BegunFirst
<1> QED
  BY <1>6, <1>7, <1>8 DEF OrderInv

(* The first event is taken.                                               *)
LEMMA EventTaken ==
  ASSUME TypeOK, OrderInv, Popped, UNCHANGED <<begun, ids>>,
         \/ dpc' = "pop"
         \/ dpc' = "send" /\ devent' = NextEvent /\ NextEvent.type = "order"
  PROVE  OrderInv'
<1>1. queue \in Seq(Event) /\ queue # <<>> /\ queue' = Tail(queue)
  BY DEF TypeOK, Popped
<1>2. /\ Len(queue) \in Nat /\ Len(queue) > 0
      /\ Len(queue') = Len(queue) - 1
      /\ \A i \in 1 .. Len(queue') : i + 1 \in 1 .. Len(queue) /\ queue'[i] = queue[i + 1]
      /\ NextEvent = queue[1]
  BY <1>1 DEF NextEvent
<1>3. ASSUME NEW i \in 1 .. Len(queue'), Waits(i)'
      PROVE  Waits(i + 1) /\ queue'[i] = queue[i + 1] /\ i + 1 \in 1 .. Len(queue)
  BY <1>2, <1>3 DEF Waits
<1>4. QueueSorted'
  <2>1. \A i \in 1 .. Len(queue') : Waits(i)' => queue'[i].id <= ids'
    BY <1>3 DEF OrderInv, QueueSorted
  <2>2. ASSUME NEW i \in 1 .. Len(queue'), NEW j \in 1 .. Len(queue'),
               i < j, Waits(i)', Waits(j)'
        PROVE  queue'[i].id < queue'[j].id
    <3>1. i + 1 < j + 1
      BY <1>2, <2>2
    <3> QED
      BY <1>3, <2>2, <3>1 DEF OrderInv, QueueSorted
  <2> QED
    BY <2>1, <2>2 DEF QueueSorted
<1>5. SentNext'
  <2>1. CASE dpc' = "pop"
    BY <2>1 DEF SentNext
  <2>2. CASE dpc' = "send" /\ devent' = queue[1] /\ Waits(1)
    <3>1. 1 \in 1 .. Len(queue)
      BY <1>2
    <3>2. ASSUME NEW i \in 1 .. Len(queue'), Waits(i)'
          PROVE  devent'.id < queue'[i].id
      <4>1. 1 < i + 1
        OBVIOUS
      <4> QED
        BY <1>3, <2>2, <3>1, <3>2, <4>1 DEF OrderInv, QueueSorted
    <3> QED
      BY <2>2, <3>1, <3>2 DEF OrderInv, SentNext, QueueSorted
  <2> QED
    BY <1>2, <2>1, <2>2 DEF Waits
<1>6. BegunFirst'
  BY <1>2, <1>3 DEF OrderInv, BegunFirst, Waits
<1> QED
  BY <1>4, <1>5, <1>6 DEF OrderInv

LEMMA ReceiveOrder ==
  ASSUME TypeOK, OrderInv, SendsSomewhere, NEW g, Receive(g)
  PROVE  OrderInv' /\ \A m \in Market : begun'[m] >= begun[m]
<1>1. /\ dpc = "send" /\ dpc' = "pop"
      /\ begun' = [begun EXCEPT ![devent.market] = devent.id]
      /\ queue' = queue /\ ids' = ids
      /\ devent.market \in Market
  BY DEF Receive, SendsSomewhere, bounds
<1>2. \A m \in Market : begun'[m] = IF m = devent.market THEN devent.id ELSE begun[m]
  BY <1>1 DEF TypeOK
<1>3. \A m \in Market : begun'[m] >= begun[m]
  BY <1>1, <1>2, IdTypes DEF OrderInv, BegunFirst
<1>4. BegunFirst'
  BY <1>1, <1>2, IdTypes DEF OrderInv, BegunFirst, SentNext, Waits
<1>5. SentNext' /\ QueueSorted'
  BY <1>1 DEF OrderInv, SentNext, QueueSorted, Waits
<1> QED
  BY <1>3, <1>4, <1>5 DEF OrderInv

LEMMA AdminOrder ==
  ASSUME TypeOK, OrderInv, NEW a \in Admin, NEW ok \in BOOLEAN, EditMarketStep(a, ok)
  PROVE  OrderInv' /\ begun' = begun
<1>1. UNCHANGED <<begun, ids, dpc, devent>>
  BY DEF EditMarketStep, UpdateMarket, ApproveMarket, PushEvent, Failure, engine
<1>2. CASE queue' = queue
  BY <1>1, <1>2, QueueAlone
<1>3. CASE PushEvent(a, ok) /\ ok
  <2> DEFINE e == [type |-> EventType(edit[a]), market |-> edit[a].market, id |-> 0]
  <2>1. edit[a].market \in Market
    BY DEF TypeOK, Edit
  <2>2. EventType(edit[a]) \in {"open", "close"}
    BY DEF EventType
  <2>3. e \in Event /\ e.type # "order"
    BY <2>1, <2>2, Zenon DEF Event
  <2>4. queue' = Append(queue, e)
    BY <1>3 DEF PushEvent
  <2> HIDE DEF e
  <2> QED
    BY <1>1, <2>3, <2>4, IdTypes, EventQueued
<1> QED
  BY <1>1, <1>2, <1>3 DEF EditMarketStep, UpdateMarket, ApproveMarket, PushEvent

LEMMA PushOrder ==
  ASSUME TypeOK, OrderInv, NEW m \in Market \cup {NoMarket}, PushOrderEvent(m)
  PROVE  OrderInv' /\ begun' = begun
<1> DEFINE e == [type |-> "order", market |-> m, id |-> ids']
<1>1. /\ ids \in Nat /\ ids' = ids + 1 /\ queue' = Append(queue, e)
      /\ UNCHANGED <<begun, dpc, devent>>
  BY IdTypes DEF PushOrderEvent, engine
<1>2. ids' \in Nat /\ ids < ids'
  BY <1>1
<1>3. e \in Event
  BY <1>2, Zenon DEF Event
<1>4. e.id = ids'
  OBVIOUS
<1> HIDE DEF e
<1> QED
  BY <1>1, <1>2, <1>3, <1>4, EventQueued

LEMMA DispatcherOrder ==
  ASSUME TypeOK, OrderInv, SendsSomewhere, Dispatcher
  PROVE  OrderInv' /\ \A m \in Market : begun'[m] >= begun[m]
<1>1. ASSUME NEW m \in Market, OpenMarket(m) \/ CloseMarket(m)
      PROVE  OrderInv' /\ begun' = begun
  <2>1. Popped /\ UNCHANGED <<begun, ids>> /\ dpc' = "pop"
    BY <1>1 DEF OpenMarket, CloseMarket, Popped, bounds
  <2> QED
    BY <2>1, EventTaken
<1>2. ASSUME Dispatch \/ Drop
      PROVE  OrderInv' /\ begun' = begun
  <2>1. Popped /\ UNCHANGED <<begun, ids>>
    BY <1>2 DEF Dispatch, Drop, bounds
  <2>2. \/ dpc' = "pop"
        \/ dpc' = "send" /\ devent' = NextEvent /\ NextEvent.type = "order"
    BY <1>2 DEF Dispatch, Drop, Popped, engine
  <2> QED
    BY <2>1, <2>2, EventTaken
<1> QED
  BY <1>1, <1>2, IdTypes, ReceiveOrder DEF Dispatcher

LEMMA OrderStep ==
  ASSUME Inv, OrderInv, [Next]_vars
  PROVE  OrderInv' /\ \A m \in Market : begun'[m] >= begun[m]
<1>1. TypeOK /\ SendsSomewhere
  BY DEF Inv
<1>2. begun' = begun => \A m \in Market : begun'[m] >= begun[m]
  BY <1>1, IdTypes
<1>3. ASSUME \/ UNCHANGED vars
             \/ \E a \in Admin, m \in Market, w \in {"true", "false", "omitted"} :
                  ReadMarket(a, m, w)
             \/ \E g \in DOMAIN handlers : HandlerStep(g)
             \/ Exit \/ Crash \/ Start
      PROVE  OrderInv' /\ begun' = begun
  <2>1. UNCHANGED <<queue, begun, ids>>
    BY <1>3 DEF vars, ReadMarket, HandlerStep, Handled, Stop, Exit, Crash, Start, bounds
  <2>2. dpc' = "send" => UNCHANGED <<dpc, devent>>
    BY <1>3 DEF vars, ReadMarket, HandlerStep, Handled, Stop, Exit, Crash, Start, Down, engine
  <2> QED
    BY <2>1, <2>2, QueueAlone
<1> QED
  BY <1>1, <1>2, <1>3, AdminOrder, PushOrder, DispatcherOrder DEF Next

(* A market's handler begins its events in the order they were queued,     *)
(* whatever is closed, opened, dropped, lost in a crash or started again   *)
(* in between.                                                             *)
THEOREM EventsBegunInOrder == Spec => BegunInOrder
<1>1. Inv /\ OrderInv /\ [Next]_vars => Inv' /\ OrderInv'
  BY InvStep, OrderStep
<1>2. Spec => [](Inv /\ OrderInv)
  BY InitInv, InitOrder, <1>1, PTL DEF Spec
<1>3. Inv /\ OrderInv /\ [Next]_vars => [\A m \in Market : begun'[m] >= begun[m]]_vars
  BY OrderStep
<1> QED
  BY <1>2, <1>3, PTL DEF Spec, BegunInOrder
-----------------------------------------------------------------------------
(* What OpenIffPublished rests on, for one request at a time: the last      *)
(* OPEN_MARKET or CLOSE_MARKET of a market in the queue says whether it is  *)
(* published; without one its handler does, as long as the engine runs.     *)
(* Between the row and the event, EditMarketHandler has still to say it.    *)
Names(e, m) == e.type # "order" /\ e.market = m

Unsaid(m) == \E a \in Admin : apc[a] \in {"approve", "push"} /\ edit[a].market = m

LastNamed(i, m) ==
  /\ i \in DOMAIN queue /\ Names(queue[i], m)
  /\ \A j \in DOMAIN queue : j > i => ~Names(queue[j], m)

Unnamed(m) == \A i \in DOMAIN queue : ~Names(queue[i], m)

QueueTells(m) ==
  \A i : LastNamed(i, m) => (queue[i].type = "open" <=> published[m])

MapTells(m) == up /\ Unnamed(m) => (handlerMap[m] # 0 <=> published[m])

EditAtWork ==
  \A a \in Admin :
    /\ apc[a] = "save" => edit[a].was = published[edit[a].market]
    /\ apc[a] = "approve" => Publishes(edit[a])
    /\ apc[a] = "push" => Publishes(edit[a]) \/ Unpublishes(edit[a])
    /\ apc[a] \in {"approve", "push"} => published[edit[a].market] = Saved(edit[a])

ToldInv ==
  errors = 0 =>
    /\ EditAtWork
    /\ \A m \in Market : ~Unsaid(m) => QueueTells(m) /\ MapTells(m)

-----------------------------------------------------------------------------
LEMMA EventsKnown ==
  ASSUME TypeOK
  PROVE  /\ queue \in Seq(Event) /\ Len(queue) \in Nat /\ DOMAIN queue = 1 .. Len(queue)
         /\ \A i \in DOMAIN queue : queue[i] \in Event
  BY DEF TypeOK

\* A step that leaves queue, table and map alone.
LEMMA TellsKept ==
  ASSUME NEW m, UNCHANGED queue, published'[m] = published[m],
         up' => up /\ handlerMap'[m] = handlerMap[m],
         QueueTells(m), MapTells(m)
  PROVE  QueueTells(m)' /\ MapTells(m)'
  BY DEF QueueTells, MapTells, LastNamed, Unnamed

\* An event of another market, or an order, is queued.
LEMMA TellsAppended ==
  ASSUME TypeOK, NEW m, NEW e \in Event, queue' = Append(queue, e), ~Names(e, m),
         UNCHANGED <<published, up, handlerMap>>,
         QueueTells(m), MapTells(m)
  PROVE  QueueTells(m)' /\ MapTells(m)'
<1>1. Len(queue) \in Nat /\ DOMAIN queue = 1 .. Len(queue) /\ queue \in Seq(Event)
  BY EventsKnown
<1>2. /\ DOMAIN queue' = 1 .. Len(queue) + 1
      /\ \A i \in DOMAIN queue : i \in DOMAIN queue' /\ queue'[i] = queue[i]
      /\ queue'[Len(queue) + 1] = e
      /\ \A i \in DOMAIN queue' : i \in DOMAIN queue \/ i = Len(queue) + 1
  BY <1>1
<1>3. \A i : LastNamed(i, m)' => LastNamed(i, m) /\ queue'[i] = queue[i]
  BY <1>2 DEF LastNamed
<1>4. Unnamed(m)' => Unnamed(m)
  BY <1>2 DEF Unnamed
<1> QED
  BY <1>3, <1>4 DEF QueueTells, MapTells

\* What is queued for the market itself is the last that names it.
LEMMA TellsQueued ==
  ASSUME TypeOK, NEW m, NEW e \in Event, queue' = Append(queue, e), Names(e, m),
         UNCHANGED <<published, up, handlerMap>>,
         e.type = "open" <=> published[m]
  PROVE  QueueTells(m)' /\ MapTells(m)'
<1>1. Len(queue) \in Nat /\ DOMAIN queue = 1 .. Len(queue) /\ queue \in Seq(Event)
  BY EventsKnown
<1>2. /\ DOMAIN queue' = 1 .. Len(queue) + 1 /\ Len(queue) + 1 \in DOMAIN queue'
      /\ queue'[Len(queue) + 1] = e
      /\ \A i \in DOMAIN queue' : i = Len(queue) + 1 \/ Len(queue) + 1 > i
  BY <1>1
<1>3. \A i : LastNamed(i, m)' => queue'[i] = e
  BY <1>2 DEF LastNamed
<1>4. ~Unnamed(m)'
  BY <1>2 DEF Unnamed
<1> QED
  BY <1>3, <1>4 DEF QueueTells, MapTells

\* The first event is taken.
LEMMA TellsTaken ==
  ASSUME TypeOK, NEW m, Popped, UNCHANGED <<published, up>>,
         QueueTells(m), MapTells(m),
         \/ /\ ~Names(NextEvent, m)
            /\ handlerMap'[m] = handlerMap[m]
         \/ /\ Names(NextEvent, m)
            /\ (NextEvent.type = "open" <=> published[m])
               => (handlerMap'[m] # 0 <=> published[m])
  PROVE  QueueTells(m)' /\ MapTells(m)'
<1>1. /\ Len(queue) \in Nat /\ DOMAIN queue = 1 .. Len(queue) /\ queue \in Seq(Event)
      /\ queue # <<>> /\ queue' = Tail(queue)
  BY EventsKnown DEF Popped
<1>2. /\ Len(queue) > 0 /\ 1 \in DOMAIN queue /\ NextEvent = queue[1]
      /\ DOMAIN queue' = 1 .. Len(queue) - 1
      /\ \A i \in DOMAIN queue' : i \in Nat /\ i + 1 \in DOMAIN queue /\ queue'[i] = queue[i + 1]
  BY <1>1 DEF NextEvent
<1>3. \A j \in DOMAIN queue : j = 1 \/ (j - 1 \in DOMAIN queue' /\ (j - 1) + 1 = j /\ j > 1)
  BY <1>1, <1>2
<1>4. \A j \in DOMAIN queue : j # 1 => j - 1 \in DOMAIN queue' /\ queue'[j - 1] = queue[j]
  BY <1>2, <1>3
<1>5. ASSUME NEW i, LastNamed(i, m)' PROVE LastNamed(i + 1, m) /\ queue'[i] = queue[i + 1]
  <2>1. i \in DOMAIN queue' /\ i \in Nat /\ i + 1 \in DOMAIN queue /\ queue'[i] = queue[i + 1]
    BY <1>2, <1>5 DEF LastNamed
  <2>2. ASSUME NEW j \in DOMAIN queue, j > i + 1 PROVE ~Names(queue[j], m)
    <3>1. j # 1 /\ j - 1 > i
      BY <1>1, <2>1, <2>2
    <3> QED
      BY <1>4, <1>5, <3>1 DEF LastNamed
  <2> QED
    BY <1>5, <2>1, <2>2 DEF LastNamed
<1>6. QueueTells(m)'
  BY <1>5 DEF QueueTells
<1>7. MapTells(m)'
  <2> SUFFICES ASSUME up, Unnamed(m)' PROVE handlerMap'[m] # 0 <=> published[m]
    BY DEF MapTells
  <2>1. \A j \in DOMAIN queue : j # 1 => ~Names(queue[j], m)
    BY <1>4 DEF Unnamed
  <2>2. CASE ~Names(NextEvent, m)
    <3>1. Unnamed(m)
      BY <1>2, <2>1, <2>2 DEF Unnamed
    <3> QED
      BY <2>2, <3>1 DEF MapTells
  <2>3. CASE Names(NextEvent, m)
    <3>1. \A j \in DOMAIN queue : j > 1 => j # 1
      BY <1>1
    <3>2. LastNamed(1, m)
      BY <1>2, <2>1, <2>3, <3>1 DEF LastNamed
    <3> QED
      BY <1>2, <2>3, <3>2 DEF QueueTells
  <2> QED
    BY <2>2, <2>3
<1> QED
  BY <1>6, <1>7

-----------------------------------------------------------------------------
\* The steps of the one request.
LEMMA ReadMarketTold ==
  ASSUME TypeOK, ToldInv, \A a, b \in Admin : a = b,
         NEW a \in Admin, NEW m \in Market, NEW w \in {"true", "false", "omitted"},
         ReadMarket(a, m, w)
  PROVE  ToldInv'
<1> SUFFICES ASSUME errors = 0 PROVE EditAtWork' /\ \A k \in Market : ~Unsaid(k)' => QueueTells(k)' /\ MapTells(k)'
  BY DEF ToldInv, ReadMarket
<1>1. /\ UNCHANGED <<published, queue, up, handlerMap>>
      /\ apc[a] = "idle" /\ apc'[a] = "save"
      /\ edit'[a].market = m /\ edit'[a].was = published[m]
      /\ \A b \in Admin : b = a
  BY DEF ReadMarket, TypeOK, db, engine
<1>2. EditAtWork'
  BY <1>1 DEF EditAtWork
<1>3. \A k \in Market : ~Unsaid(k)
  BY <1>1 DEF Unsaid
<1> QED
  BY <1>1, <1>2, <1>3, TellsKept DEF ToldInv

LEMMA UpdateMarketTold ==
  ASSUME TypeOK, ToldInv, \A a, b \in Admin : a = b,
         NEW a \in Admin, NEW ok \in BOOLEAN, UpdateMarket(a, ok)
  PROVE  ToldInv'
<1> SUFFICES ASSUME errors' = 0
             PROVE  /\ EditAtWork'
                    /\ \A k \in Market : ~Unsaid(k)' => QueueTells(k)' /\ MapTells(k)'
  BY DEF ToldInv
<1>1. ok /\ errors = 0
  BY DexEngineAssumption DEF UpdateMarket, Failure, TypeOK
<1> PICK m \in Market : m = edit[a].market
  BY DEF TypeOK, Edit
<1>2. /\ UNCHANGED <<queue, edit, up, handlerMap>>
      /\ apc[a] = "save"
      /\ published' = [published EXCEPT ![m] = Saved(edit[a])]
      /\ apc'[a] = IF Publishes(edit[a]) THEN "approve"
                   ELSE IF Unpublishes(edit[a]) THEN "push" ELSE "idle"
      /\ \A b \in Admin : b = a
  BY <1>1 DEF UpdateMarket, TypeOK, Edit, engine
<1>3. published'[m] = Saved(edit[a]) /\ \A k \in Market \ {m} : published'[k] = published[k]
  BY <1>2 DEF TypeOK
<1>4. EditAtWork'
  BY <1>2, <1>3 DEF EditAtWork
<1>5. edit[a].was = published[m] /\ edit[a].was \in BOOLEAN
      /\ edit[a].isPublished \in {"true", "false", "omitted"}
  BY <1>1, <1>2 DEF ToldInv, EditAtWork, TypeOK, Edit
<1>6. ASSUME ~Unsaid(m)' PROVE published'[m] = published[m]
  <2>1. ~Publishes(edit[a]) /\ ~Unpublishes(edit[a])
    <3>1. apc'[a] \notin {"approve", "push"}
      BY <1>2, <1>6 DEF Unsaid
    <3> QED
      BY <1>2, <3>1
  <2>2. CASE edit[a].isPublished = "omitted"
    BY <1>3, <1>5, <2>2 DEF Saved
  <2>3. CASE edit[a].isPublished = "true"
    <3>1. edit[a].was = TRUE
      BY <1>5, <2>1, <2>3 DEF Publishes
    <3>2. Saved(edit[a]) = TRUE
      BY <2>3 DEF Saved
    <3> QED
      BY <1>3, <1>5, <3>1, <3>2
  <2>4. CASE edit[a].isPublished = "false"
    <3>1. edit[a].was = FALSE
      BY <1>5, <2>1, <2>4 DEF Unpublishes
    <3>2. Saved(edit[a]) = FALSE
      BY <2>4 DEF Saved
    <3> QED
      BY <1>3, <1>5, <3>1, <3>2
  <2> QED
    BY <1>5, <2>2, <2>3, <2>4
<1>7. \A k \in Market : ~Unsaid(k)
  BY <1>2 DEF Unsaid
<1>8. ASSUME NEW k \in Market, ~Unsaid(k)' PROVE published'[k] = published[k]
  BY <1>3, <1>6, <1>8
<1> QED
  BY <1>1, <1>2, <1>4, <1>7, <1>8, TellsKept DEF ToldInv

LEMMA ApproveMarketTold ==
  ASSUME TypeOK, ToldInv, \A a, b \in Admin : a = b,
         NEW a \in Admin, NEW ok \in BOOLEAN, ApproveMarket(a, ok)
  PROVE  ToldInv'
<1> SUFFICES ASSUME errors' = 0
             PROVE  /\ EditAtWork'
                    /\ \A k \in Market : ~Unsaid(k)' => QueueTells(k)' /\ MapTells(k)'
  BY DEF ToldInv
<1>1. ok /\ errors = 0
  BY DexEngineAssumption DEF ApproveMarket, Failure, TypeOK
<1>2. /\ UNCHANGED <<published, queue, edit, up, handlerMap>>
      /\ apc[a] = "approve" /\ apc'[a] = "push" /\ \A b \in Admin : b = a
  BY <1>1 DEF ApproveMarket, TypeOK, db, engine
<1>3. EditAtWork'
  BY <1>1, <1>2 DEF ToldInv, EditAtWork
<1>4. \A k \in Market : Unsaid(k) => Unsaid(k)'
  BY <1>2 DEF Unsaid
<1> QED
  BY <1>1, <1>2, <1>3, <1>4, TellsKept DEF ToldInv

LEMMA PushEventTold ==
  ASSUME TypeOK, ToldInv, \A a, b \in Admin : a = b,
         NEW a \in Admin, NEW ok \in BOOLEAN, PushEvent(a, ok)
  PROVE  ToldInv'
<1> SUFFICES ASSUME errors' = 0
             PROVE  /\ EditAtWork'
                    /\ \A k \in Market : ~Unsaid(k)' => QueueTells(k)' /\ MapTells(k)'
  BY DEF ToldInv
<1> PICK m \in Market : m = edit[a].market
  BY DEF TypeOK, Edit
<1> PICK e : e = [type |-> EventType(edit[a]), market |-> m, id |-> 0]
  OBVIOUS
<1>1. ok /\ errors = 0
  BY DexEngineAssumption DEF PushEvent, Failure, TypeOK
<1>2. /\ UNCHANGED <<published, edit, up, handlerMap>> /\ queue' = Append(queue, e)
      /\ apc[a] = "push" /\ apc'[a] = "idle" /\ \A b \in Admin : b = a
  BY <1>1 DEF PushEvent, TypeOK, Edit, db, engine
<1>3. EditAtWork'
  BY <1>2 DEF EditAtWork
<1>4. EventType(edit[a]) \in {"open", "close"}
  BY DEF EventType
<1>5. e \in Event /\ e.type = EventType(edit[a]) /\ e.market = m
  BY <1>2, <1>4, Zenon DEF Event
<1>6. e.type = "open" <=> published[m]
  <2>1. /\ published[m] = Saved(edit[a])
        /\ Publishes(edit[a]) \/ Unpublishes(edit[a])
    BY <1>1, <1>2 DEF ToldInv, EditAtWork
  <2>2. CASE Publishes(edit[a])
    <3>1. Saved(edit[a]) = TRUE
      BY <2>2 DEF Publishes, Saved
    <3>2. EventType(edit[a]) = "open"
      BY <2>2 DEF EventType
    <3> QED
      BY <1>5, <2>1, <3>1, <3>2
  <2>3. CASE Unpublishes(edit[a])
    <3>1. Saved(edit[a]) = FALSE
      BY <2>3 DEF Unpublishes, Saved
    <3>2. ~Publishes(edit[a])
      BY <2>3 DEF Unpublishes, Publishes
    <3>3. EventType(edit[a]) = "close"
      BY <3>2 DEF EventType
    <3> QED
      BY <1>5, <2>1, <3>1, <3>3
  <2> QED
    BY <2>1, <2>2, <2>3
<1>7. Names(e, m) /\ \A k \in Market \ {m} : ~Names(e, k)
  BY <1>4, <1>5 DEF Names
<1>8. \A k \in Market \ {m} : ~Unsaid(k)
  BY <1>2 DEF Unsaid
<1>9. QueueTells(m)' /\ MapTells(m)'
  BY <1>2, <1>5, <1>6, <1>7, TellsQueued
<1>10. \A k \in Market \ {m} : QueueTells(k)' /\ MapTells(k)'
  BY <1>1, <1>2, <1>5, <1>7, <1>8, TellsAppended DEF ToldInv
<1> QED
  BY <1>3, <1>9, <1>10

-----------------------------------------------------------------------------
\* The steps that leave the request alone.
LEMMA ToldStep ==
  ASSUME ToldInv, UNCHANGED <<apc, edit, published, errors>>,
         \A m \in Market : QueueTells(m) /\ MapTells(m) => QueueTells(m)' /\ MapTells(m)'
  PROVE  ToldInv'
<1>1. \A m : Unsaid(m)' = Unsaid(m)
  BY DEF Unsaid
<1>2. EditAtWork' = EditAtWork
  BY DEF EditAtWork
<1> QED
  BY <1>1, <1>2 DEF ToldInv

LEMMA OpenTold ==
  ASSUME TypeOK, ToldInv, NEW m \in Market, OpenMarket(m)
  PROVE  ToldInv'
<1>1. /\ Popped /\ NextEvent.type = "open" /\ NextEvent.market = m
      /\ UNCHANGED <<apc, edit, published, errors, up>>
  BY DEF OpenMarket, admin, db, bounds
<1>2. /\ published[m] => handlerMap'[m] # 0
      /\ \A k \in Market \ {m} : handlerMap'[k] = handlerMap[k]
  <2>1. CASE handlerMap[m] = 0 /\ published[m]
    <3>1. handlerMap' = [handlerMap EXCEPT ![m] = Len(handlers) + 1] /\ Len(handlers) \in Nat
      BY <2>1 DEF OpenMarket, TypeOK
    <3> QED
      BY <3>1 DEF TypeOK
  <2>2. CASE ~(handlerMap[m] = 0 /\ published[m])
    BY <2>2 DEF OpenMarket
  <2> QED
    BY <2>1, <2>2
<1>3. \A k \in Market : Names(NextEvent, k) <=> k = m
  BY <1>1 DEF Names
<1>4. ASSUME NEW k \in Market, QueueTells(k), MapTells(k)
      PROVE  QueueTells(k)' /\ MapTells(k)'
  BY <1>1, <1>2, <1>3, <1>4, TellsTaken
<1> QED
  BY <1>1, <1>4, ToldStep

LEMMA CloseTold ==
  ASSUME TypeOK, ToldInv, NEW m \in Market, CloseMarket(m)
  PROVE  ToldInv'
<1>1. /\ Popped /\ NextEvent.type = "close" /\ NextEvent.market = m
      /\ UNCHANGED <<apc, edit, published, errors, up>>
  BY DEF CloseMarket, admin, db, bounds
<1>2. /\ handlerMap'[m] = 0
      /\ \A k \in Market \ {m} : handlerMap'[k] = handlerMap[k]
  BY DEF CloseMarket, TypeOK
<1>3. \A k \in Market : Names(NextEvent, k) <=> k = m
  BY <1>1 DEF Names
<1>4. ASSUME NEW k \in Market, QueueTells(k), MapTells(k)
      PROVE  QueueTells(k)' /\ MapTells(k)'
  BY <1>1, <1>2, <1>3, <1>4, TellsTaken
<1> QED
  BY <1>1, <1>4, ToldStep

LEMMA StartTold ==
  ASSUME TypeOK, ToldInv, Start
  PROVE  ToldInv'
<1>1. UNCHANGED <<apc, edit, published, errors, queue>> /\ ~up
  BY DEF Start, admin, db, bounds
<1>2. \A m \in Market : handlerMap'[m] # 0 <=> published[m]
  <2> PICK s \in [1 .. Cardinality({m \in Market : published[m]}) -> {m \in Market : published[m]}] :
         /\ \A m \in Market : published[m] => \E i \in DOMAIN s : s[i] = m
         /\ handlerMap' = [m \in Market |->
                             IF published[m] THEN CHOOSE i \in DOMAIN s : s[i] = m ELSE 0]
    BY DEF Start
  <2> SUFFICES ASSUME NEW m \in Market PROVE handlerMap'[m] # 0 <=> published[m]
    OBVIOUS
  <2>1. CASE published[m]
    <3> DEFINE i == CHOOSE i \in DOMAIN s : s[i] = m
    <3>1. i \in DOMAIN s
      BY <2>1
    <3>2. DOMAIN s = 1 .. Cardinality({k \in Market : published[k]})
      OBVIOUS
    <3>3. 0 \notin 1 .. Cardinality({k \in Market : published[k]})
      OBVIOUS
    <3>4. handlerMap'[m] = i
      BY <2>1
    <3> QED
      BY <2>1, <3>1, <3>2, <3>3, <3>4
  <2>2. CASE ~published[m]
    BY <2>2
  <2> QED
    BY <2>1, <2>2
<1>3. ASSUME NEW m \in Market, QueueTells(m)
      PROVE  QueueTells(m)' /\ MapTells(m)'
  BY <1>1, <1>2, <1>3 DEF QueueTells, LastNamed, MapTells
<1> QED
  BY <1>1, <1>3, ToldStep

LEMMA ToldNext ==
  ASSUME TypeOK, ToldInv, \A a, b \in Admin : a = b, [Next]_vars
  PROVE  ToldInv'
<1>1. ASSUME NEW a \in Admin, NEW m \in Market, NEW w \in {"true", "false", "omitted"},
             ReadMarket(a, m, w)
      PROVE  ToldInv'
  BY <1>1, ReadMarketTold
<1>2. ASSUME NEW a \in Admin, NEW ok \in BOOLEAN, EditMarketStep(a, ok)
      PROVE  ToldInv'
  BY <1>2, UpdateMarketTold, ApproveMarketTold, PushEventTold DEF EditMarketStep
<1>3. ASSUME NEW m \in Market \cup {NoMarket}, PushOrderEvent(m) PROVE ToldInv'
  <2> DEFINE e == [type |-> "order", market |-> m, id |-> ids']
  <2>1. /\ queue' = Append(queue, e) /\ ids' \in Nat
        /\ UNCHANGED <<apc, edit, published, errors, up, handlerMap>>
    BY <1>3 DEF PushOrderEvent, TypeOK, admin, db, engine
  <2>2. e \in Event /\ e.type = "order"
    BY <2>1, Zenon DEF Event
  <2> HIDE DEF e
  <2>3. \A k : ~Names(e, k)
    BY <2>2 DEF Names
  <2> QED
    BY <2>1, <2>2, <2>3, TellsAppended, ToldStep
<1>4. ASSUME NEW m \in Market, OpenMarket(m) \/ CloseMarket(m) PROVE ToldInv'
  BY <1>4, OpenTold, CloseTold
<1>5. CASE Dispatch \/ Drop
  <2>1. /\ Popped /\ NextEvent.type = "order"
        /\ UNCHANGED <<apc, edit, published, errors, up, handlerMap>>
    BY <1>5 DEF Dispatch, Drop, admin, db, engine, bounds
  <2>2. \A k : ~Names(NextEvent, k)
    BY <2>1 DEF Names
  <2> QED
    BY <2>1, <2>2, TellsTaken, ToldStep
<1>6. CASE (\E g \in DOMAIN handlers : Receive(g) \/ HandlerStep(g)) \/ UNCHANGED vars
  <2>1. UNCHANGED <<apc, edit, published, errors, queue, up, handlerMap>>
    BY <1>6 DEF Receive, HandlerStep, Handled, Stop, admin, db, bounds, vars, engine
  <2> QED
    BY <2>1, TellsKept, ToldStep
<1>7. CASE Exit \/ Crash
  <2>1. UNCHANGED <<apc, edit, published, errors, queue>> /\ ~up'
    BY <1>7 DEF Exit, Crash, Down, admin, db, bounds
  <2> QED
    BY <2>1, TellsKept, ToldStep
<1>8. CASE Start
  BY <1>8, StartTold
<1> QED
  BY <1>1, <1>2, <1>3, <1>4, <1>5, <1>6, <1>7, <1>8 DEF Next, Dispatcher

LEMMA ToldInit == Init => ToldInv
<1> SUFFICES ASSUME Init PROVE ToldInv
  OBVIOUS
<1>1. ~up /\ queue = <<>> /\ \A a \in Admin : apc[a] = "idle"
  BY DEF Init
<1> QED
  BY <1>1 DEF ToldInv, EditAtWork, QueueTells, MapTells, LastNamed

(* A market is served when it is published and no longer when it is not,   *)
(* once every request and every event is dealt with: EditMarketHandler     *)
(* saves the row first and queues OPEN_MARKET or CLOSE_MARKET afterwards,  *)
(* newMarket reads the row again, and a restart opens what is published.   *)
THEOREM ServedIfPublished ==
  ASSUME \A a, b \in Admin : a = b
  PROVE  Spec => []OpenIffPublished
<1>1. Init => Inv /\ ToldInv
  BY InitInv, ToldInit
<1>2. Inv /\ ToldInv /\ [Next]_vars => Inv' /\ ToldInv'
  BY InvStep, ToldNext DEF Inv
<1>3. ToldInv => OpenIffPublished
  <2> SUFFICES ASSUME ToldInv, Settled, errors = 0, NEW m \in Market
               PROVE  handlerMap[m] # 0 <=> published[m]
    BY DEF OpenIffPublished
  <2>1. up /\ queue = <<>> /\ ~Unsaid(m)
    BY DEF Settled, Unsaid
  <2> QED
    BY <2>1 DEF ToldInv, MapTells, Unnamed
<1> QED
  BY <1>1, <1>2, <1>3, PTL DEF Spec

=============================================================================
