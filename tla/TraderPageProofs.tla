-------------------------- MODULE TraderPageProofs --------------------------
(***************************************************************************)
(* Theorems about TraderPage for every set of accounts, markets and        *)
(* orders, any number of requests under way and any order of their         *)
(* answers: who is logged in has a token, the trade history is of the      *)
(* market shown, and the lists follow the engine.                          *)
(***************************************************************************)
EXTENDS TraderPage, WellFoundedInduction, TLAPS

Page == [market : Markets \cup {None}, account : Accounts \cup {None},
         loggedIn : SUBSET Accounts, saved : SUBSET Accounts, layout : Layouts,
         view : Lists \cup {None}]

\* Only requests for a list or a cancel are not about a market.
HistoryRequests == \A r \in requests : r.op = "history" => r.about \in Markets

PageInv ==
    /\ page \in Page /\ history \subseteq Markets
    /\ SessionHasToken /\ HistoryRequests /\ HistoryOfMarket

---------------------------------------------------------------------------
(* Requests *)

\* The lists in view are not the trade history.
LEMMA ListsAsked ==
    ASSUME NEW q \in Page
    PROVE  \A op \in LoadOnMount(q) : op[1] # "history"
<1>1. q.view # None => q.view # "history"
  BY DEF Page, Lists
<1> QED
  BY <1>1 DEF LoadOnMount

\* Nor is what an update asks for.
LEMMA UpdateAsked ==
    ASSUME NEW p, NEW q \in Page
    PROVE  \A op \in LoadOnUpdate(p, q) : op[1] # "history"
<1>1. q.view # None => q.view # "history"
  BY DEF Page, Lists
<1> QED
  BY <1>1 DEF LoadOnUpdate

\* The history is asked for of a market.
LEMMA HistoryAsked == ASSUME NEW m \in Markets PROVE \A op \in HistoryOf(m) : op[2] \in Markets
  BY DEF HistoryOf

---------------------------------------------------------------------------
(* Sessions *)

\* LOGIN of an account with a token.
LEMMA LoginKeepsPage ==
    ASSUME NEW p \in Page, p.loggedIn \subseteq p.saved, NEW a \in Accounts, a \in p.saved
    PROVE  /\ Login(p, a) \in Page /\ Login(p, a).loggedIn \subseteq Login(p, a).saved
           /\ Login(p, a).market = p.market
  BY DEF Login, Page

\* LOGOUT forgets the token with the session.
LEMMA LogoutKeepsPage ==
    ASSUME NEW p \in Page, p.loggedIn \subseteq p.saved, NEW S
    PROVE  /\ Logout(p, S) \in Page /\ Logout(p, S).loggedIn \subseteq Logout(p, S).saved
           /\ Logout(p, S).market = p.market
  BY DEF Logout, Page

---------------------------------------------------------------------------
(* The steps *)

\* At the start nobody is logged in.
LEMMA InitInv == Init => PageInv
<1> SUFFICES ASSUME Init PROVE PageInv
  OBVIOUS
<1>1. page \in Page /\ page.loggedIn = {}
  BY DEF Init, Page, Lists
<1> QED
  BY <1>1 DEF Init, PageInv, SessionHasToken, HistoryRequests, HistoryOfMarket

\* The page becomes q, the history is that of its market or empty, and it asks for what is
\* in view and for the history of a market.
LEMMA PageStep ==
    ASSUME PageInv, page' \in Page, page'.loggedIn \subseteq page'.saved,
           history' \subseteq Markets, history' \subseteq {page'.market},
           \A r \in requests' : r \in requests \/ r.op # "history" \/ r.about \in Markets
    PROVE  PageInv'
  BY DEF PageInv, SessionHasToken, HistoryRequests, HistoryOfMarket

\* The same, for what the page asks for.
LEMMA AskStep ==
    ASSUME PageInv, page' \in Page, page'.loggedIn \subseteq page'.saved,
           history' \subseteq Markets, history' \subseteq {page'.market},
           NEW STATE ops, NEW STATE p, Ask(ops, p),
           \A op \in ops : op[1] = "history" => op[2] \in Markets
    PROVE  PageInv'
<1>1. ASSUME NEW r \in requests', r \notin requests, r.op = "history" PROVE r.about \in Markets
  <2>1. PICK op \in ops : r = Request(op[1], op[2], p, guests)
    BY <1>1 DEF Ask
  <2>2. r.op = op[1] /\ r.about = op[2]
    BY <2>1 DEF Request
  <2> QED
    BY <1>1, <2>2
<1> QED
  BY <1>1, PageStep

\* The first market is shown with an empty history.
LEMMA LoadMarketsStep == ASSUME PageInv, LoadMarkets PROVE PageInv'
<1> DEFINE p == [page EXCEPT !.market = FirstMarket]
           q == IF HasToken(p) THEN Login(p, p.account) ELSE p
           ops == HistoryOf(FirstMarket) \cup LoadOnMount(q)
<1>1. page \in Page /\ page.loggedIn \subseteq page.saved /\ page.market = None
  BY DEF PageInv, SessionHasToken, LoadMarkets
<1>2. history = {}
  BY <1>1, PageAssumption DEF PageInv, HistoryOfMarket
<1>3. page' = q /\ Ask(ops, q) /\ history' = history
  BY DEF LoadMarkets
<1>4. FirstMarket \in Markets
  BY PageAssumption DEF FirstMarket
<1>5. p \in Page /\ p.loggedIn \subseteq p.saved
  BY <1>1, <1>4 DEF Page
<1> HIDE DEF p
<1>6. HasToken(p) => p.account \in Accounts /\ p.account \in p.saved
  BY <1>5 DEF HasToken, Page
<1>7. q \in Page /\ q.loggedIn \subseteq q.saved
  BY <1>5, <1>6, LoginKeepsPage
<1> HIDE DEF q
<1>8. \A op \in ops : op[1] = "history" => op[2] \in Markets
  BY <1>4, <1>7, ListsAsked, HistoryAsked
<1> HIDE DEF ops
<1> QED
  BY <1>2, <1>3, <1>7, <1>8, AskStep

\* Another market empties the history.
LEMMA SelectMarketStep == ASSUME PageInv, NEW m \in Markets, SelectMarket(m) PROVE PageInv'
<1> DEFINE q == [page EXCEPT !.market = m]
           ops == HistoryOf(m) \cup LoadOnUpdate(page, q)
<1>1. page \in Page /\ page.loggedIn \subseteq page.saved
  BY DEF PageInv, SessionHasToken
<1>2. page' = q /\ Ask(ops, q) /\ history' = {}
  BY DEF SelectMarket
<1>3. q \in Page /\ q.loggedIn \subseteq q.saved
  BY <1>1 DEF Page
<1> HIDE DEF q
<1>4. \A op \in ops : op[1] = "history" => op[2] \in Markets
  BY <1>3, UpdateAsked, HistoryAsked
<1> HIDE DEF ops
<1> QED
  BY <1>2, <1>3, <1>4, AskStep

\* Another account is logged in when it has a token.
LEMMA SelectAccountStep ==
    ASSUME PageInv, NEW a \in Accounts \cup {None}, SelectAccount(a) PROVE PageInv'
<1> DEFINE p == [page EXCEPT !.account = a]
           q == IF page.market # None /\ HasToken(p) THEN Login(p, a) ELSE p
           ops == LoadOnUpdate(page, p) \cup LoadOnUpdate(p, q)
<1>1. page \in Page /\ page.loggedIn \subseteq page.saved
  BY DEF PageInv, SessionHasToken
<1>2. page' = q /\ history' = history /\ (UNCHANGED <<requests, guests>> \/ Ask(ops, q))
  BY DEF SelectAccount
<1>3. p \in Page /\ p.loggedIn \subseteq p.saved /\ p.market = page.market /\ p.account = a
  BY <1>1 DEF Page
<1> HIDE DEF p
<1>4. HasToken(p) => a \in Accounts /\ a \in p.saved
  BY <1>3 DEF HasToken, Page
<1>5. q \in Page /\ q.loggedIn \subseteq q.saved /\ q.market = page.market
  BY <1>3, <1>4, LoginKeepsPage
<1> HIDE DEF q
<1>6. \A op \in ops : op[1] = "history" => op[2] \in Markets
  BY <1>3, <1>5, UpdateAsked
<1> HIDE DEF ops
<1>7. history' \subseteq Markets /\ history' \subseteq {page'.market}
  BY <1>2, <1>5 DEF PageInv, HistoryOfMarket
<1>8. CASE Ask(ops, q)
  BY <1>2, <1>5, <1>6, <1>7, <1>8, AskStep
<1>9. CASE UNCHANGED <<requests, guests>>
  BY <1>2, <1>5, <1>7, <1>9, PageStep
<1> QED
  BY <1>2, <1>8, <1>9

\* Another list in view, or none.
LEMMA ShowStep ==
    ASSUME PageInv, NEW layout \in Layouts, NEW view \in Lists \cup {None}, Show(layout, view)
    PROVE  PageInv'
<1> DEFINE q == [page EXCEPT !.layout = layout, !.view = view]
<1>1. page \in Page /\ page.loggedIn \subseteq page.saved
  BY DEF PageInv, SessionHasToken
<1>2. page' = q /\ Ask(LoadOnMount(q), q) /\ history' = history
  BY DEF Show
<1>3. q \in Page /\ q.loggedIn \subseteq q.saved /\ q.market = page.market
  BY <1>1 DEF Page
<1> HIDE DEF q
<1>4. \A op \in LoadOnMount(q) : op[1] = "history" => op[2] \in Markets
  BY <1>3, ListsAsked
<1>5. history' \subseteq Markets /\ history' \subseteq {page'.market}
  BY <1>2, <1>3 DEF PageInv, HistoryOfMarket
<1> QED
  BY <1>2, <1>3, <1>4, <1>5, AskStep

\* A signature saves the token before the session begins.
LEMMA SignedStep == ASSUME PageInv, NEW a \in Accounts, Signed(a) PROVE PageInv'
<1> DEFINE p == [page EXCEPT !.saved = @ \cup {a}]
           q == Login(p, a)
<1>1. page \in Page /\ page.loggedIn \subseteq page.saved
  BY DEF PageInv, SessionHasToken
<1>2. page' = q /\ Ask(LoadOnUpdate(page, q), q) /\ history' = history
  BY DEF Signed
<1>3. p \in Page /\ p.loggedIn \subseteq p.saved /\ a \in p.saved /\ p.market = page.market
  BY <1>1 DEF Page
<1> HIDE DEF p
<1>4. q \in Page /\ q.loggedIn \subseteq q.saved /\ q.market = page.market
  BY <1>3, LoginKeepsPage
<1> HIDE DEF q
<1>5. \A op \in LoadOnUpdate(page, q) : op[1] = "history" => op[2] \in Markets
  BY <1>4, UpdateAsked
<1>6. history' \subseteq Markets /\ history' \subseteq {page'.market}
  BY <1>2, <1>4 DEF PageInv, HistoryOfMarket
<1> QED
  BY <1>2, <1>4, <1>5, <1>6, AskStep

\* A cancel is asked for.
LEMMA AskCancelStep == ASSUME PageInv, NEW o \in Orders, AskCancel(o) PROVE PageInv'
<1>1. Ask({<<"cancel", o>>}, page) /\ UNCHANGED <<page, history>>
  BY DEF AskCancel
<1>2. /\ page' \in Page /\ page'.loggedIn \subseteq page'.saved
      /\ history' \subseteq Markets /\ history' \subseteq {page'.market}
  BY <1>1 DEF PageInv, SessionHasToken, HistoryOfMarket
<1>3. \A op \in {<<"cancel", o>>} : op[1] = "history" => op[2] \in Markets
  OBVIOUS
<1> QED
  BY <1>1, <1>2, <1>3, AskStep

\* The session of every account whose hook ran is over.
LEMMA RejectedStep == ASSUME PageInv, NEW r \in requests, Rejected(r) PROVE PageInv'
<1>1. page' = Logout(page, r.hooks) /\ history' = history /\ requests' \subseteq requests
  BY DEF Rejected
<1>2. page' \in Page /\ page'.loggedIn \subseteq page'.saved /\ page'.market = page.market
  BY <1>1, LogoutKeepsPage DEF PageInv, SessionHasToken
<1> QED
  BY <1>1, <1>2, PageStep DEF PageInv, HistoryOfMarket

\* A step that is not about the page, and asks for nothing.
LEMMA OtherStep ==
    ASSUME PageInv, UNCHANGED <<page, history>>,
           \A r \in requests' : r \in requests \/ r.op # "history"
    PROVE  PageInv'
  BY DEF PageInv, SessionHasToken, HistoryRequests, HistoryOfMarket

\* What becomes of a request, other than the status -11.
LEMMA RequestSteps ==
    ASSUME PageInv, NEW r \in requests,
           \/ Serve(r) \/ Failed(r)
           \/ LoadOrders(r) \/ LoadTrades(r) \/ LoadTradeHistory(r) \/ Canceled(r)
    PROVE  PageInv'
<1>1. CASE Serve(r)
  <2>1. r.op # "history"
    BY <1>1 DEF Serve, ServeList, ServeCancel, Lists
  <2>2. \A s \in requests' : s \in requests \/ \E x : s = [r EXCEPT !.answer = x]
    BY <1>1 DEF Serve, ServeList, ServeCancel
  <2>3. \A x : [r EXCEPT !.answer = x].op = r.op
    OBVIOUS
  <2> QED
    BY <1>1, <2>1, <2>2, <2>3, OtherStep DEF Serve
<1>2. CASE Failed(r)
  BY <1>2, OtherStep DEF Failed
<1>3. CASE LoadOrders(r) \/ LoadTrades(r) \/ Canceled(r)
  BY <1>3, OtherStep DEF LoadOrders, LoadTrades, Canceled, Answered
<1>4. CASE LoadTradeHistory(r)
  <2>1. r.about \in Markets
    BY <1>4 DEF LoadTradeHistory, Answered, PageInv, HistoryRequests
  <2>2. UNCHANGED page /\ requests' \subseteq requests
        /\ history' = IF page.market = r.about THEN {r.about} ELSE history
    BY <1>4 DEF LoadTradeHistory, Answered
  <2> QED
    BY <2>1, <2>2, PageStep DEF PageInv, SessionHasToken, HistoryOfMarket
<1> QED
  BY <1>1, <1>2, <1>3, <1>4

\* Every step keeps the invariant.
LEMMA NextInv == PageInv /\ [Next]_pageVars => PageInv'
<1> SUFFICES ASSUME PageInv, [Next]_pageVars PROVE PageInv'
  OBVIOUS
<1>1. CASE SelectTab \/ SelectList \/ \E layout \in Layouts : Resize(layout)
  <2>1. page.layout \in Layouts
    BY DEF PageInv, Page
  <2>2. \E layout \in Layouts, view \in Lists \cup {None} : Show(layout, view)
    BY <1>1, <2>1 DEF SelectTab, SelectList, Resize, Mounted, Layouts, Lists
  <2> QED
    BY <2>2, ShowStep
<1>2. CASE \/ LoginRequest \/ Subscribed \/ Drop \/ OnMessage \/ UNCHANGED pageVars
           \/ \E a \in Accounts : Refused(a) \/ Unsubscribed(a)
           \/ \E o \in Orders : Engine(o) \/ EngineCancels(o)
  <2>1. UNCHANGED <<page, history, requests>>
    BY <1>2 DEF LoginRequest, Subscribed, Drop, OnMessage, pageVars, Refused, Unsubscribed,
                Engine, EngineCancels
  <2> QED
    BY <2>1, OtherStep
<1> QED
  BY <1>1, <1>2, LoadMarketsStep, SelectMarketStep, SelectAccountStep, SignedStep,
     AskCancelStep, RejectedStep, RequestSteps DEF Next

\* It holds always.
LEMMA SpecInv == Spec => []PageInv
<1> QED
  BY InitInv, NextInv, PTL DEF Spec

---------------------------------------------------------------------------
(* The messages on their way *)

Status == {"none", "open", "matched", "settled", "canceled"}
Traded == {"matched", "settled"}

MessageOK(m) ==
    /\ m \in [about : Lists, id : Orders, status : Status]
    /\ m.about = "trades" => m.status \in Traded
    /\ book[m.id] # "none"

\* What a message about an order makes of its row.
Kept(list, status) ==
    IF list = "orders" /\ status \notin Pending THEN "none" ELSE status

OnList(list, base, m) == IF list = "orders" THEN OnOrders(base, m) ELSE OnTrades(base, m)

FeedOK ==
    /\ feed \in Seq([about : Lists, id : Orders, status : Status])
    /\ \A i \in DOMAIN feed : MessageOK(feed[i])

\* What the messages of the feed are.
LEMMA FeedKnown ==
    ASSUME FeedOK
    PROVE  /\ Len(feed) \in Nat /\ DOMAIN feed = 1..Len(feed)
           /\ \A i \in DOMAIN feed : /\ feed[i].about \in Lists /\ feed[i].id \in Orders
                                     /\ feed[i].status \in Status
  BY DEF FeedOK, MessageOK

\* A set of numbers has a smallest: the order of the numbers is well-founded.
LEMMA Smallest == ASSUME NEW T \in SUBSET Nat, T # {} PROVE \E x \in T : \A y \in T : x <= y
<1> DEFINE R == OpToRel(<, Nat)
<1>1. IsWellFoundedOn(R, Nat)
  BY NatLessThanWellFounded
<1>2. PICK x \in T : \A y \in T : ~(<<y, x>> \in R)
  <2> HIDE DEF R
  <2> QED
    BY <1>1, WFMin
<1>3. \A y \in T : ~(y < x)
  BY <1>2 DEF OpToRel
<1> QED
  BY <1>3

\* A set of positions has a largest.
LEMMA Largest ==
    ASSUME NEW n \in Nat, NEW T \in SUBSET (1..n), T # {}
    PROVE  \E x \in T : \A y \in T : y <= x
<1> DEFINE B == {n - i : i \in T}
<1>1. B \in SUBSET Nat /\ B # {}
  <2>1. \A i \in T : i \in 1..n /\ n - i \in Nat
    OBVIOUS
  <2>2. PICK i \in T : TRUE
    OBVIOUS
  <2> QED
    BY <2>1, <2>2
<1>2. PICK b \in B : \A c \in B : b <= c
  <2> HIDE DEF B
  <2> QED
    BY <1>1, Smallest
<1>3. PICK x \in T : b = n - x
  OBVIOUS
<1>4. \A y \in T : n - x <= n - y
  BY <1>2, <1>3
<1> QED
  BY <1>4

\* The last message about an order.
LastHeard(k, list, o) == k \in Heard(list, o) /\ \A j \in Heard(list, o) : j <= k

\* A list has one last message about an order it has heard of.
LEMMA LastIs ==
    ASSUME FeedOK, NEW list, NEW o, Heard(list, o) # {}
    PROVE  /\ LastHeard(CHOOSE i \in Heard(list, o) : \A j \in Heard(list, o) : j <= i, list, o)
           /\ \A k, l : LastHeard(k, list, o) /\ LastHeard(l, list, o) => k = l
<1>1. Heard(list, o) \in SUBSET (1..Len(feed)) /\ Len(feed) \in Nat
  BY FeedKnown DEF Heard
<1>2. \E x \in Heard(list, o) : \A y \in Heard(list, o) : y <= x
  BY <1>1, Largest
<1>3. ASSUME NEW k, NEW l, LastHeard(k, list, o), LastHeard(l, list, o) PROVE k = l
  <2>1. k \in Nat /\ l \in Nat /\ k <= l /\ l <= k
    BY <1>1, <1>3 DEF LastHeard
  <2> QED
    BY <2>1
<1> QED
  BY <1>2, <1>3 DEF LastHeard

\* What a message does to a list.
LEMMA OnListIs ==
    ASSUME NEW list \in Lists, NEW base, base = [o \in Orders |-> base[o]], NEW m,
           m.about \in Lists, m.id \in Orders
    PROVE  /\ OnList(list, base, m) = [o \in Orders |-> OnList(list, base, m)[o]]
           /\ \A o \in Orders :
                 OnList(list, base, m)[o] =
                   IF m.about = list /\ m.id = o /\ MarketOf[o] = page.market
                   THEN Kept(list, m.status) ELSE base[o]
<1>1. CASE list = "orders"
  BY <1>1 DEF OnList, OnOrders, OrderUpdate, Kept
<1>2. CASE list = "trades"
  BY <1>2 DEF OnList, OnTrades, TradeUpdate, Kept
<1> QED
  BY <1>1, <1>2 DEF Lists

\* A row once the messages on their way are taken.
LEMMA ComingIs ==
    ASSUME FeedOK, NEW list \in Lists, NEW base, base = [o \in Orders |-> base[o]],
           NEW o \in Orders
    PROVE  /\ Heard(list, o) = {} \/ MarketOf[o] # page.market => Coming(list, base)[o] = base[o]
           /\ \A k : LastHeard(k, list, o) /\ MarketOf[o] = page.market
                => Coming(list, base)[o] = Kept(list, feed[k].status)
<1> PICK k : k = CHOOSE i \in Heard(list, o) : \A j \in Heard(list, o) : j <= i
  OBVIOUS
<1>1. Coming(list, base)[o] =
        IF Heard(list, o) = {} THEN base[o] ELSE OnList(list, base, feed[k])[o]
  BY DEF Coming, OnList
<1>2. CASE Heard(list, o) = {}
  BY <1>1, <1>2 DEF LastHeard
<1>3. CASE Heard(list, o) # {}
  <2>1. LastHeard(k, list, o) /\ \A l : LastHeard(l, list, o) => l = k
    BY <1>3, LastIs
  <2>2. k \in DOMAIN feed /\ feed[k].about = list /\ feed[k].id = o
    BY <2>1 DEF LastHeard, Heard
  <2>3. Coming(list, base)[o] =
          IF MarketOf[o] = page.market THEN Kept(list, feed[k].status) ELSE base[o]
    BY <1>1, <1>3, <2>2, OnListIs
  <2> QED
    BY <1>3, <2>1, <2>3
<1> QED
  BY <1>2, <1>3

\* A row that differs before makes no more than the row differ.
LEMMA ComingSame ==
    ASSUME FeedOK, NEW list \in Lists, NEW base, base = [o \in Orders |-> base[o]],
           NEW after, after = [o \in Orders |-> after[o]], NEW o \in Orders
    PROVE  \/ Coming(list, after)[o] = Coming(list, base)[o]
           \/ (Coming(list, after)[o] = after[o] /\ after[o] # base[o])
<1>1. CASE Heard(list, o) = {} \/ MarketOf[o] # page.market
  BY <1>1, ComingIs
<1>2. CASE Heard(list, o) # {} /\ MarketOf[o] = page.market
  <2> PICK k : LastHeard(k, list, o)
    BY <1>2, LastIs
  <2> QED
    BY <1>2, ComingIs
<1> QED
  BY <1>1, <1>2

\* Both hold in the next state too.
LastKnown ==
    FeedOK => \A list, o : Heard(list, o) # {} => \E k : LastHeard(k, list, o)

RowTold(list, base, o) ==
    /\ Heard(list, o) = {} \/ MarketOf[o] # page.market => Coming(list, base)[o] = base[o]
    /\ \A k : LastHeard(k, list, o) /\ MarketOf[o] = page.market
          => Coming(list, base)[o] = Kept(list, feed[k].status)

RowKnown ==
    FeedOK =>
      \A list \in Lists : \A base : base = [p \in Orders |-> base[p]] =>
         \A o \in Orders : RowTold(list, base, o)

\* It is what LastIs and ComingIs say.
LEMMA Known == LastKnown /\ RowKnown
<1>1. LastKnown
  BY LastIs DEF LastKnown
<1>2. RowKnown
  BY ComingIs DEF RowKnown, RowTold
<1> QED
  BY <1>1, <1>2

\* So they hold in the next state.
LEMMA KnownNext == LastKnown' /\ RowKnown'
  BY Known, PTL

\* ComingIs in the next state.
LEMMA RowNext ==
    ASSUME FeedOK', NEW list \in Lists, NEW base, base = [o \in Orders |-> base[o]],
           NEW o \in Orders
    PROVE  /\ Heard(list, o)' = {} \/ MarketOf[o] # page'.market
                => Coming(list, base)'[o] = base[o]
           /\ \A k : LastHeard(k, list, o)' /\ MarketOf[o] = page'.market
                => Coming(list, base)'[o] = Kept(list, feed'[k].status)
<1>1. RowTold(list, base, o)'
  BY KnownNext DEF RowKnown
<1> QED
  BY <1>1 DEF RowTold, Kept

\* LastIs in the next state.
LEMMA LastNext ==
    ASSUME FeedOK', NEW list, NEW o, Heard(list, o)' # {}
    PROVE  \E k : LastHeard(k, list, o)'
  BY KnownNext DEF LastKnown

\* The rows of a list stay what they will be: the feed has nothing new on them.
LEMMA ComingKept ==
    ASSUME FeedOK, FeedOK', UNCHANGED <<page, feed>>, NEW list \in Lists, NEW base,
           base = [o \in Orders |-> base[o]], NEW o \in Orders
    PROVE  Coming(list, base)'[o] = Coming(list, base)[o]
  BY DEF Coming, Heard, OnOrders, OnTrades

\* Something is said behind what is on its way.
Said(t) ==
    /\ feed' = feed \o t
    /\ t \in Seq([about : Lists, id : Orders, status : Status])

\* What is behind what was on its way.
LEMMA SaidIs ==
    ASSUME FeedOK, NEW t, Said(t)
    PROVE  /\ Len(feed) \in Nat /\ Len(t) \in Nat /\ DOMAIN t = 1..Len(t)
           /\ DOMAIN feed' = 1..Len(feed) + Len(t)
           /\ \A i \in DOMAIN feed : i \in DOMAIN feed' /\ feed'[i] = feed[i]
           /\ \A i \in DOMAIN t : Len(feed) + i \in DOMAIN feed' /\ feed'[Len(feed) + i] = t[i]
           /\ \A i \in DOMAIN feed' : i \in DOMAIN feed \/ \E j \in DOMAIN t : i = Len(feed) + j
<1>1. /\ feed \in Seq([about : Lists, id : Orders, status : Status])
      /\ feed' = feed \o t /\ t \in Seq([about : Lists, id : Orders, status : Status])
  BY DEF FeedOK, Said
<1>2. /\ Len(feed) \in Nat /\ Len(t) \in Nat /\ DOMAIN t = 1..Len(t)
      /\ DOMAIN feed = 1..Len(feed) /\ DOMAIN feed' = 1..Len(feed) + Len(t)
  BY <1>1
<1>3. \A i \in 1..Len(feed) + Len(t) :
        feed'[i] = IF i <= Len(feed) THEN feed[i] ELSE t[i - Len(feed)]
  BY <1>1
<1>4. \A i \in DOMAIN feed : i \in DOMAIN feed' /\ feed'[i] = feed[i]
  BY <1>2, <1>3
<1>5. \A i \in DOMAIN t : Len(feed) + i \in DOMAIN feed' /\ feed'[Len(feed) + i] = t[i]
  BY <1>2, <1>3
<1>6. ASSUME NEW i \in DOMAIN feed', i \notin DOMAIN feed
      PROVE  \E j \in DOMAIN t : i = Len(feed) + j
  <2>1. i - Len(feed) \in DOMAIN t /\ i = Len(feed) + (i - Len(feed))
    BY <1>2, <1>6
  <2> QED
    BY <2>1
<1> QED
  BY <1>2, <1>4, <1>5, <1>6

\* Nothing of it is about the order: its row stays what it will be.
LEMMA ComingPast ==
    ASSUME FeedOK, FeedOK', UNCHANGED page, NEW t, Said(t), NEW list \in Lists, NEW base,
           base = [o \in Orders |-> base[o]], NEW o \in Orders,
           \A i \in DOMAIN t : ~(t[i].about = list /\ t[i].id = o)
    PROVE  Coming(list, base)'[o] = Coming(list, base)[o]
<1>1. Heard(list, o)' = Heard(list, o)
  BY SaidIs DEF Heard
<1>2. CASE Heard(list, o) = {} \/ MarketOf[o] # page.market
  <2>1. Coming(list, base)[o] = base[o]
    BY <1>2, ComingIs
  <2>2. Coming(list, base)'[o] = base[o]
    BY <1>1, <1>2, RowNext
  <2> QED
    BY <2>1, <2>2
<1>3. CASE Heard(list, o) # {} /\ MarketOf[o] = page.market
  <2> PICK k : LastHeard(k, list, o)
    BY <1>3, LastIs
  <2>1. LastHeard(k, list, o)'
    BY <1>1 DEF LastHeard
  <2>2. feed'[k] = feed[k]
    BY SaidIs DEF LastHeard, Heard
  <2>3. Coming(list, base)[o] = Kept(list, feed[k].status)
    BY <1>3, ComingIs
  <2>4. Coming(list, base)'[o] = Kept(list, feed'[k].status)
    BY <1>3, <2>1, RowNext DEF Kept
  <2> QED
    BY <2>2, <2>3, <2>4
<1> QED
  BY <1>2, <1>3

\* One message of it is: it decides on the row.
LEMMA ComingSaid ==
    ASSUME FeedOK, FeedOK', UNCHANGED page, NEW t, Said(t), NEW list \in Lists, NEW base,
           base = [o \in Orders |-> base[o]], NEW o \in Orders, MarketOf[o] = page.market,
           NEW i \in DOMAIN t, t[i].about = list, t[i].id = o,
           \A j \in DOMAIN t : j > i => ~(t[j].about = list /\ t[j].id = o)
    PROVE  Coming(list, base)'[o] = Kept(list, t[i].status)
<1> PICK k : k = Len(feed) + i
  OBVIOUS
<1>1. k \in DOMAIN feed' /\ feed'[k] = t[i]
  BY SaidIs
<1>2. ASSUME NEW l \in Heard(list, o)' PROVE l <= k
  <2>1. l \in DOMAIN feed' /\ feed'[l].about = list /\ feed'[l].id = o
    BY <1>2 DEF Heard
  <2>2. CASE l \in DOMAIN feed
    <3>1. l \in 1..Len(feed) /\ Len(feed) \in Nat /\ i \in Nat
      BY <2>2, SaidIs, FeedKnown
    <3> QED
      BY <3>1
  <2>3. ASSUME NEW j \in DOMAIN t, l = Len(feed) + j PROVE l <= k
    <3>1. t[j].about = list /\ t[j].id = o
      BY <2>1, <2>3, SaidIs
    <3>2. ~(j > i) /\ j \in Nat /\ i \in Nat /\ Len(feed) \in Nat
      BY <3>1, SaidIs
    <3> QED
      BY <2>3, <3>2
  <2> QED
    BY <2>1, <2>2, <2>3, SaidIs
<1>3. LastHeard(k, list, o)'
  BY <1>1, <1>2 DEF LastHeard, Heard
<1>4. Coming(list, base)'[o] = Kept(list, feed'[k].status)
  BY <1>3, RowNext DEF Kept
<1> QED
  BY <1>1, <1>4

\* Taking the first message changes no row's future.
LEMMA ComingTaken ==
    ASSUME FeedOK, FeedOK', UNCHANGED page, feed # <<>>, feed' = Tail(feed),
           NEW list \in Lists, NEW base, base = [o \in Orders |-> base[o]],
           NEW after, after = OnList(list, base, Head(feed)), NEW o \in Orders
    PROVE  Coming(list, after)'[o] = Coming(list, base)[o]
<1>1. /\ Len(feed) \in Nat /\ 1 \in DOMAIN feed /\ Head(feed) = feed[1]
      /\ DOMAIN feed = 1..Len(feed) /\ DOMAIN feed' = 1..Len(feed) - 1
      /\ \A i \in DOMAIN feed' : i + 1 \in DOMAIN feed /\ feed'[i] = feed[i + 1]
  <2>1. feed \in Seq([about : Lists, id : Orders, status : Status])
    BY DEF FeedOK
  <2>2. Len(feed) \in Nat /\ Len(feed) > 0 /\ DOMAIN feed = 1..Len(feed) /\ Head(feed) = feed[1]
    BY <2>1
  <2>3. DOMAIN feed' = 1..Len(feed) - 1 /\ \A i \in 1..Len(feed) - 1 : feed'[i] = feed[i + 1]
    BY <2>1, <2>2
  <2> QED
    BY <2>2, <2>3
<1>2. /\ after = [p \in Orders |-> after[p]]
      /\ after[o] = IF feed[1].about = list /\ feed[1].id = o /\ MarketOf[o] = page.market
                    THEN Kept(list, feed[1].status) ELSE base[o]
  BY <1>1, FeedKnown, OnListIs
<1>3. CASE MarketOf[o] # page.market
  <2>1. Coming(list, base)[o] = base[o] /\ after[o] = base[o]
    BY <1>2, <1>3, ComingIs
  <2>2. Coming(list, after)'[o] = after[o]
    BY <1>2, <1>3, RowNext
  <2> QED
    BY <2>1, <2>2
<1>4. CASE MarketOf[o] = page.market /\ Heard(list, o)' = {}
  <2>1. \A i \in DOMAIN feed : feed[i].about = list /\ feed[i].id = o => i = 1
    <3> SUFFICES ASSUME NEW i \in DOMAIN feed, i # 1, feed[i].about = list, feed[i].id = o
                 PROVE  FALSE
      OBVIOUS
    <3>1. i - 1 \in DOMAIN feed' /\ (i - 1) + 1 = i
      BY <1>1
    <3>2. i - 1 \in Heard(list, o)'
      BY <1>1, <3>1 DEF Heard
    <3> QED
      BY <1>4, <3>2
  <2>2. Coming(list, after)'[o] = after[o]
    BY <1>2, <1>4, RowNext
  <2>3. CASE feed[1].about = list /\ feed[1].id = o
    <3>1. LastHeard(1, list, o)
      BY <1>1, <2>1, <2>3 DEF LastHeard, Heard
    <3> QED
      BY <1>2, <1>4, <2>2, <2>3, <3>1, ComingIs
  <2>4. CASE ~(feed[1].about = list /\ feed[1].id = o)
    <3>1. Heard(list, o) = {}
      BY <2>1, <2>4 DEF Heard
    <3>2. Coming(list, base)[o] = base[o]
      BY <3>1, ComingIs
    <3> QED
      BY <1>2, <2>2, <2>4, <3>2
  <2> QED
    BY <2>3, <2>4
<1>5. CASE MarketOf[o] = page.market /\ Heard(list, o)' # {}
  <2> PICK k : LastHeard(k, list, o)'
    BY <1>5, LastNext
  <2>1. k \in DOMAIN feed' /\ feed'[k].about = list /\ feed'[k].id = o
    BY DEF LastHeard, Heard
  <2>2. ASSUME NEW j \in Heard(list, o) PROVE j <= k + 1
    <3>1. j \in 1..Len(feed) /\ k \in Nat
      BY <1>1, <2>1 DEF Heard
    <3>2. CASE j = 1
      BY <3>1, <3>2
    <3>3. CASE j # 1
      <4>1. j - 1 \in DOMAIN feed' /\ (j - 1) + 1 = j
        BY <1>1, <3>1, <3>3
      <4>2. j - 1 \in Heard(list, o)'
        BY <1>1, <4>1 DEF Heard
      <4>3. j - 1 <= k
        BY <4>2 DEF LastHeard
      <4> QED
        BY <3>1, <4>3
    <3> QED
      BY <3>2, <3>3
  <2>3. LastHeard(k + 1, list, o) /\ feed'[k] = feed[k + 1]
    BY <1>1, <2>1, <2>2 DEF LastHeard, Heard
  <2>4. Coming(list, base)[o] = Kept(list, feed[k + 1].status)
    BY <1>5, <2>3, ComingIs
  <2>5. Coming(list, after)'[o] = Kept(list, feed'[k].status)
    <3>1. MarketOf[o] = page'.market
      BY <1>5
    <3>2. RowTold(list, after, o)'
      BY <1>2, KnownNext DEF RowKnown
    <3> QED
      BY <3>1, <3>2 DEF RowTold, Kept
  <2> QED
    BY <2>3, <2>4, <2>5
<1> QED
  BY <1>3, <1>4, <1>5

---------------------------------------------------------------------------
(* The invariant of the lists *)

Over == {"matched", "settled", "canceled"}

ListTypes ==
    /\ orders \in [Orders -> {"none"} \cup Pending] /\ trades \in [Orders -> {"none"} \cup Traded]
    /\ book \in [Orders -> Status] /\ canceling \subseteq Orders
    /\ agreed \in [Lists -> BOOLEAN]

\* What is shown or being canceled has been in the engine.
Born == \A o \in Orders : orders[o] # "none" \/ o \in canceling => book[o] # "none"

\* An answer is a list of orders that have been in the engine; an order whose cancel was
\* accepted has its cancel in the queue, or is not open any more.
RequestOK(r) ==
    /\ "answer" \in DOMAIN r
    /\ r.op = "orders" /\ r.answer # None =>
         /\ r.answer \in [Orders -> {"none"} \cup Pending]
         /\ \A o \in Orders : r.answer[o] # "none" => book[o] # "none"
    /\ r.op = "trades" /\ r.answer # None => r.answer \in [Orders -> {"none"} \cup Traded]
    /\ r.op = "cancel" =>
         /\ r.about \in Orders /\ book[r.about] # "none"
         /\ r.answer # None /\ r.about \notin canceling => book[r.about] \in Over

\* Before the markets are loaded nothing is asked for and no list is loaded.
Blank ==
    page.market = None =>
      /\ requests = {} /\ signing = {} /\ orders = Nothing
      /\ ~agreed.orders /\ ~agreed.trades

Facts ==
    /\ ListTypes /\ FeedOK /\ Born /\ Blank
    /\ \A r \in requests : RequestOK(r)

ListInv == PageInv /\ Facts /\ ListsFollow

---------------------------------------------------------------------------
(* The facts behind it *)

\* An order that has been in the engine never opens again once it is matched or canceled.
Grow ==
    \A o \in Orders :
      /\ book[o] # "none" => book'[o] # "none"
      /\ book[o] \in Over => book'[o] \in Over
      /\ o \in canceling /\ o \notin canceling' => book'[o] \in Over

\* What is known of a request stays true as the book grows.
LEMMA RequestKept == ASSUME Grow, NEW r, RequestOK(r) PROVE RequestOK(r)'
  BY DEF Grow, RequestOK

\* So does what is known of a message.
LEMMA MessageKept == ASSUME Grow, NEW m, MessageOK(m) PROVE MessageOK(m)'
  BY DEF Grow, MessageOK

\* Nothing changed in the engine.
LEMMA GrowQuiet == ASSUME UNCHANGED book, canceling \subseteq canceling' PROVE Grow
  BY DEF Grow

\* The requests of Ask are not answered yet.
LEMMA AskedOK ==
    ASSUME NEW ops, NEW p, Ask(ops, p), Grow, \A r \in requests : RequestOK(r),
           \A op \in ops : op[1] = "cancel" => op[2] \in Orders /\ book'[op[2]] # "none"
    PROVE  \A r \in requests' : RequestOK(r)'
<1> SUFFICES ASSUME NEW r \in requests' PROVE RequestOK(r)'
  OBVIOUS
<1>1. CASE r \in requests
  BY <1>1, RequestKept
<1>2. CASE r \notin requests
  <2>1. PICK op \in ops : r = Request(op[1], op[2], p, guests)
    BY <1>2 DEF Ask
  <2>2. r.op = op[1] /\ r.about = op[2] /\ r.answer = None /\ "answer" \in DOMAIN r
    BY <2>1 DEF Request
  <2> QED
    BY <2>2 DEF RequestOK
<1> QED
  BY <1>1, <1>2

\* The facts are kept by steps that change neither the engine nor the lists.
LEMMA QuietFacts ==
    ASSUME Facts, UNCHANGED <<orders, trades, book, feed, canceling>>,
           agreed' \in [Lists -> BOOLEAN], \A r \in requests' : RequestOK(r)', Blank'
    PROVE  Facts'
<1>1. Grow
  BY GrowQuiet
<1>2. ListTypes' /\ Born' /\ FeedOK'
  BY DEF Facts, ListTypes, Born, FeedOK, MessageOK
<1> QED
  BY <1>2 DEF Facts

\* What the lists in view ask for is no cancel.
LEMMA NoCancelAsked ==
    ASSUME NEW q \in Page
    PROVE  /\ \A op \in LoadOnMount(q) : op[1] # "cancel"
           /\ \A p : \A op \in LoadOnUpdate(p, q) : op[1] # "cancel"
           /\ \A m : \A op \in HistoryOf(m) : op[1] # "cancel"
<1>1. q.view # None => q.view # "cancel"
  BY DEF Page, Lists
<1> QED
  BY <1>1 DEF LoadOnMount, LoadOnUpdate, HistoryOf

---------------------------------------------------------------------------
(* The lists follow, order by order *)

OrderFollows(o) ==
    /\ o \in Mine(page) \ canceling => (Coming("orders", orders)[o] = "open" <=> book[o] = "open")
    /\ Coming("orders", orders)[o] = "open" => MarketOf[o] = page.market

TradeFollows(o) ==
    /\ o \in Mine(page) =>
         Coming("trades", trades)[o] = IF book[o] \in Traded THEN book[o] ELSE "none"
    /\ Coming("trades", trades)[o] # "none" => MarketOf[o] = page.market

\* The lists follow when every order's row does.
LEMMA ByOrder ==
    /\ OrdersFollow(orders) <=> \A o \in Orders : OrderFollows(o)
    /\ TradesFollow(trades) <=> \A o \in Orders : TradeFollows(o)
<1>1. OrdersFollow(orders) <=> \A o \in Orders : OrderFollows(o)
  BY DEF OrdersFollow, OrderFollows, OpenRows, Mine
<1>2. TradesFollow(trades) <=> \A o \in Orders : TradeFollows(o)
  BY DEF TradesFollow, TradeFollows, TradeRows, Mine, Traded
<1> QED
  BY <1>1, <1>2

\* The same in the next state.
LEMMA ByOrderNext ==
    /\ OrdersFollow(orders)' <=> \A o \in Orders : OrderFollows(o)'
    /\ TradesFollow(trades)' <=> \A o \in Orders : TradeFollows(o)'
<1>1. (/\ OrdersFollow(orders) <=> \A o \in Orders : OrderFollows(o)
       /\ TradesFollow(trades) <=> \A o \in Orders : TradeFollows(o))'
  BY ByOrder, PTL
<1> QED
  BY <1>1

\* The lists follow after a step that keeps every row following.
LEMMA RowsStep ==
    ASSUME ListsFollow,
           agreed'.orders => agreed.orders /\ \A o \in Orders : OrderFollows(o) => OrderFollows(o)',
           agreed'.trades => agreed.trades /\ \A o \in Orders : TradeFollows(o) => TradeFollows(o)'
    PROVE  ListsFollow'
<1>1. agreed'.orders => OrdersFollow(orders)'
  BY ByOrder, ByOrderNext DEF ListsFollow
<1>2. agreed'.trades => TradesFollow(trades)'
  BY ByOrder, ByOrderNext DEF ListsFollow
<1> QED
  BY <1>1, <1>2 DEF ListsFollow

\* Nothing the lists are about has changed, but that a cancel may be queued.
LEMMA QuietFollow ==
    ASSUME ListsFollow, UNCHANGED <<orders, trades, book, feed, agreed>>,
           canceling \subseteq canceling',
           page'.market = page.market, page'.account = page.account
    PROVE  ListsFollow'
<1>1. \A base : /\ Coming("orders", base)' = Coming("orders", base)
                /\ Coming("trades", base)' = Coming("trades", base)
  BY DEF Coming, Heard, OnOrders, OnTrades
<1>2. Mine(page)' = Mine(page)
  BY DEF Mine
<1>3. PICK base : base = orders /\ orders' = base
  OBVIOUS
<1>4. PICK made : made = trades /\ trades' = made
  OBVIOUS
<1>5. ASSUME NEW o \in Orders, OrderFollows(o) PROVE OrderFollows(o)'
  <2>1. Coming("orders", orders)' = Coming("orders", orders)
    BY <1>1, <1>3
  <2> QED
    BY <1>2, <1>5, <2>1 DEF OrderFollows
<1>6. ASSUME NEW o \in Orders, TradeFollows(o) PROVE TradeFollows(o)'
  <2>1. Coming("trades", trades)' = Coming("trades", trades)
    BY <1>1, <1>4
  <2> QED
    BY <1>2, <1>6, <2>1 DEF TradeFollows
<1> QED
  BY <1>5, <1>6, RowsStep

---------------------------------------------------------------------------
(* What the page does *)

\* The lists go on and the page asks for something that is no cancel.
LEMMA PageAsks ==
    ASSUME ListInv, UNCHANGED <<orders, trades, book, canceling, feed, agreed>>,
           page'.market = page.market, page'.account = page.account, page.market # None,
           NEW ops, NEW p, Ask(ops, p), \A op \in ops : op[1] # "cancel"
    PROVE  Facts' /\ ListsFollow'
<1>1. Grow
  BY GrowQuiet
<1>2. \A r \in requests' : RequestOK(r)'
  BY <1>1, AskedOK DEF ListInv, Facts
<1>3. Blank'
  BY DEF Blank
<1>4. agreed' \in [Lists -> BOOLEAN]
  BY DEF ListInv, Facts, ListTypes
<1> QED
  BY <1>2, <1>3, <1>4, QuietFacts, QuietFollow DEF ListInv

\* Nothing is on a list of a page that has no market yet.
LEMMA NotAgreed ==
    ASSUME Facts', ~agreed'.orders, ~agreed'.trades PROVE Facts' /\ ListsFollow'
  BY DEF ListsFollow

\* No list is loaded when the page appears.
LEMMA LoadMarketsFollow == ASSUME ListInv, LoadMarkets PROVE Facts' /\ ListsFollow'
<1> DEFINE p == [page EXCEPT !.market = FirstMarket]
           q == IF HasToken(p) THEN Login(p, p.account) ELSE p
           ops == HistoryOf(FirstMarket) \cup LoadOnMount(q)
<1>1. page \in Page /\ page.market = None
  BY DEF ListInv, PageInv, LoadMarkets
<1>2. page' = q /\ Ask(ops, q) /\ UNCHANGED <<orders, trades, book, canceling, feed, agreed>>
  BY DEF LoadMarkets
<1>3. ~agreed.orders /\ ~agreed.trades
  BY <1>1 DEF ListInv, Facts, Blank
<1>4. FirstMarket \in Markets
  BY PageAssumption DEF FirstMarket
<1>5. p \in Page /\ p.market = FirstMarket
  BY <1>1, <1>4 DEF Page
<1> HIDE DEF p
<1>6. q \in Page /\ q.market = FirstMarket
  BY <1>5 DEF Login, Page, HasToken
<1> HIDE DEF q
<1>7. \A op \in ops : op[1] # "cancel"
  BY <1>6, NoCancelAsked
<1> HIDE DEF ops
<1>8. \A r \in requests' : RequestOK(r)'
  <2>1. Grow /\ \A r \in requests : RequestOK(r)
    BY <1>2, GrowQuiet DEF ListInv, Facts
  <2> QED
    BY <1>2, <1>7, <2>1, AskedOK
<1>9. Blank'
  BY <1>2, <1>4, <1>6, PageAssumption DEF Blank
<1>10. agreed' \in [Lists -> BOOLEAN]
  BY <1>2 DEF ListInv, Facts, ListTypes
<1> QED
  BY <1>2, <1>3, <1>8, <1>9, <1>10, QuietFacts, NotAgreed DEF ListInv

\* After a change of market no list is known to agree.
LEMMA SelectMarketFollow ==
    ASSUME ListInv, NEW m \in Markets, SelectMarket(m) PROVE Facts' /\ ListsFollow'
<1> DEFINE q == [page EXCEPT !.market = m]
           ops == HistoryOf(m) \cup LoadOnUpdate(page, q)
<1>1. page' = q /\ Ask(ops, q) /\ UNCHANGED <<orders, trades, book, canceling, feed>>
  BY DEF SelectMarket
<1>2. q \in Page /\ q.market = m
  BY DEF Page, ListInv, PageInv
<1> HIDE DEF q
<1>3. \A op \in ops : op[1] # "cancel"
  BY <1>2, NoCancelAsked
<1> HIDE DEF ops
<1>4. ~agreed'.orders /\ ~agreed'.trades /\ agreed' \in [Lists -> BOOLEAN]
  BY DEF SelectMarket, Changed, Lists
<1>5. \A r \in requests' : RequestOK(r)'
  <2>1. Grow /\ \A r \in requests : RequestOK(r)
    BY <1>1, GrowQuiet DEF ListInv, Facts
  <2> QED
    BY <1>1, <1>3, <2>1, AskedOK
<1>6. Blank'
  BY <1>1, <1>2, PageAssumption DEF Blank
<1> QED
  BY <1>1, <1>4, <1>5, <1>6, QuietFacts, NotAgreed DEF ListInv

\* Nor after a change of account.
LEMMA SelectAccountFollow ==
    ASSUME ListInv, NEW a \in Accounts \cup {None}, SelectAccount(a) PROVE Facts' /\ ListsFollow'
<1> DEFINE p == [page EXCEPT !.account = a]
           q == IF page.market # None /\ HasToken(p) THEN Login(p, a) ELSE p
           ops == LoadOnUpdate(page, p) \cup LoadOnUpdate(p, q)
<1>1. /\ page' = q /\ UNCHANGED <<orders, trades, book, canceling, feed, signing>>
      /\ IF page.market = None THEN UNCHANGED requests ELSE Ask(ops, q)
  BY DEF SelectAccount
<1>2. p \in Page /\ p.market = page.market /\ p.account = a
  BY DEF Page, ListInv, PageInv
<1> HIDE DEF p
<1>3. q \in Page /\ q.market = page.market
  BY <1>2 DEF Login, Page, HasToken
<1> HIDE DEF q
<1>4. \A op \in ops : op[1] # "cancel"
  BY <1>2, <1>3, NoCancelAsked
<1> HIDE DEF ops
<1>5. ~agreed'.orders /\ ~agreed'.trades /\ agreed' \in [Lists -> BOOLEAN]
  BY DEF SelectAccount, Changed, Lists
<1>6. \A r \in requests' : RequestOK(r)'
  <2>1. Grow /\ \A r \in requests : RequestOK(r)
    BY <1>1, GrowQuiet DEF ListInv, Facts
  <2>2. CASE Ask(ops, q)
    BY <1>4, <2>1, <2>2, AskedOK
  <2>3. CASE UNCHANGED requests
    BY <2>1, <2>3, RequestKept
  <2> QED
    BY <1>1, <2>2, <2>3
<1>7. Blank'
  BY <1>1, <1>3, <1>5 DEF Blank, ListInv, Facts
<1> QED
  BY <1>1, <1>5, <1>6, <1>7, QuietFacts, NotAgreed DEF ListInv

\* Another list in view is asked for.
LEMMA ShowFollow ==
    ASSUME ListInv, NEW layout \in Layouts, NEW view \in Lists \cup {None}, Show(layout, view)
    PROVE  Facts' /\ ListsFollow'
<1> DEFINE q == [page EXCEPT !.layout = layout, !.view = view]
<1>1. /\ page' = q /\ Ask(LoadOnMount(q), q) /\ page.market # None
      /\ UNCHANGED <<orders, trades, book, canceling, feed, agreed>>
  BY DEF Show
<1>2. q \in Page /\ q.market = page.market /\ q.account = page.account
  BY DEF Page, ListInv, PageInv
<1> HIDE DEF q
<1>3. \A op \in LoadOnMount(q) : op[1] # "cancel"
  BY <1>2, NoCancelAsked
<1> QED
  BY <1>1, <1>2, <1>3, PageAsks

\* A login asks for what is in view.
LEMMA SignedFollow == ASSUME ListInv, NEW a \in Accounts, Signed(a) PROVE Facts' /\ ListsFollow'
<1> DEFINE q == Login([page EXCEPT !.saved = @ \cup {a}], a)
<1>1. /\ page' = q /\ Ask(LoadOnUpdate(page, q), q) /\ a \in signing
      /\ UNCHANGED <<orders, trades, book, canceling, feed, agreed>>
  BY DEF Signed
<1>2. q \in Page /\ q.market = page.market /\ q.account = page.account
  BY DEF Page, ListInv, PageInv, Login
<1> HIDE DEF q
<1>3. \A op \in LoadOnUpdate(page, q) : op[1] # "cancel"
  BY <1>2, NoCancelAsked
<1>4. page.market # None
  BY <1>1 DEF ListInv, Facts, Blank
<1> QED
  BY <1>1, <1>2, <1>3, <1>4, PageAsks

\* The row that is canceled has been in the engine.
LEMMA AskCancelFollow ==
    ASSUME ListInv, NEW o \in Orders, AskCancel(o) PROVE Facts' /\ ListsFollow'
<1>1. /\ Ask({<<"cancel", o>>}, page) /\ orders[o] = "open"
      /\ UNCHANGED <<page, orders, trades, book, canceling, feed, agreed>>
  BY DEF AskCancel, OpenRows
<1>2. book'[o] # "none"
  BY <1>1 DEF ListInv, Facts, Born
<1>3. page.market # None
  BY <1>1 DEF ListInv, Facts, Blank, Nothing
<1>4. \A r \in requests' : RequestOK(r)'
  <2>1. Grow /\ \A r \in requests : RequestOK(r)
    BY <1>1, GrowQuiet DEF ListInv, Facts
  <2>2. \A op \in {<<"cancel", o>>} : op[1] = "cancel" => op[2] \in Orders /\ book'[op[2]] # "none"
    BY <1>2
  <2>3. PICK ops, p : ops = {<<"cancel", o>>} /\ p = page
    OBVIOUS
  <2>4. Ask(ops, p)
    BY <1>1, <2>3
  <2>5. \A op \in ops : op[1] = "cancel" => op[2] \in Orders /\ book'[op[2]] # "none"
    BY <2>2, <2>3
  <2> QED
    BY <2>1, <2>4, <2>5, AskedOK
<1>5. Blank' /\ agreed' \in [Lists -> BOOLEAN]
  BY <1>1, <1>3 DEF Blank, ListInv, Facts, ListTypes
<1> QED
  BY <1>1, <1>4, <1>5, QuietFacts, QuietFollow DEF ListInv

\* Requests end, sessions end or begin to be asked for, channels come and go.
LEMMA RestFollow ==
    ASSUME ListInv, UNCHANGED <<orders, trades, book, canceling, feed, agreed>>,
           page'.market = page.market, page'.account = page.account,
           requests' \subseteq requests, page.market = None => signing' \subseteq signing
    PROVE  Facts' /\ ListsFollow'
<1>1. Grow
  BY GrowQuiet
<1>2. \A r \in requests' : RequestOK(r)'
  BY <1>1, RequestKept DEF ListInv, Facts
<1>3. Blank' /\ agreed' \in [Lists -> BOOLEAN]
  BY DEF Blank, ListInv, Facts, ListTypes
<1> QED
  BY <1>2, <1>3, QuietFacts, QuietFollow DEF ListInv

\* The steps that are neither the engine's nor about the lists.
LEMMA RestSteps ==
    ASSUME ListInv,
           \/ LoginRequest \/ Subscribed \/ UNCHANGED pageVars
           \/ \E a \in Accounts : Refused(a) \/ Unsubscribed(a)
           \/ \E r \in requests : Failed(r) \/ Rejected(r) \/ LoadTradeHistory(r)
    PROVE  Facts' /\ ListsFollow'
<1>1. CASE \E r \in requests : Rejected(r)
  <2>1. PICK r \in requests : Rejected(r)
    BY <1>1
  <2>2. page'.market = page.market /\ page'.account = page.account
    BY <2>1 DEF Rejected, Logout, ListInv, PageInv, Page
  <2> QED
    BY <2>1, <2>2, RestFollow DEF Rejected
<1>2. CASE \/ LoginRequest \/ Subscribed \/ UNCHANGED pageVars
           \/ \E a \in Accounts : Refused(a) \/ Unsubscribed(a)
           \/ \E r \in requests : Failed(r) \/ LoadTradeHistory(r)
  <2>1. /\ UNCHANGED <<page, orders, trades, book, canceling, feed, agreed>>
        /\ requests' \subseteq requests /\ (page.market = None => signing' \subseteq signing)
    BY <1>2 DEF LoginRequest, Subscribed, pageVars, Refused, Unsubscribed, Failed,
                LoadTradeHistory, Answered
  <2> QED
    BY <2>1, RestFollow
<1> QED
  BY <1>1, <1>2

---------------------------------------------------------------------------
(* What the API answers *)

\* The answer to a request for a list is made of what is in the book.
LEMMA SelectIs ==
    ASSUME ListTypes, NEW list \in Lists, NEW p, NEW S \in SUBSET Rows(list, p)
    PROVE  /\ \A o \in Orders : Select(S)[o] # "none" => book[o] # "none"
           /\ list = "orders" => Select(S) \in [Orders -> {"none"} \cup Pending]
           /\ list = "trades" => Select(S) \in [Orders -> {"none"} \cup Traded]
<1>1. \A o \in S : o \in Orders /\ book[o] \in IF list = "orders" THEN Pending ELSE Traded
  BY DEF Rows, Mine, Traded
<1>2. \A o \in Orders : Select(S)[o] = IF o \in S THEN book[o] ELSE "none"
  BY DEF Select
<1>3. Select(S) = [o \in Orders |-> Select(S)[o]]
  BY DEF Select
<1> QED
  BY <1>1, <1>2, <1>3 DEF Pending, Traded

\* The API answers from the book, or queues a cancel.
LEMMA ServeFollow == ASSUME ListInv, NEW r \in requests, Serve(r) PROVE Facts' /\ ListsFollow'
<1>1. /\ UNCHANGED <<page, orders, trades, book, feed, agreed, signing>>
      /\ r.answer = None /\ RequestOK(r) /\ ListTypes
  BY DEF Serve, ListInv, Facts
<1>2. \A x : /\ [r EXCEPT !.answer = x].op = r.op /\ [r EXCEPT !.answer = x].about = r.about
             /\ [r EXCEPT !.answer = x].answer = x /\ "answer" \in DOMAIN [r EXCEPT !.answer = x]
  BY <1>1 DEF RequestOK
<1>3. canceling \subseteq canceling' /\ canceling' \subseteq Orders
      /\ (\A o \in canceling' : o \in canceling \/ book[o] # "none")
  BY <1>1 DEF Serve, ServeList, ServeCancel, RequestOK, ListTypes, Pending
<1>4. Grow
  BY <1>1, <1>3, GrowQuiet
<1>5. \A s \in requests' : s \in requests \/ RequestOK(s)'
  <2>1. CASE ServeList(r)
    <3>1. PICK S \in SUBSET Rows(r.op, r) :
            requests' = (requests \ {r}) \cup {[r EXCEPT !.answer = Select(S)]}
      BY <2>1 DEF ServeList
    <3> DEFINE s == [r EXCEPT !.answer = Select(S)]
    <3>2. s.op = r.op /\ s.op \in Lists /\ s.answer = Select(S) /\ "answer" \in DOMAIN s
      BY <1>2, <2>1 DEF ServeList
    <3> HIDE DEF s
    <3>3. /\ \A o \in Orders : s.answer[o] # "none" => book'[o] # "none"
          /\ s.op = "orders" => s.answer \in [Orders -> {"none"} \cup Pending]
          /\ s.op = "trades" => s.answer \in [Orders -> {"none"} \cup Traded]
      BY <1>1, <3>2, SelectIs
    <3>4. PICK t : t = s
      OBVIOUS
    <3>5. RequestOK(t)'
      BY <3>2, <3>3, <3>4 DEF RequestOK, Lists
    <3> QED
      BY <3>1, <3>4, <3>5 DEF s
  <2>2. CASE ServeCancel(r)
    <3> DEFINE s == [r EXCEPT !.answer = Nothing]
    <3>1. requests' = (requests \ {r}) \cup {s} /\ r.op = "cancel"
          /\ canceling' = IF book[r.about] \in Pending THEN canceling \cup {r.about} ELSE canceling
      BY <2>2 DEF ServeCancel
    <3>2. s.op = r.op /\ s.about = r.about /\ "answer" \in DOMAIN s
      BY <1>2
    <3> HIDE DEF s
    <3>3. /\ s.about \in Orders /\ book'[s.about] # "none"
          /\ s.about \notin canceling' => book'[s.about] \in Over
      BY <1>1, <3>1, <3>2 DEF RequestOK, ListTypes, Status, Pending, Over
    <3>4. PICK t : t = s
      OBVIOUS
    <3>5. RequestOK(t)'
      BY <3>1, <3>2, <3>3, <3>4 DEF RequestOK
    <3> QED
      BY <3>1, <3>4, <3>5
  <2> QED
    BY <2>1, <2>2 DEF Serve
<1>6. \A s \in requests' : RequestOK(s)'
  BY <1>4, <1>5, RequestKept DEF ListInv, Facts
<1>7. Blank'
  BY <1>1 DEF Blank, ListInv, Facts
<1>8. ListTypes' /\ Born' /\ FeedOK'
  BY <1>1, <1>3 DEF ListInv, Facts, ListTypes, Born, FeedOK, MessageOK
<1>9. ListsFollow'
  BY <1>1, <1>3, QuietFollow DEF ListInv
<1> QED
  BY <1>6, <1>7, <1>8, <1>9 DEF Facts

\* The facts are kept when an answer is taken.
LEMMA TakenFacts ==
    ASSUME ListInv, UNCHANGED <<page, book, canceling, feed, signing>>,
           requests' \subseteq requests,
           orders' \in [Orders -> {"none"} \cup Pending],
           trades' \in [Orders -> {"none"} \cup Traded], agreed' \in [Lists -> BOOLEAN],
           \A o \in Orders : orders'[o] # "none" => book[o] # "none", page.market # None
    PROVE  Facts'
<1>1. Grow
  BY GrowQuiet
<1>2. \A r \in requests' : RequestOK(r)'
  BY <1>1, RequestKept DEF ListInv, Facts
<1>3. ListTypes' /\ Born' /\ FeedOK' /\ Blank'
  BY DEF ListInv, Facts, ListTypes, Born, FeedOK, MessageOK, Blank
<1> QED
  BY <1>2, <1>3 DEF Facts

\* What a list will be depends on what it is, the feed and the market.
LEMMA SameFuture ==
    ASSUME UNCHANGED <<page, feed, book, canceling>>, NEW base
    PROVE  /\ OrdersFollow(base)' <=> OrdersFollow(base)
           /\ TradesFollow(base)' <=> TradesFollow(base)
<1>1. /\ Coming("orders", base)' = Coming("orders", base)
      /\ Coming("trades", base)' = Coming("trades", base)
  BY DEF Coming, Heard, OnOrders, OnTrades
<1>2. Mine(page)' = Mine(page)
  BY DEF Mine
<1> QED
  BY <1>1, <1>2 DEF OrdersFollow, TradesFollow, OpenRows, TradeRows

\* A list that is loaded is compared with the engine then and there.
LEMMA LoadFollow ==
    ASSUME ListInv, NEW r \in requests, LoadOrders(r) \/ LoadTrades(r) PROVE Facts' /\ ListsFollow'
<1>1. /\ UNCHANGED <<page, book, canceling, feed, signing>> /\ requests' \subseteq requests
      /\ agreed \in [Lists -> BOOLEAN] /\ page.market # None /\ RequestOK(r)
      /\ ListTypes /\ Born
  BY DEF LoadOrders, LoadTrades, Answered, ListInv, Facts, ListTypes, Blank
<1>2. PICK a : a = r.answer
  OBVIOUS
<1>3. CASE LoadOrders(r)
  <2>1. /\ orders' = a /\ trades' = trades
        /\ a \in [Orders -> {"none"} \cup Pending]
        /\ \A o \in Orders : a[o] # "none" => book[o] # "none"
    BY <1>1, <1>2, <1>3 DEF LoadOrders, Answered, RequestOK
  <2>2. agreed' = [agreed EXCEPT !.orders = OrdersFollow(a)]
    BY <1>2, <1>3 DEF LoadOrders
  <2>3. OrdersFollow(a) \in BOOLEAN
    BY DEF OrdersFollow
  <2>4. agreed' \in [Lists -> BOOLEAN] /\ agreed'.orders = OrdersFollow(a)
        /\ agreed'.trades = agreed.trades
    BY <1>1, <2>2, <2>3 DEF Lists
  <2>5. Facts'
    BY <1>1, <2>1, <2>4, TakenFacts DEF ListTypes
  <2>6. agreed'.orders => OrdersFollow(orders)'
    <3>1. OrdersFollow(a)' <=> OrdersFollow(a)
      BY <1>1, SameFuture
    <3> QED
      BY <2>1, <2>4, <3>1
  <2>7. agreed'.trades => TradesFollow(trades)'
    <3>1. PICK base : base = trades /\ trades' = base
      BY <2>1
    <3>2. TradesFollow(base)' <=> TradesFollow(base)
      BY <1>1, SameFuture
    <3> QED
      BY <2>4, <3>1, <3>2 DEF ListInv, ListsFollow
  <2> QED
    BY <2>5, <2>6, <2>7 DEF ListsFollow
<1>4. CASE LoadTrades(r)
  <2>1. /\ trades' = a /\ orders' = orders /\ a \in [Orders -> {"none"} \cup Traded]
    BY <1>1, <1>2, <1>4 DEF LoadTrades, Answered, RequestOK
  <2>2. agreed' = [agreed EXCEPT !.trades = TradesFollow(a)]
    BY <1>2, <1>4 DEF LoadTrades
  <2>3. TradesFollow(a) \in BOOLEAN
    BY DEF TradesFollow
  <2>4. agreed' \in [Lists -> BOOLEAN] /\ agreed'.trades = TradesFollow(a)
        /\ agreed'.orders = agreed.orders
    BY <1>1, <2>2, <2>3 DEF Lists
  <2>5. Facts'
    BY <1>1, <2>1, <2>4, TakenFacts DEF ListTypes, Born
  <2>6. agreed'.trades => TradesFollow(trades)'
    <3>1. TradesFollow(a)' <=> TradesFollow(a)
      BY <1>1, SameFuture
    <3> QED
      BY <2>1, <2>4, <3>1
  <2>7. agreed'.orders => OrdersFollow(orders)'
    <3>1. PICK base : base = orders /\ orders' = base
      BY <2>1
    <3>2. OrdersFollow(base)' <=> OrdersFollow(base)
      BY <1>1, SameFuture
    <3> QED
      BY <2>4, <3>1, <3>2 DEF ListInv, ListsFollow
  <2> QED
    BY <2>5, <2>6, <2>7 DEF ListsFollow
<1> QED
  BY <1>3, <1>4

\* The row that is taken off the list is of an order whose cancel is in the queue, or that
\* is not open any more.
LEMMA CanceledFollow ==
    ASSUME ListInv, NEW r \in requests, Canceled(r) PROVE Facts' /\ ListsFollow'
<1> PICK c, base : c = r.about /\ base = orders
  OBVIOUS
<1>1. /\ UNCHANGED <<page, book, canceling, feed, signing, trades, agreed>>
      /\ requests' \subseteq requests /\ page.market # None
      /\ c \in Orders /\ (c \in canceling \/ book[c] \in Over)
      /\ ListTypes /\ Born /\ FeedOK
  BY DEF Canceled, Answered, ListInv, Facts, RequestOK, Blank
<1>2. /\ base \in [Orders -> {"none"} \cup Pending] /\ orders' = [base EXCEPT ![c] = "none"]
      /\ orders' \in [Orders -> {"none"} \cup Pending]
  BY <1>1 DEF ListTypes, Canceled, CancelOrder
<1>3. Facts'
  BY <1>1, <1>2, TakenFacts DEF ListTypes, Born
<1> PICK after : after = orders'
  OBVIOUS
<1>7. base = [o \in Orders |-> base[o]] /\ after = [o \in Orders |-> after[o]]
  BY <1>2
<1>8. \A o \in Orders : \/ Coming("orders", after)[o] = Coming("orders", base)[o]
                       \/ (Coming("orders", after)[o] = after[o] /\ after[o] # base[o])
  <2>1. FeedOK /\ "orders" \in Lists
    BY <1>1 DEF Lists
  <2> QED
    BY <1>7, <2>1, ComingSame
<1>4. ASSUME NEW o \in Orders, OrderFollows(o) PROVE OrderFollows(o)'
  <2>1. Coming("orders", orders)'[o] = Coming("orders", after)[o]
    <3>1. Coming("orders", after)' = Coming("orders", after)
      BY <1>1 DEF Coming, Heard, OnOrders, OnTrades
    <3> QED
      BY <3>1
  <2>2. CASE o # c
    <3>1. base[o] = after[o]
      BY <1>2, <2>2
    <3>2. Coming("orders", after)[o] = Coming("orders", base)[o]
      BY <1>8, <3>1
    <3> QED
      BY <1>1, <1>4, <2>1, <3>2 DEF OrderFollows, Mine
  <2>3. CASE o = c
    <3>1. Coming("orders", after)[o] \in {"none", Coming("orders", base)[o]}
      BY <1>2, <1>8, <2>3
    <3>2. o \in Mine(page) \ canceling => book[o] # "open"
      BY <1>1, <2>3 DEF Over
    <3> QED
      BY <1>1, <1>4, <2>1, <3>1, <3>2 DEF OrderFollows, Mine
  <2> QED
    BY <2>2, <2>3
<1>5. ASSUME NEW o \in Orders, TradeFollows(o) PROVE TradeFollows(o)'
  <2>1. PICK made : made = trades /\ trades' = made
    BY <1>1
  <2>2. Coming("trades", made)' = Coming("trades", made)
    BY <1>1 DEF Coming, Heard, OnOrders, OnTrades
  <2> QED
    BY <1>1, <1>5, <2>1, <2>2 DEF TradeFollows, Mine
<1>6. agreed' = agreed
  BY <1>1
<1> QED
  BY <1>3, <1>4, <1>5, <1>6, RowsStep DEF ListInv

---------------------------------------------------------------------------
(* What the engine does *)

\* What the engine says of an order.
About(lists) == IF lists = Lists THEN <<"orders", "trades">> ELSE <<"orders">>

Saying(o, status, lists) ==
    [i \in 1..Len(About(lists)) |-> Message(About(lists)[i], o, status)]

\* A function on the positions is a sequence.
LEMMA FunctionSeq == ASSUME NEW T, NEW n \in Nat, NEW f \in [1..n -> T] PROVE f \in Seq(T)
  OBVIOUS

\* It is one message about its orders, and one about its trades when they changed.
LEMMA SayingIs ==
    ASSUME NEW o \in Orders, NEW status \in Status, NEW lists \in {{"orders"}, Lists}
    PROVE  /\ Saying(o, status, lists) \in Seq([about : Lists, id : Orders, status : Status])
           /\ DOMAIN Saying(o, status, lists) = IF lists = Lists THEN 1..2 ELSE 1..1
           /\ Saying(o, status, lists)[1] = Message("orders", o, status)
           /\ lists = Lists => Saying(o, status, lists)[2] = Message("trades", o, status)
<1>1. Message("orders", o, status) \in [about : Lists, id : Orders, status : Status]
      /\ Message("trades", o, status) \in [about : Lists, id : Orders, status : Status]
  BY DEF Message, Lists
<1>2. {"orders"} # Lists
  BY DEF Lists
<1>3. CASE lists = Lists
  <2>1. Saying(o, status, lists) = [i \in 1..2 |-> Message(<<"orders", "trades">>[i], o, status)]
    BY <1>3 DEF Saying, About
  <2>2. /\ Saying(o, status, lists)[1] = Message("orders", o, status)
        /\ Saying(o, status, lists)[2] = Message("trades", o, status)
    BY <2>1
  <2>3. \A i \in 1..2 :
          Saying(o, status, lists)[i] \in [about : Lists, id : Orders, status : Status]
    BY <1>1, <2>2
  <2>4. Saying(o, status, lists) \in [1..2 -> [about : Lists, id : Orders, status : Status]]
    BY <2>1, <2>3
  <2>5. Saying(o, status, lists) \in Seq([about : Lists, id : Orders, status : Status])
    BY <2>4, FunctionSeq
  <2>6. DOMAIN Saying(o, status, lists) = 1..2
    BY <2>4
  <2>7. DOMAIN Saying(o, status, lists) = IF lists = Lists THEN 1..2 ELSE 1..1
    BY <1>3, <2>6
  <2> QED
    BY <2>2, <2>5, <2>7
<1>4. CASE lists = {"orders"}
  <2>1. Saying(o, status, lists) = [i \in 1..1 |-> Message(<<"orders">>[i], o, status)]
    BY <1>2, <1>4 DEF Saying, About
  <2>2. Saying(o, status, lists)[1] = Message("orders", o, status)
    BY <2>1
  <2>3. \A i \in 1..1 :
          Saying(o, status, lists)[i] \in [about : Lists, id : Orders, status : Status]
    BY <1>1, <2>2
  <2>4. Saying(o, status, lists) \in [1..1 -> [about : Lists, id : Orders, status : Status]]
    BY <2>1, <2>3
  <2>5. Saying(o, status, lists) \in Seq([about : Lists, id : Orders, status : Status])
    BY <2>4, FunctionSeq
  <2>6. DOMAIN Saying(o, status, lists) = 1..1
    BY <2>4
  <2>7. DOMAIN Saying(o, status, lists) = IF lists = Lists THEN 1..2 ELSE 1..1
    BY <1>2, <1>4, <2>6
  <2>8. lists # Lists
    BY <1>2, <1>4
  <2> QED
    BY <2>2, <2>5, <2>7, <2>8
<1> QED
  BY <1>3, <1>4

\* The engine moves an order: to be opened, matched or settled, or canceled with what it
\* was before when it was not open any more.
Moves(o, status, lists) ==
    /\ Becomes(o, status, lists) /\ o \in Orders /\ status \in Status /\ status # "none"
    /\ book[o] \in Over => status \in Over
    /\ \/ lists = {"orders"} /\ (status \in Traded \/ book[o] \in Traded => book[o] = status)
       \/ lists = Lists /\ status \in Traded
    /\ UNCHANGED <<page, orders, trades, requests, signing>>
    /\ canceling' \subseteq canceling
    /\ \A c \in canceling : c \in canceling' \/ (c = o /\ status \in Over)

\* What the feed says is right and known.
LEMMA MovesFeed ==
    ASSUME ListInv, NEW o, NEW status, NEW lists, Moves(o, status, lists)
    PROVE  /\ Grow /\ FeedOK' /\ book' = [book EXCEPT ![o] = status]
           /\ book' \in [Orders -> Status]
           /\ OwnerOf[o] \in follows => Said(Saying(o, status, lists))
           /\ OwnerOf[o] \notin follows => UNCHANGED feed
           /\ agreed' = [l \in Lists |-> agreed[l] /\ l \notin
                          IF OwnerOf[o] \in follows \/ o \notin Mine(page) THEN {} ELSE lists]
<1>1. /\ o \in Orders /\ status \in Status /\ status # "none" /\ lists \in {{"orders"}, Lists}
      /\ lists = Lists => status \in Traded
      /\ FeedOK /\ ListTypes
  <2>1. {"orders"} # Lists
    BY DEF Lists
  <2> QED
    BY <2>1 DEF Moves, ListInv, Facts
<1>2. book' = [book EXCEPT ![o] = status] /\ book' \in [Orders -> Status]
  BY <1>1 DEF Moves, Becomes, ListTypes
<1>3. \A p \in Orders : book'[p] = IF p = o THEN status ELSE book[p]
  BY <1>1, <1>2 DEF ListTypes
<1>4. Grow
  BY <1>1, <1>3 DEF Grow, Moves
<1>5. /\ OwnerOf[o] \in follows => feed' = feed \o Saying(o, status, lists)
      /\ OwnerOf[o] \notin follows => UNCHANGED feed
      /\ agreed' = [l \in Lists |-> agreed[l] /\ l \notin
                     IF OwnerOf[o] \in follows \/ o \notin Mine(page) THEN {} ELSE lists]
  BY DEF Moves, Becomes, Saying, About, Changed
<1>6. OwnerOf[o] \in follows => Said(Saying(o, status, lists))
  BY <1>1, <1>5, SayingIs DEF Said
<1>7. CASE OwnerOf[o] \in follows
  <2> PICK t : t = Saying(o, status, lists)
    OBVIOUS
  <2>1. \A i \in DOMAIN t : /\ t[i] \in [about : Lists, id : Orders, status : Status]
                            /\ t[i].id = o /\ (t[i].about = "trades" => t[i].status \in Traded)
    <3>1. \A i \in DOMAIN t : i = 1 \/ (i = 2 /\ lists = Lists)
      <4>1. DOMAIN t = IF lists = Lists THEN 1..2 ELSE 1..1
        BY <1>1, SayingIs
      <4> QED
        BY <4>1
    <3>3. /\ t[1] = Message("orders", o, status)
          /\ lists = Lists => t[2] = Message("trades", o, status)
      BY <1>1, SayingIs
    <3>2. /\ Message("orders", o, status) \in [about : Lists, id : Orders, status : Status]
          /\ Message("orders", o, status).id = o /\ Message("orders", o, status).about = "orders"
          /\ Message("trades", o, status) \in [about : Lists, id : Orders, status : Status]
          /\ Message("trades", o, status).id = o /\ Message("trades", o, status).status = status
      BY <1>1 DEF Message, Lists
    <3> QED
      BY <1>1, <3>1, <3>2, <3>3
  <2>2. Said(t)
    BY <1>6, <1>7
  <2>3. feed' \in Seq([about : Lists, id : Orders, status : Status])
    BY <1>1, <2>2 DEF FeedOK, Said
  <2>4. ASSUME NEW i \in DOMAIN feed' PROVE MessageOK(feed[i])'
    <3>1. CASE i \in DOMAIN feed
      <4>1. PICK m : m = feed[i] /\ m = feed'[i]
        BY <1>1, <2>2, <3>1, SaidIs
      <4>2. MessageOK(m)'
        BY <1>1, <1>4, <3>1, <4>1, MessageKept DEF FeedOK
      <4> QED
        BY <4>1, <4>2 DEF MessageOK
    <3>2. ASSUME NEW j \in DOMAIN t, i = Len(feed) + j PROVE MessageOK(feed[i])'
      <4>1. feed'[i] = t[j]
        BY <1>1, <2>2, <3>2, SaidIs
      <4>2. book'[o] # "none"
        BY <1>1, <1>3
      <4> QED
        BY <2>1, <4>1, <4>2 DEF MessageOK
    <3> QED
      BY <1>1, <2>2, <3>1, <3>2, SaidIs
  <2> QED
    BY <1>2, <1>4, <1>5, <1>6, <2>3, <2>4 DEF FeedOK
<1>8. CASE OwnerOf[o] \notin follows
  <2>1. \A i \in DOMAIN feed : MessageOK(feed[i])'
    <3> SUFFICES ASSUME NEW i \in DOMAIN feed PROVE MessageOK(feed[i])'
      OBVIOUS
    <3>1. PICK m : m = feed[i] /\ m = feed'[i]
      BY <1>5, <1>8
    <3>2. MessageOK(m)'
      BY <1>1, <1>4, <3>1, MessageKept DEF FeedOK
    <3> QED
      BY <3>1, <3>2 DEF MessageOK
  <2>2. FeedOK'
    BY <1>1, <1>5, <1>8, <2>1 DEF FeedOK
  <2> QED
    BY <1>2, <1>4, <1>5, <1>6, <2>2
<1> QED
  BY <1>7, <1>8

\* A move of the engine keeps the facts.
LEMMA MovesFacts ==
    ASSUME ListInv, NEW o, NEW status, NEW lists, Moves(o, status, lists) PROVE Facts'
<1>1. /\ UNCHANGED <<page, orders, trades, requests, signing>> /\ canceling' \subseteq canceling
      /\ agreed \in [Lists -> BOOLEAN] /\ canceling \subseteq Orders
  BY DEF Moves, ListInv, Facts, ListTypes
<1>2. /\ Grow /\ FeedOK' /\ book' \in [Orders -> Status]
  BY MovesFeed
<1>3. /\ agreed' \in [Lists -> BOOLEAN]
      /\ agreed'.orders => agreed.orders
      /\ agreed'.trades => agreed.trades
  <2>1. PICK S : S = IF OwnerOf[o] \in follows \/ o \notin Mine(page) THEN {} ELSE lists
    OBVIOUS
  <2>2. agreed' = [l \in Lists |-> agreed[l] /\ l \notin S]
    BY <2>1, MovesFeed
  <2> QED
    BY <1>1, <2>2 DEF Lists
<1>4. \A r \in requests' : RequestOK(r)'
  BY <1>1, <1>2, RequestKept DEF ListInv, Facts
<1>5. ListTypes' /\ Born' /\ Blank'
  BY <1>1, <1>2, <1>3 DEF ListInv, Facts, ListTypes, Born, Blank, Grow
<1> QED
  BY <1>2, <1>4, <1>5 DEF Facts

\* What becomes of the rows of a list the engine speaks of.
LEMMA MovesRows ==
    ASSUME ListInv, NEW o, NEW status, NEW lists, Moves(o, status, lists),
           NEW list \in Lists, NEW base, base = [q \in Orders |-> base[q]], NEW p \in Orders
    PROVE  Coming(list, base)'[p] =
             IF /\ OwnerOf[o] \in follows /\ list \in lists /\ p = o /\ MarketOf[p] = page.market
             THEN Kept(list, status) ELSE Coming(list, base)[p]
<1>1. /\ FeedOK /\ FeedOK' /\ UNCHANGED page /\ o \in Orders /\ status \in Status
      /\ lists \in {{"orders"}, Lists}
  BY MovesFeed DEF ListInv, Facts, Moves
<1>2. CASE OwnerOf[o] \notin follows
  BY <1>1, <1>2, MovesFeed, ComingKept
<1>3. CASE OwnerOf[o] \in follows
  <2> PICK t : t = Saying(o, status, lists)
    OBVIOUS
  <2>1. Said(t)
    BY <1>3, MovesFeed
  <2>2. /\ DOMAIN t = IF lists = Lists THEN 1..2 ELSE 1..1
        /\ t[1] = Message("orders", o, status)
        /\ lists = Lists => t[2] = Message("trades", o, status)
    BY <1>1, SayingIs
  <2>3. \A l \in Lists : /\ Message(l, o, status).about = l /\ Message(l, o, status).id = o
                         /\ Message(l, o, status).status = status
    BY DEF Message
  <2>4. "orders" \in Lists /\ "trades" \in Lists /\ {"orders"} # Lists
        /\ \A l \in Lists : l = "orders" \/ l = "trades"
    BY DEF Lists
  <2>5. CASE ~(list \in lists /\ p = o)
    <3>1. \A i \in DOMAIN t : ~(t[i].about = list /\ t[i].id = p)
      BY <1>1, <2>2, <2>3, <2>4, <2>5
    <3> QED
      BY <1>1, <2>1, <2>5, <3>1, ComingPast
  <2>6. CASE list \in lists /\ p = o /\ MarketOf[p] # page.market
    <3>1. Coming(list, base)[p] = base[p]
      BY <1>1, <2>6, ComingIs
    <3>2. Coming(list, base)'[p] = base[p]
      BY <1>1, <2>6, RowNext
    <3> QED
      BY <2>6, <3>1, <3>2
  <2>7. CASE list \in lists /\ p = o /\ MarketOf[p] = page.market
    <3> PICK i : i = IF list = "orders" THEN 1 ELSE 2
      OBVIOUS
    <3>1. i \in DOMAIN t /\ t[i].about = list /\ t[i].id = p /\ t[i].status = status
      BY <1>1, <2>2, <2>3, <2>4, <2>7
    <3>2. \A j \in DOMAIN t : j > i => ~(t[j].about = list /\ t[j].id = p)
      BY <1>1, <2>2, <2>3, <2>4, <2>7
    <3> QED
      BY <1>1, <1>3, <2>1, <2>7, <3>1, <3>2, ComingSaid
  <2> QED
    BY <2>5, <2>6, <2>7
<1> QED
  BY <1>2, <1>3

\* The lists follow when the engine moves an order.
LEMMA MovesFollow ==
    ASSUME ListInv, NEW o, NEW status, NEW lists, Moves(o, status, lists) PROVE ListsFollow'
<1>1. /\ UNCHANGED <<page, orders, trades>> /\ o \in Orders /\ status \in Status
      /\ lists \in {{"orders"}, Lists} /\ ListTypes
      /\ "orders" \in lists /\ ("trades" \notin lists <=> lists = {"orders"})
      /\ "orders" \in Lists /\ "trades" \in Lists
  BY DEF Moves, ListInv, Facts, Lists
<1>2. PICK S : S = IF OwnerOf[o] \in follows \/ o \notin Mine(page) THEN {} ELSE lists
  OBVIOUS
<1>3. agreed' = [l \in Lists |-> agreed[l] /\ l \notin S] /\ agreed \in [Lists -> BOOLEAN]
  BY <1>2, MovesFeed DEF ListInv, Facts, ListTypes
<1>4. \A p \in Orders : book'[p] = IF p = o THEN status ELSE book[p]
  BY <1>1, MovesFeed DEF ListTypes
<1>5. Mine(page)' = Mine(page)
  BY <1>1 DEF Mine
<1> PICK base, made : base = orders /\ made = trades
  OBVIOUS
<1>6. /\ base = [q \in Orders |-> base[q]] /\ made = [q \in Orders |-> made[q]]
      /\ orders' = base /\ trades' = made
  BY <1>1 DEF ListTypes
<1>7. \A p \in Orders :
        Coming("orders", orders)'[p] =
          IF OwnerOf[o] \in follows /\ p = o /\ MarketOf[p] = page.market
          THEN Kept("orders", status) ELSE Coming("orders", orders)[p]
  <2>1. ASSUME NEW p \in Orders
        PROVE  Coming("orders", base)'[p] =
                 IF OwnerOf[o] \in follows /\ p = o /\ MarketOf[p] = page.market
                 THEN Kept("orders", status) ELSE Coming("orders", base)[p]
    BY <1>1, <1>6, MovesRows
  <2> QED
    BY <1>6, <2>1
<1>8. \A p \in Orders :
        Coming("trades", trades)'[p] =
          IF OwnerOf[o] \in follows /\ "trades" \in lists /\ p = o /\ MarketOf[p] = page.market
          THEN status ELSE Coming("trades", trades)[p]
  <2>1. ASSUME NEW p \in Orders
        PROVE  Coming("trades", made)'[p] =
                 IF OwnerOf[o] \in follows /\ "trades" \in lists /\ p = o
                    /\ MarketOf[p] = page.market
                 THEN Kept("trades", status) ELSE Coming("trades", made)[p]
    BY <1>1, <1>6, MovesRows
  <2> QED
    BY <1>6, <2>1 DEF Kept
<1>9. ASSUME NEW p \in Orders, agreed'.orders, OrderFollows(p) PROVE OrderFollows(p)'
  <2>1. o \in Mine(page) => OwnerOf[o] \in follows
    BY <1>1, <1>2, <1>3, <1>9
  <2>2. CASE p # o
    <3>1. /\ Coming("orders", orders)'[p] = Coming("orders", orders)[p] /\ book'[p] = book[p]
          /\ p \in canceling => p \in canceling'
      BY <1>4, <1>7, <2>2 DEF Moves
    <3> QED
      BY <1>1, <1>5, <1>9, <3>1 DEF OrderFollows
  <2>3. CASE p = o /\ OwnerOf[o] \in follows /\ MarketOf[p] = page.market
    <3>1. Coming("orders", orders)'[p] = Kept("orders", status) /\ book'[p] = status
      BY <1>4, <1>7, <2>3
    <3>2. Kept("orders", status) = "open" <=> status = "open"
      BY DEF Kept, Pending
    <3> QED
      BY <1>1, <2>3, <3>1, <3>2 DEF OrderFollows
  <2>4. CASE p = o /\ ~(OwnerOf[o] \in follows /\ MarketOf[p] = page.market)
    <3>1. Coming("orders", orders)'[p] = Coming("orders", orders)[p] /\ p \notin Mine(page)
      BY <1>7, <2>1, <2>4 DEF Mine
    <3> QED
      BY <1>1, <1>5, <1>9, <3>1 DEF OrderFollows
  <2> QED
    BY <2>2, <2>3, <2>4
<1>10. ASSUME NEW p \in Orders, agreed'.trades, TradeFollows(p) PROVE TradeFollows(p)'
  <2>1. o \in Mine(page) => OwnerOf[o] \in follows \/ "trades" \notin lists
    BY <1>1, <1>2, <1>3, <1>10
  <2>2. CASE p # o
    <3>1. Coming("trades", trades)'[p] = Coming("trades", trades)[p] /\ book'[p] = book[p]
      BY <1>4, <1>8, <2>2
    <3> QED
      BY <1>1, <1>5, <1>10, <3>1 DEF TradeFollows
  <2>3. CASE p = o /\ OwnerOf[o] \in follows /\ "trades" \in lists /\ MarketOf[p] = page.market
    <3>1. Coming("trades", trades)'[p] = status /\ book'[p] = status /\ status \in Traded
      BY <1>1, <1>4, <1>8, <2>3 DEF Moves
    <3> QED
      BY <1>1, <2>3, <3>1 DEF TradeFollows
  <2>4. CASE p = o /\ "trades" \notin lists
    <3>1. Coming("trades", trades)'[p] = Coming("trades", trades)[p] /\ book'[p] = status
          /\ (status \in Traded \/ book[p] \in Traded => book[p] = status)
      BY <1>1, <1>4, <1>8, <2>4 DEF Moves
    <3> QED
      BY <1>1, <1>5, <1>10, <3>1 DEF TradeFollows
  <2>5. CASE /\ p = o /\ "trades" \in lists
             /\ ~(OwnerOf[o] \in follows /\ MarketOf[p] = page.market)
    <3>1. Coming("trades", trades)'[p] = Coming("trades", trades)[p] /\ p \notin Mine(page)
      BY <1>8, <2>1, <2>5 DEF Mine
    <3> QED
      BY <1>1, <1>5, <1>10, <3>1 DEF TradeFollows
  <2> QED
    BY <2>2, <2>3, <2>4, <2>5
<1>11. (agreed'.orders => agreed.orders) /\ (agreed'.trades => agreed.trades)
  BY <1>1, <1>3
<1> QED
  BY <1>9, <1>10, <1>11, RowsStep DEF ListInv

\* Every step of the engine is such a move.
LEMMA EngineFollow ==
    ASSUME ListInv, NEW o \in Orders, Engine(o) \/ EngineCancels(o) PROVE Facts' /\ ListsFollow'
<1>1. ListTypes /\ Born
  BY DEF ListInv, Facts
<1>2. CASE Engine(o)
  <2>1. UNCHANGED <<page, orders, trades, requests, signing, canceling>>
    BY <1>2 DEF Engine
  <2>2. CASE book[o] = "none" /\ Becomes(o, "open", {"orders"})
    <3>1. Moves(o, "open", {"orders"})
      BY <2>1, <2>2 DEF Moves, Status, Over, Traded
    <3> QED
      BY <3>1, MovesFacts, MovesFollow
  <2>3. CASE book[o] = "open" /\ Becomes(o, "matched", Lists)
    <3>1. Moves(o, "matched", Lists)
      BY <2>1, <2>3 DEF Moves, Status, Over, Traded
    <3> QED
      BY <3>1, MovesFacts, MovesFollow
  <2>4. CASE book[o] = "matched" /\ Becomes(o, "settled", Lists)
    <3>1. Moves(o, "settled", Lists)
      BY <2>1, <2>4 DEF Moves, Status, Over, Traded
    <3> QED
      BY <3>1, MovesFacts, MovesFollow
  <2> QED
    BY <1>2, <2>2, <2>3, <2>4 DEF Engine, EngineSteps
<1>3. CASE EngineCancels(o)
  <2> PICK status : status = IF book[o] = "open" THEN "canceled" ELSE book[o]
    OBVIOUS
  <2>1. /\ Becomes(o, status, {"orders"}) /\ canceling' = canceling \ {o}
        /\ UNCHANGED <<page, orders, trades, requests, signing>>
        /\ book[o] \in Status /\ book[o] # "none"
    BY <1>1, <1>3 DEF EngineCancels, ListTypes, Born
  <2>2. /\ status \in Over /\ status \in Status /\ status # "none"
        /\ (status \in Traded \/ book[o] \in Traded => book[o] = status)
    BY <2>1 DEF Status, Over, Traded
  <2>3. Moves(o, status, {"orders"})
    BY <2>1, <2>2 DEF Moves
  <2> QED
    BY <2>3, MovesFacts, MovesFollow
<1> QED
  BY <1>2, <1>3

\* A list keeps agreeing when the connection ends with no message for it on the way.
LEMMA DropFollow == ASSUME ListInv, Drop PROVE Facts' /\ ListsFollow'
<1>1. /\ UNCHANGED <<page, orders, trades, book, canceling, requests, signing>>
      /\ feed' = <<>> /\ FeedOK /\ ListTypes
  BY DEF Drop, ListInv, Facts
<1>2. PICK S : S = {feed[i].about : i \in DOMAIN feed}
  OBVIOUS
<1>3. agreed' = [l \in Lists |-> agreed[l] /\ l \notin S]
  BY <1>2 DEF Drop, Changed
<1>4. agreed' \in [Lists -> BOOLEAN] /\ (agreed'.orders => agreed.orders /\ "orders" \notin S)
      /\ (agreed'.trades => agreed.trades /\ "trades" \notin S)
  BY <1>1, <1>3 DEF ListTypes, Lists
<1>5. FeedOK' /\ \A list, o : Heard(list, o)' = {}
  BY <1>1 DEF FeedOK, Heard
<1>6. Facts'
  <2>1. Grow
    BY <1>1, GrowQuiet
  <2>2. \A r \in requests' : RequestOK(r)'
    BY <1>1, <2>1, RequestKept DEF ListInv, Facts
  <2>3. ListTypes' /\ Born' /\ Blank'
    BY <1>1, <1>4 DEF ListInv, Facts, ListTypes, Born, Blank
  <2> QED
    BY <1>5, <2>2, <2>3 DEF Facts
<1>7. ASSUME NEW list \in Lists, list \notin S, NEW base, base = [q \in Orders |-> base[q]],
             NEW o \in Orders
      PROVE  Coming(list, base)'[o] = Coming(list, base)[o]
  <2>1. Heard(list, o) = {}
    BY <1>2, <1>7 DEF Heard
  <2>2. Coming(list, base)[o] = base[o]
    BY <1>1, <1>7, <2>1, ComingIs
  <2>3. Coming(list, base)'[o] = base[o]
    BY <1>5, <1>7, RowNext
  <2> QED
    BY <2>2, <2>3
<1> PICK base, made : base = orders /\ made = trades
  OBVIOUS
<1>8. /\ base = [q \in Orders |-> base[q]] /\ made = [q \in Orders |-> made[q]]
      /\ orders' = base /\ trades' = made /\ Mine(page)' = Mine(page)
      /\ "orders" \in Lists /\ "trades" \in Lists
  BY <1>1 DEF ListTypes, Mine, Lists
<1>9. ASSUME NEW o \in Orders, agreed'.orders, OrderFollows(o) PROVE OrderFollows(o)'
  <2>1. Coming("orders", base)'[o] = Coming("orders", base)[o]
    BY <1>4, <1>7, <1>8, <1>9
  <2>2. Coming("orders", orders)'[o] = Coming("orders", orders)[o]
    BY <1>8, <2>1
  <2> QED
    BY <1>1, <1>8, <1>9, <2>2 DEF OrderFollows
<1>10. ASSUME NEW o \in Orders, agreed'.trades, TradeFollows(o) PROVE TradeFollows(o)'
  <2>1. Coming("trades", made)'[o] = Coming("trades", made)[o]
    BY <1>4, <1>7, <1>8, <1>10
  <2>2. Coming("trades", trades)'[o] = Coming("trades", trades)[o]
    BY <1>8, <2>1
  <2> QED
    BY <1>1, <1>8, <1>10, <2>2 DEF TradeFollows
<1> QED
  BY <1>4, <1>6, <1>9, <1>10, RowsStep DEF ListInv

\* A message that is taken changes no row's future.
LEMMA OnMessageFollow == ASSUME ListInv, OnMessage PROVE Facts' /\ ListsFollow'
<1>1. /\ UNCHANGED <<page, book, canceling, requests, signing, agreed>>
      /\ feed # <<>> /\ feed' = Tail(feed) /\ FeedOK /\ ListTypes /\ Born /\ Blank
      /\ page.market \in Markets \cup {None}
  BY DEF OnMessage, ListInv, Facts, PageInv, Page
<1> PICK m : m = Head(feed)
  OBVIOUS
<1>2. /\ feed \in Seq([about : Lists, id : Orders, status : Status])
      /\ \A i \in DOMAIN feed : MessageOK(feed[i])
  BY <1>1 DEF FeedOK
<1>3. MessageOK(m)
  <2>1. 1 \in DOMAIN feed /\ m = feed[1]
    BY <1>1, <1>2
  <2> QED
    BY <1>2, <2>1
<1>4. FeedOK'
  <2>1. feed' \in Seq([about : Lists, id : Orders, status : Status])
    BY <1>1, <1>2
  <2>2. \A i \in DOMAIN feed' : i + 1 \in DOMAIN feed /\ feed'[i] = feed[i + 1]
    BY <1>1, <1>2
  <2>3. \A i \in DOMAIN feed' : MessageOK(feed[i])'
    BY <1>1, <1>2, <2>2 DEF MessageOK
  <2> QED
    BY <2>1, <2>3 DEF FeedOK
<1> PICK base, made : base = orders /\ made = trades
  OBVIOUS
<1> PICK later, after : later = OnOrders(base, m) /\ after = OnTrades(made, m)
  OBVIOUS
<1>5. /\ base \in [Orders -> {"none"} \cup Pending] /\ made \in [Orders -> {"none"} \cup Traded]
      /\ orders' = later /\ trades' = after
  BY <1>1 DEF ListTypes, OnMessage
<1>6. /\ later \in [Orders -> {"none"} \cup Pending] /\ after \in [Orders -> {"none"} \cup Traded]
      /\ \A o \in Orders : later[o] # "none" => book[o] # "none"
      /\ page.market = None => later = base
  BY <1>1, <1>3, <1>5, PageAssumption
     DEF MessageOK, OnOrders, OnTrades, OrderUpdate, TradeUpdate, Born
<1>7. Facts'
  <2>1. Grow
    BY <1>1, GrowQuiet
  <2>2. \A r \in requests' : RequestOK(r)'
    BY <1>1, <2>1, RequestKept DEF ListInv, Facts
  <2>3. ListTypes' /\ Born' /\ Blank'
    BY <1>1, <1>5, <1>6 DEF ListTypes, Born, Blank
  <2> QED
    BY <1>4, <2>2, <2>3 DEF Facts
<1>8. /\ base = [q \in Orders |-> base[q]] /\ made = [q \in Orders |-> made[q]]
      /\ Mine(page)' = Mine(page) /\ "orders" \in Lists /\ "trades" \in Lists
  BY <1>1, <1>5 DEF Mine, Lists
<1>9. ASSUME NEW o \in Orders, OrderFollows(o) PROVE OrderFollows(o)'
  <2>1. later = OnList("orders", base, Head(feed))
    BY DEF OnList
  <2>2. Coming("orders", later)'[o] = Coming("orders", base)[o]
    BY <1>1, <1>4, <1>8, <2>1, ComingTaken
  <2>3. Coming("orders", orders)'[o] = Coming("orders", orders)[o]
    BY <1>5, <2>2
  <2> QED
    BY <1>1, <1>8, <1>9, <2>3 DEF OrderFollows
<1>10. ASSUME NEW o \in Orders, TradeFollows(o) PROVE TradeFollows(o)'
  <2>1. after = OnList("trades", made, Head(feed))
    BY DEF OnList
  <2>2. Coming("trades", after)'[o] = Coming("trades", made)[o]
    BY <1>1, <1>4, <1>8, <2>1, ComingTaken
  <2>3. Coming("trades", trades)'[o] = Coming("trades", trades)[o]
    BY <1>5, <2>2
  <2> QED
    BY <1>1, <1>8, <1>10, <2>3 DEF TradeFollows
<1>11. agreed' = agreed
  BY <1>1
<1> QED
  BY <1>7, <1>9, <1>10, <1>11, RowsStep DEF ListInv

---------------------------------------------------------------------------
(* Every step *)

\* At the start no list is loaded.
LEMMA InitLists == Init => ListInv
<1> SUFFICES ASSUME Init PROVE ListInv
  OBVIOUS
<1>1. PageInv
  BY InitInv
<1>2. /\ ListTypes /\ Born /\ Blank /\ requests = {}
      /\ ~agreed.orders /\ ~agreed.trades
  BY DEF Init, ListTypes, Born, Blank, Nothing, Status, Lists
<1>3. FeedOK
  BY DEF Init, FeedOK
<1> QED
  BY <1>1, <1>2, <1>3 DEF ListInv, Facts, ListsFollow

\* Every step keeps the invariant of the lists.
LEMMA NextLists == ListInv /\ [Next]_pageVars => ListInv'
<1> SUFFICES ASSUME ListInv, [Next]_pageVars PROVE Facts' /\ ListsFollow'
  BY NextInv DEF ListInv
<1>1. CASE SelectTab \/ SelectList \/ \E layout \in Layouts : Resize(layout)
  <2>1. page.layout \in Layouts
    BY DEF ListInv, PageInv, Page
  <2>2. \E layout \in Layouts, view \in Lists \cup {None} : Show(layout, view)
    BY <1>1, <2>1 DEF SelectTab, SelectList, Resize, Mounted, Layouts, Lists
  <2> QED
    BY <2>2, ShowFollow
<1>2. CASE \/ LoginRequest \/ Subscribed \/ UNCHANGED pageVars
           \/ \E a \in Accounts : Refused(a) \/ Unsubscribed(a)
           \/ \E r \in requests : Failed(r) \/ Rejected(r) \/ LoadTradeHistory(r)
  BY <1>2, RestSteps
<1> QED
  BY <1>1, <1>2, LoadMarketsFollow, SelectMarketFollow, SelectAccountFollow, SignedFollow,
     AskCancelFollow, EngineFollow, ServeFollow, LoadFollow, CanceledFollow, DropFollow,
     OnMessageFollow DEF Next

\* It holds always.
LEMMA SpecLists == Spec => []ListInv
<1> QED
  BY InitLists, NextLists, PTL DEF Spec

---------------------------------------------------------------------------
(* Types *)

\* Who waits for an answer, signs or is followed is an account, and the desktop shows orders.
Waiting ==
    /\ page.layout = "wide" => page.view # None
    /\ guests \subseteq Accounts /\ signing \subseteq Accounts /\ follows \subseteq Accounts

\* The guests of a request are accounts.
LEMMA WaitingAsk ==
    ASSUME Waiting, NEW ops, NEW p \in Page, Ask(ops, p) PROVE guests' \subseteq Accounts
  BY DEF Waiting, Ask, Page

\* Every step keeps that.
LEMMA WaitingStep == PageInv /\ Waiting /\ [Next]_pageVars => Waiting'
<1> SUFFICES ASSUME PageInv, Waiting, [Next]_pageVars PROVE Waiting'
  OBVIOUS
<1> USE DEF Waiting
<1>1. page \in Page /\ page' \in Page
  BY NextInv DEF PageInv
<1>2. CASE LoadMarkets \/ \E m \in Markets : SelectMarket(m)
  <2>1. \E ops : Ask(ops, page')
    BY <1>2 DEF LoadMarkets, SelectMarket
  <2>2. page'.layout = page.layout /\ page'.view = page.view
        /\ UNCHANGED <<signing, follows>>
    BY <1>1, <1>2 DEF LoadMarkets, SelectMarket, Login, Page
  <2> QED
    BY <1>1, <2>1, <2>2, WaitingAsk
<1>3. CASE \E a \in Accounts \cup {None} : SelectAccount(a)
  <2>1. UNCHANGED guests \/ \E ops : Ask(ops, page')
    BY <1>3 DEF SelectAccount
  <2>2. page'.layout = page.layout /\ page'.view = page.view
        /\ UNCHANGED <<signing, follows>>
    BY <1>1, <1>3 DEF SelectAccount, Login, Page
  <2> QED
    BY <1>1, <2>1, <2>2, WaitingAsk
<1>4. CASE SelectTab \/ SelectList \/ \E layout \in Layouts : Resize(layout)
  <2>1. PICK layout \in Layouts, view \in Lists \cup {None} :
          Show(layout, view) /\ (layout = "wide" => view # None)
    <3>1. page.layout \in Layouts /\ None \notin Lists
      BY <1>1, PageAssumption DEF Page, Lists
    <3> QED
      BY <1>4, <3>1 DEF SelectTab, SelectList, Resize, Mounted, Layouts, Lists
  <2>2. \E ops : Ask(ops, page')
    BY <2>1 DEF Show
  <2>3. page'.layout = layout /\ page'.view = view /\ UNCHANGED <<signing, follows>>
    BY <1>1, <2>1 DEF Show, Page
  <2> QED
    BY <1>1, <2>1, <2>2, <2>3, WaitingAsk
<1>5. CASE \E a \in Accounts : Signed(a)
  <2>1. \E ops : Ask(ops, page')
    BY <1>5 DEF Signed
  <2>2. page'.layout = page.layout /\ page'.view = page.view
        /\ signing' \subseteq signing /\ UNCHANGED follows
    BY <1>1, <1>5 DEF Signed, Login, Page
  <2> QED
    BY <1>1, <2>1, <2>2, WaitingAsk
<1>6. CASE \E o \in Orders : AskCancel(o)
  <2>1. \E ops : Ask(ops, page')
    BY <1>6 DEF AskCancel
  <2> QED
    BY <1>1, <1>6, <2>1, WaitingAsk DEF AskCancel
<1>7. CASE \E r \in requests : Rejected(r)
  BY <1>1, <1>7 DEF Rejected, Logout, Page
<1>8. CASE LoginRequest \/ Subscribed
  <2>1. page.account \in Accounts
    BY <1>1, <1>8 DEF LoginRequest, Subscribed, LoggedIn, Page
  <2> QED
    BY <1>8, <2>1 DEF LoginRequest, Subscribed
<1>9. CASE \/ UNCHANGED pageVars \/ Drop \/ OnMessage
           \/ \E a \in Accounts : Refused(a) \/ Unsubscribed(a)
           \/ \E o \in Orders : Engine(o) \/ EngineCancels(o)
           \/ \E r \in requests : \/ Serve(r) \/ Failed(r) \/ LoadOrders(r) \/ LoadTrades(r)
                                  \/ LoadTradeHistory(r) \/ Canceled(r)
  <2>1. UNCHANGED <<page, guests>> /\ signing' \subseteq signing /\ follows' \subseteq follows
    BY <1>9 DEF pageVars, Drop, OnMessage, Refused, Unsubscribed, Engine, EngineCancels, Serve,
                Failed, LoadOrders, LoadTrades, LoadTradeHistory, Canceled
  <2> QED
    BY <2>1
<1> HIDE DEF Waiting
<1> QED
  BY <1>2, <1>3, <1>4, <1>5, <1>6, <1>7, <1>8, <1>9 DEF Next

---------------------------------------------------------------------------
(* The theorems *)

\* Through every login, logout and late signature, who is logged in has a token saved.
THEOREM LoggedInHasToken == Spec => []SessionHasToken
<1>1. PageInv => SessionHasToken
  BY DEF PageInv
<1> QED
  BY <1>1, SpecInv, PTL

\* Whatever market the history was asked for, the trades shown are of the market shown.
THEOREM HistoryIsOfMarket == Spec => []HistoryOfMarket
<1>1. PageInv => HistoryOfMarket
  BY DEF PageInv
<1> QED
  BY <1>1, SpecInv, PTL

\* Every variable of the page keeps its type.
THEOREM PageTypeCorrect == Spec => []TypeOK
<1>1. Init => Waiting
  BY PageAssumption DEF Init, Waiting
<1>2. ListInv /\ Waiting => TypeOK
  BY DEF ListInv, PageInv, Facts, ListTypes, Waiting, TypeOK, Page, Traded
<1>3. ListInv => PageInv
  BY DEF ListInv
<1> QED
  BY <1>1, <1>2, <1>3, SpecLists, WaitingStep, PTL DEF Spec

\* Whatever the engine, cancels, other requests and the feed do, and in whatever order they
\* are heard of, a list that agreed with the engine when it was loaded shows, once the
\* messages on their way are taken, the orders (the trades) the engine has.
THEOREM ListsFollowEngine == Spec => []ListsFollow
<1>1. ListInv => ListsFollow
  BY DEF ListInv
<1> QED
  BY <1>1, SpecLists, PTL
=============================================================================
