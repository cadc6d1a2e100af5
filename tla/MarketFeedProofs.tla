-------------------------- MODULE MarketFeedProofs --------------------------
(***************************************************************************)
(* Theorems about MarketFeed for every set of markets and accounts, any    *)
(* number of changes of the page and any number of lost connections: an    *)
(* open connection will have the channels of what the page shows, and the  *)
(* trade history is of the market shown.                                   *)
(***************************************************************************)
EXTENDS MarketFeed, TLAPS

Msg == [type : {"subscribe", "unsubscribe"}, channel : Channels]
Page == [market : Markets, account : Accounts \cup {None}, loggedIn : SUBSET Accounts,
         saved : SUBSET Accounts, history : SUBSET Markets]
Socket == [ws : {"none", "connecting", "open", "closing"},
           readyState : {"CONNECTING", "OPEN", "CLOSED"},
           retry : BOOLEAN, timer : BOOLEAN, forced : BOOLEAN]
Connector == [mounted : BOOLEAN, preEvents : Seq(Msg), channel : Markets \cup {None},
              account : Accounts \cup {None}, connected : BOOLEAN]

---------------------------------------------------------------------------
(* What a sequence of messages says of a channel *)

Silent(s, channel) == \A i \in 1..Len(s) : s[i].channel # channel

\* The last message about the channel subscribes to it.
Asks(s, channel) ==
    \E i \in 1..Len(s) : /\ s[i].channel = channel /\ s[i].type = "subscribe"
                         /\ \A j \in 1..Len(s) : s[j].channel = channel => j <= i

Keeps(s, channel) == Silent(s, channel) \/ Asks(s, channel)

\* What is said last decides.
LEMMA AsksLast ==
    ASSUME NEW s \in Seq(Msg), NEW t \in Seq(Msg), NEW channel, Asks(t, channel)
    PROVE  Asks(s \o t, channel)
<1>1. PICK i \in 1..Len(t) : /\ t[i].channel = channel /\ t[i].type = "subscribe"
                             /\ \A j \in 1..Len(t) : t[j].channel = channel => j <= i
  BY DEF Asks
<1>2. /\ Len(s \o t) = Len(s) + Len(t) /\ Len(s) \in Nat /\ Len(t) \in Nat
      /\ \A j \in 1..Len(s) + Len(t) :
             (s \o t)[j] = IF j <= Len(s) THEN s[j] ELSE t[j - Len(s)]
  OBVIOUS
<1>3. Len(s) + i \in 1..Len(s \o t) /\ (s \o t)[Len(s) + i] = t[i]
  BY <1>2
<1>4. ASSUME NEW j \in 1..Len(s \o t), (s \o t)[j].channel = channel PROVE j <= Len(s) + i
  <2>1. CASE j <= Len(s)
    BY <1>2, <2>1
  <2>2. CASE j > Len(s)
    <3>1. j - Len(s) \in 1..Len(t) /\ (s \o t)[j] = t[j - Len(s)]
      BY <1>2, <2>2
    <3> QED
      BY <1>1, <1>2, <1>4, <3>1
  <2> QED
    BY <1>2, <2>1, <2>2
<1> QED
  BY <1>1, <1>3, <1>4 DEF Asks

\* What is silent about a channel changes nothing.
LEMMA AsksFirst ==
    ASSUME NEW s \in Seq(Msg), NEW t \in Seq(Msg), NEW channel,
           Asks(s, channel), Silent(t, channel)
    PROVE  Asks(s \o t, channel)
<1>1. PICK i \in 1..Len(s) : /\ s[i].channel = channel /\ s[i].type = "subscribe"
                             /\ \A j \in 1..Len(s) : s[j].channel = channel => j <= i
  BY DEF Asks
<1>2. /\ Len(s \o t) = Len(s) + Len(t) /\ Len(s) \in Nat /\ Len(t) \in Nat
      /\ \A j \in 1..Len(s) + Len(t) :
             (s \o t)[j] = IF j <= Len(s) THEN s[j] ELSE t[j - Len(s)]
  OBVIOUS
<1>3. i \in 1..Len(s \o t) /\ (s \o t)[i] = s[i]
  BY <1>2
<1>4. ASSUME NEW j \in 1..Len(s \o t), (s \o t)[j].channel = channel PROVE j <= i
  <2>1. CASE j <= Len(s)
    BY <1>1, <1>2, <1>4, <2>1
  <2>2. CASE j > Len(s)
    <3>1. j - Len(s) \in 1..Len(t) /\ (s \o t)[j] = t[j - Len(s)]
      BY <1>2, <2>2
    <3> QED
      BY <1>4, <3>1 DEF Silent
  <2> QED
    BY <1>2, <2>1, <2>2
<1> QED
  BY <1>1, <1>3, <1>4 DEF Asks

\* Two sequences that are silent about a channel.
LEMMA SilentBoth ==
    ASSUME NEW s \in Seq(Msg), NEW t \in Seq(Msg), NEW channel,
           Silent(s, channel), Silent(t, channel)
    PROVE  Silent(s \o t, channel)
  BY DEF Silent

\* What keeps a channel twice keeps it.
LEMMA KeepsBoth ==
    ASSUME NEW s \in Seq(Msg), NEW t \in Seq(Msg), NEW channel,
           Keeps(s, channel), Keeps(t, channel)
    PROVE  Keeps(s \o t, channel) /\ (Asks(s, channel) => Asks(s \o t, channel))
  BY AsksLast, AsksFirst, SilentBoth DEF Keeps

\* Messages of one channel and no message at all.
LEMMA OneMessage ==
    ASSUME NEW channel \in Channels
    PROVE  /\ <<Subscribe(channel)>> \in Seq(Msg) /\ <<Unsubscribe(channel)>> \in Seq(Msg)
           /\ Asks(<<Subscribe(channel)>>, channel)
           /\ \A other : other # channel =>
                  Silent(<<Subscribe(channel)>>, other) /\ Silent(<<Unsubscribe(channel)>>, other)
  BY DEF Subscribe, Unsubscribe, Msg, Asks, Silent

\* The empty sequence.
LEMMA NoMessage == <<>> \in Seq(Msg) /\ \A channel : Silent(<<>>, channel)
  BY DEF Silent

\* The channel of a market is never that of an account.
LEMMA ChannelsDiffer ==
    ASSUME NEW m, NEW a
    PROVE  /\ Market(m) # Trader(a) /\ Market(m) # Margin(a) /\ Trader(a) # Margin(a)
           /\ \A b : Trader(a) # Margin(b)
  BY DEF Market, Trader, Margin

---------------------------------------------------------------------------
(* What the connector says *)

\* Of a market that is shown from now on: its channel, and nothing of an account.
LEMMA MarketIsAsked ==
    ASSUME NEW c, NEW m \in Markets
    PROVE  /\ ChangeMarketSays(c, m) \in Seq(Msg)
           /\ Asks(ChangeMarketSays(c, m), Market(m))
           /\ \A a : Silent(ChangeMarketSays(c, m), Trader(a))
<1>1. Market(m) \in Channels
  BY DEF Channels
<1> DEFINE s == IF c.channel = None THEN <<>> ELSE <<Unsubscribe(Market(m))>>
           t == <<Subscribe(Market(m))>>
<1>2. t \in Seq(Msg) /\ Asks(t, Market(m)) /\ \A a : Silent(t, Trader(a))
  BY <1>1, OneMessage, ChannelsDiffer
<1>3. s \in Seq(Msg) /\ \A a : Silent(s, Trader(a))
  BY <1>1, OneMessage, NoMessage, ChannelsDiffer
<1>4. ChangeMarketSays(c, m) = s \o t
  BY DEF ChangeMarketSays
<1> HIDE DEF s, t
<1> QED
  BY <1>2, <1>3, <1>4, AsksLast, SilentBoth

\* Of an account that is logged out: nothing of a market.
LEMMA LogoutIsSilent ==
    ASSUME NEW c, NEW p \in Page
    PROVE  LogoutSays(c, p) \in Seq(Msg) /\ \A m : Silent(LogoutSays(c, p), Market(m))
<1>1. Trader(p.account) \in Channels
  BY DEF Channels, Page
<1> QED
  BY <1>1, OneMessage, NoMessage, ChannelsDiffer DEF LogoutSays

\* Of an account that is shown from now on: its channel when it has a token.
LEMMA AccountIsAsked ==
    ASSUME NEW c, NEW p \in Page
    PROVE  /\ ChangeAccountSays(c, p) \in Seq(Msg)
           /\ \A m : Silent(ChangeAccountSays(c, p), Market(m))
           /\ HasToken(p) => Asks(ChangeAccountSays(c, p), Trader(p.account))
<1>1. Trader(p.account) \in Channels
  BY DEF Channels, Page
<1> DEFINE s == LogoutSays(c, p)
           t == IF HasToken(p) THEN <<Subscribe(Trader(p.account))>> ELSE <<>>
<1>2. /\ t \in Seq(Msg) /\ \A m : Silent(t, Market(m))
      /\ HasToken(p) => Asks(t, Trader(p.account))
  BY <1>1, OneMessage, NoMessage, ChannelsDiffer
<1>3. s \in Seq(Msg) /\ \A m : Silent(s, Market(m))
  BY LogoutIsSilent
<1>4. ChangeAccountSays(c, p) = s \o t
  BY DEF ChangeAccountSays
<1> HIDE DEF s, t
<1> QED
  BY <1>2, <1>3, <1>4, AsksLast, SilentBoth

\* What componentDidUpdate says of the account, whoever is logged in.
LEMMA AccountIsSaid ==
    ASSUME NEW c, NEW p \in Page, p.loggedIn \subseteq p.saved
    PROVE  /\ AccountSays(c, p) \in Seq(Msg)
           /\ \A m : Silent(AccountSays(c, p), Market(m))
           /\ LoggedIn(p) => Asks(AccountSays(c, p), Trader(p.account))
  BY AccountIsAsked, LogoutIsSilent DEF AccountSays, LoggedIn, HasToken

---------------------------------------------------------------------------
(* The inductive invariant *)

Types ==
    /\ page \in Page /\ socket \in Socket /\ connector \in Connector
    /\ toServer \in Seq(Msg) /\ subscribed \subseteq Channels /\ toPage \in Seq(Markets)

\* A channel is covered when an open connection will have it, and when what waits for the
\* next connection does not take it away.
Covered(channel) ==
    /\ socket.ws = "open" => WillHave(channel)
    /\ socket.readyState # "OPEN" => Keeps(connector.preEvents, channel)

WantedOf(p) == {Market(p.market)} \cup (IF LoggedIn(p) THEN {Trader(p.account)} ELSE {})

Session == page.loggedIn \subseteq page.saved
Shown == connector.mounted => connector.channel = page.market
Ready ==
    /\ socket.ws = "open" => socket.readyState = "OPEN"
    /\ socket.readyState = "OPEN" => connector.preEvents = <<>>
Covers == connector.mounted => \A channel \in WantedOf(page) : Covered(channel)

FeedInv == Types /\ Session /\ Shown /\ Ready /\ Covers

\* WillHave in terms of what is on its way.
LEMMA WillHaveIff ==
    ASSUME Types, NEW channel
    PROVE  WillHave(channel) <=> \/ Silent(toServer, channel) /\ channel \in subscribed
                                 \/ Asks(toServer, channel)
<1>1. DOMAIN toServer = 1..Len(toServer)
  BY DEF Types
<1> QED
  BY <1>1 DEF WillHave, Silent, Asks

\* The same, after a step.
LEMMA WillHaveNext ==
    ASSUME Types', NEW channel
    PROVE  WillHave(channel)' <=> \/ Silent(toServer', channel) /\ channel \in subscribed'
                                  \/ Asks(toServer', channel)
<1>1. DOMAIN toServer' = 1..Len(toServer')
  BY DEF Types
<1> QED
  BY <1>1 DEF WillHave, Silent, Asks

\* What is said when the page changes: a channel that is asked for last is covered, and one
\* that was covered stays so unless it is unsubscribed from.
LEMMA SayCovers ==
    ASSUME Types, Types', Ready, NEW says \in Seq(Msg), NEW STATE c, Say(says, c),
           c.preEvents = connector.preEvents, c \in Connector,
           socket'.ws = "open" => socket.ws = "open", socket'.readyState = socket.readyState,
           UNCHANGED subscribed, NEW channel,
           Asks(says, channel) \/ (Keeps(says, channel) /\ Covered(channel))
    PROVE  Covered(channel)'
<1>1. CASE socket.readyState = "OPEN"
  <2>1. SUFFICES ASSUME socket.ws = "open" PROVE WillHave(channel)'
    BY <1>1 DEF Covered
  <2>2. toServer' = toServer \o says
    BY <1>1, <2>1 DEF Say, Send
  <2>3. toServer \in Seq(Msg)
    BY DEF Types
  <2>4. CASE Asks(says, channel)
    BY <2>2, <2>3, <2>4, AsksLast, WillHaveNext
  <2>5. CASE Keeps(says, channel) /\ Covered(channel)
    <3>1. \/ Silent(toServer, channel) /\ channel \in subscribed
          \/ Asks(toServer, channel)
      BY <2>1, <2>5, WillHaveIff DEF Covered
    <3> QED
      BY <2>2, <2>3, <2>4, <2>5, <3>1, AsksFirst, SilentBoth, WillHaveNext DEF Keeps
  <2> QED
    BY <2>4, <2>5
<1>2. CASE socket.readyState # "OPEN"
  <2>1. connector.preEvents \in Seq(Msg) /\ connector \in Connector
    BY DEF Types, Connector
  <2>2. connector' = [c EXCEPT !.preEvents = @ \o says]
    BY <1>2 DEF Say
  <2>3. connector'.preEvents = connector.preEvents \o says
    BY <2>2 DEF Connector
  <2>4. Keeps(connector'.preEvents, channel)
    BY <1>2, <2>1, <2>3, KeepsBoth, AsksLast DEF Covered, Keeps
  <2> QED
    BY <1>2, <2>4 DEF Covered, Ready
<1> QED
  BY <1>1, <1>2

\* And the types of what it leaves.
LEMMA SayTypes ==
    ASSUME Types, Ready, NEW says \in Seq(Msg), NEW STATE c, Say(says, c),
           c.preEvents = connector.preEvents, c \in Connector
    PROVE  /\ toServer' \in Seq(Msg) /\ connector' \in Connector
           /\ connector'.mounted = c.mounted /\ connector'.channel = c.channel
           /\ socket.readyState = "OPEN" => connector'.preEvents = <<>>
<1>1. connector.preEvents \in Seq(Msg) /\ toServer \in Seq(Msg)
  BY DEF Types, Connector
<1>2. CASE socket.readyState = "OPEN"
  <2>1. connector' = c /\ (toServer' = toServer \/ toServer' = toServer \o says)
    BY <1>2 DEF Say, Send
  <2>2. toServer' \in Seq(Msg)
    <3>1. toServer \o says \in Seq(Msg)
      BY <1>1
    <3> QED
      BY <1>1, <2>1, <3>1
  <2>3. connector.preEvents = <<>>
    BY <1>2 DEF Ready
  <2> QED
    BY <2>1, <2>2, <2>3
<1>3. CASE socket.readyState # "OPEN"
  <2>1. connector' = [c EXCEPT !.preEvents = @ \o says] /\ UNCHANGED toServer
    BY <1>3 DEF Say
  <2>2. connector.preEvents \o says \in Seq(Msg)
    BY <1>1
  <2> QED
    BY <1>1, <1>3, <2>1, <2>2 DEF Connector
<1> QED
  BY <1>2, <1>3

---------------------------------------------------------------------------
(* The steps *)

\* At the start nothing is mounted.
LEMMA InitInv == Init => FeedInv
<1> SUFFICES ASSUME Init PROVE FeedInv
  OBVIOUS
<1>1. page \in Page /\ page.account = None /\ page.loggedIn = {}
  BY DEF Init, Page
<1>2. socket \in Socket /\ socket.ws = "none" /\ socket.readyState = "CONNECTING"
  BY DEF Init, Socket
<1>3. connector \in Connector /\ ~connector.mounted
  BY DEF Init, Connector
<1> QED
  BY <1>1, <1>2, <1>3 DEF Init, FeedInv, Types, Session, Shown, Ready, Covers

\* A step in which the connector says something and the page becomes p.
LEMMA SayStep ==
    ASSUME FeedInv, NEW says \in Seq(Msg), NEW STATE c, Say(says, c),
           c.preEvents = connector.preEvents, c \in Connector,
           socket' \in Socket, socket'.ws = "open" => socket.ws = "open",
           socket'.readyState = socket.readyState,
           UNCHANGED <<subscribed, toPage>>,
           page' \in Page, page'.loggedIn \subseteq page'.saved,
           c.mounted => c.channel = page'.market,
           \A channel \in WantedOf(page') :
               c.mounted => \/ Asks(says, channel)
                            \/ Keeps(says, channel) /\ Covered(channel)
    PROVE  FeedInv'
<1>1. /\ toServer' \in Seq(Msg) /\ connector' \in Connector
      /\ connector'.mounted = c.mounted /\ connector'.channel = c.channel
      /\ socket.readyState = "OPEN" => connector'.preEvents = <<>>
  BY SayTypes DEF FeedInv
<1>2. Types'
  BY <1>1 DEF FeedInv, Types
<1>3. ASSUME connector'.mounted, NEW channel \in WantedOf(page') PROVE Covered(channel)'
  BY <1>1, <1>2, <1>3, SayCovers DEF FeedInv
<1> QED
  BY <1>1, <1>2, <1>3 DEF FeedInv, Session, Shown, Ready, Covers

\* componentDidMount asks for the market and the account.
LEMMA MountStep == ASSUME FeedInv, Mount PROVE FeedInv'
<1> DEFINE of == IF LoggedIn(page) THEN ChangeAccountSays(connector, page) ELSE <<>>
           says == ChangeMarketSays(connector, page.market) \o of
           c == [connector EXCEPT !.mounted = TRUE, !.channel = page.market,
                                  !.account = LastAccount(page)]
<1>1. page \in Page /\ page.market \in Markets /\ connector \in Connector /\ socket \in Socket
  BY DEF FeedInv, Types, Page
<1>2. /\ of \in Seq(Msg) /\ Silent(of, Market(page.market))
      /\ LoggedIn(page) => Asks(of, Trader(page.account))
  BY <1>1, AccountIsAsked, NoMessage DEF FeedInv, Session, LoggedIn, HasToken
<1>3. /\ ChangeMarketSays(connector, page.market) \in Seq(Msg)
      /\ Asks(ChangeMarketSays(connector, page.market), Market(page.market))
  BY <1>1, MarketIsAsked
<1>4. says \in Seq(Msg) /\ \A channel \in WantedOf(page) : Asks(says, channel)
  <2> HIDE DEF of
  <2>1. Asks(says, Market(page.market)) /\ says \in Seq(Msg)
    BY <1>2, <1>3, AsksFirst
  <2>2. LoggedIn(page) => Asks(says, Trader(page.account))
    BY <1>2, <1>3, AsksLast
  <2> QED
    BY <2>1, <2>2 DEF WantedOf
<1>5. LastAccount(page) \in Accounts \cup {None}
  BY <1>1 DEF LastAccount, Page
<1>6. /\ c \in Connector /\ c.preEvents = connector.preEvents
      /\ c.channel = page.market
  BY <1>1, <1>5 DEF Connector
<1>7. Say(says, c) /\ UNCHANGED <<page, subscribed, toPage>> /\ socket' = Open(FALSE)
  BY DEF Mount
<1>8. socket' \in Socket /\ socket'.ws = "connecting" /\ socket'.readyState = socket.readyState
  BY <1>1, <1>7 DEF Open, Socket
<1> HIDE DEF says, c
<1> QED
  BY <1>1, <1>4, <1>6, <1>7, <1>8, SayStep DEF FeedInv, Session

\* After componentWillUnmount nothing has to be covered.
LEMMA UnmountStep == ASSUME FeedInv, Unmount PROVE FeedInv'
<1> DEFINE says == LogoutSays(connector, page)
           c == [connector EXCEPT !.mounted = FALSE, !.account = None]
<1>1. page \in Page /\ connector \in Connector /\ socket \in Socket
  BY DEF FeedInv, Types
<1>2. says \in Seq(Msg)
  BY <1>1, LogoutIsSilent
<1>3. c \in Connector /\ c.preEvents = connector.preEvents /\ ~c.mounted
  BY <1>1 DEF Connector
<1>4. Say(says, c) /\ UNCHANGED <<page, subscribed, toPage>> /\ socket' = Close(socket)
  BY DEF Unmount
<1>5. socket' \in Socket /\ socket'.ws # "open" /\ socket'.readyState = socket.readyState
  BY <1>1, <1>4 DEF Close, Socket
<1> HIDE DEF says, c
<1> QED
  BY <1>1, <1>2, <1>3, <1>4, <1>5, SayStep DEF FeedInv, Session

\* The new market is asked for, and the account stays covered.
LEMMA SelectMarketStep == ASSUME FeedInv, NEW m \in Markets, SelectMarket(m) PROVE FeedInv'
<1> DEFINE says == ChangeMarketSays(connector, m)
           c == [connector EXCEPT !.channel = m]
<1>1. page \in Page /\ connector \in Connector /\ socket \in Socket
  BY DEF FeedInv, Types
<1>2. /\ says \in Seq(Msg) /\ Asks(says, Market(m))
      /\ \A a : Silent(says, Trader(a))
  BY MarketIsAsked
<1>3. c \in Connector /\ c.preEvents = connector.preEvents /\ c.channel = m
      /\ c.mounted = connector.mounted
  BY <1>1 DEF Connector
<1>4. Say(says, c) /\ UNCHANGED <<socket, subscribed, toPage>>
      /\ page' = [page EXCEPT !.market = m, !.history = {}]
  BY DEF SelectMarket
<1>5. /\ page' \in Page /\ page'.market = m /\ page'.account = page.account
      /\ page'.loggedIn = page.loggedIn /\ page'.saved = page.saved
  BY <1>1, <1>4 DEF Page
<1> HIDE DEF says, c
<1>6. ASSUME NEW channel \in WantedOf(page'), connector.mounted
      PROVE  Asks(says, channel) \/ (Keeps(says, channel) /\ Covered(channel))
  <2>1. CASE channel = Market(m)
    BY <1>2, <2>1
  <2>2. CASE channel # Market(m)
    <3>1. channel = Trader(page.account) /\ LoggedIn(page)
      BY <1>5, <1>6, <2>2 DEF WantedOf, LoggedIn
    <3> QED
      BY <1>2, <1>6, <3>1 DEF Keeps, FeedInv, Covers, WantedOf
  <2> QED
    BY <2>1, <2>2
<1> QED
  BY <1>1, <1>2, <1>3, <1>4, <1>5, <1>6, SayStep DEF FeedInv, Session

\* A change of the account or of its session, in which the connector says the account.
LEMMA AccountStep ==
    ASSUME FeedInv, NEW says \in Seq(Msg), NEW STATE last, last \in Accounts \cup {None},
           connector.mounted, Say(says, [connector EXCEPT !.account = last]),
           UNCHANGED <<socket, subscribed, toPage>>,
           page' \in Page, page'.loggedIn \subseteq page'.saved, page'.market = page.market,
           \A m : Silent(says, Market(m)),
           LoggedIn(page') => Asks(says, Trader(page'.account))
    PROVE  FeedInv'
<1> DEFINE c == [connector EXCEPT !.account = last]
<1>1. connector \in Connector /\ socket \in Socket
  BY DEF FeedInv, Types
<1>2. c \in Connector /\ c.preEvents = connector.preEvents /\ c.channel = page.market
  BY <1>1 DEF Connector, FeedInv, Shown
<1>3. Say(says, c)
  OBVIOUS
<1>4. ASSUME NEW channel \in WantedOf(page')
      PROVE  Asks(says, channel) \/ (Keeps(says, channel) /\ Covered(channel))
  <2>1. CASE channel = Market(page.market)
    BY <2>1 DEF Keeps, FeedInv, Covers, WantedOf
  <2>2. CASE LoggedIn(page') /\ channel = Trader(page'.account)
    BY <2>2
  <2> QED
    BY <1>4, <2>1, <2>2 DEF WantedOf
<1> HIDE DEF c
<1> QED
  BY <1>1, <1>2, <1>3, <1>4, SayStep

\* A change of the page in which the connector says nothing.
LEMMA QuietStep ==
    ASSUME FeedInv, UNCHANGED <<socket, connector, toServer, subscribed, toPage>>,
           page' \in Page, page'.loggedIn \subseteq page'.saved, page'.market = page.market,
           connector.mounted => WantedOf(page') \subseteq WantedOf(page)
    PROVE  FeedInv'
<1>1. \A channel : Covered(channel) => Covered(channel)'
  BY DEF Covered, WillHave
<1> QED
  BY <1>1 DEF FeedInv, Types, Session, Shown, Ready, Covers

\* The account the connector remembers.
LEMMA LastAccountType == ASSUME NEW p \in Page PROVE LastAccount(p) \in Accounts \cup {None}
  BY DEF LastAccount, Page

\* What Update says of the page p.
LEMMA UpdateStep ==
    ASSUME FeedInv, NEW STATE p, p \in Page, p.loggedIn \subseteq p.saved,
           p.market = page.market, p.account = page.account,
           page' = p, Update(p), UNCHANGED <<socket, subscribed, toPage>>
    PROVE  FeedInv'
<1>1. CASE connector.mounted /\ LoggedIn(p) # LoggedIn(page)
  <2> DEFINE says == AccountSays(connector, p)
             last == LastAccount(p)
  <2>1. /\ says \in Seq(Msg) /\ \A m : Silent(says, Market(m))
        /\ LoggedIn(p) => Asks(says, Trader(p.account))
    BY AccountIsSaid
  <2>2. last \in Accounts \cup {None}
    BY LastAccountType
  <2>3. Say(says, [connector EXCEPT !.account = last])
    BY <1>1 DEF Update
  <2> HIDE DEF says, last
  <2> QED
    BY <1>1, <2>1, <2>2, <2>3, AccountStep
<1>2. CASE ~(connector.mounted /\ LoggedIn(p) # LoggedIn(page))
  <2>1. UNCHANGED <<connector, toServer>>
    BY <1>2 DEF Update
  <2>2. connector.mounted => WantedOf(p) \subseteq WantedOf(page)
    BY <1>2 DEF WantedOf
  <2> QED
    BY <2>1, <2>2, QuietStep
<1> QED
  BY <1>1, <1>2

\* A login, of the account shown or of another.
LEMMA LoginStep == ASSUME FeedInv, NEW a \in Accounts, Login(a) PROVE FeedInv'
<1> DEFINE p == [page EXCEPT !.loggedIn = @ \cup {a}, !.saved = @ \cup {a}]
<1>1. page \in Page /\ page.loggedIn \subseteq page.saved
  BY DEF FeedInv, Types, Session
<1>2. /\ p \in Page /\ p.loggedIn \subseteq p.saved
      /\ p.market = page.market /\ p.account = page.account
  BY <1>1 DEF Page
<1>3. page' = p /\ Update(p) /\ UNCHANGED <<socket, subscribed, toPage>>
  BY DEF Login
<1> HIDE DEF p
<1> QED
  BY <1>2, <1>3, UpdateStep

\* A session ends, of the account shown or of another.
LEMMA SessionEndsStep == ASSUME FeedInv, NEW a \in Accounts, SessionEnds(a) PROVE FeedInv'
<1> DEFINE p == [page EXCEPT !.loggedIn = @ \ {a}, !.saved = @ \ {a}]
<1>1. page \in Page /\ page.loggedIn \subseteq page.saved
  BY DEF FeedInv, Types, Session
<1>2. /\ p \in Page /\ p.loggedIn \subseteq p.saved
      /\ p.market = page.market /\ p.account = page.account
  BY <1>1 DEF Page
<1>3. page' = p /\ Update(p) /\ UNCHANGED <<socket, subscribed, toPage>>
  BY DEF SessionEnds
<1> HIDE DEF p
<1> QED
  BY <1>2, <1>3, UpdateStep

\* Another account: both updates say it, and the second one last.
LEMMA SelectAccountStep ==
    ASSUME FeedInv, NEW a \in Accounts \cup {None}, SelectAccount(a) PROVE FeedInv'
<1> DEFINE p == [page EXCEPT !.account = a]
           q == IF HasToken(p) THEN [p EXCEPT !.loggedIn = @ \cup {a}] ELSE p
           c == [connector EXCEPT !.account = LastAccount(p)]
           more == IF q = p THEN <<>> ELSE ChangeAccountSays(c, q)
           says == AccountSays(connector, p) \o more
           last == LastAccount(q)
<1>1. page \in Page /\ page.loggedIn \subseteq page.saved /\ connector \in Connector
  BY DEF FeedInv, Types, Session
<1>2. /\ p \in Page /\ p.loggedIn \subseteq p.saved
      /\ p.market = page.market /\ p.account = a /\ p.saved = page.saved
  BY <1>1 DEF Page
<1>3. /\ q \in Page /\ q.loggedIn \subseteq q.saved
      /\ q.market = page.market /\ q.account = a
      /\ q # p => HasToken(q)
  <2> HIDE DEF p
  <2>1. CASE HasToken(p)
    <3>1. a \in p.saved /\ a \in Accounts
      BY <1>2, <2>1 DEF HasToken, Page
    <3> QED
      BY <1>2, <2>1, <3>1 DEF HasToken, Page
  <2>2. CASE ~HasToken(p)
    BY <1>2, <2>2
  <2> QED
    BY <2>1, <2>2
<1>4. page' = q /\ UNCHANGED <<socket, subscribed, toPage>>
  BY DEF SelectAccount
<1>5. CASE ~connector.mounted
  BY <1>3, <1>4, <1>5, QuietStep DEF SelectAccount
<1>6. CASE connector.mounted
  <2>1. Say(says, [connector EXCEPT !.account = last])
    BY <1>6 DEF SelectAccount
  <2>3. last \in Accounts \cup {None}
    BY <1>3, LastAccountType
  <2> HIDE DEF c, p, q, last
  <2>4. /\ AccountSays(connector, p) \in Seq(Msg)
        /\ \A m : Silent(AccountSays(connector, p), Market(m))
        /\ LoggedIn(p) => Asks(AccountSays(connector, p), Trader(p.account))
    BY <1>2, AccountIsSaid
  <2>5. /\ more \in Seq(Msg) /\ \A m : Silent(more, Market(m))
        /\ q # p => Asks(more, Trader(a))
        /\ q = p => more = <<>>
    BY <1>3, AccountIsAsked, NoMessage
  <2> HIDE DEF more
  <2>6. says \in Seq(Msg) /\ \A m : Silent(says, Market(m))
    BY <2>4, <2>5, SilentBoth
  <2>7. LoggedIn(q) => Asks(says, Trader(a))
    BY <1>2, <2>4, <2>5, AsksLast, AsksFirst, NoMessage
  <2> HIDE DEF says
  <2> QED
    BY <1>3, <1>4, <1>6, <2>1, <2>3, <2>6, <2>7, AccountStep
<1> QED
  BY <1>5, <1>6

---------------------------------------------------------------------------
(* The life of a connection *)

\* A new connection is told everything: the account, the market, what waited.
LEMMA OpensStep == ASSUME FeedInv, Opens PROVE FeedInv'
<1> DEFINE A == ChangeAccountSays(connector, page)
           M == IF connector.channel = None THEN <<>>
                ELSE ChangeMarketSays(connector, connector.channel)
           W == connector.preEvents
           G == IF page.account = None THEN <<>> ELSE <<Subscribe(Margin(page.account))>>
           last == IF HasToken(page) THEN page.account ELSE None
           c == [connector EXCEPT !.connected = TRUE, !.preEvents = <<>>, !.account = last]
<1>1. /\ page \in Page /\ page.loggedIn \subseteq page.saved
      /\ socket \in Socket /\ connector \in Connector
  BY DEF FeedInv, Types, Session
<1>2. /\ A \in Seq(Msg) /\ \A m : Silent(A, Market(m))
      /\ LoggedIn(page) => Asks(A, Trader(page.account))
  BY <1>1, AccountIsAsked DEF LoggedIn, HasToken
<1>3. /\ M \in Seq(Msg) /\ \A a : Silent(M, Trader(a))
      /\ connector.mounted => Asks(M, Market(page.market))
  <2>1. CASE connector.channel = None
    <3>1. page.market \in Markets
      BY <1>1 DEF Page
    <3> QED
      BY <2>1, <3>1, NoMessage, FeedAssumption DEF FeedInv, Shown
  <2>2. CASE connector.channel # None
    <3>1. connector.channel \in Markets
      BY <1>1, <2>2 DEF Connector
    <3> QED
      BY <2>2, <3>1, MarketIsAsked DEF FeedInv, Shown
  <2> QED
    BY <2>1, <2>2
<1>4. /\ W \in Seq(Msg)
      /\ connector.mounted => \A channel \in WantedOf(page) : Keeps(W, channel)
  <2>1. CASE socket.readyState = "OPEN"
    BY <1>1, <2>1, NoMessage DEF Connector, FeedInv, Ready, Keeps
  <2>2. CASE socket.readyState # "OPEN"
    BY <1>1, <2>2 DEF Connector, FeedInv, Covers, Covered
  <2> QED
    BY <2>1, <2>2
<1>5. G \in Seq(Msg) /\ \A m : Silent(G, Market(m)) /\ \A a : Silent(G, Trader(a))
  <2>1. CASE page.account = None
    BY <2>1, NoMessage
  <2>2. CASE page.account # None
    <3>1. Margin(page.account) \in Channels
      BY <1>1, <2>2 DEF Page, Channels
    <3> QED
      BY <2>2, <3>1, OneMessage, ChannelsDiffer
  <2> QED
    BY <2>1, <2>2
<1>6. c \in Connector /\ c.preEvents = <<>> /\ c.mounted = connector.mounted
      /\ c.channel = connector.channel
  <2>1. last \in Accounts \cup {None}
    BY <1>1 DEF Page
  <2> HIDE DEF last
  <2> QED
    BY <1>1, <2>1, NoMessage DEF Connector
<1>7. /\ toServer' = ((A \o M) \o W) \o G /\ connector' = c /\ socket' = Opened
      /\ UNCHANGED <<page, subscribed, toPage>>
  BY DEF Opens
<1>8. socket' \in Socket /\ socket'.ws = "open" /\ socket'.readyState = "OPEN"
  BY <1>1, <1>7 DEF Opened, Socket
<1> HIDE DEF A, M, W, G, c
<1>9. A \o M \in Seq(Msg) /\ (A \o M) \o W \in Seq(Msg) /\ ((A \o M) \o W) \o G \in Seq(Msg)
  BY <1>2, <1>3, <1>4, <1>5
<1>10. Types'
  BY <1>6, <1>7, <1>8, <1>9 DEF FeedInv, Types
<1>11. ASSUME connector.mounted, NEW channel \in WantedOf(page) PROVE Asks(toServer', channel)
  <2>1. Asks(A \o M, channel)
    <3>1. CASE channel = Market(page.market)
      BY <1>2, <1>3, <1>11, <3>1, AsksLast
    <3>2. CASE channel = Trader(page.account) /\ LoggedIn(page)
      BY <1>2, <1>3, <3>2, AsksFirst
    <3> QED
      BY <1>11, <3>1, <3>2 DEF WantedOf
  <2>2. Asks((A \o M) \o W, channel)
    <3>1. Keeps(A \o M, channel) /\ Keeps(W, channel)
      BY <1>4, <1>11, <2>1 DEF Keeps
    <3> QED
      BY <1>4, <1>9, <2>1, <3>1, KeepsBoth
  <2>3. Silent(G, channel)
    BY <1>5, <1>11 DEF WantedOf
  <2> QED
    BY <1>5, <1>7, <1>9, <2>2, <2>3, AsksFirst
<1>12. ASSUME connector.mounted, NEW channel \in WantedOf(page) PROVE Covered(channel)'
  BY <1>8, <1>10, <1>11, <1>12, WillHaveNext DEF Covered
<1> QED
  BY <1>6, <1>7, <1>8, <1>10, <1>12 DEF FeedInv, Session, Shown, Ready, Covers

\* A connection that ends: nothing is covered that has to be, and nothing waits less.
LEMMA EndStep ==
    ASSUME FeedInv, socket' \in Socket, socket'.ws # "open",
           socket'.readyState = "OPEN" => socket.readyState = "OPEN",
           connector' \in Connector, connector'.preEvents = connector.preEvents,
           connector'.mounted = connector.mounted, connector'.channel = connector.channel,
           toServer' \in Seq(Msg), subscribed' \subseteq Channels,
           UNCHANGED <<page, toPage>>
    PROVE  FeedInv'
<1>1. ASSUME connector.mounted, NEW channel \in WantedOf(page) PROVE Covered(channel)'
  <2>1. Keeps(connector.preEvents, channel)
    <3>1. CASE socket.readyState = "OPEN"
      BY <3>1, NoMessage DEF FeedInv, Ready, Keeps
    <3>2. CASE socket.readyState # "OPEN"
      BY <1>1, <3>2 DEF FeedInv, Covers, Covered
    <3> QED
      BY <3>1, <3>2
  <2> QED
    BY <2>1 DEF Covered
<1> QED
  BY <1>1 DEF FeedInv, Types, Session, Shown, Ready, Covers

\* The steps of a connection that ends.
LEMMA ConnectionSteps == ASSUME FeedInv, Drop \/ OnClose \/ Reconnect PROVE FeedInv'
<1>1. socket \in Socket /\ connector \in Connector
  BY DEF FeedInv, Types
<1>2. <<>> \in Seq(Msg)
  BY NoMessage
<1>3. CASE Drop
  <2>1. socket' \in Socket /\ socket'.ws = "closing" /\ socket'.readyState = socket.readyState
    BY <1>1, <1>3 DEF Drop, Socket
  <2> QED
    BY <1>1, <1>2, <1>3, <2>1, EndStep DEF Drop
<1>4. CASE OnClose
  <2>1. socket' \in Socket /\ socket'.ws = "none" /\ socket'.readyState # "OPEN"
    BY <1>1, <1>4 DEF OnClose, Closed, Socket
  <2>2. /\ connector' \in Connector /\ connector'.preEvents = connector.preEvents
        /\ connector'.mounted = connector.mounted /\ connector'.channel = connector.channel
    BY <1>1, <1>4 DEF OnClose, Connector
  <2> QED
    BY <1>2, <1>4, <2>1, <2>2, EndStep DEF OnClose
<1>5. CASE Reconnect
  <2>1. /\ socket' \in Socket /\ socket'.ws = "connecting"
        /\ socket'.readyState = socket.readyState
    BY <1>1, <1>5 DEF Reconnect, Open, Socket
  <2> QED
    BY <1>1, <1>5, <2>1, EndStep DEF Reconnect, FeedInv, Types
<1> QED
  BY <1>3, <1>4, <1>5

\* The server reads a message: the others are still on their way.
LEMMA ReceiveStep == ASSUME FeedInv, Receive PROVE FeedInv'
<1>1. toServer \in Seq(Msg) /\ toServer # <<>> /\ toServer' = Tail(toServer)
  BY DEF FeedInv, Types, Receive
<1>2. Head(toServer) = toServer[1] /\ toServer[1] \in Msg /\ Len(toServer) \in Nat \ {0}
  BY <1>1
<1>3. /\ toServer' \in Seq(Msg) /\ Len(toServer') = Len(toServer) - 1
      /\ \A i \in 1..Len(toServer') : toServer'[i] = toServer[i + 1]
  BY <1>1, <1>2
<1>4. subscribed' = IF toServer[1].type = "subscribe" THEN subscribed \cup {toServer[1].channel}
                    ELSE subscribed \ {toServer[1].channel}
  BY <1>2 DEF Receive
<1>5. Types'
  BY <1>2, <1>3, <1>4 DEF FeedInv, Types, Msg, Receive
<1>6. ASSUME NEW channel, Asks(toServer, channel)
      PROVE  Asks(toServer', channel) \/ (Silent(toServer', channel) /\ channel \in subscribed')
  <2>1. PICK i \in 1..Len(toServer) :
               /\ toServer[i].channel = channel /\ toServer[i].type = "subscribe"
               /\ \A j \in 1..Len(toServer) : toServer[j].channel = channel => j <= i
    BY <1>6 DEF Asks
  <2>2. CASE i = 1
    <3>1. channel \in subscribed'
      BY <1>4, <2>1, <2>2
    <3>2. ASSUME NEW j \in 1..Len(toServer'), toServer'[j].channel = channel PROVE FALSE
      <4>1. j + 1 \in 1..Len(toServer) /\ toServer[j + 1].channel = channel
        BY <1>2, <1>3, <3>2
      <4> QED
        BY <2>1, <2>2, <4>1
    <3> QED
      BY <3>1, <3>2 DEF Silent
  <2>3. CASE i # 1
    <3>1. i - 1 \in 1..Len(toServer') /\ toServer'[i - 1] = toServer[i]
      BY <1>2, <1>3, <2>3
    <3>2. ASSUME NEW j \in 1..Len(toServer'), toServer'[j].channel = channel PROVE j <= i - 1
      <4>1. j + 1 \in 1..Len(toServer) /\ toServer[j + 1].channel = channel
        BY <1>2, <1>3, <3>2
      <4> QED
        BY <2>1, <4>1
    <3> QED
      BY <2>1, <3>1, <3>2 DEF Asks
  <2> QED
    BY <2>2, <2>3
<1>7. ASSUME NEW channel, Silent(toServer, channel), channel \in subscribed
      PROVE  Silent(toServer', channel) /\ channel \in subscribed'
  <2>1. toServer[1].channel # channel
    BY <1>2, <1>7 DEF Silent
  <2>2. ASSUME NEW j \in 1..Len(toServer') PROVE toServer'[j].channel # channel
    <3>1. j + 1 \in 1..Len(toServer) /\ toServer'[j] = toServer[j + 1]
      BY <1>2, <1>3
    <3> QED
      BY <1>7, <3>1 DEF Silent
  <2> QED
    BY <1>4, <1>7, <2>1, <2>2 DEF Silent
<1>8. ASSUME NEW channel, WillHave(channel) PROVE WillHave(channel)'
  <2>1. Types
    BY DEF FeedInv
  <2> QED
    BY <1>5, <1>6, <1>7, <1>8, <2>1, WillHaveIff, WillHaveNext
<1>9. ASSUME NEW channel, Covered(channel) PROVE Covered(channel)'
  BY <1>8, <1>9 DEF Covered, Receive
<1> QED
  BY <1>5, <1>9 DEF FeedInv, Session, Shown, Ready, Covers, Receive

\* What the server publishes and the page takes.
LEMMA TradeSteps == ASSUME FeedInv, OnMessage \/ \E m \in Markets : Publish(m) PROVE FeedInv'
<1>1. page \in Page /\ toPage \in Seq(Markets)
  BY DEF FeedInv, Types
<1>2. UNCHANGED <<socket, connector, toServer, subscribed>> /\ toPage' \in Seq(Markets)
  BY <1>1 DEF OnMessage, Publish
<1>3. \A channel : Covered(channel) => Covered(channel)'
  BY <1>2 DEF Covered, WillHave
<1>4. /\ page' \in Page /\ page'.market = page.market /\ page'.account = page.account
      /\ page'.loggedIn = page.loggedIn /\ page'.saved = page.saved
  <2>1. CASE OnMessage
    BY <1>1, <2>1 DEF OnMessage, MarketTrade, Page
  <2>2. CASE \E m \in Markets : Publish(m)
    BY <1>1, <2>2 DEF Publish
  <2> QED
    BY <2>1, <2>2
<1>5. WantedOf(page') = WantedOf(page)
  BY <1>4 DEF WantedOf, LoggedIn
<1> QED
  BY <1>2, <1>3, <1>4, <1>5 DEF FeedInv, Types, Session, Shown, Ready, Covers

\* Every step keeps the invariant.
LEMMA NextInv == FeedInv /\ [Next]_feedVars => FeedInv'
<1> SUFFICES ASSUME FeedInv, [Next]_feedVars PROVE FeedInv'
  OBVIOUS
<1>1. CASE UNCHANGED feedVars
  BY <1>1, QuietStep DEF feedVars, FeedInv, Types, Session
<1>2. CASE Next
  BY <1>2, MountStep, UnmountStep, SelectMarketStep, SelectAccountStep, LoginStep,
     SessionEndsStep, OpensStep, ConnectionSteps, ReceiveStep, TradeSteps DEF Next
<1> QED
  BY <1>1, <1>2

\* It holds always.
LEMMA SpecInv == Spec => []FeedInv
<1> QED
  BY InitInv, NextInv, PTL DEF Spec

---------------------------------------------------------------------------
(* The theorems *)

\* Types: the page, the socket, the connector and what is on its way.
THEOREM FeedTypeCorrect == Spec => []TypeOK
<1>1. FeedInv => TypeOK
  <2> SUFFICES ASSUME FeedInv PROVE TypeOK
    OBVIOUS
  <2>1. ASSUME NEW i \in DOMAIN toServer PROVE toServer[i].channel \in Channels
    <3>1. toServer[i] \in Msg
      BY DEF FeedInv, Types
    <3> QED
      BY <3>1 DEF Msg
  <2>2. connector.channel \in Markets \cup {None} /\ connector.account \in Accounts \cup {None}
    BY DEF FeedInv, Types, Connector
  <2> QED
    BY <2>1, <2>2 DEF FeedInv, Types, TypeOK, Page, Socket
<1> QED
  BY <1>1, SpecInv, PTL

\* Whatever happened to the page and to the connection, the server of an open connection
\* will have the channels of what the page shows.
THEOREM FeedSubscribedToCurrent == Spec => []SubscribedToCurrent
<1>1. FeedInv => SubscribedToCurrent
  BY DEF FeedInv, Covers, Covered, SubscribedToCurrent, Wanted, WantedOf
<1> QED
  BY <1>1, SpecInv, PTL

\* The trades of a market that was shown before, whose channel is still subscribed, never
\* get into the history of the market shown.
THEOREM FeedHistoryIsCurrent == Spec => []HistoryOfCurrentMarket
<1>1. Init => HistoryOfCurrentMarket
  BY DEF Init, HistoryOfCurrentMarket
<1>2. FeedInv /\ HistoryOfCurrentMarket /\ [Next]_feedVars => HistoryOfCurrentMarket'
  <2> SUFFICES ASSUME FeedInv, HistoryOfCurrentMarket, [Next]_feedVars
               PROVE  HistoryOfCurrentMarket'
    OBVIOUS
  <2>1. page \in Page
    BY DEF FeedInv, Types
  <2>2. CASE UNCHANGED page
    BY <2>2 DEF HistoryOfCurrentMarket
  <2>3. ASSUME NEW m \in Markets, SelectMarket(m) PROVE HistoryOfCurrentMarket'
    BY <2>1, <2>3 DEF SelectMarket, HistoryOfCurrentMarket, Page
  <2>4. ASSUME NEW a \in Accounts \cup {None}, SelectAccount(a) PROVE HistoryOfCurrentMarket'
    BY <2>1, <2>4 DEF SelectAccount, HistoryOfCurrentMarket, Page
  <2>5. ASSUME NEW a \in Accounts, Login(a) \/ SessionEnds(a) PROVE HistoryOfCurrentMarket'
    BY <2>1, <2>5 DEF Login, SessionEnds, HistoryOfCurrentMarket, Page
  <2>6. CASE OnMessage
    BY <2>1, <2>6 DEF OnMessage, MarketTrade, HistoryOfCurrentMarket, Page
  <2> QED
    BY <2>2, <2>3, <2>4, <2>5, <2>6
    DEF Next, feedVars, Mount, Unmount, Opens, Drop, OnClose, Reconnect, Receive, Publish
<1> QED
  BY <1>1, <1>2, SpecInv, PTL DEF Spec
=============================================================================
