---------------------------- MODULE MarketFeed ----------------------------
(***************************************************************************)
(* The live feed of the web client: components/WebsocketConnector over     *)
(* ReconnectingWebSocket, and the channels the server keeps for the        *)
(* connection.  The connector asks for the channels of the market and of   *)
(* the account the page shows; what it has to say while the socket is not  *)
(* open waits in preEvents.  The socket reconnects by itself, and a new    *)
(* connection starts with no channel at all.                               *)
(*                                                                         *)
(* The browser's WebSocket lies about being open for a while: between the  *)
(* end of the connection and its close event the wrapper's readyState is   *)
(* still OPEN, and what is sent then is dropped without an error.          *)
(***************************************************************************)
EXTENDS Naturals, Sequences

CONSTANTS
    Markets,
    Accounts,
    None,          \* no account selected, no channel subscribed yet
    MaxDrops,      \* bound on connections that fail or end
    MaxSwitches,   \* bound on changes of the market, the account or a session
    MaxMessages    \* bound on messages the server publishes

ASSUME FeedAssumption ==
    /\ None \notin Markets \cup Accounts
    /\ MaxDrops \in Nat /\ MaxSwitches \in Nat /\ MaxMessages \in Nat

VARIABLES
    page,        \* what the store holds of the market, the account, its session
    socket,      \* the ReconnectingWebSocket: browser socket, readyState, flags
    connector,   \* the fields of the WebsocketConnector
    toServer,    \* messages on their way to the server, in order
    subscribed,  \* the channels the server keeps for the connection
    toPage,      \* messages on their way to the page, in order
    drops, switches, published

feedVars == <<page, socket, connector, toServer, subscribed, toPage, drops, switches, published>>

---------------------------------------------------------------------------
(* Channels and the messages about them *)

Market(m) == <<"Market", m>>
Trader(a) == <<"TraderAddress", a>>
Margin(a) == <<"Margin", a>>

Channels == {Market(m) : m \in Markets} \cup {Trader(a) : a \in Accounts \cup {None}}
                \cup {Margin(a) : a \in Accounts}

Subscribe(channel) == [type |-> "subscribe", channel |-> channel]
Unsubscribe(channel) == [type |-> "unsubscribe", channel |-> channel]

---------------------------------------------------------------------------
(* The connector *)

LoggedIn(p) == p.account # None /\ p.account \in p.loggedIn

\* MutChangeMarketSays: the unsubscribe is sent after the subscribe.
MutChangeMarketSays(c, m) ==
    <<Subscribe(Market(m))>> \o (IF c.channel = None THEN <<>> ELSE <<Unsubscribe(Market(m))>>)

\* changeMarket unsubscribes from the channel of the new market, not of the last one.
ChangeMarketSays(c, m) ==
    (IF c.channel = None THEN <<>> ELSE <<Unsubscribe(Market(m))>>) \o <<Subscribe(Market(m))>>

\* logoutLastAccount unsubscribes from the channel of the address shown now.
LogoutSays(c, p) == IF c.account = None THEN <<>> ELSE <<Unsubscribe(Trader(p.account))>>

HasToken(p) == p.account # None /\ p.account \in p.saved

ChangeAccountSays(c, p) ==
    LogoutSays(c, p) \o (IF HasToken(p) THEN <<Subscribe(Trader(p.account))>> ELSE <<>>)

\* componentDidUpdate after a change of the account or of its session.
AccountSays(c, p) == IF LoggedIn(p) THEN ChangeAccountSays(c, p) ELSE LogoutSays(c, p)
LastAccount(p) == IF LoggedIn(p) /\ HasToken(p) THEN p.account ELSE None

\* send of the wrapper: the browser drops what it gets while the connection is ending.
Send(messages) == toServer' = IF socket.ws = "open" THEN toServer \o messages ELSE toServer

\* sendMessage: what is said before the socket is open waits.
Say(messages, c) ==
    IF socket.readyState = "OPEN"
    THEN Send(messages) /\ connector' = c
    ELSE /\ connector' = [c EXCEPT !.preEvents = @ \o messages]
         /\ UNCHANGED toServer

---------------------------------------------------------------------------
(* The socket *)

\* open: a new browser socket, by the constructor or by the reconnect timer.
Open(retry) == [socket EXCEPT !.ws = "connecting", !.retry = retry, !.timer = FALSE]

\* onopen of the browser socket: a later close is no failed reconnection.
Opened == [socket EXCEPT !.ws = "open", !.readyState = "OPEN", !.retry = FALSE]

\* onclose of the browser socket: a forced close ends it, any other close sets the
\* reconnect timer, whatever was forced since.
Closed == IF socket.forced
          THEN [socket EXCEPT !.ws = "none", !.readyState = "CLOSED"]
          ELSE [socket EXCEPT !.ws = "none", !.readyState = "CONNECTING", !.timer = TRUE]

\* The close event reaches the connector unless it was a reconnection that failed.
TellsClose == socket.forced \/ ~socket.retry

\* close: the reconnect timer is not stopped.
Close(s) == [s EXCEPT !.forced = TRUE, !.ws = IF @ = "none" THEN @ ELSE "closing"]

---------------------------------------------------------------------------
Init ==
    /\ page \in [market : Markets, account : {None}, loggedIn : {{}}, saved : SUBSET Accounts,
                 history : {{}}]
    /\ socket = [ws |-> "none", readyState |-> "CONNECTING", retry |-> FALSE, timer |-> FALSE,
                 forced |-> FALSE]
    /\ connector = [mounted |-> FALSE, preEvents |-> <<>>, channel |-> None, account |-> None,
                    connected |-> FALSE]
    /\ toServer = <<>> /\ subscribed = {} /\ toPage = <<>>
    /\ drops = 0 /\ switches = 0 /\ published = 0

\* componentDidMount: App mounts the connector with the first market.
Mount ==
    /\ ~connector.mounted /\ ~socket.forced
    /\ socket' = Open(FALSE)
    /\ LET said == ChangeMarketSays(connector, page.market)
                     \o (IF LoggedIn(page) THEN ChangeAccountSays(connector, page) ELSE <<>>)
       IN Say(said, [connector EXCEPT !.mounted = TRUE, !.channel = page.market,
                                      !.account = LastAccount(page)])
    /\ UNCHANGED <<page, subscribed, toPage, drops, switches, published>>

\* componentWillUnmount.
Unmount ==
    /\ connector.mounted
    /\ Say(LogoutSays(connector, page), [connector EXCEPT !.mounted = FALSE, !.account = None])
    /\ socket' = Close(socket)
    /\ UNCHANGED <<page, subscribed, toPage, drops, switches, published>>

---------------------------------------------------------------------------
(* The store changes and the connector is updated *)

Switch == switches < MaxSwitches /\ switches' = switches + 1

\* A market chosen in the header: UPDATE_CURRENT_MARKET empties the trade history.
SelectMarket(m) ==
    /\ Switch
    /\ connector.mounted /\ m # page.market
    /\ page' = [page EXCEPT !.market = m, !.history = {}]
    /\ Say(ChangeMarketSays(connector, m), [connector EXCEPT !.channel = m])
    /\ UNCHANGED <<socket, subscribed, toPage, drops, published>>

\* What the connector says when p replaces the page it was last updated with.
Update(p) ==
    IF connector.mounted /\ (p.account # page.account \/ LoggedIn(p) # LoggedIn(page))
    THEN Say(AccountSays(connector, p), [connector EXCEPT !.account = LastAccount(p)])
    ELSE UNCHANGED <<connector, toServer>>

\* The wallet selects another account.  The header logs it in when a token is saved:
\* the connector is updated before and after, and says both.
SelectAccount(a) ==
    /\ Switch
    /\ a # page.account
    /\ LET p == [page EXCEPT !.account = a]
           q == IF HasToken(p) THEN [p EXCEPT !.loggedIn = @ \cup {a}] ELSE p
           c == [connector EXCEPT !.account = LastAccount(p)]
           more == IF q = p THEN <<>> ELSE ChangeAccountSays(c, q)
       IN /\ page' = q
          /\ IF connector.mounted
             THEN Say(AccountSays(connector, p) \o more,
                      [connector EXCEPT !.account = LastAccount(q)])
             ELSE UNCHANGED <<connector, toServer>>
    /\ UNCHANGED <<socket, subscribed, toPage, drops, published>>

\* loginRequest got the signature of an account, which may not be the one shown any more.
Login(a) ==
    /\ Switch
    /\ a \notin page.loggedIn
    /\ LET p == [page EXCEPT !.loggedIn = @ \cup {a}, !.saved = @ \cup {a}]
       IN page' = p /\ Update(p)
    /\ UNCHANGED <<socket, subscribed, toPage, drops, published>>

\* An answer with status -11 logs the account of the request out, then forgets its token.
SessionEnds(a) ==
    /\ Switch
    /\ a \in page.loggedIn
    /\ LET p == [page EXCEPT !.loggedIn = @ \ {a}, !.saved = @ \ {a}]
       IN page' = p /\ Update(p)
    /\ UNCHANGED <<socket, subscribed, toPage, drops, published>>

---------------------------------------------------------------------------
(* The life of a connection *)

\* onopen of the browser socket and of the connector: the account, the market, what
\* waited, and the margin updates of the address shown now.
Opens ==
    /\ socket.ws = "connecting"
    /\ socket' = Opened
    /\ toServer' = ChangeAccountSays(connector, page)
                     \o (IF connector.channel = None THEN <<>>
                         ELSE ChangeMarketSays(connector, connector.channel))
                     \o connector.preEvents
                     \o (IF page.account = None THEN <<>> ELSE <<Subscribe(Margin(page.account))>>)
    /\ connector' = [connector EXCEPT !.connected = TRUE, !.preEvents = <<>>,
                                      !.account = IF HasToken(page) THEN page.account ELSE None]
    /\ UNCHANGED <<page, subscribed, toPage, drops, switches, published>>

\* The server or the network ends the connection, or the attempt fails or times out.
Drop ==
    /\ drops < MaxDrops /\ drops' = drops + 1
    /\ socket.ws \in {"connecting", "open"}
    /\ socket' = [socket EXCEPT !.ws = "closing"]
    /\ toServer' = <<>> /\ subscribed' = {}
    /\ UNCHANGED <<page, connector, toPage, switches, published>>

\* MutOnCloseWaits: a connection that ended after it was open is not opened again.
MutOnCloseWaits ==
    /\ socket.ws = "closing" /\ toPage = <<>>
    /\ socket' = [Closed EXCEPT !.timer = @ /\ socket.retry]
    /\ connector' = [connector EXCEPT !.connected = IF TellsClose THEN FALSE ELSE @]
    /\ toServer' = <<>> /\ subscribed' = {}
    /\ UNCHANGED <<page, toPage, drops, switches, published>>

\* The close event: messages that came before it were delivered before it.
OnClose ==
    /\ socket.ws = "closing" /\ toPage = <<>>
    /\ socket' = Closed
    /\ connector' = [connector EXCEPT !.connected = IF TellsClose THEN FALSE ELSE @]
    /\ toServer' = <<>> /\ subscribed' = {}
    /\ UNCHANGED <<page, toPage, drops, switches, published>>

\* The reconnect timer fires.
Reconnect ==
    /\ socket.timer
    /\ socket' = Open(TRUE)
    /\ UNCHANGED <<page, connector, toServer, subscribed, toPage, drops, switches, published>>

---------------------------------------------------------------------------
(* The server *)

Receive ==
    /\ toServer # <<>>
    /\ subscribed' = LET m == Head(toServer)
                     IN IF m.type = "subscribe" THEN subscribed \cup {m.channel}
                        ELSE subscribed \ {m.channel}
    /\ toServer' = Tail(toServer)
    /\ UNCHANGED <<page, socket, connector, toPage, drops, switches, published>>

\* A trade in a market that has subscribers.
Publish(m) ==
    /\ socket.ws = "open" /\ Market(m) \in subscribed
    /\ published < MaxMessages /\ published' = published + 1
    /\ toPage' = Append(toPage, m)
    /\ UNCHANGED <<page, socket, connector, toServer, subscribed, drops, switches>>

\* MARKET_TRADE adds a trade to the history.
MarketTrade(p, m) == [p EXCEPT !.history = @ \cup {m}]

\* onmessage, newMarketTrade: taken when it is of the market shown.
OnMessage ==
    /\ toPage # <<>>
    /\ page' = IF Head(toPage) = page.market THEN MarketTrade(page, Head(toPage)) ELSE page
    /\ toPage' = Tail(toPage)
    /\ UNCHANGED <<socket, connector, toServer, subscribed, drops, switches, published>>

---------------------------------------------------------------------------
Next ==
    \/ Mount \/ Unmount
    \/ \E m \in Markets : SelectMarket(m)
    \/ \E a \in Accounts \cup {None} : SelectAccount(a)
    \/ \E a \in Accounts : Login(a) \/ SessionEnds(a)
    \/ Opens \/ Drop \/ OnClose \/ Reconnect
    \/ Receive \/ OnMessage
    \/ \E m \in Markets : Publish(m)

\* The browser's timers and events fire, a connection that is not refused opens, and
\* the server reads what it is sent.
Fairness == WF_feedVars(Opens) /\ WF_feedVars(OnClose) /\ WF_feedVars(Reconnect)
                /\ WF_feedVars(Receive) /\ WF_feedVars(OnMessage)

Spec == Init /\ [][Next]_feedVars /\ Fairness

---------------------------------------------------------------------------
(* Properties *)

\* Type invariant.
TypeOK ==
    /\ page \in [market : Markets, account : Accounts \cup {None}, loggedIn : SUBSET Accounts,
                 saved : SUBSET Accounts, history : SUBSET Markets]
    /\ socket \in [ws : {"none", "connecting", "open", "closing"},
                   readyState : {"CONNECTING", "OPEN", "CLOSED"},
                   retry : BOOLEAN, timer : BOOLEAN, forced : BOOLEAN]
    /\ connector.channel \in Markets \cup {None} /\ connector.account \in Accounts \cup {None}
    /\ subscribed \subseteq Channels
    /\ \A i \in DOMAIN toServer : toServer[i].channel \in Channels

\* The server will have the channel once it has read what is on its way.
WillHave(channel) ==
    LET about == {i \in DOMAIN toServer : toServer[i].channel = channel}
    IN \/ about = {} /\ channel \in subscribed
       \/ \E i \in about : /\ \A j \in about : j <= i
                           /\ toServer[i].type = "subscribe"

Wanted == {Market(page.market)} \cup (IF LoggedIn(page) THEN {Trader(page.account)} ELSE {})

\* However the market, the account, its session and the connection changed, and in
\* whatever order what was said meanwhile is sent, an open connection ends up with the
\* channels of the market and of the account the page shows.
SubscribedToCurrent ==
    connector.mounted /\ socket.ws = "open" => \A channel \in Wanted : WillHave(channel)

\* The connector stays subscribed to the markets shown before, and their messages go on
\* arriving: none of them gets into the trade history of the market shown.
HistoryOfCurrentMarket == page.history \subseteq {page.market}

Served == connector.mounted => connector.connected /\ Wanted \subseteq subscribed

\* When the page and the network leave it alone, the connection comes back and the
\* server has the channels of what the page shows, for good.
FeedRecovers == <>[]Served
============================================================================
