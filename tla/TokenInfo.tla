----------------------------- MODULE TokenInfo ------------------------------
(***************************************************************************)
(* What the page knows of the tokens of its accounts: balances and         *)
(* allowances read from the node, balances locked in orders asked of the   *)
(* API.  They are read when the list of tokens appears or the account      *)
(* changes, and for some time after a transaction of the page (wrap,       *)
(* unwrap, enable, disable) is found to be mined.                          *)
(*                                                                         *)
(* Of the token of an account only the version is kept: the number of its  *)
(* transactions that a balance and an allowance have seen.                 *)
(***************************************************************************)
EXTENDS Naturals, Bags, BagsExt

CONSTANTS
    Accounts, None,
    Tied,         \* accounts that have all of the token locked in orders
    Txs,          \* names for transactions
    WatchReads,   \* reads after a transaction (10 in the code)
    MaxEvents     \* bound on what users, the node and the network do

ASSUME TokenAssumption ==
    /\ None \notin Accounts /\ Tied \subseteq Accounts
    /\ WatchReads \in Nat \ {0} /\ MaxEvents \in Nat

Tabs == {"tokens", "margin", "wrap", "unwrap"}

VARIABLES
    account,  \* the account the wallet has selected
    tab,      \* the tab of the wallet panel
    saved,    \* accounts with a token in localStorage: the header logs them in
    chain,    \* account -> version at the node
    tokens,   \* tokensInfo: account -> version, or None when not loaded
    locked,   \* accounts for which all of the token is stored as locked
    reads,    \* reads of tokens on their way, a bag: they are answered in any order
    asked,    \* requests for locked balances on their way, by account
    tx,       \* what became of each transaction
    missed,   \* history: accounts of which a read or a poll failed
    events

tokenVars == <<account, tab, saved, chain, tokens, locked, reads, asked, tx, missed, events>>

Idle == [owner |-> None, phase |-> "none", left |-> 0, polled |-> TRUE]
Event == events < MaxEvents /\ events' = events + 1

---------------------------------------------------------------------------
(* Reads *)

\* A read is of the account that is selected when it is asked.
Read(a) == [account |-> a, value |-> None, late |-> FALSE]

\* The reads on their way when a watch begins.
Late(r) == [r EXCEPT !.late = TRUE]
Older(rs) == BagOfAll(Late, rs)

\* loadTokens and loadToken ask nothing without an account.
LoadTokens(a) == IF a = None THEN reads ELSE BagAdd(reads, Read(a))

\* login asks for the locked balances of the account selected.
LoadAccountLockedBalance(a) == asked \cup ({a} \ {None})

Loaded(a) == a # None /\ tokens[a] # None

\* getTokenAvailableBalance: is there a balance, less what is locked.
Available(a) == Loaded(a) /\ a \notin locked

---------------------------------------------------------------------------
Init ==
    /\ account \in Accounts \cup {None} /\ tab = "tokens"
    /\ saved \in SUBSET Accounts
    /\ chain = [a \in Accounts |-> 0]
    /\ tokens = [a \in Accounts |-> None]
    /\ locked = {}
    /\ reads = IF account = None THEN EmptyBag ELSE SetToBag({Read(account)})
    /\ asked = {account} \cap saved
    /\ tx = [t \in Txs |-> Idle]
    /\ missed = {} /\ events = 0

\* The tokens are loaded when they are in view; the header logs in an account with a token.
SelectAccount(a) ==
    /\ Event
    /\ a # account
    /\ account' = a
    /\ reads' = IF tab = "tokens" THEN LoadTokens(a) ELSE reads
    /\ asked' = IF a \in saved THEN LoadAccountLockedBalance(a) ELSE asked
    /\ UNCHANGED <<tab, saved, chain, tokens, locked, tx, missed>>

\* The selector of the wallet panel; the list of tokens loads them when it is mounted.
SelectTab(new) ==
    /\ Event
    /\ new # tab
    /\ tab' = new
    /\ reads' = IF new = "tokens" THEN LoadTokens(account) ELSE reads
    /\ UNCHANGED <<account, saved, chain, tokens, locked, asked, tx, missed>>

\* The wallet of the account is asked to send.
SendTransaction(t) ==
    /\ Event
    /\ account # None /\ tx[t].phase = "none"
    /\ tx' = [tx EXCEPT ![t] = [Idle EXCEPT !.owner = account, !.phase = "asked"]]
    /\ UNCHANGED <<account, tab, saved, chain, tokens, locked, reads, asked, missed>>

\* The switch of a token: enable and disable change the allowance.
Approve(t) == tab = "tokens" /\ Loaded(account) /\ SendTransaction(t)

\* The form of the wrap and unwrap tabs.
WrapETH(t) == tab = "wrap" /\ SendTransaction(t)
UnwrapWETH(t) == tab = "unwrap" /\ SendTransaction(t)

\* The user confirms or rejects in the wallet.
Sent(t) ==
    /\ tx[t].phase = "asked"
    /\ tx' = [tx EXCEPT ![t].phase = "sent"]
    /\ UNCHANGED <<account, tab, saved, chain, tokens, locked, reads, asked, missed, events>>
WalletRejects(t) ==
    /\ tx[t].phase = "asked"
    /\ tx' = [tx EXCEPT ![t].phase = "over"]
    /\ UNCHANGED <<account, tab, saved, chain, tokens, locked, reads, asked, missed, events>>

\* The transaction is mined: it succeeds or it is reverted.
Mined(t) ==
    /\ tx[t].phase = "sent"
    /\ \/ /\ tx' = [tx EXCEPT ![t].phase = "success"]
          /\ chain' = [chain EXCEPT ![tx[t].owner] = @ + 1]
       \/ tx' = [tx EXCEPT ![t].phase = "reverted"] /\ UNCHANGED chain
    /\ UNCHANGED <<account, tab, saved, tokens, locked, reads, asked, missed, events>>

\* MutPollTells: the user is told and nothing is watched.
MutPollTells(t) ==
    /\ tx[t].polled /\ tx[t].phase \in {"success", "reverted"}
    /\ tx' = [tx EXCEPT ![t].phase = "over"]
    /\ UNCHANGED <<account, tab, saved, chain, tokens, locked, reads, asked, missed, events>>

\* A poll finds the receipt (before that it only sets the timer of the next one): the user
\* is told, and after a success watchToken sets its timers.
PollTells(t) ==
    /\ tx[t].polled /\ tx[t].phase \in {"success", "reverted"}
    /\ tx' = [tx EXCEPT ![t].phase = IF @ = "success" THEN "watched" ELSE "over",
                        ![t].left = IF tx[t].phase = "success" THEN WatchReads ELSE 0]
    /\ reads' = IF tx[t].phase = "success"
                THEN Older(reads) ELSE reads
    /\ UNCHANGED <<account, tab, saved, chain, tokens, locked, asked, missed, events>>

\* A poll the node does not answer is the last: the callback is never called.
PollFails(t) ==
    /\ Event
    /\ tx[t].polled /\ tx[t].phase \in {"sent", "success", "reverted"}
    /\ tx' = [tx EXCEPT ![t].polled = FALSE]
    /\ missed' = missed \cup {tx[t].owner}
    /\ UNCHANGED <<account, tab, saved, chain, tokens, locked, reads, asked>>

\* One of watchToken's timers reads the token of the account selected now.  A read older
\* than the watch has been answered before the last of them, 27 seconds later.
WatchToken(t) ==
    /\ tx[t].phase = "watched"
    /\ tx[t].left = 1 => \A r \in DOMAIN reads : ~r.late
    /\ tx' = IF tx[t].left = 1 THEN [tx EXCEPT ![t].phase = "over", ![t].left = 0]
             ELSE [tx EXCEPT ![t].left = @ - 1]
    /\ reads' = LoadTokens(account)
    /\ UNCHANGED <<account, tab, saved, chain, tokens, locked, asked, missed, events>>

---------------------------------------------------------------------------
\* The node answers a read: balanceOf and allowance, of which the older counts.
NodeReads(r) ==
    /\ r.value = None
    /\ reads' = BagAdd(BagRemove(reads, r), [r EXCEPT !.value = chain[r.account]])
    /\ UNCHANGED <<account, tab, saved, chain, tokens, locked, asked, tx, missed, events>>

\* UPDATE_TOKEN_INFO, for the account the read was of.
UpdateTokenInfo(r) ==
    /\ r.value # None
    /\ tokens' = [tokens EXCEPT ![r.account] = r.value]
    /\ reads' = BagRemove(reads, r)
    /\ UNCHANGED <<account, tab, saved, chain, locked, asked, tx, missed, events>>

ReadFails(r) ==
    /\ Event
    /\ reads' = BagRemove(reads, r)
    /\ missed' = missed \cup {r.account}
    /\ UNCHANGED <<account, tab, saved, chain, tokens, locked, asked, tx>>

\* UPDATE_TOKEN_LOCKED_BALANCES: the balances of a, for the account selected now.
Stored(a) == IF a \in Tied THEN locked \cup {account} ELSE locked \ {account}

\* updateTokenLockedBalances, for the account selected when the answer comes; a failed
\* request stores nothing.
UpdateLockedBalances(a) ==
    /\ a \in asked
    /\ asked' = asked \ {a}
    /\ locked' \in {locked, IF account = None THEN locked ELSE Stored(a)}
    /\ UNCHANGED <<account, tab, saved, chain, tokens, reads, tx, missed, events>>

\* lockedBalanceChange, for the account selected when it comes; the connection may still
\* have the channel of the account before.
LockedBalanceChange(a) ==
    /\ Event
    /\ a \in saved /\ account # None
    /\ locked' = Stored(a)
    /\ UNCHANGED <<account, tab, saved, chain, tokens, reads, asked, tx, missed>>

\* newMarketTrade: the tokens of the market are watched, also for a trade of others.
NewMarketTrade(t) ==
    /\ Event
    /\ account # None /\ tx[t].phase = "none"
    /\ tx' = [tx EXCEPT ![t].phase = "watched", ![t].left = WatchReads]
    /\ reads' = Older(reads)
    /\ UNCHANGED <<account, tab, saved, chain, tokens, locked, asked, missed>>

TokenNext ==
    \/ \E a \in Accounts \cup {None} : SelectAccount(a)
    \/ \E new \in Tabs : SelectTab(new)
    \/ \E t \in Txs :
           \/ Approve(t) \/ WrapETH(t) \/ UnwrapWETH(t) \/ Sent(t) \/ WalletRejects(t) \/ Mined(t)
           \/ PollTells(t) \/ PollFails(t) \/ WatchToken(t) \/ NewMarketTrade(t)
    \/ \E r \in DOMAIN reads : NodeReads(r) \/ UpdateTokenInfo(r) \/ ReadFails(r)
    \/ \E a \in Accounts : UpdateLockedBalances(a) \/ LockedBalanceChange(a)

---------------------------------------------------------------------------
TokenTypeOK ==
    /\ account \in Accounts \cup {None} /\ tab \in Tabs /\ saved \subseteq Accounts
    /\ chain \in [Accounts -> Nat]
    /\ tokens \in [Accounts -> Nat \cup {None}]
    /\ \A r \in DOMAIN reads : r.account \in Accounts
    /\ {asked, locked} \subseteq SUBSET Accounts /\ missed \subseteq Accounts

\* While the list of tokens is shown and no read is on its way, it is up to date with the
\* transactions the page has told of, however reads were overtaken by transactions and
\* the account changed in between; unless a read or a poll for the account failed.
TokensCatchUp ==
    (/\ tab = "tokens" /\ account \notin missed \cup {None}
     /\ reads = EmptyBag
     /\ \A t \in Txs : tx[t].owner = account => tx[t].phase \notin {"success", "watched"})
    => tokens[account] = chain[account]
=============================================================================
