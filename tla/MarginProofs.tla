----------------------------- MODULE MarginProofs -----------------------------
(***************************************************************************)
(* Theorems about margin accounts.  Of the backend (MarginMonitor), for    *)
(* any positions, accounts, prices, crashes and failing calls: types, the  *)
(* flags of the active positions follow the accounts, good news comes      *)
(* after bad.  Of the client (MarginView), for any accounts and markets,   *)
(* fetches, refreshes and updates, and answers in any order: the selected  *)
(* account is shown its own data, and a refresh that ends early tells so.  *)
(***************************************************************************)
EXTENDS MarginMonitor, MarginView, TLAPS

-----------------------------------------------------------------------------
(* The contract and the watcher: types.                                    *)
WatchTypeOK ==
  /\ account \in [Position -> Account]
  /\ log \in Seq(Event)
  /\ changes \in 0 .. MaxChanges
  /\ positions \in [Position -> Row]
  /\ wpc \in {"scan", "save", "details", "publish", "down"}
  /\ next \in 1 .. Len(log) + 1
  /\ wpc \in {"save", "details", "publish"} => next <= Len(log)
  /\ flag \in BOOLEAN
  /\ details \in Account \cup {NoAccount}

FaultsTypeOK ==
  /\ update \in [Position -> Account \cup {NoAccount}]
  /\ spoiled \subseteq Position
  /\ errors \in Nat /\ crashes \in Nat /\ errors + crashes <= MaxFaults

LEMMA PositionsTypeParts == PositionsTypeOK <=> WatchTypeOK /\ FaultsTypeOK
  BY DEF PositionsTypeOK, WatchTypeOK, FaultsTypeOK

LEMMA KindKnown == \A a, b : KindOf(a, b) \in Kind
  BY DEF KindOf, Kind

LEMMA AccountKnown ==
  ASSUME NEW a \in Account PROVE a.assets \in Nat /\ a.debts \in Nat
  BY AccountAssumption

LEMMA AtKnown ==
  ASSUME WatchTypeOK, next <= Len(log)
  PROVE  next \in DOMAIN log /\ At \in Event /\ Here \in Position /\ At.kind \in Kind
<1>1. next \in 1 .. Len(log) /\ log[next] \in Event
  BY DEF WatchTypeOK
<1> QED
  BY <1>1 DEF At, Here, Event, WatchTypeOK

\* What a new event adds to the log.
LEMMA Logged ==
  ASSUME WatchTypeOK, NEW e \in Event, log' = Append(log, e)
  PROVE  /\ Len(log) \in Nat /\ Len(log') = Len(log) + 1
         /\ log' \in Seq(Event)
         /\ \A i \in 1 .. Len(log) : log'[i] = log[i]
         /\ log'[Len(log) + 1] = e
  BY DEF WatchTypeOK

LEMMA ChangeTypes ==
  ASSUME WatchTypeOK, NEW p \in Position, NEW a \in Account, Change(p, a) \/ PriceMoves(p, a)
  PROVE  WatchTypeOK'
<1>1. /\ account' = [account EXCEPT ![p] = a]
      /\ changes < MaxChanges /\ changes' = changes + 1
      /\ UNCHANGED <<positions, wpc, next, flag, details>>
  BY DEF Change, PriceMoves, watcher
<1>2. account' \in [Position -> Account] /\ changes' \in 0 .. MaxChanges
  BY <1>1, PositionsBoundAssumption DEF WatchTypeOK
<1>3. /\ Len(log) \in Nat /\ Len(log') \in Nat /\ Len(log') >= Len(log) /\ log' \in Seq(Event)
  <2>1. CASE Change(p, a)
    <3> DEFINE e == [kind |-> KindOf(account[p], a), position |-> p]
    <3>1. e \in Event
      BY KindKnown DEF Event
    <3>2. log' = Append(log, e)
      BY <2>1 DEF Change
    <3> HIDE DEF e
    <3> QED
      BY <3>1, <3>2, Logged
  <2>2. CASE PriceMoves(p, a)
    BY <2>2 DEF PriceMoves, WatchTypeOK
  <2> QED
    BY <2>1, <2>2
<1> QED
  BY <1>1, <1>2, <1>3 DEF WatchTypeOK

LEMMA UpdatedKnown == ASSUME WatchTypeOK, next <= Len(log) PROVE Updated(positions[Here]) \in Row
<1>1. positions[Here] \in Row /\ flag \in BOOLEAN
  BY AtKnown DEF WatchTypeOK
<1>2. \A x, y \in BOOLEAN : [hasCollateral |-> x, hasDebt |-> y, isActive |-> x \/ y] \in Row
  BY DEF Row
<1>3. positions[Here].hasCollateral \in BOOLEAN /\ positions[Here].hasDebt \in BOOLEAN
  BY <1>1 DEF Row
<1>4. CASE IsCollateral(At)
  BY <1>1, <1>2, <1>3, <1>4 DEF Updated
<1>5. CASE ~IsCollateral(At)
  BY <1>1, <1>2, <1>3, <1>5 DEF Updated
<1> QED
  BY <1>4, <1>5

LEMMA TakenFlag ==
  ASSUME WatchTypeOK, NEW ok \in BOOLEAN, TakeEvent(ok)
  PROVE  flag' \in BOOLEAN
<1>1. CASE At.kind = "DecreaseCollateral"
  BY <1>1 DEF TakeEvent
<1>2. CASE At.kind = "Repay"
  BY <1>2 DEF TakeEvent
<1>3. CASE At.kind \notin {"DecreaseCollateral", "Repay"}
  BY <1>3 DEF TakeEvent
<1> QED
  BY <1>1, <1>2, <1>3

LEMMA WatcherTypes ==
  ASSUME WatchTypeOK, NEW ok \in BOOLEAN, WatcherStep(ok)
  PROVE  WatchTypeOK'
<1>1. CASE TakeEvent(ok)
  BY <1>1, TakenFlag DEF TakeEvent, WatchTypeOK, chain
<1>2. CASE UpdateActivity(ok)
  <2>1. next <= Len(log) /\ Here \in Position
    BY <1>2, AtKnown DEF UpdateActivity, WatchTypeOK
  <2>2. positions' \in [Position -> Row]
    BY <1>2, <2>1, UpdatedKnown DEF UpdateActivity, WatchTypeOK
  <2> QED
    BY <1>2, <2>1, <2>2 DEF UpdateActivity, WatchTypeOK, chain
<1>3. CASE GetAccountDetails(ok)
  <2>1. Here \in Position
    BY <1>3, AtKnown DEF GetAccountDetails, WatchTypeOK
  <2> QED
    BY <1>3, <2>1 DEF GetAccountDetails, WatchTypeOK, chain
<1>4. CASE PublishUpdate(ok)
  BY <1>4 DEF PublishUpdate, WatchTypeOK, chain
<1> QED
  BY <1>1, <1>2, <1>3, <1>4 DEF WatcherStep

LEMMA RestartTypes ==
  ASSUME WatchTypeOK, WatcherCrash \/ \E n \in RestartsAt : WatcherStart(n)
  PROVE  WatchTypeOK'
<1>1. CASE WatcherCrash
  BY <1>1 DEF WatcherCrash, WatchTypeOK, chain
<1>2. ASSUME NEW n \in RestartsAt, WatcherStart(n) PROVE WatchTypeOK'
  <2>1. n \in 1 .. Len(log) + 1
    BY DEF RestartsAt, WatchTypeOK
  <2> QED
    BY <1>2, <2>1 DEF WatcherStart, WatchTypeOK, chain
<1> QED
  BY <1>1, <1>2

-----------------------------------------------------------------------------
(* Why the flags follow.  The watcher has dealt with the events before     *)
(* From; the last event of its kind tells of an account that has           *)
(* collateral, or a debt, still has it; and the flag about to be saved is  *)
(* right or corrected by an event after the one at work.                   *)
CollateralKinds == {"IncreaseCollateral", "DecreaseCollateral"}
DebtKinds == {"Borrow", "Repay"}

ComingFrom(n, p, kinds) ==
  \E i \in n .. Len(log) : log[i].position = p /\ log[i].kind \in kinds

From == IF wpc \in {"details", "publish"} THEN next + 1 ELSE next

HasCollateral(p) == account[p].assets > 0
HasDebt(p) == account[p].debts > 0

EventsTell ==
  \A i \in 1 .. Len(log) :
    /\ log[i].kind = "IncreaseCollateral" =>
         HasCollateral(log[i].position) \/ ComingFrom(i + 1, log[i].position, CollateralKinds)
    /\ log[i].kind = "Borrow" =>
         HasDebt(log[i].position) \/ ComingFrom(i + 1, log[i].position, DebtKinds)

FlagTells ==
  wpc = "save" /\ Here \notin spoiled =>
    /\ IsCollateral(At) =>
         flag = HasCollateral(Here) \/ ComingFrom(next + 1, Here, CollateralKinds)
    /\ ~IsCollateral(At) =>
         flag = HasDebt(Here) \/ ComingFrom(next + 1, Here, DebtKinds)

RowTells(p) ==
  /\ positions[p].hasCollateral = HasCollateral(p) \/ ComingFrom(From, p, CollateralKinds)
  /\ positions[p].hasDebt = HasDebt(p) \/ ComingFrom(From, p, DebtKinds)

RowsTell == \A p \in Position \ spoiled : RowTells(p)

FlagsInv == WatchTypeOK /\ EventsTell /\ FlagTells /\ RowsTell

-----------------------------------------------------------------------------
\* An event that was coming still is when another is emitted.
LEMMA ComingKept ==
  ASSUME WatchTypeOK, NEW e \in Event, log' = Append(log, e),
         NEW n \in Nat \ {0}, NEW p, NEW kinds, ComingFrom(n, p, kinds)
  PROVE  ComingFrom(n, p, kinds)'
<1>1. PICK i \in n .. Len(log) : log[i].position = p /\ log[i].kind \in kinds
  BY DEF ComingFrom
<1>2. i \in 1 .. Len(log) /\ i \in n .. Len(log)' /\ log'[i] = log[i]
  BY Logged
<1> QED
  BY <1>1, <1>2 DEF ComingFrom

LEMMA ComingNow ==
  ASSUME WatchTypeOK, NEW e \in Event, log' = Append(log, e),
         NEW n \in 1 .. Len(log) + 1, NEW kinds, e.kind \in kinds
  PROVE  ComingFrom(n, e.position, kinds)'
<1>1. Len(log) + 1 \in n .. Len(log)' /\ log'[Len(log) + 1] = e
  BY Logged
<1> QED
  BY <1>1 DEF ComingFrom

\* What a change of an account does to what is held of it.
LEMMA ChangeTells ==
  ASSUME WatchTypeOK, NEW p \in Position, NEW a \in Account, Change(p, a),
         NEW e, e = [kind |-> KindOf(account[p], a), position |-> p]
  PROVE  /\ e \in Event /\ e.position = p /\ log' = Append(log, e)
         /\ \A q \in Position : q # p => account'[q] = account[q]
         /\ HasCollateral(p)' # HasCollateral(p) => e.kind \in CollateralKinds
         /\ HasDebt(p)' # HasDebt(p) => e.kind \in DebtKinds
         /\ e.kind = "IncreaseCollateral" => HasCollateral(p)'
         /\ e.kind = "Borrow" => HasDebt(p)'
<1>1. e \in Event /\ e.position = p /\ e.kind = KindOf(account[p], a)
  BY KindKnown DEF Event
<1>2. /\ account' = [account EXCEPT ![p] = a] /\ log' = Append(log, e)
      /\ a.debts # account[p].debts => a.assets > 0 /\ account[p].assets > 0
  BY DEF Change
<1>3. account'[p] = a /\ \A q \in Position : q # p => account'[q] = account[q]
  BY <1>2 DEF WatchTypeOK
<1>4. a.assets \in Nat /\ a.debts \in Nat /\ account[p].assets \in Nat /\ account[p].debts \in Nat
  BY AccountKnown DEF WatchTypeOK
<1>5. CASE account[p].debts < a.debts
  <2>1. e.kind = "Borrow"
    BY <1>1, <1>4, <1>5 DEF KindOf
  <2>2. HasCollateral(p)' /\ HasCollateral(p) /\ HasDebt(p)'
    BY <1>2, <1>3, <1>4, <1>5 DEF HasCollateral, HasDebt
  <2> QED
    BY <1>1, <1>2, <1>3, <2>1, <2>2 DEF DebtKinds
<1>6. CASE account[p].debts > a.debts
  <2>1. e.kind = "Repay"
    BY <1>1, <1>4, <1>6 DEF KindOf
  <2>2. HasCollateral(p)' /\ HasCollateral(p)
    BY <1>2, <1>3, <1>4, <1>6 DEF HasCollateral
  <2> QED
    BY <1>1, <1>2, <1>3, <2>1, <2>2 DEF DebtKinds
<1>7. CASE account[p].debts = a.debts /\ account[p].assets < a.assets
  <2>1. e.kind = "IncreaseCollateral"
    BY <1>1, <1>4, <1>7 DEF KindOf
  <2>2. HasCollateral(p)' /\ HasDebt(p)' = HasDebt(p)
    BY <1>3, <1>4, <1>7 DEF HasCollateral, HasDebt
  <2> QED
    BY <1>1, <1>2, <1>3, <2>1, <2>2 DEF CollateralKinds
<1>8. CASE account[p].debts = a.debts /\ ~(account[p].assets < a.assets)
  <2>1. e.kind = "DecreaseCollateral"
    BY <1>1, <1>4, <1>8 DEF KindOf
  <2>2. HasDebt(p)' = HasDebt(p)
    BY <1>3, <1>8 DEF HasDebt
  <2> QED
    BY <1>1, <1>2, <1>3, <2>1, <2>2 DEF CollateralKinds
<1> QED
  BY <1>4, <1>5, <1>6, <1>7, <1>8

-----------------------------------------------------------------------------
(* The contract's steps.                                                   *)
LEMMA ChangeFlags ==
  ASSUME FlagsInv, NEW p \in Position, NEW a \in Account, Change(p, a)
  PROVE  FlagsInv'
<1> PICK e : e = [kind |-> KindOf(account[p], a), position |-> p]
  OBVIOUS
<1>1. WatchTypeOK /\ WatchTypeOK'
  BY ChangeTypes DEF FlagsInv
<1>2. /\ e \in Event /\ e.position = p /\ log' = Append(log, e)
      /\ \A q \in Position : q # p => account'[q] = account[q]
      /\ HasCollateral(p)' # HasCollateral(p) => e.kind \in CollateralKinds
      /\ HasDebt(p)' # HasDebt(p) => e.kind \in DebtKinds
      /\ e.kind = "IncreaseCollateral" => HasCollateral(p)'
      /\ e.kind = "Borrow" => HasDebt(p)'
  BY <1>1, ChangeTells
<1>3. UNCHANGED <<positions, wpc, next, flag, details, spoiled>>
  BY DEF Change, watcher, told
<1>4. /\ Len(log) \in Nat /\ Len(log') = Len(log) + 1
      /\ \A i \in 1 .. Len(log) : log'[i] = log[i] /\ log[i] \in Event
      /\ log'[Len(log) + 1] = e
      /\ \A i \in 1 .. Len(log') : i \in 1 .. Len(log) \/ i = Len(log) + 1
  BY <1>1, <1>2, Logged DEF WatchTypeOK
\* What is no longer so is told by the new event.
<1>5. ASSUME NEW q \in Position, NEW n \in 1 .. Len(log) + 1
      PROVE  /\ HasCollateral(q)' # HasCollateral(q) => ComingFrom(n, q, CollateralKinds)'
             /\ HasDebt(q)' # HasDebt(q) => ComingFrom(n, q, DebtKinds)'
  <2>1. CASE q = p
    BY <1>1, <1>2, <2>1, ComingNow
  <2>2. CASE q # p
    BY <1>2, <2>2 DEF HasCollateral, HasDebt
  <2> QED
    BY <2>1, <2>2
<1>6. ASSUME NEW q \in Position, NEW n \in Nat \ {0}, NEW kinds, ComingFrom(n, q, kinds)
      PROVE  ComingFrom(n, q, kinds)'
  BY <1>1, <1>2, <1>6, ComingKept
<1>7. EventsTell'
  <2> SUFFICES ASSUME NEW i \in 1 .. Len(log')
               PROVE  /\ log'[i].kind = "IncreaseCollateral" =>
                           \/ HasCollateral(log[i].position)'
                           \/ ComingFrom(i + 1, log[i].position, CollateralKinds)'
                      /\ log'[i].kind = "Borrow" =>
                           \/ HasDebt(log[i].position)'
                           \/ ComingFrom(i + 1, log[i].position, DebtKinds)'
    BY DEF EventsTell
  <2>1. CASE i = Len(log) + 1
    BY <1>2, <1>4, <2>1 DEF HasCollateral, HasDebt
  <2>2. CASE i \in 1 .. Len(log)
    <3> PICK q \in Position : q = log[i].position
      BY <1>4, <2>2 DEF Event
    <3>1. log'[i] = log[i] /\ i + 1 \in 1 .. Len(log) + 1 /\ i + 1 \in Nat \ {0}
      BY <1>4, <2>2
    <3>2. log[i].kind = "IncreaseCollateral" => HasCollateral(q)' \/ ComingFrom(i + 1, q, CollateralKinds)'
      BY <1>5, <1>6, <2>2, <3>1 DEF FlagsInv, EventsTell
    <3>3. log[i].kind = "Borrow" => HasDebt(q)' \/ ComingFrom(i + 1, q, DebtKinds)'
      BY <1>5, <1>6, <2>2, <3>1 DEF FlagsInv, EventsTell
    <3> QED
      BY <3>1, <3>2, <3>3 DEF HasCollateral, HasDebt, ComingFrom
  <2> QED
    BY <1>4, <2>1, <2>2
<1>8. FlagTells'
  <2> SUFFICES ASSUME wpc = "save", Here' \notin spoiled PROVE FlagTells'
    BY <1>3 DEF FlagTells
  <2> PICK n : n = next + 1
    OBVIOUS
  <2>1. next \in 1 .. Len(log) /\ n \in 1 .. Len(log) + 1 /\ n \in Nat \ {0} /\ next' + 1 = n
    BY <1>1, <1>3 DEF WatchTypeOK
  <2>2. At' = At /\ Here' = Here
    BY <1>3, <1>4, <2>1 DEF At, Here
  <2> PICK q \in Position : q = Here
    BY <1>1, <2>1, AtKnown
  <2>3. /\ IsCollateral(At) => flag = HasCollateral(q) \/ ComingFrom(n, q, CollateralKinds)
        /\ ~IsCollateral(At) => flag = HasDebt(q) \/ ComingFrom(n, q, DebtKinds)
    BY <2>1, <2>2 DEF FlagsInv, FlagTells
  <2>4. /\ IsCollateral(At) => flag = HasCollateral(q)' \/ ComingFrom(n, q, CollateralKinds)'
        /\ ~IsCollateral(At) => flag = HasDebt(q)' \/ ComingFrom(n, q, DebtKinds)'
    BY <1>5, <1>6, <2>1, <2>3
  <2>5. (IsCollateral(At))' = IsCollateral(At)
    BY <2>2 DEF IsCollateral
  <2> QED
    BY <1>3, <2>1, <2>2, <2>4, <2>5 DEF FlagTells, HasCollateral, HasDebt, ComingFrom
<1>9. RowsTell'
  <2> SUFFICES ASSUME NEW q \in Position \ spoiled PROVE RowTells(q)'
    BY <1>3 DEF RowsTell
  <2> PICK n : n = From
    OBVIOUS
  <2>1. n \in 1 .. Len(log) + 1 /\ n \in Nat \ {0} /\ From' = n
    BY <1>1, <1>3 DEF From, WatchTypeOK
  <2>2. /\ positions[q].hasCollateral = HasCollateral(q) \/ ComingFrom(n, q, CollateralKinds)
        /\ positions[q].hasDebt = HasDebt(q) \/ ComingFrom(n, q, DebtKinds)
    BY DEF FlagsInv, RowsTell, RowTells
  <2>3. positions[q].hasCollateral = HasCollateral(q)' \/ ComingFrom(n, q, CollateralKinds)'
    BY <1>5, <1>6, <2>1, <2>2
  <2>4. positions[q].hasDebt = HasDebt(q)' \/ ComingFrom(n, q, DebtKinds)'
    BY <1>5, <1>6, <2>1, <2>2
  <2> QED
    BY <1>3, <2>1, <2>3, <2>4 DEF RowTells, ComingFrom
<1> QED
  BY <1>1, <1>7, <1>8, <1>9 DEF FlagsInv

\* What the events tell stays when the log does and no account loses what it has.
LEMMA EventsTellKept ==
  ASSUME WatchTypeOK, EventsTell, UNCHANGED log,
         \A q \in Position : /\ HasCollateral(q)' = HasCollateral(q)
                             /\ HasDebt(q)' = HasDebt(q)
  PROVE  EventsTell'
<1> SUFFICES ASSUME NEW i \in 1 .. Len(log)
             PROVE  /\ log[i].kind = "IncreaseCollateral" =>
                         \/ HasCollateral(log[i].position)'
                         \/ ComingFrom(i + 1, log[i].position, CollateralKinds)'
                    /\ log[i].kind = "Borrow" =>
                         \/ HasDebt(log[i].position)'
                         \/ ComingFrom(i + 1, log[i].position, DebtKinds)'
  BY DEF EventsTell
<1>1. log[i] \in Event
  BY DEF WatchTypeOK
<1> PICK q \in Position : q = log[i].position
  BY <1>1 DEF Event
<1>2. \A n, kinds : ComingFrom(n, q, kinds)' = ComingFrom(n, q, kinds)
  BY DEF ComingFrom
<1>3. log[i].kind = "IncreaseCollateral" => HasCollateral(q)' \/ ComingFrom(i + 1, q, CollateralKinds)'
  BY <1>2 DEF EventsTell
<1>4. log[i].kind = "Borrow" => HasDebt(q)' \/ ComingFrom(i + 1, q, DebtKinds)'
  BY <1>2 DEF EventsTell
<1> QED
  BY <1>3, <1>4 DEF HasCollateral, HasDebt, ComingFrom

LEMMA PriceFlags ==
  ASSUME FlagsInv, NEW p \in Position, NEW a \in Account, PriceMoves(p, a)
  PROVE  FlagsInv'
<1>1. WatchTypeOK /\ WatchTypeOK'
  BY ChangeTypes DEF FlagsInv
<1>2. UNCHANGED <<log, positions, wpc, next, flag, details, spoiled>>
  BY DEF PriceMoves, watcher, told
<1>3. account' = [account EXCEPT ![p] = a] /\ a.assets > 0 /\ account[p].assets > 0
      /\ a.debts = account[p].debts
  BY DEF PriceMoves
<1>4. \A q \in Position : HasCollateral(q)' = HasCollateral(q) /\ HasDebt(q)' = HasDebt(q)
  BY <1>1, <1>3 DEF WatchTypeOK, HasCollateral, HasDebt
<1>5. EventsTell'
  BY <1>2, <1>4, EventsTellKept DEF FlagsInv
<1>6. FlagTells'
  <2> SUFFICES ASSUME wpc = "save" PROVE FlagTells'
    BY <1>2 DEF FlagTells
  <2>1. Here \in Position
    BY <1>1, AtKnown DEF WatchTypeOK
  <2> QED
    BY <1>2, <1>4, <2>1
    DEF FlagsInv, FlagTells, At, Here, IsCollateral, HasCollateral, HasDebt, ComingFrom
<1>7. RowsTell'
  <2> SUFFICES ASSUME NEW q \in Position \ spoiled PROVE RowTells(q)'
    BY <1>2 DEF RowsTell
  <2> QED
    BY <1>2, <1>4 DEF FlagsInv, RowsTell, RowTells, From, ComingFrom
<1> QED
  BY <1>1, <1>5, <1>6, <1>7 DEF FlagsInv

-----------------------------------------------------------------------------
(* The watcher's steps.                                                    *)
\* Those that leave the contract alone leave what the events tell.
LEMMA EventsTellWatched ==
  ASSUME FlagsInv, UNCHANGED chain PROVE EventsTell'
<1>1. UNCHANGED <<account, log>>
  BY DEF chain
<1> QED
  BY <1>1, EventsTellKept DEF FlagsInv, HasCollateral, HasDebt

\* A row stays true as long as no event of its position is passed over.
LEMMA RowTellsKept ==
  ASSUME FlagsInv, WatchTypeOK', UNCHANGED <<account, log>>, NEW p \in Position \ spoiled,
         positions'[p] = positions[p],
         From' <= From \/ (From = next /\ From' = next + 1 /\ Here # p)
  PROVE  RowTells(p)'
<1> PICK n : n = From
  OBVIOUS
<1> PICK m : m = From'
  OBVIOUS
<1>1. n \in Nat \ {0} /\ m \in Nat \ {0} /\ Len(log) \in Nat
  <2>1. next \in Nat \ {0} /\ next' \in Nat \ {0} /\ Len(log) \in Nat
    BY DEF FlagsInv, WatchTypeOK
  <2>2. (n = next \/ n = next + 1) /\ (m = next' \/ m = next' + 1)
    BY DEF From
  <2> QED
    BY <2>1, <2>2
<1>2. ASSUME NEW kinds, ComingFrom(n, p, kinds) PROVE ComingFrom(m, p, kinds)
  <2> PICK i \in n .. Len(log) : log[i].position = p /\ log[i].kind \in kinds
    BY <1>2 DEF ComingFrom
  <2>1. i >= m
    BY <1>1 DEF Here, At
  <2> QED
    BY <1>1, <2>1 DEF ComingFrom
<1>3. /\ positions[p].hasCollateral = HasCollateral(p) \/ ComingFrom(m, p, CollateralKinds)
      /\ positions[p].hasDebt = HasDebt(p) \/ ComingFrom(m, p, DebtKinds)
  BY <1>2 DEF FlagsInv, RowsTell, RowTells
<1> QED
  BY <1>3 DEF RowTells, ComingFrom, HasCollateral, HasDebt

LEMMA TakeFlags ==
  ASSUME FlagsInv, NEW ok \in BOOLEAN, TakeEvent(ok)
  PROVE  FlagsInv'
<1>1. WatchTypeOK /\ WatchTypeOK' /\ EventsTell'
  BY WatcherTypes, EventsTellWatched DEF FlagsInv, WatcherStep, TakeEvent
<1>2. /\ UNCHANGED <<account, log, positions, next>> /\ wpc = "scan" /\ wpc' = "save"
      /\ next \in 1 .. Len(log) /\ Len(log) \in Nat
      /\ spoiled' = IF ok THEN spoiled ELSE spoiled \cup {Here}
  BY <1>1 DEF TakeEvent, chain, WatchTypeOK
<1>3. RowsTell'
  <2> SUFFICES ASSUME NEW p \in Position \ spoiled' PROVE RowTells(p)'
    BY DEF RowsTell
  <2>1. From' = next /\ From = next /\ p \in Position \ spoiled /\ next \in Nat
    BY <1>2 DEF From
  <2>2. From' <= From
    BY <2>1
  <2> QED
    BY <1>1, <1>2, <2>1, <2>2, RowTellsKept
<1>4. FlagTells'
  <2>1. At' = At /\ Here' = Here
    BY <1>2 DEF At, Here
  <2> SUFFICES ASSUME ok PROVE FlagTells'
    BY <1>2, <2>1 DEF FlagTells
  <2> PICK n : n = next + 1
    OBVIOUS
  <2> PICK q \in Position : q = Here
    BY <1>1, <1>2, AtKnown
  <2>2. At.kind \in Kind /\ At = log[next] /\ At.position = q
    BY <1>1, <1>2, AtKnown DEF At, Here
  <2>3. CASE At.kind = "IncreaseCollateral"
    <3>1. flag' = TRUE /\ IsCollateral(At)
      BY <2>3 DEF TakeEvent, IsCollateral
    <3>2. HasCollateral(q) \/ ComingFrom(n, q, CollateralKinds)
      BY <1>2, <2>2, <2>3 DEF FlagsInv, EventsTell
    <3>3. flag' = (account[q].assets > 0) \/ ComingFrom(n, q, CollateralKinds)
      BY <3>1, <3>2 DEF HasCollateral
    <3> QED
      BY <1>2, <2>1, <3>1, <3>3 DEF FlagTells, IsCollateral, HasCollateral, ComingFrom
  <2>4. CASE At.kind = "DecreaseCollateral"
    <3>1. flag' = (account[q].assets > 0) /\ IsCollateral(At)
      BY <2>4 DEF TakeEvent, IsCollateral
    <3> QED
      BY <1>2, <2>1, <3>1 DEF FlagTells, IsCollateral, HasCollateral, ComingFrom
  <2>5. CASE At.kind = "Borrow"
    <3>1. flag' = TRUE /\ ~IsCollateral(At)
      BY <2>5 DEF TakeEvent, IsCollateral
    <3>2. HasDebt(q) \/ ComingFrom(n, q, DebtKinds)
      BY <1>2, <2>2, <2>5 DEF FlagsInv, EventsTell
    <3>3. flag' = (account[q].debts > 0) \/ ComingFrom(n, q, DebtKinds)
      BY <3>1, <3>2 DEF HasDebt
    <3> QED
      BY <1>2, <2>1, <3>1, <3>3 DEF FlagTells, IsCollateral, HasDebt, ComingFrom
  <2>6. CASE At.kind = "Repay"
    <3>1. flag' = (account[q].debts > 0) /\ ~IsCollateral(At)
      BY <2>6 DEF TakeEvent, IsCollateral
    <3> QED
      BY <1>2, <2>1, <3>1 DEF FlagTells, IsCollateral, HasDebt, ComingFrom
  <2> QED
    BY <2>2, <2>3, <2>4, <2>5, <2>6 DEF Kind
<1> QED
  BY <1>1, <1>3, <1>4 DEF FlagsInv

LEMMA SaveFlags ==
  ASSUME FlagsInv, NEW ok \in BOOLEAN, UpdateActivity(ok)
  PROVE  FlagsInv'
<1>1. WatchTypeOK /\ WatchTypeOK' /\ EventsTell'
  BY WatcherTypes, EventsTellWatched DEF FlagsInv, WatcherStep, UpdateActivity
<1>2. /\ UNCHANGED <<account, log, next>> /\ wpc = "save" /\ wpc' = "details"
      /\ next \in 1 .. Len(log) /\ Len(log) \in Nat
      /\ spoiled' = IF ok THEN spoiled ELSE spoiled \cup {Here}
      /\ positions' = IF ok THEN [positions EXCEPT ![Here] = Updated(positions[Here])] ELSE positions
  BY <1>1 DEF UpdateActivity, chain, WatchTypeOK
<1>3. From = next /\ From' = next + 1
  BY <1>2 DEF From
<1>4. FlagTells'
  BY <1>2 DEF FlagTells
<1>5. ASSUME NEW p \in Position \ spoiled', p # Here PROVE RowTells(p)'
  <2>1. p \in Position \ spoiled /\ positions'[p] = positions[p]
    BY <1>1, <1>2, <1>5 DEF WatchTypeOK
  <2> QED
    BY <1>1, <1>2, <1>3, <1>5, <2>1, RowTellsKept
<1>6. ASSUME NEW p \in Position \ spoiled', p = Here PROVE RowTells(p)'
  <2> PICK n : n = next + 1
    OBVIOUS
  <2> PICK row : row = positions[p]
    OBVIOUS
  <2>1. ok /\ p \notin spoiled /\ p = At.position /\ At = log[next]
    BY <1>2, <1>6 DEF Here, At
  <2>2. positions'[p] = Updated(row)
    BY <1>1, <1>2, <1>6, <2>1 DEF WatchTypeOK
  <2>3. /\ row.hasCollateral = HasCollateral(p) \/ ComingFrom(next, p, CollateralKinds)
        /\ row.hasDebt = HasDebt(p) \/ ComingFrom(next, p, DebtKinds)
    BY <1>3, <2>1 DEF FlagsInv, RowsTell, RowTells
  <2>4. \A kinds : At.kind \notin kinds /\ ComingFrom(next, p, kinds) => ComingFrom(n, p, kinds)
    <3> SUFFICES ASSUME NEW kinds, At.kind \notin kinds, ComingFrom(next, p, kinds)
                 PROVE  ComingFrom(n, p, kinds)
      OBVIOUS
    <3> PICK i \in next .. Len(log) : log[i].position = p /\ log[i].kind \in kinds
      BY DEF ComingFrom
    <3>1. i # next
      BY <2>1
    <3> QED
      BY <1>2, <3>1 DEF ComingFrom
  <2>5. CASE IsCollateral(At)
    <3>1. At.kind \notin DebtKinds
      BY <2>5 DEF IsCollateral, DebtKinds
    <3>2. Updated(row).hasCollateral = flag /\ Updated(row).hasDebt = row.hasDebt
      BY <2>5 DEF Updated
    <3>3. flag = HasCollateral(p) \/ ComingFrom(n, p, CollateralKinds)
      BY <1>2, <1>6, <2>1, <2>5 DEF FlagsInv, FlagTells
    <3>4. row.hasDebt = HasDebt(p) \/ ComingFrom(n, p, DebtKinds)
      BY <2>3, <2>4, <3>1
    <3> QED
      BY <1>2, <1>3, <2>2, <3>2, <3>3, <3>4 DEF RowTells, HasCollateral, HasDebt, ComingFrom
  <2>6. CASE ~IsCollateral(At)
    <3>1. At.kind \notin CollateralKinds
      BY <2>6 DEF IsCollateral, CollateralKinds
    <3>2. Updated(row).hasCollateral = row.hasCollateral /\ Updated(row).hasDebt = flag
      BY <2>6 DEF Updated
    <3>3. flag = HasDebt(p) \/ ComingFrom(n, p, DebtKinds)
      BY <1>2, <1>6, <2>1, <2>6 DEF FlagsInv, FlagTells
    <3>4. row.hasCollateral = HasCollateral(p) \/ ComingFrom(n, p, CollateralKinds)
      BY <2>3, <2>4, <3>1
    <3> QED
      BY <1>2, <1>3, <2>2, <3>2, <3>3, <3>4 DEF RowTells, HasCollateral, HasDebt, ComingFrom
  <2> QED
    BY <2>5, <2>6
<1> QED
  BY <1>1, <1>4, <1>5, <1>6 DEF FlagsInv, RowsTell

\* The steps after it, a crash and a restart pass over no event, but for the one of a
\* position they spoil.
LEMMA OtherFlags ==
  ASSUME FlagsInv, WatchTypeOK', UNCHANGED <<chain, positions>>, wpc' # "save",
         spoiled \subseteq spoiled',
         \A p \in Position \ spoiled' :
            From' <= From \/ (From = next /\ From' = next + 1 /\ Here # p)
  PROVE  FlagsInv'
<1>1. UNCHANGED <<account, log>>
  BY DEF chain
<1>2. EventsTell' /\ FlagTells'
  BY EventsTellWatched DEF FlagTells
<1>3. RowsTell'
  <2> SUFFICES ASSUME NEW p \in Position \ spoiled' PROVE RowTells(p)'
    BY DEF RowsTell
  <2>1. p \in Position \ spoiled
    OBVIOUS
  <2> QED
    BY <1>1, <2>1, RowTellsKept
<1> QED
  BY <1>2, <1>3 DEF FlagsInv

LEMMA WatcherFlags ==
  ASSUME FlagsInv, NEW ok \in BOOLEAN, WatcherStep(ok)
  PROVE  FlagsInv'
<1>1. WatchTypeOK /\ WatchTypeOK' /\ next \in Nat
  BY WatcherTypes DEF FlagsInv, WatchTypeOK
<1>2. CASE TakeEvent(ok)
  BY <1>2, TakeFlags
<1>3. CASE UpdateActivity(ok)
  BY <1>3, SaveFlags
<1>4. CASE GetAccountDetails(ok)
  <2>1. From' = next + 1 /\ From = next + 1
    BY <1>4 DEF GetAccountDetails, From
  <2>2. From' <= From
    BY <1>1, <2>1
  <2>3. UNCHANGED <<chain, positions, spoiled>> /\ wpc' # "save"
    BY <1>4 DEF GetAccountDetails, told
  <2> QED
    BY <1>1, <2>2, <2>3, OtherFlags
<1>5. CASE PublishUpdate(ok)
  <2>1. From' = next + 1 /\ From = next + 1
    BY <1>5 DEF PublishUpdate, From
  <2>2. From' <= From
    BY <1>1, <2>1
  <2>3. UNCHANGED <<chain, positions, spoiled>> /\ wpc' # "save"
    BY <1>5 DEF PublishUpdate
  <2> QED
    BY <1>1, <2>2, <2>3, OtherFlags
<1> QED
  BY <1>2, <1>3, <1>4, <1>5 DEF WatcherStep

LEMMA RestartFlags ==
  ASSUME FlagsInv, WatcherCrash \/ \E n \in RestartsAt : WatcherStart(n)
  PROVE  FlagsInv'
<1>1. WatchTypeOK /\ WatchTypeOK' /\ next \in Nat
  BY RestartTypes DEF FlagsInv, WatchTypeOK
<1>2. CASE WatcherCrash
  <2>1. From' = next /\ (From = next \/ From = next + 1)
    BY <1>2 DEF WatcherCrash, From
  <2>2. From' <= From
    BY <1>1, <2>1
  <2>3. UNCHANGED <<chain, positions, spoiled>> /\ wpc' # "save"
    BY <1>2 DEF WatcherCrash, told
  <2> QED
    BY <1>1, <2>2, <2>3, OtherFlags
<1>3. ASSUME NEW n \in RestartsAt, WatcherStart(n) PROVE FlagsInv'
  <2>1. n \in 1 .. next + 1 /\ From' = n /\ From = next
    BY <1>3 DEF WatcherStart, RestartsAt, From
  <2>2. UNCHANGED <<chain, positions>> /\ wpc' # "save"
        /\ spoiled' = IF n <= next THEN spoiled ELSE spoiled \cup {Here}
    BY <1>3 DEF WatcherStart
  <2>3. n <= next \/ n = next + 1
    BY <1>1, <2>1
  <2>4. CASE n <= next
    BY <1>1, <2>1, <2>2, <2>4, OtherFlags
  <2>5. CASE ~(n <= next)
    <3>1. n = next + 1 /\ spoiled' = spoiled \cup {Here}
      BY <2>2, <2>3, <2>5
    <3>2. \A p \in Position \ spoiled' : From = next /\ From' = next + 1 /\ Here # p
      BY <2>1, <3>1
    <3> QED
      BY <1>1, <2>2, <3>1, <3>2, OtherFlags
  <2> QED
    BY <2>4, <2>5
<1> QED
  BY <1>2, <1>3

-----------------------------------------------------------------------------
(* The monitor next to the watcher.                                        *)
Seen == [ratio : {Never} \cup {Ratio(a) : a \in Account}, age : 0 .. MaxStateAge]

MonitorTypeOK ==
  /\ mpc \in {"idle", "visit", "alert", "update", "liquidate", "down"}
  /\ toVisit \subseteq Position
  /\ at \in Position \cup {NoOne}
  /\ mpc \in {"alert", "update", "liquidate"} => at \in Position /\ seen \in Account
  /\ lastAlerts \in [Position -> {Never} \cup 0 .. MaxAlertAge]
  /\ previous \in [Position -> Seen]
  /\ alert \in [Position -> {"NONE", "CRITICAL", "WARNING", "HEALTHY"}]
  /\ jobs \subseteq Position

\* A monitor step touches neither the contract nor the watcher.
LEMMA MonitorLeaves ==
  ASSUME MonitorNext
  PROVE  UNCHANGED <<chain, watcher, spoiled>>
<1>1. ASSUME NEW ok \in BOOLEAN, MonitorStep(ok) PROVE UNCHANGED <<chain, watcher, spoiled>>
  BY <1>1 DEF MonitorStep, StartCycle, Visit, Alert, Update, Liquidate
<1>2. CASE EndCycle \/ MonitorCrash \/ MonitorStart \/ \E p \in Position : TakeJob(p)
  BY <1>2 DEF EndCycle, MonitorCrash, MonitorStart, TakeJob, positionVars, told
<1> QED
  BY <1>1, <1>2 DEF MonitorNext

LEMMA FlagsLeft ==
  ASSUME FlagsInv, UNCHANGED <<chain, watcher, spoiled>>
  PROVE  FlagsInv'
<1>1. UNCHANGED <<account, log, changes, positions, wpc, next, flag, details, spoiled>>
  BY DEF chain, watcher
<1>2. WatchTypeOK'
  BY <1>1 DEF FlagsInv, WatchTypeOK
<1>3. EventsTell'
  BY EventsTellWatched
<1>4. FlagTells'
  BY <1>1 DEF FlagsInv, FlagTells, At, Here, IsCollateral, HasCollateral, HasDebt, ComingFrom
<1>5. RowsTell'
  BY <1>1 DEF FlagsInv, RowsTell, RowTells, From, HasCollateral, HasDebt, ComingFrom
<1> QED
  BY <1>2, <1>3, <1>4, <1>5 DEF FlagsInv

LEMMA FlagsInit == Init => FlagsInv
<1> SUFFICES ASSUME Init PROVE FlagsInv
  OBVIOUS
<1>1. /\ account = [p \in Position |-> Empty] /\ log = <<>> /\ changes = 0
      /\ positions = [p \in Position |-> Inactive]
      /\ wpc = "scan" /\ next = 1 /\ flag = FALSE /\ details = NoAccount
  BY DEF Init, PositionsInit
<1>2. Inactive \in Row /\ Inactive.hasCollateral = FALSE /\ Inactive.hasDebt = FALSE
  BY DEF Inactive, Row
<1>3. Len(log) = 0 /\ log \in Seq(Event)
  BY <1>1
<1>4. WatchTypeOK
  <2>1. account \in [Position -> Account] /\ positions \in [Position -> Row]
    BY <1>1, <1>2, AccountAssumption
  <2>2. changes \in 0 .. MaxChanges /\ next \in 1 .. Len(log) + 1
    BY <1>1, <1>3, PositionsBoundAssumption
  <2> QED
    BY <1>1, <1>3, <2>1, <2>2 DEF WatchTypeOK
<1>5. EventsTell /\ FlagTells
  BY <1>1, <1>3 DEF EventsTell, FlagTells
<1>6. \A p \in Position : /\ (account[p].assets > 0) = FALSE
                           /\ (account[p].debts > 0) = FALSE
  BY <1>1 DEF Empty
<1>7. RowsTell
  <2> SUFFICES ASSUME NEW p \in Position PROVE RowTells(p)
    BY DEF RowsTell
  <2>1. positions[p].hasCollateral = FALSE /\ positions[p].hasDebt = FALSE
    BY <1>1, <1>2
  <2> QED
    BY <1>6, <2>1 DEF RowTells, HasCollateral, HasDebt
<1> QED
  BY <1>4, <1>5, <1>7 DEF FlagsInv

LEMMA FlagsNext == FlagsInv /\ [Next]_vars => FlagsInv'
<1> SUFFICES ASSUME FlagsInv, [Next]_vars PROVE FlagsInv'
  OBVIOUS
<1>1. ASSUME NEW p \in Position, NEW a \in Account, Change(p, a) \/ PriceMoves(p, a)
      PROVE  FlagsInv'
  BY <1>1, ChangeFlags, PriceFlags
<1>2. ASSUME NEW ok \in BOOLEAN, WatcherStep(ok) PROVE FlagsInv'
  BY <1>2, WatcherFlags
<1>3. CASE WatcherCrash \/ \E n \in RestartsAt : WatcherStart(n)
  BY <1>3, RestartFlags
<1>4. CASE MonitorNext
  BY <1>4, MonitorLeaves, FlagsLeft
<1>5. CASE UNCHANGED vars
  BY <1>5, FlagsLeft DEF vars, positionVars, told
<1> QED
  BY <1>1, <1>2, <1>3, <1>4, <1>5 DEF Next, PositionsNext

(* The flags of a position follow its account, events taken on trust, late *)
(* reads and blocks scanned again included: the rows that                  *)
(* MarginContractEventHandler saves are right, or an event to correct them *)
(* is still to be handled, for every position none of whose events or      *)
(* reads was lost.                                                         *)
THEOREM FlagsFollowAccounts == Spec => []FlagsFollow
<1>1. FlagsInv => FlagsFollow
  <2> SUFFICES ASSUME FlagsInv, NEW p \in Position \ spoiled
               PROVE  /\ positions[p].hasCollateral # (account[p].assets > 0) =>
                           Coming(p, {"IncreaseCollateral", "DecreaseCollateral"})
                      /\ positions[p].hasDebt # (account[p].debts > 0) =>
                           Coming(p, {"Borrow", "Repay"})
    BY DEF FlagsFollow
  <2>1. next \in Nat /\ Len(log) \in Nat /\ (From = next \/ From = next + 1)
    BY DEF FlagsInv, WatchTypeOK, From
  <2>2. \A kinds : ComingFrom(From, p, kinds) => Coming(p, kinds)
    <3> SUFFICES ASSUME NEW kinds, ComingFrom(From, p, kinds) PROVE Coming(p, kinds)
      OBVIOUS
    <3> PICK i \in From .. Len(log) : log[i].position = p /\ log[i].kind \in kinds
      BY DEF ComingFrom
    <3>1. i \in next .. Len(log)
      BY <2>1
    <3> QED
      BY <3>1 DEF Coming
  <2>3. RowTells(p)
    BY DEF FlagsInv, RowsTell
  <2> QED
    BY <2>2, <2>3 DEF RowTells, HasCollateral, HasDebt, CollateralKinds, DebtKinds
<1> QED
  BY <1>1, FlagsInit, FlagsNext, PTL DEF Spec

-----------------------------------------------------------------------------
(* Types of the whole.                                                     *)
MonitorTypes == WatchTypeOK /\ FaultsTypeOK /\ MonitorTypeOK

LEMMA ErrorTypes ==
  ASSUME FaultsTypeOK, NEW ok \in BOOLEAN, Error(ok)
  PROVE  /\ errors' \in Nat /\ crashes' \in Nat /\ errors' + crashes' <= MaxFaults
         /\ errors' = 0 => ok /\ errors = 0
  BY PositionsBoundAssumption DEF FaultsTypeOK, Error

LEMMA WatcherFaults ==
  ASSUME WatchTypeOK, FaultsTypeOK, NEW ok \in BOOLEAN, WatcherStep(ok)
  PROVE  FaultsTypeOK' /\ Error(ok) /\ UNCHANGED <<account, log>>
<1>1. Error(ok) /\ UNCHANGED <<account, log>>
  BY DEF WatcherStep, TakeEvent, UpdateActivity, GetAccountDetails, PublishUpdate, chain
<1>2. next <= Len(log) \/ UNCHANGED <<update, spoiled>>
  BY DEF WatcherStep, TakeEvent, UpdateActivity, GetAccountDetails, PublishUpdate, WatchTypeOK, told
<1>3. /\ update' \in [Position -> Account \cup {NoAccount}]
      /\ spoiled' \subseteq Position
  <2>1. CASE next <= Len(log)
    <3>1. Here \in Position
      BY <2>1, AtKnown
    <3>2. spoiled' \in {spoiled, spoiled \cup {Here}}
      BY DEF WatcherStep, TakeEvent, UpdateActivity, GetAccountDetails, PublishUpdate, told
    <3>3. update' \in {update, [update EXCEPT ![Here] = details]}
      BY DEF WatcherStep, TakeEvent, UpdateActivity, GetAccountDetails, PublishUpdate, told
    <3> QED
      BY <3>1, <3>2, <3>3 DEF FaultsTypeOK, WatchTypeOK
  <2> QED
    BY <1>2, <2>1 DEF FaultsTypeOK
<1> QED
  BY <1>1, <1>3, ErrorTypes DEF FaultsTypeOK

LEMMA CrashTypes ==
  ASSUME FaultsTypeOK, Crash
  PROVE  errors' \in Nat /\ crashes' \in Nat /\ errors' + crashes' <= MaxFaults /\ errors' = errors
  BY PositionsBoundAssumption DEF FaultsTypeOK, Crash

LEMMA PositionsTypes ==
  ASSUME WatchTypeOK, FaultsTypeOK, PositionsNext
  PROVE  WatchTypeOK' /\ FaultsTypeOK'
<1>1. ASSUME NEW p \in Position, NEW a \in Account, Change(p, a) \/ PriceMoves(p, a)
      PROVE  WatchTypeOK' /\ FaultsTypeOK'
  BY <1>1, ChangeTypes DEF Change, PriceMoves, FaultsTypeOK, told, faults
<1>2. ASSUME NEW ok \in BOOLEAN, WatcherStep(ok) PROVE WatchTypeOK' /\ FaultsTypeOK'
  BY <1>2, WatcherTypes, WatcherFaults
<1>3. CASE WatcherCrash
  <2>1. UNCHANGED <<update, spoiled>> /\ Crash
    BY <1>3 DEF WatcherCrash, told
  <2> QED
    BY <1>3, <2>1, RestartTypes, CrashTypes DEF FaultsTypeOK
<1>4. ASSUME NEW n \in RestartsAt, WatcherStart(n) PROVE WatchTypeOK' /\ FaultsTypeOK'
  <2>1. UNCHANGED <<update, errors, crashes>>
        /\ spoiled' = IF n <= next THEN spoiled ELSE spoiled \cup {Here}
    BY <1>4 DEF WatcherStart, faults
  <2>2. n <= next \/ next <= Len(log)
    BY DEF RestartsAt, WatchTypeOK
  <2>3. n <= next \/ Here \in Position
    BY <2>2, AtKnown
  <2> QED
    BY <1>4, <2>1, <2>3, RestartTypes DEF FaultsTypeOK
<1> QED
  BY <1>1, <1>2, <1>3, <1>4 DEF PositionsNext

\* The ages stay what they are told apart up to.
LEMMA AgesKnown ==
  /\ \A n \in {Never} \cup 0 .. MaxAlertAge :
        AgeAlert(n) \in {Never} \cup 0 .. MaxAlertAge /\ (AgeAlert(n) = Never <=> n = Never)
  /\ \A n \in 0 .. MaxStateAge : n # MaxStateAge => n + 1 \in 0 .. MaxStateAge
  /\ Never \notin 0 .. MaxAlertAge /\ 0 \in 0 .. MaxAlertAge /\ 0 \in 0 .. MaxStateAge
  BY MonitorAssumption DEF Never, MaxAlertAge, MaxStateAge, AgeAlert

LEMMA StateKnown ==
  /\ NoState \in Seen
  /\ \A s \in Seen : AgeState(s) \in Seen
  /\ \A a \in Account : [ratio |-> Ratio(a), age |-> 0] \in Seen
<1>1. NoState \in Seen
  BY AgesKnown DEF Seen, NoState
<1>2. ASSUME NEW s \in Seen PROVE AgeState(s) \in Seen
  <2>1. s.age \in 0 .. MaxStateAge /\ s.ratio \in {Never} \cup {Ratio(a) : a \in Account}
    BY DEF Seen
  <2>2. CASE s = NoState \/ s.age = MaxStateAge
    BY <2>2 DEF AgeState
  <2>3. CASE ~(s = NoState \/ s.age = MaxStateAge)
    <3>1. s.age + 1 \in 0 .. MaxStateAge
      BY <2>1, <2>3, AgesKnown
    <3>2. AgeState(s) = [s EXCEPT !.age = s.age + 1]
      BY <2>3 DEF AgeState
    <3> QED
      BY <2>1, <3>1, <3>2 DEF Seen
  <2> QED
    BY <2>2, <2>3
<1>3. ASSUME NEW a \in Account PROVE [ratio |-> Ratio(a), age |-> 0] \in Seen
  BY AgesKnown DEF Seen
<1> QED
  BY <1>1, <1>2, <1>3

LEMMA LevelKnown == \A a : Level(a) \in {"CRITICAL", "WARNING", "HEALTHY"}
<1> SUFFICES ASSUME NEW a PROVE Level(a) \in {"CRITICAL", "WARNING", "HEALTHY"}
  OBVIOUS
<1>1. CASE Ratio(a) < Critical
  BY <1>1 DEF Level
<1>2. CASE ~(Ratio(a) < Critical)
  BY <1>2 DEF Level
<1> QED
  BY <1>1, <1>2

\* The monitor's own variables.
LEMMA MonitorTypesStep ==
  ASSUME WatchTypeOK, FaultsTypeOK, MonitorTypeOK, NEW ok \in BOOLEAN, MonitorStep(ok)
  PROVE  /\ MonitorTypeOK'
         /\ update' \in [Position -> Account \cup {NoAccount}]
         /\ Error(ok)
<1>1. CASE StartCycle(ok)
  <2>1. toVisit' \subseteq Position
    BY <1>1 DEF StartCycle, Active
  <2>2. lastAlerts' \in [Position -> {Never} \cup 0 .. MaxAlertAge]
    BY <1>1, AgesKnown DEF StartCycle, MonitorTypeOK
  <2>3. previous' \in [Position -> Seen]
    BY <1>1, StateKnown DEF StartCycle, MonitorTypeOK
  <2> QED
    BY <1>1, <2>1, <2>2, <2>3 DEF StartCycle, MonitorTypeOK, FaultsTypeOK, out
<1>2. ASSUME NEW p \in toVisit, Visit(p, ok) PROVE MonitorTypeOK'
  <2>1. p \in Position /\ account[p] \in Account
    BY DEF MonitorTypeOK, WatchTypeOK
  <2> QED
    BY <1>2, <2>1 DEF Visit, MonitorTypeOK, out
<1>3. CASE Alert(ok)
  <2>1. at \in Position /\ seen \in Account
    BY <1>3 DEF Alert, MonitorTypeOK
  <2> PICK level \in {"CRITICAL", "WARNING", "HEALTHY"} : level = Level(seen)
    BY LevelKnown
  <2>2. /\ \/ alert' = [alert EXCEPT ![at] = level]
           \/ alert' = [alert EXCEPT ![at] = "HEALTHY"]
           \/ alert' = alert
        /\ \/ lastAlerts' = [lastAlerts EXCEPT ![at] = 0]
           \/ lastAlerts' = [lastAlerts EXCEPT ![at] = Never]
           \/ lastAlerts' = lastAlerts
    BY <1>3 DEF Alert, Send
  <2>3. alert' \in [Position -> {"NONE", "CRITICAL", "WARNING", "HEALTHY"}]
    BY <2>1, <2>2 DEF MonitorTypeOK
  <2>4. lastAlerts' \in [Position -> {Never} \cup 0 .. MaxAlertAge]
    BY <2>1, <2>2, AgesKnown DEF MonitorTypeOK
  <2> QED
    BY <1>3, <2>1, <2>3, <2>4 DEF Alert, MonitorTypeOK, FaultsTypeOK
<1>4. CASE Update(ok)
  <2>1. at \in Position /\ seen \in Account
    BY <1>4 DEF Update, MonitorTypeOK
  <2>2. /\ update' = [update EXCEPT ![at] = seen] \/ update' = update
        /\ \/ previous' = [previous EXCEPT ![at] = [ratio |-> Ratio(seen), age |-> 0]]
           \/ previous' = previous
    BY <1>4 DEF Update, Send
  <2>3. update' \in [Position -> Account \cup {NoAccount}]
    BY <2>1, <2>2 DEF FaultsTypeOK
  <2>4. previous' \in [Position -> Seen]
    BY <2>1, <2>2, StateKnown DEF MonitorTypeOK
  <2> QED
    BY <1>4, <2>1, <2>3, <2>4 DEF Update, MonitorTypeOK, out
<1>5. CASE Liquidate(ok)
  <2>1. at \in Position
    BY <1>5 DEF Liquidate, MonitorTypeOK
  <2> QED
    BY <1>5, <2>1 DEF Liquidate, MonitorTypeOK, FaultsTypeOK
<1>6. Error(ok) /\ (update' = update \/ Update(ok))
  BY DEF MonitorStep, StartCycle, Visit, Alert, Liquidate, Update
<1> QED
  BY <1>1, <1>2, <1>3, <1>4, <1>5, <1>6 DEF MonitorStep, FaultsTypeOK

LEMMA MonitorTypesNext == MonitorTypes /\ [Next]_vars => MonitorTypes'
<1> SUFFICES ASSUME WatchTypeOK, FaultsTypeOK, MonitorTypeOK, [Next]_vars PROVE MonitorTypes'
  BY DEF MonitorTypes
<1>1. CASE PositionsNext /\ UNCHANGED <<monitor, out>>
  BY <1>1, PositionsTypes DEF MonitorTypes, MonitorTypeOK, monitor, out
<1>2. ASSUME NEW ok \in BOOLEAN, MonitorStep(ok) PROVE MonitorTypes'
  <2>1. UNCHANGED <<chain, watcher, spoiled>>
    BY <1>2, MonitorLeaves DEF MonitorNext
  <2> QED
    BY <1>2, <2>1, MonitorTypesStep, ErrorTypes
    DEF MonitorTypes, FaultsTypeOK, WatchTypeOK, chain, watcher
<1>3. CASE EndCycle \/ MonitorStart \/ \E p \in Position : TakeJob(p)
  BY <1>3 DEF EndCycle, MonitorStart, TakeJob, MonitorTypes, MonitorTypeOK, FaultsTypeOK,
      WatchTypeOK, positionVars, chain, watcher, told, faults, monitor, out
<1>4. CASE MonitorCrash
  <2>1. UNCHANGED <<chain, watcher, told, out>> /\ Crash
    BY <1>4 DEF MonitorCrash
  <2>2. MonitorTypeOK'
    BY <1>4, StateKnown DEF MonitorCrash, MonitorTypeOK, out
  <2> QED
    BY <2>1, <2>2, CrashTypes DEF MonitorTypes, FaultsTypeOK, WatchTypeOK, chain, watcher, told
<1>5. CASE UNCHANGED vars
  BY <1>5 DEF vars, MonitorTypes, MonitorTypeOK, FaultsTypeOK,
      WatchTypeOK, positionVars, chain, watcher, told, faults, monitor, out
<1> QED
  BY <1>1, <1>2, <1>3, <1>4, <1>5 DEF Next, MonitorNext

LEMMA MonitorTypesInit == Init => MonitorTypes
<1> SUFFICES ASSUME Init PROVE MonitorTypes
  OBVIOUS
<1>1. WatchTypeOK
  BY FlagsInit DEF FlagsInv
<1>2. FaultsTypeOK
  BY PositionsBoundAssumption DEF Init, PositionsInit, FaultsTypeOK
<1>3. MonitorTypeOK
  BY StateKnown DEF Init, MonitorTypeOK
<1> QED
  BY <1>1, <1>2, <1>3 DEF MonitorTypes

(* Every variable of the contract's log, the watcher and the monitor keeps *)
(* its type, for any positions, accounts, prices and bounds.               *)
THEOREM MonitorTypeCorrect == Spec => []TypeOK
<1>1. MonitorTypes => TypeOK
  BY PositionsTypeParts DEF MonitorTypes, MonitorTypeOK, TypeOK, Seen
<1> QED
  BY <1>1, MonitorTypesInit, MonitorTypesNext, PTL DEF Spec

-----------------------------------------------------------------------------
\* Whoever the monitor counts as alerted was told of it, but for lost messages.
AlertedInv == errors = 0 => \A p \in Position : lastAlerts[p] # Never => alert[p] # "NONE"

LEMMA AlertTells ==
  ASSUME MonitorTypes, AlertedInv, errors = 0, NEW ok \in BOOLEAN, Alert(ok)
  PROVE  AlertedInv' /\ \A p \in Position : alert'[p] = "HEALTHY" => alert[p] # "NONE"
<1>1. /\ at \in Position
      /\ lastAlerts \in [Position -> {Never} \cup 0 .. MaxAlertAge]
      /\ alert \in [Position -> {"NONE", "CRITICAL", "WARNING", "HEALTHY"}]
      /\ \A p \in Position : lastAlerts[p] # Never => alert[p] # "NONE"
  BY DEF MonitorTypes, MonitorTypeOK, Alert, AlertedInv
<1>2. CASE ~ok
  <2>1. errors' # 0
    BY <1>2, ErrorTypes DEF Alert, MonitorTypes
  <2>2. alert' = alert
    BY <1>2 DEF Alert, Send
  <2> QED
    BY <2>1, <2>2 DEF AlertedInv
<1>3. CASE ok
  <2> PICK level \in {"CRITICAL", "WARNING", "HEALTHY"} : level = Level(seen)
    BY LevelKnown
  <2>1. CASE level # "HEALTHY" /\ Alertable(at)
    <3>1. /\ alert' = [alert EXCEPT ![at] = level]
          /\ lastAlerts' = [lastAlerts EXCEPT ![at] = 0]
      BY <1>3, <2>1 DEF Alert, Send
    <3> QED
      BY <1>1, <2>1, <3>1 DEF AlertedInv
  <2>2. CASE level = "HEALTHY" /\ lastAlerts[at] # Never
    <3>1. /\ alert' = [alert EXCEPT ![at] = "HEALTHY"]
          /\ lastAlerts' = [lastAlerts EXCEPT ![at] = Never]
      BY <1>3, <2>2 DEF Alert, Send
    <3> QED
      BY <1>1, <2>2, <3>1 DEF AlertedInv
  <2>3. CASE ~(level # "HEALTHY" /\ Alertable(at)) /\ ~(level = "HEALTHY" /\ lastAlerts[at] # Never)
    <3>1. UNCHANGED <<alert, lastAlerts>>
      BY <2>3 DEF Alert
    <3> QED
      BY <1>1, <3>1 DEF AlertedInv
  <2> QED
    BY <2>1, <2>2, <2>3
<1> QED
  BY <1>2, <1>3

LEMMA AlertedStep ==
  ASSUME MonitorTypes, AlertedInv, Next
  PROVE  /\ AlertedInv'
         /\ \A p \in Position : alert'[p] = "HEALTHY" /\ errors = 0 => alert[p] # "NONE"
<1>1. errors' = 0 => errors = 0
  <2>1. ASSUME NEW ok \in BOOLEAN, WatcherStep(ok) PROVE errors' = 0 => errors = 0
    BY <2>1, WatcherFaults, ErrorTypes DEF MonitorTypes
  <2>2. ASSUME NEW ok \in BOOLEAN, MonitorStep(ok) PROVE errors' = 0 => errors = 0
    BY <2>2, MonitorTypesStep, ErrorTypes DEF MonitorTypes
  <2>3. CASE WatcherCrash \/ MonitorCrash
    BY <2>3, CrashTypes DEF WatcherCrash, MonitorCrash, MonitorTypes
  <2> QED
    BY <2>1, <2>2, <2>3 DEF Next, PositionsNext, MonitorNext, Change, PriceMoves, WatcherStart,
       EndCycle, MonitorStart, TakeJob, positionVars, faults
<1>2. ASSUME NEW ok \in BOOLEAN, Alert(ok), errors = 0
      PROVE  AlertedInv' /\ \A p \in Position : alert'[p] = "HEALTHY" => alert[p] # "NONE"
  BY <1>2, AlertTells
<1>3. ASSUME NEW ok \in BOOLEAN, Alert(ok), errors # 0 PROVE AlertedInv'
  BY <1>1, <1>3 DEF AlertedInv
\* The other steps send no alert, and count nobody as alerted.
<1>4. ASSUME UNCHANGED alert,
             \A p \in Position : lastAlerts[p] = Never => lastAlerts'[p] = Never
      PROVE  AlertedInv' /\ \A p \in Position : alert'[p] = "HEALTHY" => alert[p] # "NONE"
  BY <1>1, <1>4 DEF AlertedInv
<1>5. ASSUME NEW ok \in BOOLEAN, StartCycle(ok)
      PROVE  UNCHANGED alert /\ \A p \in Position : lastAlerts[p] = Never => lastAlerts'[p] = Never
  BY <1>5 DEF StartCycle, out, AgeAlert
<1>6. CASE MonitorCrash
  BY <1>4, <1>6 DEF MonitorCrash, out
<1>7. ASSUME NEW ok \in BOOLEAN, (\E p \in toVisit : Visit(p, ok)) \/ Update(ok) \/ Liquidate(ok)
      PROVE  UNCHANGED <<alert, lastAlerts>>
  BY <1>7 DEF Visit, Update, Liquidate, out
<1>8. CASE PositionsNext /\ UNCHANGED <<monitor, out>>
  BY <1>4, <1>8 DEF monitor, out
<1>9. CASE EndCycle \/ MonitorStart \/ \E p \in Position : TakeJob(p)
  BY <1>4, <1>9 DEF EndCycle, MonitorStart, TakeJob, monitor, out
<1> QED
  BY <1>2, <1>3, <1>4, <1>5, <1>6, <1>7, <1>8, <1>9 DEF Next, MonitorNext, MonitorStep

(* The good news comes only after the bad: monitorPositions sends HEALTHY  *)
(* to those it has in lastAlertTimes, and each of them was told before, in *)
(* this life of the monitor or in one before, unless a message was lost.   *)
THEOREM HealthyTellsAlerted == Spec => HealthyAfterAlert
<1>1. Init => AlertedInv
  BY DEF Init, AlertedInv
<1>2. MonitorTypes /\ AlertedInv /\ [Next]_vars => AlertedInv'
  <2>1. CASE UNCHANGED vars
    BY <2>1 DEF vars, positionVars, faults, monitor, out, AlertedInv
  <2> QED
    BY <2>1, AlertedStep
<1>3. MonitorTypes /\ AlertedInv /\ [Next]_vars
        => [\A p \in Position : alert'[p] = "HEALTHY" /\ errors = 0 => alert[p] # "NONE"]_vars
  BY AlertedStep
<1> QED
  BY <1>1, <1>2, <1>3, MonitorTypesInit, MonitorTypesNext, PTL DEF Spec, HealthyAfterAlert

---------------------------------------------------------------------------
(* The client's view.                                                      *)

\* What a slot holds is of the selected account, or was written for another one, or is
\* hidden.
OwnOrHidden(slot) == data[slot] \subseteq {user} \/ slot \in foreign \cup loading \cup error

\* The slots the components that are mounted look at.
InView ==
    {slot \in Slots : \/ \E m \in Markets : panel.market = m /\ slot \in {Details(m), Loans(m)}
                      \/ list /\ slot = Positions
                      \/ loanList /\ slot = Listed}

\* The components, and the store, which has a place for every slot.
Stored ==
    /\ panel \in [mounted : BOOLEAN, market : Markets \cup {None}]
    /\ list \in BOOLEAN /\ loanList \in BOOLEAN
    /\ data = [slot \in Slots |-> data[slot]]

ViewInv == Stored /\ (user # None => \A slot \in InView : OwnOrHidden(slot))

---------------------------------------------------------------------------
(* Fetches *)

\* A fetch puts the loading flag up where it takes an error away.
LEMMA FetchHides ==
    ASSUME NEW slots, NEW u, NEW s
    PROVE  /\ slots \subseteq Fetch(slots, u, s).loading
           /\ s.loading \cup s.error
                  \subseteq Fetch(slots, u, s).loading \cup Fetch(slots, u, s).error
  BY DEF Fetch

\* So do the fetches of the components, each for the slots it looks at: those of the panel.
LEMMA PanelHides ==
    ASSUME NEW m, NEW u, NEW s
    PROVE  /\ s.loading \cup s.error
                  \subseteq PanelFetch(m, u, s).loading \cup PanelFetch(m, u, s).error
           /\ m # None /\ u # None => {Details(m), Loans(m)} \subseteq PanelFetch(m, u, s).loading
  BY FetchHides DEF PanelFetch

\* Those of the list of open positions.
LEMMA ListHides ==
    ASSUME NEW mounted, NEW u, NEW s
    PROVE  /\ s.loading \cup s.error
                  \subseteq ListFetch(mounted, u, s).loading \cup ListFetch(mounted, u, s).error
           /\ mounted /\ u # None => Positions \in ListFetch(mounted, u, s).loading
  BY FetchHides DEF ListFetch

\* Those of the list of active loans.
LEMMA LoanListHides ==
    ASSUME NEW mounted, NEW u, NEW s
    PROVE  /\ s.loading \cup s.error \subseteq FetchUserLoans(mounted, u, s).loading
                                                   \cup FetchUserLoans(mounted, u, s).error
           /\ mounted /\ u # None => Listed \in FetchUserLoans(mounted, u, s).loading
  BY FetchHides DEF FetchUserLoans

\* A step that writes no data: what comes into view is being loaded.
LEMMA QuietStep ==
    ASSUME ViewInv, UNCHANGED <<data, foreign>>,
           panel' \in [mounted : BOOLEAN, market : Markets \cup {None}],
           list' \in BOOLEAN, loanList' \in BOOLEAN,
           loading \cup error \subseteq loading' \cup error',
           \A slot \in InView' : slot \in loading' \cup error' \/ (slot \in InView /\ user' = user)
    PROVE  ViewInv'
  BY DEF ViewInv, Stored, OwnOrHidden

\* The panel starts with a market.
LEMMA FirstMarketIs == FirstMarket \in Markets
  BY ViewAssumption DEF FirstMarket

\* The flags a step of the user starts from.
LEMMA RestIs == Rest.loading = loading /\ Rest.error = error
  BY DEF Rest

---------------------------------------------------------------------------
(* What the user does *)

\* Another account: all that is in view is loaded again.
LEMMA SelectAccountStep ==
    ASSUME ViewInv, NEW u \in Accounts \cup {None}, SelectAccount(u) PROVE ViewInv'
<1> DEFINE m == PanelMarket(u)
           s == PanelFetch(m, u, Rest)
           t == ListFetch(list, u, s)
           r == FetchUserLoans(loanList, u, t)
<1>1. /\ user' = u /\ panel' = [panel EXCEPT !.market = m]
      /\ loading' = r.loading /\ error' = r.error
      /\ UNCHANGED <<list, loanList, data, foreign>>
  BY DEF SelectAccount, Become
<1>2. /\ panel \in [mounted : BOOLEAN, market : Markets \cup {None}]
      /\ list \in BOOLEAN /\ loanList \in BOOLEAN
  BY DEF ViewInv, Stored
<1>3. m \in Markets \cup {None}
  BY <1>2, FirstMarketIs DEF PanelMarket
<1>4. panel' \in [mounted : BOOLEAN, market : Markets \cup {None}] /\ panel'.market = m
  BY <1>1, <1>2, <1>3
<1>5. /\ loading \cup error \subseteq s.loading \cup s.error
      /\ m # None /\ u # None => {Details(m), Loans(m)} \subseteq s.loading
  <2> HIDE DEF m
  <2> QED
    BY RestIs, PanelHides
<1> HIDE DEF s, m
<1>6. /\ s.loading \cup s.error \subseteq t.loading \cup t.error
      /\ list /\ u # None => Positions \in t.loading
  BY ListHides
<1> HIDE DEF t
<1>7. /\ t.loading \cup t.error \subseteq r.loading \cup r.error
      /\ loanList /\ u # None => Listed \in r.loading
  BY LoanListHides
<1> HIDE DEF r
<1>8. CASE u = None
  BY <1>1, <1>2, <1>4, <1>8 DEF ViewInv, Stored
<1>9. CASE u # None
  <2>1. ASSUME NEW slot \in InView' PROVE slot \in loading' \cup error'
    <3>1. ASSUME NEW n \in Markets, panel'.market = n, slot \in {Details(n), Loans(n)}
          PROVE  slot \in loading' \cup error'
      BY <1>1, <1>4, <1>5, <1>6, <1>7, <1>9, <3>1, ViewAssumption
    <3>2. CASE list' /\ slot = Positions
      BY <1>1, <1>6, <1>7, <1>9, <3>2
    <3>3. CASE loanList' /\ slot = Listed
      BY <1>1, <1>7, <1>9, <3>3 DEF Listed
    <3> QED
      BY <2>1, <3>1, <3>2, <3>3 DEF InView, Listed
  <2> QED
    BY <1>1, <1>2, <1>4, <1>5, <1>6, <1>7, <2>1, QuietStep
<1> QED
  BY <1>8, <1>9

\* The panel appears, or another market is chosen in it.
LEMMA PanelSteps ==
    ASSUME ViewInv, MountPanel \/ \E m \in Markets : HandleMarketChange(m) PROVE ViewInv'
<1> DEFINE m == panel'.market
           s == PanelFetch(m, user, Rest)
<1>1. /\ panel \in [mounted : BOOLEAN, market : Markets \cup {None}]
      /\ list \in BOOLEAN /\ loanList \in BOOLEAN
  BY DEF ViewInv, Stored
<1>2. /\ panel' \in [mounted : BOOLEAN, market : Markets \cup {None}]
      /\ loading' = s.loading /\ error' = s.error
      /\ UNCHANGED <<user, list, loanList, data, foreign>>
  <2>1. CASE MountPanel
    <3>1. panel' \in [mounted : BOOLEAN, market : Markets \cup {None}]
      BY <2>1, FirstMarketIs DEF MountPanel
    <3> HIDE DEF m
    <3> QED
      BY <2>1, <3>1 DEF MountPanel, Become, m
  <2>2. ASSUME NEW n \in Markets, HandleMarketChange(n)
        PROVE  /\ panel' \in [mounted : BOOLEAN, market : Markets \cup {None}] /\ m = n
               /\ Become(PanelFetch(n, user, Rest))
               /\ UNCHANGED <<user, list, loanList, data, foreign>>
    BY <1>1, <2>2 DEF HandleMarketChange
  <2>3. CASE \E n \in Markets : HandleMarketChange(n)
    <3>1. PICK n \in Markets : HandleMarketChange(n)
      BY <2>3
    <3> QED
      BY <2>2, <3>1 DEF Become
  <2> QED
    BY <2>1, <2>3
<1>3. /\ loading \cup error \subseteq s.loading \cup s.error
      /\ m # None /\ user # None => {Details(m), Loans(m)} \subseteq s.loading
  <2> HIDE DEF m
  <2> QED
    BY RestIs, PanelHides
<1> HIDE DEF s
<1>4. CASE user = None
  BY <1>1, <1>2, <1>4 DEF ViewInv, Stored
<1>5. CASE user # None
  <2>1. ASSUME NEW slot \in InView'
        PROVE  slot \in loading' \cup error' \/ (slot \in InView /\ user' = user)
    <3>1. ASSUME NEW n \in Markets, panel'.market = n, slot \in {Details(n), Loans(n)}
          PROVE  slot \in loading' \cup error'
      BY <1>2, <1>3, <1>5, <3>1, ViewAssumption
    <3>2. CASE (list' /\ slot = Positions) \/ (loanList' /\ slot = Listed)
      BY <1>2, <2>1, <3>2 DEF InView, Listed
    <3> QED
      BY <2>1, <3>1, <3>2 DEF InView, Listed
  <2> QED
    BY <1>1, <1>2, <1>3, <2>1, QuietStep
<1> QED
  BY <1>4, <1>5

\* A list appears or goes.
LEMMA ListSteps == ASSUME ViewInv, ToggleList \/ ToggleLoanList PROVE ViewInv'
<1>1. /\ panel \in [mounted : BOOLEAN, market : Markets \cup {None}]
      /\ list \in BOOLEAN /\ loanList \in BOOLEAN
  BY DEF ViewInv, Stored
<1>2. /\ list' \in BOOLEAN /\ loanList' \in BOOLEAN
      /\ UNCHANGED <<user, panel, data, foreign>>
  BY <1>1 DEF ToggleList, ToggleLoanList
<1>3. loading \cup error \subseteq loading' \cup error'
  BY <1>2, RestIs, ListHides, LoanListHides DEF ToggleList, ToggleLoanList, Become
<1>4. /\ list' /\ user # None => list \/ Positions \in loading'
      /\ loanList' /\ user # None => loanList \/ Listed \in loading'
  BY <1>2, RestIs, ListHides, LoanListHides DEF ToggleList, ToggleLoanList, Become
<1>5. CASE user = None
  BY <1>1, <1>2, <1>5 DEF ViewInv, Stored
<1>6. CASE user # None
  <2>1. ASSUME NEW slot \in InView'
        PROVE  slot \in loading' \cup error' \/ (slot \in InView /\ user' = user)
    BY <1>2, <1>4, <1>6, <2>1 DEF InView, Listed
  <2> QED
    BY <1>1, <1>2, <1>3, <2>1, QuietStep
<1> QED
  BY <1>5, <1>6

\* Without the panel its slots are not in view.
LEMMA UnmountStep == ASSUME ViewInv, UnmountPanel PROVE ViewInv'
<1>1. panel'.market = None
  BY DEF UnmountPanel
<1>2. InView' \subseteq InView
  BY <1>1, ViewAssumption DEF InView, UnmountPanel, Listed
<1> QED
  BY <1>2, QuietStep DEF UnmountPanel, ViewInv, Stored

---------------------------------------------------------------------------
(* Answers *)

\* What an answer for the account u brings is of u, and known to be when u is not selected.
LEMMA WriteStep ==
    ASSUME ViewInv, NEW w, NEW STATE u, UNCHANGED <<user, panel, list, loanList>>,
           data' = [data EXCEPT ![w] = {u}],
           foreign' = IF u = user THEN foreign \ {w} ELSE foreign \cup {w},
           (loading \cup error) \ {w} \subseteq loading' \cup error'
    PROVE  ViewInv'
<1>1. Stored'
  BY DEF ViewInv, Stored
<1>2. InView' = InView
  BY DEF InView, Listed
<1>3. ASSUME user # None, NEW slot \in InView PROVE OwnOrHidden(slot)'
  <2>1. slot \in Slots
    BY DEF InView
  <2>2. CASE slot = w
    <3>1. data'[slot] = {u}
      BY <2>1, <2>2 DEF ViewInv, Stored
    <3> QED
      BY <2>2, <3>1 DEF OwnOrHidden
  <2>3. CASE slot # w
    <3>1. data'[slot] = data[slot]
      BY <2>1, <2>3 DEF ViewInv, Stored
    <3>2. OwnOrHidden(slot)
      BY <1>3 DEF ViewInv
    <3> QED
      BY <2>3, <3>1, <3>2 DEF OwnOrHidden
  <2> QED
    BY <2>2, <2>3
<1> QED
  BY <1>1, <1>2, <1>3 DEF ViewInv

\* A failure leaves the slot hidden.
LEMMA FailStep ==
    ASSUME ViewInv, NEW w, UNCHANGED <<user, panel, list, loanList>>, Fail(w) PROVE ViewInv'
<1>1. UNCHANGED <<data, foreign>> /\ loading \cup error \subseteq loading' \cup error'
  BY DEF Fail
<1>2. InView' = InView
  BY DEF InView, Listed
<1> QED
  BY <1>1, <1>2, QuietStep DEF ViewInv, Stored

\* The answer to a fetch of a component.
LEMMA AnswerStep == ASSUME ViewInv, NEW slot, NEW u, Answer(slot, u) PROVE ViewInv'
<1>1. CASE Success(slot, u)
  BY <1>1, WriteStep DEF Answer, Success
<1>2. CASE Fail(slot)
  BY <1>2, FailStep DEF Answer
<1> QED
  BY <1>1, <1>2 DEF Answer

\* The refresh takes its answers one by one, and shows the flag of the next.
LEMMA RefreshSteps ==
    ASSUME ViewInv,
           \/ RefreshAnswer \/ RefreshFails
           \/ \E u \in Accounts, m \in Markets, assets \in Reloads : StartRefresh(u, m, assets)
    PROVE  ViewInv'
<1>1. CASE RefreshAnswer
  BY <1>1, WriteStep DEF RefreshAnswer
<1>2. CASE RefreshFails
  BY <1>2, FailStep DEF RefreshFails
<1>3. ASSUME NEW u \in Accounts, NEW m \in Markets, NEW assets \in Reloads,
             StartRefresh(u, m, assets)
      PROVE  ViewInv'
  <2>1. /\ UNCHANGED <<user, panel, list, loanList, data, foreign>>
        /\ loading \cup error \subseteq loading' \cup error'
    BY <1>3 DEF StartRefresh, Requested
  <2>2. InView' = InView
    BY <2>1 DEF InView, Listed
  <2> QED
    BY <2>1, <2>2, QuietStep DEF ViewInv, Stored
<1> QED
  BY <1>1, <1>2, <1>3

\* An update that is passed on is of the selected account.
LEMMA UpdateStep ==
    ASSUME ViewInv, NEW m \in Markets, NEW u \in Accounts, AccountUpdate(m, u) PROVE ViewInv'
<1>1. /\ UNCHANGED <<user, panel, list, loanList, loading, error, foreign>>
      /\ data' = [data EXCEPT ![Details(m)] = @ \cup {u}]
      /\ u = user
  BY DEF AccountUpdate, Addressed, Merge
<1>2. Stored'
  BY <1>1 DEF ViewInv, Stored
<1>3. InView' = InView
  BY <1>1 DEF InView, Listed
<1>4. ASSUME user # None, NEW slot \in InView PROVE OwnOrHidden(slot)'
  <2>1. slot \in Slots
    BY DEF InView
  <2>2. data'[slot] \subseteq data[slot] \cup {user}
    BY <1>1, <1>4, <2>1 DEF ViewInv, Stored
  <2> QED
    BY <1>1, <1>4, <2>2 DEF ViewInv, OwnOrHidden
<1> QED
  BY <1>1, <1>2, <1>3, <1>4 DEF ViewInv

\* One that comes unchecked leaves its mark, unless it is of the selected account.
LEMMA UncheckedStep ==
    ASSUME ViewInv, NEW m \in Markets, NEW u \in Accounts, OnWebSocketMessage(m, u)
    PROVE  ViewInv'
<1>1. /\ UNCHANGED <<user, panel, list, loanList, loading, error>>
      /\ data' = [data EXCEPT ![Details(m)] = @ \cup {u}]
      /\ foreign' = IF user \in {None, u} THEN foreign ELSE foreign \cup {Details(m)}
  BY DEF OnWebSocketMessage, Merge
<1>2. Stored'
  BY <1>1 DEF ViewInv, Stored
<1>3. InView' = InView
  BY <1>1 DEF InView, Listed
<1>4. ASSUME user # None, NEW slot \in InView PROVE OwnOrHidden(slot)'
  <2>1. slot \in Slots
    BY DEF InView
  <2>2. data'[slot] = data[slot] \/ (slot = Details(m) /\ data'[slot] = data[slot] \cup {u})
    BY <1>1, <2>1 DEF ViewInv, Stored
  <2>3. foreign \subseteq foreign' /\ (u # user => Details(m) \in foreign')
    BY <1>1, <1>4
  <2>4. OwnOrHidden(slot)
    BY <1>4 DEF ViewInv
  <2>5. slot \in loading \cup error => slot \in loading' \cup error'
    BY <1>1
  <2> QED
    BY <1>1, <2>2, <2>3, <2>4, <2>5 DEF OwnOrHidden
<1> QED
  BY <1>1, <1>2, <1>3, <1>4 DEF ViewInv

---------------------------------------------------------------------------
(* The theorem *)

\* At the start nothing is in view.
LEMMA ViewInitInv == ViewInit => ViewInv
<1> SUFFICES ASSUME ViewInit PROVE ViewInv
  OBVIOUS
<1>1. Stored /\ InView = {}
  BY ViewAssumption DEF ViewInit, Stored, InView
<1> QED
  BY <1>1 DEF ViewInv

\* Every step keeps the invariant.
LEMMA ViewNextInv == ViewInv /\ [ViewNext]_viewVars => ViewInv'
<1> SUFFICES ASSUME ViewInv, [ViewNext]_viewVars PROVE ViewInv'
  OBVIOUS
<1>1. CASE UNCHANGED viewVars
  BY <1>1 DEF viewVars, ViewInv, Stored, InView, OwnOrHidden, Listed
<1> QED
  BY <1>1, SelectAccountStep, PanelSteps, ListSteps, UnmountStep, AnswerStep, RefreshSteps,
     UpdateStep, UncheckedStep DEF ViewNext

\* The selected account is shown its own data and nobody else's, unless a fetch for another
\* account was answered after its own, or an update of another account came by the second
\* socket (the components, marginReducer and websocketHandlers).
THEOREM ViewShowsOwn == ViewSpec => []ShownIsOwn
<1>1. ViewInv => ShownIsOwn
  <2> SUFFICES ASSUME ViewInv, user # None PROVE ShownIsOwn
    BY DEF ShownIsOwn
  <2>1. ASSUME NEW slot \in Shown PROVE data[slot] \subseteq {user} \/ slot \in foreign
    <3>1. slot \in InView /\ slot \notin loading \cup error
      BY DEF Shown, ShownDetails, ShownLoans, ShownPositions, InView, Slots
    <3> QED
      BY <3>1 DEF ViewInv, OwnOrHidden
  <2>2. ASSUME ShownLoanList PROVE data[Listed] \subseteq {user} \/ Listed \in foreign \cup error
    <3>1. Listed \in InView /\ Listed \notin loading
      BY <2>2, FirstMarketIs DEF ShownLoanList, InView, Slots, Listed
    <3> QED
      BY <3>1 DEF ViewInv, OwnOrHidden
  <2> QED
    BY <2>1, <2>2 DEF ShownIsOwn
<1> QED
  BY <1>1, ViewInitInv, ViewNextInv, PTL DEF ViewSpec
---------------------------------------------------------------------------
(* What the refresh has still to load *)

TodoInv == refresh = None \/ (refresh \in Refreshing /\ refresh.todo # <<>>)

LEMMA RefreshSlotsKnown ==
    ASSUME NEW m \in Markets, NEW assets \in Reloads
    PROVE  RefreshSlots(m, assets) \in Seq(Slots) /\ RefreshSlots(m, assets) # <<>>
<1> DEFINE spendable == [i \in 1..Len(assets) |-> Spendable(m, assets[i])]
<1>1. Len(assets) \in Nat /\ \A i \in 1..Len(assets) : assets[i] \in {"base", "quote"}
  <2>1. \/ assets = <<"base">> \/ assets = <<"quote">>
        \/ assets = <<"base", "quote">> \/ assets = <<"quote", "base">>
    BY ViewAssumption
  <2> QED
    BY <2>1
<1>2. /\ Details(m) \in Slots /\ Loans(m) \in Slots /\ Positions \in Slots
      /\ \A i \in 1..Len(assets) : Spendable(m, assets[i]) \in Slots
  BY <1>1 DEF Slots
<1>3. spendable \in Seq(Slots)
  BY <1>1, <1>2
<1>4. <<Details(m)>> \in Seq(Slots) /\ <<Positions, Loans(m)>> \in Seq(Slots)
  BY <1>2
<1> HIDE DEF spendable
<1>5. <<Details(m)>> \o spendable \in Seq(Slots) /\ Len(<<Details(m)>> \o spendable) > 0
  BY <1>3, <1>4
<1>6. \A s, t \in Seq(Slots) : Len(s) > 0 => s \o t \in Seq(Slots) /\ s \o t # <<>>
  OBVIOUS
<1> QED
  BY <1>4, <1>5, <1>6 DEF RefreshSlots, spendable

LEMMA TodoStep == TodoInv /\ [ViewNext]_viewVars => TodoInv'
<1> SUFFICES ASSUME TodoInv, [ViewNext]_viewVars PROVE TodoInv'
  OBVIOUS
<1>1. CASE UNCHANGED refresh
  BY <1>1 DEF TodoInv
<1>2. CASE \E u \in Accounts, m \in Markets, assets \in Reloads : StartRefresh(u, m, assets)
  BY <1>2, RefreshSlotsKnown DEF StartRefresh, TodoInv, Refreshing
<1>3. CASE RefreshAnswer
  <2> SUFFICES ASSUME refresh' # None PROVE TodoInv'
    BY DEF TodoInv
  <2>1. refresh \in Refreshing /\ refresh.todo # <<>>
    BY <1>3 DEF TodoInv, RefreshAnswer
  <2>2. Tail(refresh.todo) # <<>> /\ refresh' = [refresh EXCEPT !.todo = Tail(refresh.todo)]
    BY <1>3 DEF RefreshAnswer
  <2>3. Tail(refresh.todo) \in Seq(Slots)
    BY <2>1 DEF Refreshing
  <2> QED
    BY <2>1, <2>2, <2>3 DEF TodoInv, Refreshing
<1>4. CASE RefreshFails
  BY <1>4 DEF RefreshFails, TodoInv
<1> QED
  BY <1>1, <1>2, <1>3, <1>4
  DEF ViewNext, viewVars, SelectAccount, MountPanel, UnmountPanel, HandleMarketChange, ToggleList,
      ToggleLoanList, Answer, AccountUpdate, OnWebSocketMessage

\* A refresh that ends before its last fetch has failed at the one it was at, and that one
\* shows the error (the await of each fetch in refreshAllMarginDataForUserAndMarket).
THEOREM RefreshTells == ViewSpec => RefreshEndsOrTells
<1>1. ViewInit => TodoInv
  BY DEF ViewInit, TodoInv
<1>2. TodoInv /\ [ViewNext]_viewVars
        => [refresh # None /\ refresh' = None
              => Len(refresh.todo) = 1 \/ Head(refresh.todo) \in error']_viewVars
  <2> SUFFICES ASSUME TodoInv, ViewNext, refresh # None, refresh' = None
               PROVE  Len(refresh.todo) = 1 \/ Head(refresh.todo) \in error'
    OBVIOUS
  <2>1. CASE RefreshAnswer
    <3>1. refresh \in Refreshing /\ refresh.todo # <<>>
      BY DEF TodoInv
    <3>2. refresh.todo \in Seq(Slots) /\ Tail(refresh.todo) \in Seq(Slots)
      BY <3>1 DEF Refreshing
    <3>3. [refresh EXCEPT !.todo = Tail(refresh.todo)] \in Refreshing
      BY <3>1, <3>2 DEF Refreshing
    <3>4. Tail(refresh.todo) = <<>>
      BY <2>1, <3>3, NoneAssumption DEF RefreshAnswer
    <3>5. Len(refresh.todo) \in Nat /\ Len(refresh.todo) > 0
      BY <3>1, <3>2
    <3>6. Len(Tail(refresh.todo)) = Len(refresh.todo) - 1
      BY <3>1, <3>2
    <3>7. Len(Tail(refresh.todo)) = 0
      <4>1. Len(<<>>) = 0
        OBVIOUS
      <4> QED
        BY <3>4, <4>1
    <3> QED
      BY <3>5, <3>6, <3>7
  <2>2. CASE RefreshFails
    BY <2>2 DEF RefreshFails, Fail
  <2>3. ~UNCHANGED refresh
    OBVIOUS
  <2> QED
    BY <2>1, <2>2, <2>3
    DEF ViewNext, SelectAccount, MountPanel, UnmountPanel, HandleMarketChange, ToggleList,
        ToggleLoanList, Answer, AccountUpdate, OnWebSocketMessage, StartRefresh
<1> QED
  BY <1>1, <1>2, TodoStep, PTL DEF ViewSpec, RefreshEndsOrTells
=============================================================================
