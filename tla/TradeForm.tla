----------------------------- MODULE TradeForm ------------------------------
(***************************************************************************)
(* The order form: what it computes from its inputs, when it does so, and  *)
(* what becomes of an order from the button to the API.  The inputs, the   *)
(* market, the account type, the leverage and the details of the margin    *)
(* account change one at a time; each change is followed by the update of  *)
(* the component.  In the narrow layouts the component comes and goes with *)
(* the tab it is on: the fields and totals stay in the store, the slider   *)
(* and the decision on margin orders are the component's own.  The         *)
(* balances it validates with are those of TokenInfo.                      *)
(*                                                                         *)
(* Prices are in units of the market's price decimals, amounts in units of *)
(* its amount decimals, fee rates in thousandths.                          *)
(***************************************************************************)
EXTENDS TokenInfo

CONSTANTS
    Markets,     \* id -> [fee, gas, margin (borrowEnable), rate (liquidateRate), min]
    Prices, Amounts, Leverages,   \* what the user enters; 0 is an empty field
    Details,     \* totals of a margin account: [assets, debts]
    AmountScale, \* units of an amount in one token
    Tasks        \* names for submissions

Ids == DOMAIN Markets
Scale == 1000

ASSUME FormAssumption ==
    /\ \A m \in Ids : /\ Markets[m].fee \in 0..Scale /\ Markets[m].margin \in BOOLEAN
                      /\ {Markets[m].gas, Markets[m].rate, Markets[m].min} \subseteq Nat
    /\ Prices \cup Amounts \subseteq Nat /\ Leverages \subseteq Nat \ {0}
    /\ Details \subseteq [assets : Nat, debts : Nat]
    /\ Ids # {}
    /\ AmountScale \in Nat \ {0}

VARIABLES
    form,     \* market, kind (account type), side, price, amount, leverage, submitting
    shown,    \* what was computed: subtotal, total; may (canPlaceMarginTrade)
    mounted,  \* whether the component is there
    computed, \* history: the market of the last computation, and whether it was
              \* made since the component was mounted
    details,  \* market -> totals of the margin account there
    tasks,    \* submissions under way
    placed    \* orders the API has taken

formVars == <<form, shown, mounted, computed, details, tasks, placed>>
vars == <<tokenVars, formVars>>

NoTask == [phase |-> "none", side |-> None, price |-> 0, amount |-> 0, account |-> None,
           market |-> None, kind |-> None, trader |-> None, placer |-> None]

---------------------------------------------------------------------------
(* What the form computes *)

Ceiling(n, d) == (n + d - 1) \div d

\* The forms' hot amount is always 0: the discount is the first of the rules.
GetHotDiscountRate == 1

\* calculateTrade of a limit order, the only type the form has: the subtotal is rounded
\* down, the total up, and it is not below 0.
CalculateTrade(m, side, price, amount) ==
    LET subtotal == (amount * price) \div AmountScale
        fee == subtotal * Markets[m].fee * GetHotDiscountRate
        gas == Markets[m].gas * Scale
        total == IF side = "buy" THEN Ceiling(subtotal * Scale + fee + gas, Scale)
                 ELSE IF subtotal * Scale < fee + gas THEN 0
                 ELSE Ceiling(subtotal * Scale - fee - gas, Scale)
    IN [subtotal |-> subtotal, total |-> total]

\* The ratio of the margin account after borrowing for the position; without debts it is
\* infinite.  All of it times leverage and AmountScale, the rate in tenths.
RatioAllows(f, d) ==
    LET value == f.amount * f.price
        borrow == value * (f.leverage - 1)
        assets == d.assets * AmountScale * f.leverage + borrow
        debts == d.debts * AmountScale * f.leverage + borrow
    IN debts = 0 \/ 10 * assets >= Markets[f.market].rate * debts

\* updateMarginTradeCalculations: may a margin order be placed.
UpdateMarginTradeCalculations(f, d) ==
    IF f.kind # "margin" \/ ~Markets[f.market].margin \/ f.price = 0 \/ f.amount = 0
    THEN f.kind = "spot"
    ELSE Markets[f.market].rate # 0 /\ RatioAllows(f, d)

\* updateFees and updateMarginTradeCalculations together.
Computed(f, d) ==
    LET c == CalculateTrade(f.market, f.side, f.price, f.amount)
    IN [subtotal |-> c.subtotal, total |-> c.total, may |-> UpdateMarginTradeCalculations(f, d)]

\* reset() puts the initial values back, and with them ends "submitting".
Reset(f) == [f EXCEPT !.side = "buy", !.price = 0, !.amount = 0, !.submitting = FALSE]
Empty(s) == [s EXCEPT !.subtotal = 0, !.total = 0]

\* MutTriggers: a change of the details of the margin account is not noticed.
MutTriggers(f, g, d, e) == <<f.side, f.price, f.amount, f.kind>> # <<g.side, g.price, g.amount, g.kind>>

\* componentDidUpdate computes when one of these has changed.
Triggers(f, g, d, e) ==
    \/ <<f.side, f.price, f.amount, f.kind>> # <<g.side, g.price, g.amount, g.kind>>
    \/ d # e

Computes(g, e) ==
    /\ shown' = Computed(g, e)
    /\ computed' = [market |-> g.market, since |-> TRUE]

\* What is shown after a change from f to g of the form and d to e of the details.
Updates(f, g, d, e, s) ==
    IF Triggers(f, g, d, e) THEN Computes(g, e) ELSE shown' = s /\ UNCHANGED computed

---------------------------------------------------------------------------
(* validate *)

\* The balance in units of the token's last decimal is compared with a total in tokens: in
\* effect, whether there is any.  Without an account nothing is compared; what a sell
\* order or a margin order spends is held in plenty.
Insufficient == account # None /\ form.side = "buy" /\ form.kind = "spot" /\ ~Available(account)

Valid ==
    /\ form.price > 0 /\ form.amount > 0
    /\ form.price * form.amount >= Markets[form.market].min * AmountScale
    /\ ~Insufficient

\* The submit button.
Disabled == form.submitting \/ (form.kind = "margin" /\ ~shown.may)

---------------------------------------------------------------------------
FirstMarket == CHOOSE m \in Ids : TRUE

FormInit ==
    /\ Init
    /\ form = [market |-> FirstMarket, kind |-> "spot", side |-> "buy", price |-> 0,
               amount |-> 0, leverage |-> 1, submitting |-> FALSE]
    /\ shown = [subtotal |-> 0, total |-> 0, may |-> TRUE]
    /\ mounted = TRUE /\ computed = [market |-> FirstMarket, since |-> TRUE]
    /\ details = [m \in Ids |-> [assets |-> 0, debts |-> 0]]
    /\ tasks = [k \in Tasks |-> NoTask]
    /\ placed = {}

\* The user changes the form to g; the wallet and the orders under way go on.
Becomes(g) ==
    /\ mounted
    /\ form' = g
    /\ Updates(form, g, details[form.market], details[form.market], shown)
    /\ UNCHANGED <<mounted, details, tasks, placed>>

EnterPrice(p) == form.price # p /\ Becomes([form EXCEPT !.price = p])
EnterAmount(n) == form.amount # n /\ Becomes([form EXCEPT !.amount = n])
ChangeSide(side) == form.side # side /\ Becomes([form EXCEPT !.side = side])

\* A market with margin has tabs for the account type, and for margin orders a slider.
Tabbed == Markets[form.market].margin
Slider == form.kind = "margin" /\ Markets[form.market].margin

\* The tab of an account type: the fields are cleared, the side is kept.
HandleAccountTypeChange(kind) ==
    /\ Tabbed
    /\ Becomes([form EXCEPT !.kind = kind, !.price = 0, !.amount = 0])

\* The slider computes when the state is set.
HandleLeverageChange(n) ==
    /\ mounted /\ Slider /\ form.leverage # n
    /\ form' = [form EXCEPT !.leverage = n]
    /\ Computes(form', details[form.market])
    /\ UNCHANGED <<mounted, details, tasks, placed>>

\* A market without margin ends the margin type.
Allowed(f) == [f EXCEPT !.kind = IF Markets[f.market].margin THEN @ ELSE "spot"]

\* Another market: the form is reset.  (The trade history is empty at that moment, so that
\* no last price is filled in.)  A form that is not there takes no notice.
ChangeMarket(m) ==
    /\ form.market # m
    /\ LET g == Allowed([Reset(form) EXCEPT !.market = m])
       IN IF mounted
          THEN form' = g /\ Updates(form, g, details[form.market], details[m], Empty(shown))
          ELSE form' = [form EXCEPT !.market = m] /\ UNCHANGED <<shown, computed>>
    /\ UNCHANGED <<mounted, details, tasks, placed>>

\* The fields and the totals outlive the component (destroyOnUnmount is false).
Unmount ==
    /\ mounted
    /\ mounted' = FALSE
    /\ UNCHANGED <<form, shown, computed, details, tasks, placed>>

\* The component begins with its own state and computes nothing, unless it has to end the
\* margin type: a market may have been chosen meanwhile.
Mount ==
    /\ ~mounted
    /\ mounted' = TRUE
    /\ LET f == [form EXCEPT !.leverage = 1]
           g == Allowed(f)
       IN /\ form' = g
          /\ IF Triggers(f, g, details[f.market], details[f.market])
             THEN Computes(g, details[f.market])
             ELSE /\ shown' = [shown EXCEPT !.may = TRUE]
                  /\ computed' = [computed EXCEPT !.since = FALSE]
    /\ UNCHANGED <<details, tasks, placed>>

\* The totals of a margin account are loaded (MarginView).
DetailsChange(m, d) ==
    /\ details[m] # d
    /\ details' = [details EXCEPT ![m] = d]
    /\ IF mounted
       THEN Updates(form, form, details[form.market], details'[form.market], shown)
       ELSE UNCHANGED <<shown, computed>>
    /\ UNCHANGED <<form, mounted, tasks, placed>>

---------------------------------------------------------------------------
(* From the button to the API *)

\* createOrder: the wallet and the token are those of the account selected now, the market
\* and the account type those shown now; the inputs are those of the submission.
CreateOrder(k) == [k EXCEPT !.phase = "build", !.account = account, !.market = form.market,
                            !.kind = form.kind]

\* The submission ends, and with it "submitting", also of another one.
Ends(k) ==
    /\ tasks' = [tasks EXCEPT ![k] = NoTask]
    /\ form' = [form EXCEPT !.submitting = FALSE]

Submit(k) ==
    /\ tasks[k].phase = "none" /\ mounted /\ ~Disabled /\ Valid
    /\ LET new == [NoTask EXCEPT !.side = form.side, !.price = form.price, !.amount = form.amount]
       IN tasks' = [tasks EXCEPT ![k] =
                       IF account \in saved THEN CreateOrder(new)
                       ELSE [new EXCEPT !.phase = IF account = None THEN "sleep" ELSE "login",
                                        !.account = account]]
    /\ form' = [form EXCEPT !.submitting = TRUE]
    /\ UNCHANGED <<tokenVars, shown, mounted, computed, details, placed>>

\* loginRequest: a signature is saved, and login asks for the locked balances; no signature
\* is passed over; a wallet that rejects ends the submission.
LoginSigned(k) ==
    /\ tasks[k].phase = "login"
    /\ tasks' = [tasks EXCEPT ![k].phase = "sleep"]
    /\ \/ saved' = saved \cup {tasks[k].account} /\ asked' = LoadAccountLockedBalance(account)
       \/ UNCHANGED <<saved, asked>>
    /\ UNCHANGED <<account, tab, chain, tokens, locked, reads, tx, missed, events,
                   form, shown, mounted, computed, details, placed>>
LoginRejected(k) ==
    /\ tasks[k].phase = "login" /\ Ends(k)
    /\ UNCHANGED <<tokenVars, shown, mounted, computed, details, placed>>

Sleep(k) ==
    /\ tasks[k].phase = "sleep"
    /\ tasks' = [tasks EXCEPT ![k] = CreateOrder(tasks[k])]
    /\ UNCHANGED <<tokenVars, form, shown, mounted, computed, details, placed>>

\* The API builds the order for the account of the token.
OrderBuilt(k) ==
    /\ tasks[k].phase = "build" /\ tasks[k].account \in saved
    /\ tasks' = [tasks EXCEPT ![k].phase = "sign", ![k].trader = tasks[k].account]
    /\ UNCHANGED <<tokenVars, form, shown, mounted, computed, details, placed>>

\* The request fails, there is no token or the order is refused.
BuildFails(k) ==
    /\ tasks[k].phase = "build" /\ Ends(k)
    /\ UNCHANGED <<tokenVars, shown, mounted, computed, details, placed>>

\* MutOrderSigned: the wallet is the one selected after the order was built.
MutOrderSigned(k) ==
    /\ tasks[k].phase = "sign" /\ account # None
    /\ tasks' = [tasks EXCEPT ![k].phase = "place", ![k].account = account, ![k].placer = account]
    /\ UNCHANGED <<tokenVars, form, shown, mounted, computed, details, placed>>

\* The wallet signs the order, which is placed with the token of the account selected now.
OrderSigned(k) ==
    /\ tasks[k].phase = "sign"
    /\ tasks' = [tasks EXCEPT ![k].phase = "place", ![k].placer = account]
    /\ UNCHANGED <<tokenVars, form, shown, mounted, computed, details, placed>>
OrderNotSigned(k) ==
    /\ tasks[k].phase = "sign" /\ Ends(k)
    /\ UNCHANGED <<tokenVars, shown, mounted, computed, details, placed>>

\* The API takes an order when the signature is of the account that places it; it stores
\* the order as of that account, and does not ask for whom it was built.
PlaceOrder(k) ==
    /\ tasks[k].phase = "place"
    /\ tasks[k].placer \in saved /\ tasks[k].placer = tasks[k].account
    /\ placed' = placed \cup {[trader |-> tasks[k].trader, owner |-> tasks[k].placer]}
    /\ Ends(k)
    /\ UNCHANGED <<tokenVars, shown, mounted, computed, details>>
PlaceFails(k) ==
    /\ tasks[k].phase = "place" /\ Ends(k)
    /\ UNCHANGED <<tokenVars, shown, mounted, computed, details, placed>>

---------------------------------------------------------------------------
\* What the user does to the form, and the details that come from elsewhere.
FormChanges ==
    /\ Event
    /\ UNCHANGED <<account, tab, saved, chain, tokens, locked, reads, asked, tx, missed>>
    /\ \/ \E p \in Prices : EnterPrice(p)
       \/ \E n \in Amounts : EnterAmount(n)
       \/ \E side \in {"buy", "sell"} : ChangeSide(side)
       \/ \E kind \in {"spot", "margin"} : HandleAccountTypeChange(kind)
       \/ \E n \in Leverages : HandleLeverageChange(n)
       \/ \E m \in Ids : ChangeMarket(m) \/ \E d \in Details : DetailsChange(m, d)
       \/ Unmount

OrderSteps ==
    \E k \in Tasks :
        \/ Submit(k) \/ LoginSigned(k) \/ LoginRejected(k) \/ Sleep(k) \/ OrderBuilt(k)
        \/ BuildFails(k) \/ OrderSigned(k) \/ OrderNotSigned(k) \/ PlaceOrder(k) \/ PlaceFails(k)

Next ==
    \/ FormChanges
    \/ Mount /\ UNCHANGED tokenVars
    \/ OrderSteps
    \/ TokenNext /\ UNCHANGED formVars

Spec == FormInit /\ [][Next]_vars

---------------------------------------------------------------------------
(* Properties *)

\* Type invariant.
TypeOK ==
    /\ TokenTypeOK
    /\ form.market \in Ids /\ form.kind \in {"spot", "margin"} /\ form.side \in {"buy", "sell"}
    /\ mounted \in BOOLEAN /\ computed \in [market : Ids, since : BOOLEAN]
    /\ mounted /\ form.kind = "margin" => Markets[form.market].margin
    /\ {shown.subtotal, shown.total} \subseteq Nat /\ shown.may \in BOOLEAN
    /\ details \in [Ids -> [assets : Nat, debts : Nat]]

\* With inputs entered, the totals shown are those of the present inputs, in the market they
\* were last computed for; and once something was computed since the component was mounted,
\* they and the decision to allow a margin order are those of the present inputs, market,
\* account type, leverage and margin account, although they are kept apart, computed only at
\* some of the changes, and outlive a component that is unmounted.
DerivedAgree ==
    form.price > 0 /\ form.amount > 0 =>
        /\ [subtotal |-> shown.subtotal, total |-> shown.total]
               = CalculateTrade(computed.market, form.side, form.price, form.amount)
        /\ mounted /\ computed.since => shown = Computed(form, details[form.market])

\* An order is stored for the account it was built for (its relayed data names that
\* account), although the account may change between every two requests and the API
\* compares only who signs and who places.
PlacedBySigner == \A o \in placed : o.trader = o.owner
=============================================================================
