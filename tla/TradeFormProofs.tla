-------------------------- MODULE TradeFormProofs ---------------------------
(***************************************************************************)
(* Theorems about TradeForm for every set of markets, whatever their fees  *)
(* and rates, every input and any number of submissions and transactions:  *)
(* what the form shows is what it would compute now, an order is stored    *)
(* for the account it was built for, and the list of tokens catches up     *)
(* with the node.                                                          *)
(***************************************************************************)
EXTENDS TradeForm, TLAPS

Totals == [assets : Nat, debts : Nat]
Form == [market : Ids, kind : {"spot", "margin"}, side : {"buy", "sell"}, price : Nat,
         amount : Nat, leverage : Nat, submitting : BOOLEAN]
Phases == {"none", "login", "sleep", "build", "sign", "place"}
TaskRec == [phase : Phases, side : {"buy", "sell", None}, price : Nat, amount : Nat,
            account : Accounts \cup {None}, market : Ids \cup {None},
            kind : {"spot", "margin", None}, trader : Accounts \cup {None},
            placer : Accounts \cup {None}]

FormTypes ==
    /\ form \in Form /\ details \in [Ids -> Totals]
    /\ mounted \in BOOLEAN /\ computed \in [market : Ids, since : BOOLEAN]
TaskTypes == account \in Accounts \cup {None} /\ tasks \in [Tasks -> TaskRec]

\* What was built is signed and placed for the account it was built for.
BuiltForSigner ==
    \A k \in Tasks : tasks[k].phase \in {"sign", "place"} => tasks[k].trader = tasks[k].account

FormInv == FormTypes /\ DerivedAgree
OrderInv == form \in Form /\ TaskTypes /\ BuiltForSigner /\ PlacedBySigner

---------------------------------------------------------------------------
(* The form *)

\* "submitting" is no input of the computation.
LEMMA SameInputs ==
    ASSUME NEW f \in Form, NEW g \in Form, NEW d \in Totals,
           f.market = g.market, f.kind = g.kind, f.side = g.side, f.price = g.price,
           f.amount = g.amount, f.leverage = g.leverage
    PROVE  Computed(f, d) = Computed(g, d)
<1>1. CalculateTrade(f.market, f.side, f.price, f.amount) =
          CalculateTrade(g.market, g.side, g.price, g.amount)
  OBVIOUS
<1>2. RatioAllows(f, d) = RatioAllows(g, d)
  BY DEF RatioAllows
<1>3. UpdateMarginTradeCalculations(f, d) = UpdateMarginTradeCalculations(g, d)
  BY <1>2 DEF UpdateMarginTradeCalculations
<1> QED
  BY <1>1, <1>3 DEF Computed

\* A step that changes no input of the computation: the decision is the same, and so are the
\* totals, in whichever market they were computed.
LEMMA SameFormInv ==
    ASSUME FormInv, form' \in Form, form'.kind = form.kind, form'.side = form.side,
           form'.price = form.price, form'.amount = form.amount,
           mounted' \in BOOLEAN, computed' \in [market : Ids, since : BOOLEAN],
           computed'.market = computed.market,
           shown'.subtotal = shown.subtotal, shown'.total = shown.total,
           details' = details,
           mounted' /\ computed'.since =>
               /\ mounted /\ computed.since /\ shown' = shown
               /\ form'.market = form.market /\ form'.leverage = form.leverage
    PROVE  FormInv'
<1>1. FormTypes'
  BY DEF FormInv, FormTypes
<1>2. ASSUME form'.price > 0, form'.amount > 0
      PROVE  [subtotal |-> shown'.subtotal, total |-> shown'.total]
                 = CalculateTrade(computed'.market, form'.side, form'.price, form'.amount)
  <2>1. [subtotal |-> shown.subtotal, total |-> shown.total]
            = CalculateTrade(computed.market, form.side, form.price, form.amount)
    BY <1>2 DEF FormInv, DerivedAgree
  <2> QED
    BY <2>1
<1>3. ASSUME form'.price > 0, form'.amount > 0, mounted', computed'.since
      PROVE  shown' = Computed(form', details'[form'.market])
  <2>1. shown = Computed(form, details[form.market])
    BY <1>3 DEF FormInv, DerivedAgree
  <2>2. form \in Form /\ details[form.market] \in Totals
    BY DEF FormInv, FormTypes, Form
  <2>3. Computed(form', details[form.market]) = Computed(form, details[form.market])
    BY <1>3, <2>2, SameInputs
  <2> QED
    BY <1>3, <2>1, <2>3
<1> QED
  BY <1>1, <1>2, <1>3 DEF FormInv, DerivedAgree

\* A step of the orders.
LEMMA TaskFormInv ==
    ASSUME FormInv, form' = form \/ (\E b \in BOOLEAN : form' = [form EXCEPT !.submitting = b]),
           UNCHANGED <<shown, mounted, computed, details>>
    PROVE  FormInv'
<1>1. form' \in Form /\ form'.market = form.market /\ form'.kind = form.kind
      /\ form'.side = form.side /\ form'.price = form.price /\ form'.amount = form.amount
      /\ form'.leverage = form.leverage
  BY DEF FormInv, FormTypes, Form
<1>2. mounted' \in BOOLEAN /\ computed' \in [market : Ids, since : BOOLEAN]
  BY DEF FormInv, FormTypes
<1> QED
  BY <1>1, <1>2, SameFormInv

\* What was just computed agrees.
LEMMA ComputedFormInv ==
    ASSUME form' \in Form, details' \in [Ids -> Totals], mounted' \in BOOLEAN,
           Computes(form', details'[form'.market])
    PROVE  FormInv'
<1>1. form'.market \in Ids
  BY DEF Form
<1>2. /\ shown' = Computed(form', details'[form'.market])
      /\ computed' = [market |-> form'.market, since |-> TRUE]
  BY DEF Computes
<1>3. [subtotal |-> shown'.subtotal, total |-> shown'.total]
          = CalculateTrade(form'.market, form'.side, form'.price, form'.amount)
  <2>1. PICK c : c = CalculateTrade(form'.market, form'.side, form'.price, form'.amount)
    OBVIOUS
  <2>2. c = [subtotal |-> c.subtotal, total |-> c.total]
    BY <2>1 DEF CalculateTrade
  <2>3. shown'.subtotal = c.subtotal /\ shown'.total = c.total
    BY <1>2, <2>1 DEF Computed
  <2> QED
    BY <2>1, <2>2, <2>3
<1> QED
  BY <1>1, <1>2, <1>3 DEF FormInv, FormTypes, DerivedAgree

\* A change of the form after which a field is empty: nothing has to agree.
LEMMA EmptyFormInv ==
    ASSUME FormInv, form' \in Form, form'.price = 0, UNCHANGED <<mounted, details>>,
           computed' \in [market : Ids, since : BOOLEAN]
    PROVE  FormInv'
  BY DEF FormInv, FormTypes, DerivedAgree

\* What Updates leaves of the history.
LEMMA UpdatesTypes ==
    ASSUME computed \in [market : Ids, since : BOOLEAN], NEW f \in Form, NEW g \in Form, NEW d,
           NEW e, NEW s, Updates(f, g, d, e, s)
    PROVE  computed' \in [market : Ids, since : BOOLEAN]
<1>1. CASE Triggers(f, g, d, e)
  <2>1. computed' = [market |-> g.market, since |-> TRUE]
    BY <1>1 DEF Updates, Computes
  <2>2. g.market \in Ids
    BY DEF Form
  <2> QED
    BY <2>1, <2>2
<1>2. CASE ~Triggers(f, g, d, e)
  BY <1>2 DEF Updates
<1> QED
  BY <1>1, <1>2

\* A change of an input that is one of the triggers.
LEMMA InputFormInv ==
    ASSUME FormInv, NEW g \in Form, Becomes(g), g.market = form.market,
           <<form.side, form.price, form.amount, form.kind>> # <<g.side, g.price, g.amount, g.kind>>
    PROVE  FormInv'
<1>1. form' = g /\ UNCHANGED <<mounted, details>>
  BY DEF Becomes
<1>2. Computes(form', details'[form'.market])
  BY <1>1 DEF Becomes, Updates, Triggers
<1> QED
  BY <1>1, <1>2, ComputedFormInv DEF FormInv, FormTypes

\* A change of an input is computed with, or leaves a field empty.
LEMMA FormChangesInv == FormInv /\ FormChanges => FormInv'
<1> SUFFICES ASSUME FormInv, FormChanges PROVE FormInv'
  OBVIOUS
<1>1. /\ form \in Form /\ details \in [Ids -> Totals]
      /\ mounted \in BOOLEAN /\ computed \in [market : Ids, since : BOOLEAN]
  BY DEF FormInv, FormTypes
<1>2. ASSUME NEW p \in Prices, EnterPrice(p) PROVE FormInv'
  <2> DEFINE g == [form EXCEPT !.price = p]
  <2>1. g \in Form /\ g.price = p /\ g.market = form.market
    BY <1>1, FormAssumption DEF Form
  <2>2. Becomes(g) /\ form.price # p
    BY <1>2 DEF EnterPrice
  <2> HIDE DEF g
  <2> QED
    BY <2>1, <2>2, InputFormInv
<1>3. ASSUME NEW n \in Amounts, EnterAmount(n) PROVE FormInv'
  <2> DEFINE g == [form EXCEPT !.amount = n]
  <2>1. g \in Form /\ g.amount = n /\ g.market = form.market
    BY <1>1, FormAssumption DEF Form
  <2>2. Becomes(g) /\ form.amount # n
    BY <1>3 DEF EnterAmount
  <2> HIDE DEF g
  <2> QED
    BY <2>1, <2>2, InputFormInv
<1>4. ASSUME NEW side \in {"buy", "sell"}, ChangeSide(side) PROVE FormInv'
  <2> DEFINE g == [form EXCEPT !.side = side]
  <2>1. g \in Form /\ g.side = side /\ g.market = form.market
    BY <1>1 DEF Form
  <2>2. Becomes(g) /\ form.side # side
    BY <1>4 DEF ChangeSide
  <2> HIDE DEF g
  <2> QED
    BY <2>1, <2>2, InputFormInv
<1>5. ASSUME NEW kind \in {"spot", "margin"}, HandleAccountTypeChange(kind) PROVE FormInv'
  <2> DEFINE g == [form EXCEPT !.kind = kind, !.price = 0, !.amount = 0]
  <2>1. g \in Form /\ g.price = 0
    BY <1>1 DEF Form
  <2>2. Becomes(g)
    BY <1>5 DEF HandleAccountTypeChange
  <2> HIDE DEF g
  <2>3. form' = g /\ UNCHANGED <<mounted, details>>
    BY <2>2 DEF Becomes
  <2>4. computed' \in [market : Ids, since : BOOLEAN]
    BY <1>1, <2>1, <2>2, UpdatesTypes DEF Becomes
  <2> QED
    BY <2>1, <2>3, <2>4, EmptyFormInv
<1>6. ASSUME NEW n \in Leverages, HandleLeverageChange(n) PROVE FormInv'
  <2>1. form' = [form EXCEPT !.leverage = n] /\ UNCHANGED <<mounted, details>> /\ n \in Nat
    BY <1>6, FormAssumption DEF HandleLeverageChange
  <2>2. form' \in Form /\ form'.market = form.market
    BY <1>1, <2>1 DEF Form
  <2>3. Computes(form', details'[form'.market])
    BY <1>6, <2>1, <2>2 DEF HandleLeverageChange
  <2> QED
    BY <1>1, <2>1, <2>2, <2>3, ComputedFormInv
<1>7. ASSUME NEW m \in Ids, ChangeMarket(m) PROVE FormInv'
  <2> DEFINE h == [Reset(form) EXCEPT !.market = m]
  <2>1. Reset(form) \in Form /\ Reset(form).price = 0
    BY <1>1 DEF Reset, Form
  <2>2. h \in Form /\ h.price = 0
    BY <2>1 DEF Form
  <2> HIDE DEF h
  <2>3. PICK g : g = Allowed(h)
    OBVIOUS
  <2>4. g \in Form /\ g.price = 0
    BY <2>2, <2>3 DEF Allowed, Form
  <2>5. UNCHANGED <<mounted, details>>
    BY <1>7 DEF ChangeMarket
  <2>6. CASE mounted
    <3>1. form' = g /\ Updates(form, g, details[form.market], details[m], Empty(shown))
      BY <1>7, <2>3, <2>6 DEF ChangeMarket, h
    <3>2. computed' \in [market : Ids, since : BOOLEAN]
      BY <1>1, <2>4, <3>1, UpdatesTypes
    <3> QED
      BY <2>4, <2>5, <3>1, <3>2, EmptyFormInv
  <2>7. CASE ~mounted
    <3>1. form' = [form EXCEPT !.market = m] /\ UNCHANGED <<shown, computed>>
      BY <1>7, <2>7 DEF ChangeMarket
    <3>2. /\ form' \in Form /\ form'.kind = form.kind /\ form'.side = form.side
          /\ form'.price = form.price /\ form'.amount = form.amount
      BY <1>1, <3>1 DEF Form
    <3> QED
      BY <1>1, <2>5, <2>7, <3>1, <3>2, SameFormInv
  <2> QED
    BY <2>6, <2>7
<1>8. ASSUME NEW m \in Ids, NEW d \in Details, DetailsChange(m, d) PROVE FormInv'
  <2>1. /\ details' = [details EXCEPT ![m] = d] /\ UNCHANGED <<form, mounted>> /\ d \in Totals
        /\ form.market \in Ids
    BY <1>1, <1>8, FormAssumption DEF DetailsChange, Totals, Form
  <2>2. details' \in [Ids -> Totals]
    BY <1>1, <2>1
  <2>3. CASE mounted /\ details[form.market] # details'[form.market]
    <3>1. Computes(form', details'[form'.market])
      BY <1>8, <2>1, <2>3 DEF DetailsChange, Updates, Triggers
    <3> QED
      BY <1>1, <2>1, <2>2, <3>1, ComputedFormInv
  <2>4. CASE ~(mounted /\ details[form.market] # details'[form.market])
    <3>1. UNCHANGED <<shown, computed>>
      BY <1>8, <2>1, <2>4 DEF DetailsChange, Updates, Triggers
    <3>2. mounted => details'[form'.market] = details[form.market]
      BY <2>1, <2>4
    <3>3. FormTypes'
      BY <1>1, <2>1, <2>2, <3>1 DEF FormTypes
    <3> QED
      BY <2>1, <3>1, <3>2, <3>3 DEF FormInv, DerivedAgree
  <2> QED
    BY <2>3, <2>4
<1>9. ASSUME Unmount PROVE FormInv'
  BY <1>1, <1>9, SameFormInv DEF Unmount
<1> QED
  BY <1>2, <1>3, <1>4, <1>5, <1>6, <1>7, <1>8, <1>9 DEF FormChanges

\* The component is there again: it computes, or its decision is not one that was computed.
LEMMA MountInv == FormInv /\ Mount => FormInv'
<1> SUFFICES ASSUME FormInv, Mount PROVE FormInv'
  OBVIOUS
<1>1. /\ form \in Form /\ details \in [Ids -> Totals]
      /\ computed \in [market : Ids, since : BOOLEAN]
  BY DEF FormInv, FormTypes
<1> DEFINE f == [form EXCEPT !.leverage = 1]
<1>2. /\ f \in Form /\ f.market = form.market /\ f.kind = form.kind /\ f.side = form.side
      /\ f.price = form.price /\ f.amount = form.amount
  BY <1>1 DEF Form
<1> HIDE DEF f
<1>3. PICK g : g = Allowed(f)
  OBVIOUS
<1>4. /\ g \in Form /\ g.market = f.market /\ g.side = f.side
      /\ g.price = f.price /\ g.amount = f.amount
  BY <1>2, <1>3 DEF Allowed, Form
<1>5. form' = g /\ mounted' = TRUE /\ details' = details
  BY <1>3 DEF Mount, f
<1>6. CASE Triggers(f, g, details[f.market], details[f.market])
  <2>1. Computes(form', details'[form'.market])
    BY <1>3, <1>4, <1>5, <1>6 DEF Mount, f
  <2> QED
    BY <1>1, <1>4, <1>5, <2>1, ComputedFormInv
<1>7. CASE ~Triggers(f, g, details[f.market], details[f.market])
  <2>1. /\ shown' = [shown EXCEPT !.may = TRUE]
        /\ computed' = [computed EXCEPT !.since = FALSE]
    BY <1>3, <1>7 DEF Mount, f
  <2>2. g.kind = form.kind
    BY <1>2, <1>7 DEF Triggers
  <2>3. computed' \in [market : Ids, since : BOOLEAN] /\ ~computed'.since
        /\ computed'.market = computed.market
    BY <1>1, <2>1
  <2>4. shown'.subtotal = shown.subtotal /\ shown'.total = shown.total
    BY <2>1
  <2> QED
    BY <1>2, <1>4, <1>5, <2>2, <2>3, <2>4, SameFormInv
<1> QED
  BY <1>6, <1>7

\* The form starts empty.
LEMMA FormInvInit == FormInit => FormInv
<1> SUFFICES ASSUME FormInit PROVE FormInv
  OBVIOUS
<1>1. FirstMarket \in Ids
  BY FormAssumption DEF FirstMarket
<1>2. /\ form \in Form /\ form.price = 0 /\ details \in [Ids -> Totals]
      /\ mounted \in BOOLEAN /\ computed \in [market : Ids, since : BOOLEAN]
  BY <1>1 DEF FormInit, Form, Totals
<1> QED
  BY <1>2 DEF FormInv, FormTypes, DerivedAgree

\* Every step keeps the invariant of the form.
LEMMA FormInvNext == FormInv /\ [Next]_vars => FormInv'
<1> SUFFICES ASSUME FormInv, [Next]_vars PROVE FormInv'
  OBVIOUS
<1>1. CASE FormChanges
  BY <1>1, FormChangesInv
<1>2. CASE Mount
  BY <1>2, MountInv
<1>3. CASE OrderSteps
  <2>1. PICK k \in Tasks :
          \/ Submit(k) \/ LoginSigned(k) \/ LoginRejected(k) \/ Sleep(k) \/ OrderBuilt(k)
          \/ BuildFails(k) \/ OrderSigned(k) \/ OrderNotSigned(k) \/ PlaceOrder(k) \/ PlaceFails(k)
    BY <1>3 DEF OrderSteps
  <2>2. UNCHANGED <<shown, mounted, computed, details>>
    BY <2>1 DEF Submit, LoginSigned, LoginRejected, Sleep, OrderBuilt, BuildFails,
                OrderSigned, OrderNotSigned, PlaceOrder, PlaceFails
  <2>3. form' = form \/ (\E b \in BOOLEAN : form' = [form EXCEPT !.submitting = b])
    BY <2>1 DEF Submit, LoginSigned, LoginRejected, Sleep, OrderBuilt, BuildFails,
                OrderSigned, OrderNotSigned, PlaceOrder, PlaceFails, Ends
  <2> QED
    BY <2>2, <2>3, TaskFormInv
<1>4. CASE UNCHANGED formVars
  BY <1>4, TaskFormInv DEF formVars
<1> QED
  BY <1>1, <1>2, <1>3, <1>4 DEF Next, vars

---------------------------------------------------------------------------
(* The orders *)

\* Nothing is submitted at the start.
LEMMA OrderInvInit == FormInit => OrderInv
<1> SUFFICES ASSUME FormInit PROVE OrderInv
  OBVIOUS
<1>1. form \in Form
  BY FormInvInit DEF FormInv, FormTypes
<1>2. NoTask \in TaskRec /\ NoTask.phase = "none"
  BY DEF NoTask, TaskRec, Phases
<1>3. tasks \in [Tasks -> TaskRec] /\ \A k \in Tasks : tasks[k].phase = "none"
  BY <1>2 DEF FormInit
<1>4. account \in Accounts \cup {None} /\ placed = {}
  BY DEF FormInit, Init
<1> QED
  BY <1>1, <1>3, <1>4 DEF OrderInv, TaskTypes, BuiltForSigner, PlacedBySigner

\* A step of a submission leaves the others alone.
LEMMA OneTask ==
    ASSUME OrderInv, NEW k \in Tasks, NEW STATE r, r \in TaskRec,
           tasks' = [tasks EXCEPT ![k] = r],
           r.phase \in {"sign", "place"} => r.trader = r.account,
           form' \in Form, account' = account, placed' = placed
    PROVE  OrderInv'
<1>1. tasks' \in [Tasks -> TaskRec]
  BY DEF OrderInv, TaskTypes
<1>2. ASSUME NEW j \in Tasks, tasks'[j].phase \in {"sign", "place"}
      PROVE  tasks'[j].trader = tasks'[j].account
  <2>1. CASE j = k
    BY <1>2, <2>1 DEF OrderInv, TaskTypes
  <2>2. CASE j # k
    BY <1>2, <2>2 DEF OrderInv, TaskTypes, BuiltForSigner
  <2> QED
    BY <2>1, <2>2
<1> QED
  BY <1>1, <1>2 DEF OrderInv, TaskTypes, BuiltForSigner, PlacedBySigner

\* The submission ends.
LEMMA EndedTask ==
    ASSUME OrderInv, NEW k \in Tasks, Ends(k), account' = account, placed' = placed
    PROVE  OrderInv'
<1>1. NoTask \in TaskRec /\ NoTask.phase = "none"
  BY DEF NoTask, TaskRec, Phases
<1>2. form' \in Form
  BY DEF OrderInv, Ends, Form
<1>3. tasks' = [tasks EXCEPT ![k] = NoTask]
  BY DEF Ends
<1> QED
  BY <1>1, <1>2, <1>3, OneTask

\* createOrder begins to build, for the account selected now.
LEMMA CreateOrderTask ==
    ASSUME account \in Accounts \cup {None}, form \in Form, NEW r \in TaskRec
    PROVE  CreateOrder(r) \in TaskRec /\ CreateOrder(r).phase = "build"
  BY DEF CreateOrder, TaskRec, Phases, Form

\* The button starts a submission.
LEMMA SubmitStep == ASSUME OrderInv, NEW k \in Tasks, Submit(k) PROVE OrderInv'
<1> DEFINE new == [NoTask EXCEPT !.side = form.side, !.price = form.price, !.amount = form.amount]
           to == IF account = None THEN "sleep" ELSE "login"
           r == IF account \in saved THEN CreateOrder(new)
                ELSE [new EXCEPT !.phase = to, !.account = account]
<1>1. form \in Form /\ account \in Accounts \cup {None}
  BY DEF OrderInv, TaskTypes
<1>2. new \in TaskRec
  BY <1>1 DEF NoTask, TaskRec, Phases, Form
<1>3. tasks' = [tasks EXCEPT ![k] = r] /\ account' = account /\ placed' = placed
  BY DEF Submit, tokenVars
<1>4. form' \in Form
  BY <1>1 DEF Submit, Form
<1> HIDE DEF new
<1>5. r \in TaskRec /\ r.phase \notin {"sign", "place"}
  <2>1. CASE account \in saved
    BY <1>1, <1>2, <2>1, CreateOrderTask
  <2>2. CASE account \notin saved
    <3>1. to \in Phases /\ to \notin {"sign", "place"}
      BY DEF Phases
    <3> HIDE DEF to
    <3> QED
      BY <1>1, <1>2, <2>2, <3>1 DEF TaskRec
  <2> QED
    BY <2>1, <2>2
<1> HIDE DEF r
<1> QED
  BY <1>3, <1>4, <1>5, OneTask

\* The steps of a submission that move it on.
LEMMA MoveSteps ==
    ASSUME OrderInv, NEW k \in Tasks,
           LoginSigned(k) \/ Sleep(k) \/ OrderBuilt(k) \/ OrderSigned(k)
    PROVE  OrderInv'
<1>1. /\ form \in Form /\ account \in Accounts \cup {None}
      /\ tasks \in [Tasks -> TaskRec] /\ tasks[k] \in TaskRec
  BY DEF OrderInv, TaskTypes
<1>2. UNCHANGED <<form, account, placed>>
  BY DEF LoginSigned, Sleep, OrderBuilt, OrderSigned, tokenVars
<1>3. CASE LoginSigned(k)
  <2> DEFINE r == [tasks[k] EXCEPT !.phase = "sleep"]
  <2>1. r \in TaskRec /\ r.phase = "sleep"
    BY <1>1 DEF TaskRec, Phases
  <2>2. tasks' = [tasks EXCEPT ![k] = r]
    BY <1>1, <1>3 DEF LoginSigned
  <2> HIDE DEF r
  <2> QED
    BY <1>1, <1>2, <2>1, <2>2, OneTask
<1>4. CASE Sleep(k)
  <2>1. CreateOrder(tasks[k]) \in TaskRec /\ CreateOrder(tasks[k]).phase = "build"
    BY <1>1, CreateOrderTask
  <2>2. tasks' = [tasks EXCEPT ![k] = CreateOrder(tasks[k])]
    BY <1>4 DEF Sleep
  <2> QED
    BY <1>1, <1>2, <2>1, <2>2, OneTask
<1>5. CASE OrderBuilt(k)
  <2> DEFINE r == [tasks[k] EXCEPT !.phase = "sign", !.trader = tasks[k].account]
  <2>1. r \in TaskRec /\ r.trader = r.account
    BY <1>1 DEF TaskRec, Phases
  <2>2. tasks' = [tasks EXCEPT ![k] = r]
    BY <1>1, <1>5 DEF OrderBuilt, TaskRec
  <2> HIDE DEF r
  <2> QED
    BY <1>1, <1>2, <2>1, <2>2, OneTask
<1>6. CASE OrderSigned(k)
  <2> DEFINE r == [tasks[k] EXCEPT !.phase = "place", !.placer = account]
  <2>1. r \in TaskRec /\ r.trader = tasks[k].trader /\ r.account = tasks[k].account
    BY <1>1 DEF TaskRec, Phases
  <2>2. tasks[k].trader = tasks[k].account
    BY <1>6 DEF OrderSigned, OrderInv, BuiltForSigner
  <2>3. tasks' = [tasks EXCEPT ![k] = r]
    BY <1>1, <1>6 DEF OrderSigned
  <2> HIDE DEF r
  <2> QED
    BY <1>1, <1>2, <2>1, <2>2, <2>3, OneTask
<1> QED
  BY <1>3, <1>4, <1>5, <1>6

\* The order is stored for whom it was built: it was signed by that account, and by no
\* other would it have been taken.
LEMMA PlaceOrderStep == ASSUME OrderInv, NEW k \in Tasks, PlaceOrder(k) PROVE OrderInv'
<1> DEFINE o == [trader |-> tasks[k].trader, owner |-> tasks[k].placer]
<1>1. o.trader = o.owner
  BY DEF PlaceOrder, OrderInv, BuiltForSigner
<1>2. placed' = placed \cup {o} /\ Ends(k) /\ account' = account
  BY DEF PlaceOrder, tokenVars
<1>3. \A p \in placed' : p.trader = p.owner
  BY <1>1, <1>2 DEF OrderInv, PlacedBySigner
<1>4. form' \in Form
  BY <1>2 DEF OrderInv, Ends, Form
<1>5. NoTask \in TaskRec /\ NoTask.phase = "none"
  BY DEF NoTask, TaskRec, Phases
<1>6. /\ tasks' \in [Tasks -> TaskRec]
      /\ \A j \in Tasks : tasks'[j] = NoTask \/ tasks'[j] = tasks[j]
  BY <1>2, <1>5 DEF Ends, OrderInv, TaskTypes
<1> QED
  BY <1>2, <1>3, <1>4, <1>5, <1>6 DEF OrderInv, TaskTypes, BuiltForSigner, PlacedBySigner

\* The wallet and its tokens: of all this only the selected account changes.
LEMMA TokenStep == ASSUME OrderInv, TokenNext, UNCHANGED formVars PROVE OrderInv'
<1>1. account' \in Accounts \cup {None}
  BY DEF TokenNext, SelectAccount, SelectTab, Approve, WrapETH, UnwrapWETH, SendTransaction,
         Sent, WalletRejects, Mined, PollTells, PollFails, WatchToken, NewMarketTrade,
         NodeReads, UpdateTokenInfo, ReadFails, UpdateLockedBalances, LockedBalanceChange,
         OrderInv, TaskTypes
<1> QED
  BY <1>1 DEF formVars, OrderInv, TaskTypes, BuiltForSigner, PlacedBySigner

\* Every step keeps the invariant of the orders.
LEMMA OrderInvNext == FormInv /\ OrderInv /\ [Next]_vars => OrderInv'
<1> SUFFICES ASSUME FormInv, OrderInv, [Next]_vars PROVE OrderInv'
  OBVIOUS
<1>0. form' \in Form
  BY FormInvNext DEF FormInv, FormTypes
<1>1. CASE FormChanges
  <2>1. UNCHANGED <<account, tasks, placed>>
    BY <1>1 DEF FormChanges, EnterPrice, EnterAmount, ChangeSide, HandleAccountTypeChange,
                HandleLeverageChange, ChangeMarket, Unmount, DetailsChange, Becomes
  <2> QED
    BY <1>0, <2>1 DEF OrderInv, TaskTypes, BuiltForSigner, PlacedBySigner
<1>2. CASE OrderSteps
  <2>1. PICK k \in Tasks :
          \/ Submit(k) \/ LoginSigned(k) \/ LoginRejected(k) \/ Sleep(k) \/ OrderBuilt(k)
          \/ BuildFails(k) \/ OrderSigned(k) \/ OrderNotSigned(k) \/ PlaceOrder(k) \/ PlaceFails(k)
    BY <1>2 DEF OrderSteps
  <2>2. CASE LoginRejected(k) \/ BuildFails(k) \/ OrderNotSigned(k) \/ PlaceFails(k)
    BY <2>2, EndedTask DEF LoginRejected, BuildFails, OrderNotSigned, PlaceFails, tokenVars
  <2> QED
    BY <2>1, <2>2, SubmitStep, MoveSteps, PlaceOrderStep
<1>3. CASE TokenNext /\ UNCHANGED formVars
  BY <1>3, TokenStep
<1>4. CASE UNCHANGED vars
  BY <1>4 DEF vars, formVars, tokenVars, OrderInv, TaskTypes, BuiltForSigner, PlacedBySigner
<1>5. CASE Mount /\ UNCHANGED tokenVars
  BY <1>0, <1>5 DEF Mount, tokenVars, OrderInv, TaskTypes, BuiltForSigner, PlacedBySigner
<1> QED
  BY <1>1, <1>2, <1>3, <1>4, <1>5 DEF Next

---------------------------------------------------------------------------
(* The tokens *)

\* A transaction: what is watched has reads left.
TxPhases == {"none", "asked", "sent", "success", "reverted", "watched", "over"}
Tx == [owner : Accounts \cup {None}, left : Nat, polled : BOOLEAN, phase : TxPhases]
TxRec == {w \in Tx : w.phase = "watched" => w.left > 0}
ReadRec == [account : Accounts, value : Nat \cup {None}, late : BOOLEAN]

WalletTypes ==
    /\ account \in Accounts \cup {None} /\ chain \in [Accounts -> Nat]
    /\ tokens \in [Accounts -> Nat \cup {None}] /\ tx \in [Txs -> TxRec]
    /\ DOMAIN reads \subseteq ReadRec

\* A transaction the page has still to tell of, or to read after.
Due(t, a) == tx[t].owner = a /\ tx[t].phase \in {"success", "watched"}

\* An answer that a transaction has overtaken: the transaction is not told of yet, or the
\* answer is older than the watch and comes before its last read.
OvertakenIsDue ==
    \A r \in DOMAIN reads :
      r.value \notin {None, chain[r.account]} =>
        \E t \in Txs : Due(t, r.account) /\ (tx[t].phase = "watched" => r.late)

\* What is shown of a token and out of date is about to be read.
OldIsRead ==
    tab = "tokens" /\ account \notin missed \cup {None} /\ tokens[account] # chain[account] =>
      (\E r \in DOMAIN reads : r.account = account) \/ (\E t \in Txs : Due(t, account))

WalletInv == WalletTypes /\ OvertakenIsDue /\ OldIsRead

\* The reads on their way after one more.
LEMMA ReadsAdded == ASSUME NEW B, NEW x PROVE DOMAIN BagAdd(B, x) = DOMAIN B \cup {x}
  BY DEF BagAdd

\* What is left after one less.
LEMMA ReadsRemoved ==
    ASSUME NEW B, NEW x
    PROVE  /\ DOMAIN B \ {x} \subseteq DOMAIN BagRemove(B, x)
           /\ DOMAIN BagRemove(B, x) \subseteq DOMAIN B
  BY DEF BagRemove

\* What they are when they have become older.
LEMMA ReadsOlder == ASSUME NEW B PROVE DOMAIN Older(B) = {Late(r) : r \in DOMAIN B}
  BY DEF Older, BagOfAll, BagToSet

\* A read that became older.
LEMMA LateIs ==
    ASSUME NEW r \in ReadRec
    PROVE  /\ Late(r) \in ReadRec /\ Late(r).account = r.account /\ Late(r).value = r.value
           /\ Late(r).late = TRUE
  BY DEF Late, ReadRec

\* A new read.
LEMMA ReadIs ==
    ASSUME NEW a \in Accounts
    PROVE  Read(a) \in ReadRec /\ Read(a).account = a /\ Read(a).value = None
  BY DEF Read, ReadRec

\* A read of the selected account, or none.
LEMMA Loads ==
    ASSUME WalletTypes, NEW a \in Accounts \cup {None}, NEW B, B = LoadTokens(a)
    PROVE  /\ DOMAIN B \subseteq ReadRec /\ DOMAIN reads \subseteq DOMAIN B
           /\ \A r \in DOMAIN B : r \in DOMAIN reads \/ r.value = None
           /\ a # None => \E r \in DOMAIN B : r.account = a
<1>1. CASE a = None
  BY <1>1 DEF LoadTokens, WalletTypes
<1>2. CASE a # None
  <2>1. B = BagAdd(reads, Read(a)) /\ a \in Accounts
    BY <1>2 DEF LoadTokens
  <2>2. DOMAIN B = DOMAIN reads \cup {Read(a)}
    BY <2>1, ReadsAdded
  <2>3. Read(a) \in ReadRec /\ Read(a).account = a /\ Read(a).value = None
    BY <2>1, ReadIs
  <2> QED
    BY <2>2, <2>3 DEF WalletTypes
<1> QED
  BY <1>1, <1>2

\* The wallet is shown something else, and asks for what it shows.
LEMMA ShownWallet ==
    ASSUME WalletInv, UNCHANGED <<chain, tokens, tx, missed>>, account' \in Accounts \cup {None},
           reads' = reads \/ reads' = LoadTokens(account'),
           tab' = "tokens" => \/ reads' = LoadTokens(account')
                              \/ UNCHANGED <<account, tab>>
    PROVE  WalletInv'
<1>1. /\ DOMAIN reads' \subseteq ReadRec /\ DOMAIN reads \subseteq DOMAIN reads'
      /\ \A r \in DOMAIN reads' : r \in DOMAIN reads \/ r.value = None
  <2>1. CASE reads' = reads
    BY <2>1 DEF WalletInv, WalletTypes
  <2>2. CASE reads' = LoadTokens(account')
    BY <2>2, Loads DEF WalletInv
  <2> QED
    BY <2>1, <2>2
<1>2. reads' = LoadTokens(account') /\ account' # None =>
        \E r \in DOMAIN reads' : r.account = account'
  BY Loads DEF WalletInv
<1>3. WalletTypes'
  BY <1>1 DEF WalletInv, WalletTypes
<1>4. OvertakenIsDue'
  <2> SUFFICES ASSUME NEW r \in DOMAIN reads', r.value \notin {None, chain[r.account]}
               PROVE  \E t \in Txs : Due(t, r.account)' /\ (tx'[t].phase = "watched" => r.late)
    BY DEF OvertakenIsDue
  <2>1. PICK t \in Txs : Due(t, r.account) /\ (tx[t].phase = "watched" => r.late)
    BY <1>1 DEF WalletInv, OvertakenIsDue
  <2> QED
    BY <2>1 DEF Due
<1>5. OldIsRead'
  <2> SUFFICES ASSUME tab' = "tokens", account' \notin missed \cup {None},
                      tokens[account'] # chain[account']
               PROVE  \/ \E r \in DOMAIN reads' : r.account = account'
                      \/ \E t \in Txs : Due(t, account)'
    BY DEF OldIsRead
  <2>1. CASE reads' = LoadTokens(account')
    BY <1>2, <2>1
  <2>2. CASE UNCHANGED <<account, tab>>
    BY <1>1, <2>2 DEF WalletInv, OldIsRead, Due
  <2> QED
    BY <2>1, <2>2
<1> QED
  BY <1>3, <1>4, <1>5 DEF WalletInv

\* A transaction that is not due comes to nothing that is due, or is due.
LEMMA TxStep ==
    ASSUME WalletInv, NEW t \in Txs, NEW w \in TxRec, tx' = [tx EXCEPT ![t] = w],
           \A a \in Accounts : Due(t, a) => w.owner = a /\ w.phase = tx[t].phase,
           UNCHANGED <<account, tab, chain, tokens, reads>>, missed \subseteq missed'
    PROVE  WalletInv'
<1>1. WalletTypes'
  BY DEF WalletInv, WalletTypes
<1>2. \A s \in Txs, a \in Accounts : Due(s, a) => Due(s, a)' /\ tx'[s].phase = tx[s].phase
  <2> SUFFICES ASSUME NEW s \in Txs, NEW a \in Accounts, Due(s, a)
               PROVE  Due(s, a)' /\ tx'[s].phase = tx[s].phase
    OBVIOUS
  <2>1. CASE s = t
    BY <2>1 DEF Due, WalletInv, WalletTypes
  <2>2. CASE s # t
    BY <2>2 DEF Due, WalletInv, WalletTypes
  <2> QED
    BY <2>1, <2>2
<1>3. OvertakenIsDue'
  <2> SUFFICES ASSUME NEW r \in DOMAIN reads, r.value \notin {None, chain[r.account]}
               PROVE  \E s \in Txs : Due(s, r.account)' /\ (tx'[s].phase = "watched" => r.late)
    BY DEF OvertakenIsDue
  <2>1. PICK s \in Txs : Due(s, r.account) /\ (tx[s].phase = "watched" => r.late)
    BY DEF WalletInv, OvertakenIsDue
  <2>2. r.account \in Accounts
    BY DEF WalletInv, WalletTypes, ReadRec
  <2> QED
    BY <1>2, <2>1, <2>2
<1>4. OldIsRead'
  <2> SUFFICES ASSUME tab = "tokens", account \notin missed \cup {None},
                      tokens[account] # chain[account]
               PROVE  \/ \E r \in DOMAIN reads : r.account = account
                      \/ \E s \in Txs : Due(s, account)'
    BY DEF OldIsRead
  <2>1. account \in Accounts
    BY DEF WalletInv, WalletTypes
  <2> QED
    BY <1>2, <2>1 DEF WalletInv, OldIsRead
<1> QED
  BY <1>1, <1>3, <1>4 DEF WalletInv

\* Reads are watched for: what is on its way is older.
LEMMA WatchStep ==
    ASSUME WalletInv, NEW t \in Txs, NEW w \in TxRec, tx' = [tx EXCEPT ![t] = w],
           w.phase = "watched", \A a \in Accounts : Due(t, a) => w.owner = a,
           reads' = Older(reads), UNCHANGED <<account, tab, chain, tokens, missed>>
    PROVE  WalletInv'
<1>1. DOMAIN reads' = {Late(r) : r \in DOMAIN reads}
  BY ReadsOlder
<1>2. \A r \in DOMAIN reads : /\ r \in ReadRec /\ Late(r) \in ReadRec
                              /\ Late(r).account = r.account /\ Late(r).value = r.value
                              /\ Late(r).late = TRUE
  BY LateIs DEF WalletInv, WalletTypes
<1>3. WalletTypes'
  BY <1>1, <1>2 DEF WalletInv, WalletTypes
<1>4. \A s \in Txs, a \in Accounts : Due(s, a) => Due(s, a)'
  <2> SUFFICES ASSUME NEW s \in Txs, NEW a \in Accounts, Due(s, a) PROVE Due(s, a)'
    OBVIOUS
  <2>1. CASE s = t
    BY <2>1 DEF Due, WalletInv, WalletTypes
  <2>2. CASE s # t
    BY <2>2 DEF Due, WalletInv, WalletTypes
  <2> QED
    BY <2>1, <2>2
<1>5. OvertakenIsDue'
  <2> SUFFICES ASSUME NEW q \in DOMAIN reads', q.value \notin {None, chain[q.account]}
               PROVE  \E s \in Txs : Due(s, q.account)' /\ (tx'[s].phase = "watched" => q.late)
    BY DEF OvertakenIsDue
  <2>1. PICK r \in DOMAIN reads : q = Late(r)
    BY <1>1
  <2>2. /\ q.account = r.account /\ q.value = r.value /\ q.late = TRUE /\ r.account \in Accounts
    BY <1>2, <2>1 DEF ReadRec
  <2>3. PICK s \in Txs : Due(s, r.account)
    BY <2>2 DEF WalletInv, OvertakenIsDue
  <2> QED
    BY <1>4, <2>2, <2>3
<1>6. OldIsRead'
  <2> SUFFICES ASSUME tab = "tokens", account \notin missed \cup {None},
                      tokens[account] # chain[account]
               PROVE  \/ \E r \in DOMAIN reads' : r.account = account
                      \/ \E s \in Txs : Due(s, account)'
    BY DEF OldIsRead
  <2>1. account \in Accounts
    BY DEF WalletInv, WalletTypes
  <2>2. (\E r \in DOMAIN reads : r.account = account) \/ (\E s \in Txs : Due(s, account))
    BY DEF WalletInv, OldIsRead
  <2> QED
    BY <1>1, <1>2, <1>4, <2>1, <2>2
<1> QED
  BY <1>3, <1>5, <1>6 DEF WalletInv

\* The last read of a watch comes when none is older, and reads what is shown.
LEMMA WatchTokenStep == ASSUME WalletInv, NEW t \in Txs, WatchToken(t) PROVE WalletInv'
<1>1. /\ tx[t] \in TxRec /\ tx[t].phase = "watched" /\ tx \in [Txs -> TxRec]
      /\ reads' = LoadTokens(account) /\ UNCHANGED <<account, tab, chain, tokens, missed>>
      /\ account \in Accounts \cup {None}
  BY DEF WatchToken, WalletInv, WalletTypes
<1> PICK B : B = reads'
  OBVIOUS
<1>2. /\ DOMAIN B \subseteq ReadRec /\ DOMAIN reads \subseteq DOMAIN B
      /\ \A r \in DOMAIN B : r \in DOMAIN reads \/ r.value = None
      /\ account # None => \E r \in DOMAIN B : r.account = account
  BY <1>1, Loads DEF WalletInv
<1>3. PICK w \in TxRec :
        /\ tx' = [tx EXCEPT ![t] = w]
        /\ w.owner = tx[t].owner
        /\ (w.phase = "watched" \/ \A r \in DOMAIN reads : r.late = FALSE)
  <2>1. CASE tx[t].left = 1
    <3> DEFINE w == [tx[t] EXCEPT !.phase = "over", !.left = 0]
    <3>1. w \in TxRec /\ w.owner = tx[t].owner
      BY <1>1 DEF TxRec, Tx, TxPhases
    <3>2. tx' = [tx EXCEPT ![t] = w]
      BY <1>1, <2>1 DEF WatchToken
    <3>3. \A r \in DOMAIN reads : r.late = FALSE
      BY <2>1 DEF WatchToken, WalletInv, WalletTypes, ReadRec
    <3> QED
      BY <3>1, <3>2, <3>3
  <2>2. CASE tx[t].left # 1
    <3> DEFINE w == [tx[t] EXCEPT !.left = @ - 1]
    <3>1. tx' = [tx EXCEPT ![t].left = @ - 1]
      BY <2>2 DEF WatchToken
    <3>2. tx' = [tx EXCEPT ![t] = w]
      BY <1>1, <3>1
    <3>3. w.owner = tx[t].owner /\ w.phase = "watched"
      BY <1>1 DEF TxRec, Tx, TxPhases
    <3>4. w \in TxRec
      BY <1>1, <2>2 DEF TxRec, Tx
    <3> QED
      BY <3>2, <3>3, <3>4
  <2> QED
    BY <2>1, <2>2
<1>4. WalletTypes'
  BY <1>1, <1>2, <1>3 DEF WalletInv, WalletTypes
<1>5. OvertakenIsDue'
  <2> SUFFICES ASSUME NEW r \in DOMAIN B, r.value \notin {None, chain[r.account]}
               PROVE  \E s \in Txs : Due(s, r.account)' /\ (tx'[s].phase = "watched" => r.late)
    BY <1>1 DEF OvertakenIsDue
  <2>1. PICK s \in Txs : Due(s, r.account) /\ (tx[s].phase = "watched" => r.late)
    BY <1>2 DEF WalletInv, OvertakenIsDue
  <2>2. CASE s # t
    <3>1. tx'[s] = tx[s]
      BY <1>1, <1>3, <2>2
    <3> QED
      BY <2>1, <3>1 DEF Due
  <2>3. CASE s = t
    <3>1. tx'[s] = w /\ r.late
      BY <1>1, <1>3, <2>1, <2>3
    <3>2. w.phase = "watched"
      BY <1>2, <1>3, <3>1
    <3> QED
      BY <1>3, <2>1, <2>3, <3>1, <3>2 DEF Due
  <2> QED
    BY <2>2, <2>3
<1>6. OldIsRead'
  BY <1>1, <1>2 DEF OldIsRead
<1> QED
  BY <1>4, <1>5, <1>6 DEF WalletInv

\* The transactions of the wallet that are not watched yet, or not any more.
LEMMA TxSteps ==
    ASSUME WalletInv, NEW t \in Txs,
           \/ Approve(t) \/ WrapETH(t) \/ UnwrapWETH(t) \/ Sent(t) \/ WalletRejects(t)
           \/ PollFails(t)
    PROVE  WalletInv'
<1>1. tx \in [Txs -> TxRec] /\ tx[t] \in TxRec /\ account \in Accounts \cup {None}
  BY DEF WalletInv, WalletTypes
<1>2. CASE Approve(t) \/ WrapETH(t) \/ UnwrapWETH(t)
  <2> DEFINE w == [Idle EXCEPT !.owner = account, !.phase = "asked"]
  <2>1. /\ tx' = [tx EXCEPT ![t] = w] /\ tx[t].phase = "none"
        /\ UNCHANGED <<account, tab, chain, tokens, reads, missed>>
    BY <1>2 DEF Approve, WrapETH, UnwrapWETH, SendTransaction
  <2>2. w \in TxRec
    BY <1>1 DEF TxRec, Tx, TxPhases, Idle
  <2> HIDE DEF w
  <2>3. \A a \in Accounts : ~Due(t, a)
    BY <2>1 DEF Due
  <2> QED
    BY <2>1, <2>2, <2>3, TxStep
<1>3. CASE Sent(t) \/ WalletRejects(t)
  <2>1. PICK phase \in {"sent", "over"} : tx' = [tx EXCEPT ![t].phase = phase]
    BY <1>3 DEF Sent, WalletRejects
  <2> DEFINE w == [tx[t] EXCEPT !.phase = phase]
  <2>2. w \in TxRec
    BY <1>1 DEF TxRec, Tx, TxPhases
  <2>3. tx' = [tx EXCEPT ![t] = w]
    BY <1>1, <2>1
  <2>4. \A a \in Accounts : ~Due(t, a)
    BY <1>3 DEF Due, Sent, WalletRejects
  <2>5. UNCHANGED <<account, tab, chain, tokens, reads, missed>>
    BY <1>3 DEF Sent, WalletRejects
  <2> HIDE DEF w
  <2> QED
    BY <2>2, <2>3, <2>4, <2>5, TxStep
<1>4. CASE PollFails(t)
  <2> DEFINE w == [tx[t] EXCEPT !.polled = FALSE]
  <2>1. tx' = [tx EXCEPT ![t].polled = FALSE] /\ missed' = missed \cup {tx[t].owner}
        /\ UNCHANGED <<account, tab, chain, tokens, reads>>
    BY <1>4 DEF PollFails
  <2>2. w \in TxRec /\ w.owner = tx[t].owner /\ w.phase = tx[t].phase
    BY <1>1 DEF TxRec, Tx
  <2>3. tx' = [tx EXCEPT ![t] = w]
    BY <1>1, <2>1
  <2> HIDE DEF w
  <2>4. \A a \in Accounts : Due(t, a) => w.owner = a /\ w.phase = tx[t].phase
    BY <2>2 DEF Due
  <2> QED
    BY <2>1, <2>2, <2>3, <2>4, TxStep
<1> QED
  BY <1>2, <1>3, <1>4

\* A transaction is mined: every answer of its account is overtaken, and it is due.
LEMMA MinedStep == ASSUME WalletInv, NEW t \in Txs, Mined(t) PROVE WalletInv'
<1>1. /\ tx \in [Txs -> TxRec] /\ tx[t] \in TxRec /\ account \in Accounts \cup {None}
      /\ tx[t].phase = "sent" /\ UNCHANGED <<account, tab, tokens, reads, missed>>
      /\ chain \in [Accounts -> Nat]
  BY DEF WalletInv, WalletTypes, Mined
<1>2. PICK phase \in {"success", "reverted"} :
        /\ tx' = [tx EXCEPT ![t].phase = phase]
        /\ phase = "success" => chain' = [chain EXCEPT ![tx[t].owner] = @ + 1]
        /\ phase = "reverted" => UNCHANGED chain
  BY DEF Mined
<1> DEFINE w == [tx[t] EXCEPT !.phase = phase]
<1>3. w \in TxRec /\ w.phase = phase /\ w.owner = tx[t].owner
  BY <1>1, <1>2 DEF TxRec, Tx, TxPhases
<1>4. tx' = [tx EXCEPT ![t] = w]
  BY <1>1, <1>2
<1> HIDE DEF w
<1>5. CASE phase = "reverted"
  <2>1. \A a \in Accounts : ~Due(t, a)
    BY <1>1 DEF Due
  <2> QED
    BY <1>1, <1>2, <1>3, <1>4, <1>5, <2>1, TxStep
<1>6. CASE phase = "success"
  <2>1. \A s \in Txs : \A a : s # t => (Due(s, a) <=> Due(s, a)') /\ tx'[s] = tx[s]
    BY <1>1, <1>4 DEF Due
  <2>2. ~\E a : Due(t, a)
    BY <1>1 DEF Due
  <2>3. tx'[t] = w /\ w.phase = "success"
    BY <1>1, <1>3, <1>4, <1>6
  <2>4. Due(t, tx[t].owner)'
    <3>1. PICK a : a = tx[t].owner
      OBVIOUS
    <3>2. Due(t, a)'
      BY <1>3, <2>3, <3>1 DEF Due
    <3> QED
      BY <1>3, <2>3 DEF Due
  <2>5. chain' \in [Accounts -> Nat] /\ \A a \in Accounts : a # tx[t].owner => chain'[a] = chain[a]
    BY <1>1, <1>2, <1>6
  <2>6. WalletTypes'
    BY <1>1, <1>3, <1>4, <2>5 DEF WalletInv, WalletTypes
  <2>7. OvertakenIsDue'
    <3> SUFFICES ASSUME NEW r \in DOMAIN reads, r.value \notin {None, chain'[r.account]}
                 PROVE  \E s \in Txs : Due(s, r.account)' /\ (tx'[s].phase = "watched" => r.late)
      BY <1>1 DEF OvertakenIsDue
    <3>1. r.account \in Accounts
      BY DEF WalletInv, WalletTypes, ReadRec
    <3>2. CASE r.account = tx[t].owner
      <4>1. Due(t, r.account)'
        BY <1>3, <2>3, <3>2 DEF Due
      <4> QED
        BY <2>3, <4>1
    <3>3. CASE r.account # tx[t].owner
      <4>1. PICK s \in Txs : Due(s, r.account) /\ (tx[s].phase = "watched" => r.late)
        BY <2>5, <3>1, <3>3 DEF WalletInv, OvertakenIsDue
      <4>2. s # t
        BY <2>2, <4>1
      <4> QED
        BY <2>1, <4>1, <4>2
    <3> QED
      BY <3>2, <3>3
  <2>8. OldIsRead'
    <3> SUFFICES ASSUME tab = "tokens", account \notin missed \cup {None},
                        tokens[account] # chain'[account]
                 PROVE  \/ \E r \in DOMAIN reads : r.account = account
                        \/ \E s \in Txs : Due(s, account)'
      BY <1>1 DEF OldIsRead
    <3>1. CASE account = tx[t].owner
      <4>1. Due(t, account)'
        BY <1>1, <1>3, <2>3, <3>1 DEF Due
      <4> QED
        BY <4>1
    <3>2. CASE account # tx[t].owner
      <4>1. (\E r \in DOMAIN reads : r.account = account) \/ (\E s \in Txs : Due(s, account))
        BY <1>1, <2>5, <3>2 DEF WalletInv, OldIsRead
      <4> QED
        BY <1>1, <2>1, <2>2, <4>1
    <3> QED
      BY <3>1, <3>2
  <2> QED
    BY <2>6, <2>7, <2>8 DEF WalletInv
<1> QED
  BY <1>5, <1>6

\* The page tells of a transaction and watches, or watches after a trade.
LEMMA WatchSteps ==
    ASSUME WalletInv, NEW t \in Txs, PollTells(t) \/ NewMarketTrade(t) PROVE WalletInv'
<1>1. /\ tx \in [Txs -> TxRec] /\ tx[t] \in TxRec
      /\ UNCHANGED <<account, tab, chain, tokens, missed>> /\ WatchReads \in Nat /\ WatchReads > 0
  BY TokenAssumption DEF PollTells, NewMarketTrade, WalletInv, WalletTypes
<1>2. CASE NewMarketTrade(t) \/ (PollTells(t) /\ tx[t].phase = "success")
  <2> DEFINE w == [tx[t] EXCEPT !.phase = "watched", !.left = WatchReads]
  <2>1. tx' = [tx EXCEPT ![t] = w] /\ reads' = Older(reads)
    BY <1>1, <1>2 DEF NewMarketTrade, PollTells
  <2>2. w \in TxRec /\ w.phase = "watched" /\ w.owner = tx[t].owner
    BY <1>1 DEF TxRec, Tx, TxPhases
  <2> HIDE DEF w
  <2> QED
    BY <1>1, <2>1, <2>2, WatchStep DEF Due
<1>3. CASE PollTells(t) /\ tx[t].phase # "success"
  <2> DEFINE w == [tx[t] EXCEPT !.phase = "over", !.left = 0]
  <2>1. tx' = [tx EXCEPT ![t] = w] /\ reads' = reads /\ tx[t].phase = "reverted"
    BY <1>1, <1>3 DEF PollTells
  <2>2. w \in TxRec
    BY <1>1 DEF TxRec, Tx, TxPhases
  <2> HIDE DEF w
  <2> QED
    BY <1>1, <2>1, <2>2, TxStep DEF Due
<1> QED
  BY <1>2, <1>3

\* A read goes on, is shown or fails.
LEMMA ReadSteps ==
    ASSUME WalletInv, NEW r \in DOMAIN reads, NodeReads(r) \/ UpdateTokenInfo(r) \/ ReadFails(r)
    PROVE  WalletInv'
<1>1. /\ UNCHANGED <<account, tab, chain, tx>> /\ r \in ReadRec /\ r.account \in Accounts
      /\ chain[r.account] \in Nat /\ account \in Accounts \cup {None}
      /\ tokens \in [Accounts -> Nat \cup {None}]
  BY DEF NodeReads, UpdateTokenInfo, ReadFails, WalletInv, WalletTypes, ReadRec
<1> PICK q : q = [r EXCEPT !.value = chain[r.account]]
  OBVIOUS
<1>2. q \in ReadRec /\ q.account = r.account /\ q.value = chain[r.account]
  BY <1>1 DEF ReadRec
<1>3. /\ DOMAIN reads' \subseteq DOMAIN reads \cup {q}
      /\ DOMAIN reads \ {r} \subseteq DOMAIN reads'
      /\ NodeReads(r) => q \in DOMAIN reads'
  <2>1. PICK B : B = BagRemove(reads, r)
    OBVIOUS
  <2>2. DOMAIN reads \ {r} \subseteq DOMAIN B /\ DOMAIN B \subseteq DOMAIN reads
    BY <2>1, ReadsRemoved
  <2>3. CASE NodeReads(r)
    <3>1. reads' = BagAdd(B, q)
      BY <2>1, <2>3 DEF NodeReads
    <3>2. DOMAIN BagAdd(B, q) = DOMAIN B \cup {q}
      BY ReadsAdded
    <3>3. DOMAIN reads' = DOMAIN B \cup {q}
      BY <3>1, <3>2
    <3> QED
      BY <2>2, <3>3
  <2>4. CASE ~NodeReads(r)
    <3>1. reads' = B
      BY <2>1, <2>4 DEF UpdateTokenInfo, ReadFails
    <3> QED
      BY <2>2, <2>4, <3>1
  <2> QED
    BY <2>3, <2>4
<1>4. /\ tokens' \in [Accounts -> Nat \cup {None}]
      /\ UpdateTokenInfo(r) \/ tokens' = tokens
      /\ UpdateTokenInfo(r) => tokens' = [tokens EXCEPT ![r.account] = r.value] /\ r.value # None
      /\ missed \subseteq missed' /\ (NodeReads(r) \/ UpdateTokenInfo(r) \/ r.account \in missed')
  BY <1>1 DEF NodeReads, UpdateTokenInfo, ReadFails, ReadRec
<1>5. WalletTypes'
  BY <1>1, <1>2, <1>3, <1>4 DEF WalletInv, WalletTypes
<1>6. \A s \in Txs : \A a : Due(s, a)' <=> Due(s, a)
  BY <1>1 DEF Due
<1>7. OvertakenIsDue'
  <2> SUFFICES ASSUME NEW p \in DOMAIN reads', p.value \notin {None, chain[p.account]}
               PROVE  \E s \in Txs : Due(s, p.account)' /\ (tx[s].phase = "watched" => p.late)
    BY <1>1 DEF OvertakenIsDue
  <2>1. p \in DOMAIN reads
    BY <1>2, <1>3
  <2> QED
    BY <1>6, <2>1 DEF WalletInv, OvertakenIsDue
<1>8. OldIsRead'
  <2> SUFFICES ASSUME tab = "tokens", account \notin missed' \cup {None},
                      tokens'[account] # chain[account]
               PROVE  \/ \E p \in DOMAIN reads' : p.account = account
                      \/ \E s \in Txs : Due(s, account)
    BY <1>1, <1>6 DEF OldIsRead
  <2>1. account \in Accounts /\ account \notin missed \cup {None}
    BY <1>1, <1>4
  <2>2. CASE tokens'[account] # tokens[account]
    <3>1. UpdateTokenInfo(r) /\ r.account = account /\ r.value \notin {None, chain[account]}
      BY <1>1, <1>4, <2>1, <2>2
    <3> QED
      BY <3>1 DEF WalletInv, OvertakenIsDue
  <2>3. CASE tokens'[account] = tokens[account] /\ r.account # account
    <3>1. (\E p \in DOMAIN reads : p.account = account) \/ (\E s \in Txs : Due(s, account))
      BY <2>1, <2>3 DEF WalletInv, OldIsRead
    <3> QED
      BY <1>3, <2>3, <3>1
  <2>4. CASE NodeReads(r) /\ r.account = account
    BY <1>2, <1>3, <2>4
  <2>5. CASE UpdateTokenInfo(r) /\ r.account = account
    <3>1. tokens'[account] = r.value /\ r.value # None
      BY <1>1, <1>4, <2>5
    <3> QED
      BY <2>5, <3>1 DEF WalletInv, OvertakenIsDue
  <2> QED
    BY <1>4, <2>2, <2>3, <2>4, <2>5
<1> QED
  BY <1>5, <1>7, <1>8 DEF WalletInv

\* At the start the selected account is read.
LEMMA InitWallet == FormInit => WalletInv
<1> SUFFICES ASSUME FormInit PROVE WalletInv
  OBVIOUS
<1>1. /\ account \in Accounts \cup {None} /\ chain = [a \in Accounts |-> 0]
      /\ tokens = [a \in Accounts |-> None] /\ tx = [t \in Txs |-> Idle]
      /\ reads = IF account = None THEN EmptyBag ELSE SetToBag({Read(account)})
  BY DEF FormInit, Init
<1>2. DOMAIN reads = IF account = None THEN {} ELSE {Read(account)}
  BY <1>1 DEF EmptyBag, SetToBag
<1>3. \A r \in DOMAIN reads : r \in ReadRec /\ r.account = account /\ r.value = None
  BY <1>1, <1>2, ReadIs
<1>4. Idle \in TxRec
  BY DEF Idle, TxRec, Tx, TxPhases
<1>5. WalletTypes
  BY <1>1, <1>3, <1>4 DEF WalletTypes
<1>6. OvertakenIsDue
  BY <1>3 DEF OvertakenIsDue
<1>7. OldIsRead
  BY <1>1, <1>2, <1>3 DEF OldIsRead
<1> QED
  BY <1>5, <1>6, <1>7 DEF WalletInv

\* Every step keeps the invariant of the wallet.
LEMMA NextWallet == WalletInv /\ [Next]_vars => WalletInv'
<1> SUFFICES ASSUME WalletInv, [Next]_vars PROVE WalletInv'
  OBVIOUS
<1>1. CASE \/ FormChanges \/ OrderSteps \/ UNCHANGED tokenVars
           \/ \E a \in Accounts : UpdateLockedBalances(a) \/ LockedBalanceChange(a)
  <2>1. UNCHANGED <<account, tab, chain, tokens, reads, tx, missed>>
    BY <1>1 DEF FormChanges, OrderSteps, tokenVars, UpdateLockedBalances,
         LockedBalanceChange, Submit, LoginSigned, LoginRejected, Sleep, OrderBuilt, BuildFails,
         OrderSigned, OrderNotSigned, PlaceOrder, PlaceFails
  <2>2. account' \in Accounts \cup {None}
    BY <2>1 DEF WalletInv, WalletTypes
  <2> QED
    BY <2>1, <2>2, ShownWallet
<1>2. CASE \/ \E a \in Accounts \cup {None} : SelectAccount(a)
           \/ \E new \in Tabs : SelectTab(new)
  <2>1. /\ UNCHANGED <<chain, tokens, tx, missed>> /\ account' \in Accounts \cup {None}
        /\ reads' = reads \/ reads' = LoadTokens(account')
        /\ tab' = "tokens" => reads' = LoadTokens(account')
    BY <1>2 DEF SelectAccount, SelectTab, WalletInv, WalletTypes
  <2> QED
    BY <2>1, ShownWallet
<1> QED
  BY <1>1, <1>2, TxSteps, MinedStep, WatchSteps, WatchTokenStep, ReadSteps
  DEF Next, TokenNext, vars

---------------------------------------------------------------------------
(* The theorems *)

\* The totals the form keeps apart are those of its inputs in the market they were last
\* computed for, and once something was computed since the component was mounted, they and
\* the decision on margin orders are those of what it shows now.
THEOREM FormDerivedAgree == Spec => []DerivedAgree
<1>1. FormInv => DerivedAgree
  BY DEF FormInv
<1> QED
  BY <1>1, FormInvInit, FormInvNext, PTL DEF Spec

\* An order the API has stored is of the account it was built for, whatever account was
\* selected at each of the requests.
THEOREM OrdersPlacedBySigner == Spec => []PlacedBySigner
<1>1. FormInv /\ OrderInv => PlacedBySigner
  BY DEF OrderInv
<1> QED
  BY <1>1, FormInvInit, FormInvNext, OrderInvInit, OrderInvNext, PTL DEF Spec

\* While the list of tokens is shown with nothing to be read and no transaction to be told
\* of, it is what the node has, in whatever order reads are answered and whatever account
\* was selected when the transactions were mined.
THEOREM TokensAreCurrent == Spec => []TokensCatchUp
<1>1. WalletInv => TokensCatchUp
  <2>1. DOMAIN EmptyBag = {}
    BY DEF EmptyBag, SetToBag
  <2> QED
    BY <2>1 DEF WalletInv, OldIsRead, Due, TokensCatchUp
<1> QED
  BY <1>1, InitWallet, NextWallet, PTL DEF Spec
=============================================================================
