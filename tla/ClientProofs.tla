---------------------------- MODULE ClientProofs ----------------------------
(***************************************************************************)
(* Theorems about browsers in front of the shop server, for any number of  *)
(* browsers, of calls in flight, of products and sessions, with answers    *)
(* lost and every kind of failure.                                         *)
(***************************************************************************)
EXTENDS AnswerProofs, ClientProperties

-----------------------------------------------------------------------------
(* Browsers are clients of the server: they take none but its steps.       *)

\* A browser that calls the server sends a request that Arrive allows.
LEMMA CallsArrive ==
    ASSUME NEW b \in Browsers, NEW r \in Requests, Effects(b, r) \/ Clicks(b, r)
    PROVE  Arrive(r)
<1> USE ClicksAssumption, ProductIdsAssumption
<1>1. CASE Effects(b, r)
  BY <1>1 DEF Effects, LoadProducts, LoadCart, Arrive
<1>2. CASE ClickClear(b, r) \/ Submit(b, r)
  BY <1>2 DEF ClickClear, Submit, Arrive
<1>3. ASSUME NEW p \in Products, ClickAdd(b, r, p) PROVE Arrive(r)
  BY <1>3 DEF ClickAdd, Arrive
<1>4. ASSUME NEW p \in Products, NEW q \in 1..MaxShown,
             ClickQuantity(b, r, p, q)
      PROVE  Arrive(r)
  BY <1>4 DEF ClickQuantity, Arrive
<1>5. ASSUME NEW p \in Products, ClickRemove(b, r, p) PROVE Arrive(r)
  BY <1>5 DEF ClickRemove, Arrive
<1> QED BY <1>1, <1>2, <1>3, <1>4, <1>5 DEF Clicks

\* The steps of a browser that call nobody.
Quiet(b) ==
    \/ \E to \in Pages : Navigate(b, to)
    \/ \E at \in Pages : Open(b, at)
    \/ UpdateField(b)
    \/ \E r \in Requests : Answers(b, r) \/ Loses(b, r)

\* They are not seen by the server.
LEMMA QuietUnseen ==
    ASSUME NEW b \in Browsers, Quiet(b)
    PROVE  UNCHANGED vars
BY DEF Quiet, Navigate, Open, UpdateField, Answers, Loses, CartAnswer,
       OrderAnswer, ProductsAnswer, FailedAnswer, Done

\* Every step of the composition is a step of the server, or unseen by it.
LEMMA StepsAreServers == [ClientNext]_allVars => [Next]_vars
<1>1. ASSUME UNCHANGED allVars PROVE UNCHANGED vars
  BY <1>1 DEF allVars
<1>2. ASSUME NEW b \in Browsers, BrowserStep(b) PROVE [Next]_vars
  <2>1. CASE Quiet(b)
    BY <2>1, QuietUnseen
  <2>2. CASE \E r \in Requests : Effects(b, r) \/ Clicks(b, r)
    BY <2>2, CallsArrive DEF Next
  <2> QED BY <1>2, <2>1, <2>2 DEF BrowserStep, Quiet
<1>3. ASSUME NEW r \in Requests, ServerHandles(r) \/ ServerFails(r) PROVE Next
  BY <1>3 DEF ServerHandles, ServerFails, Next
<1> QED BY <1>1, <1>2, <1>3 DEF ClientNext

\* Browsers in front of the shop server are clients of the specification of
\* the server: everything proved of the server holds of the composition
\* (api.ts:54-104).
THEOREM BrowsersUseTheShop == ClientSpec => Spec
<1>1. ClientInit => Init
  BY DEF ClientInit
<1> QED BY <1>1, StepsAreServers, PTL DEF ClientSpec, Spec

\* The tables, the handlers and the answers are right with browsers in front.
LEMMA ServerInvariant == ClientSpec => [](IInv /\ SlotsInv)
<1>1. Spec => [](IInv /\ SlotsInv)
  BY InitIInv, NextIInv, InitSlots, NextSlots, PTL DEF Spec
<1> QED BY <1>1, BrowsersUseTheShop, PTL

-----------------------------------------------------------------------------
(* Positive quantities.                                                    *)

LEMMA NoLinesPositive == PositiveLines(NoLines)
BY NoLinesAreLines DEF PositiveLines, NoLines

\* Writing a row with a positive quantity leaves positive rows.
LEMMA WithRowPositive ==
    ASSUME NEW lines, PositiveLines(lines), NEW p \in Products,
           NEW q \in Int, q > 0
    PROVE  PositiveLines(WithRow(lines, p, q))
<1>1. IsLines(WithRow(lines, p, q))
  BY WithRowLines DEF PositiveLines
<1> QED BY <1>1 DEF PositiveLines, WithRow

\* So does updating one that may not be there.
LEMMA SetRowPositive ==
    ASSUME NEW lines, PositiveLines(lines), NEW p, NEW q \in Int, q > 0
    PROVE  PositiveLines(SetRow(lines, p, q))
BY WithRowPositive DEF SetRow, PositiveLines, IsLines

\* Deleting one.
LEMMA DeleteRowPositive ==
    ASSUME NEW lines, PositiveLines(lines), NEW p
    PROVE  PositiveLines(DeleteRow(lines, p))
<1>1. IsLines(DeleteRow(lines, p))
  BY DeleteRowLines DEF PositiveLines
<1> QED BY <1>1 DEF PositiveLines, DeleteRow, Restrict

\* Adding a positive quantity to one.
LEMMA IncrementPositive ==
    ASSUME NEW lines, PositiveLines(lines), NEW p, NEW q \in Int, q > 0
    PROVE  PositiveLines(IncrementRow(lines, p, q))
<1>1. CASE p \in DOMAIN lines
  <2>1. QuantityOf(lines, p) + q \in Int /\ QuantityOf(lines, p) + q > 0
    BY <1>1 DEF QuantityOf, PositiveLines, IsLines
  <2> QED BY <2>1, SetRowPositive DEF IncrementRow
<1>2. CASE p \notin DOMAIN lines
  BY <1>2 DEF IncrementRow, SetRow
<1> QED BY <1>1, <1>2

-----------------------------------------------------------------------------
(* Types of what a browser keeps.                                          *)

\* A slot without a call.
LEMMA NoCallShape == CallShape(NoCall)
BY DEF CallShape, NoCall, CallKinds

\* Nothing is shown at the start.
LEMMA InitClientTypes == ClientInit => ClientTypeOK
BY NoLinesPositive, NoCallShape
   DEF ClientInit, ClientTypeOK, FunctionOn, Pages, Catalogues, NoReceipt

\* A page is left, a document loaded, a field filled in.
LEMMA PageTypes ==
    ASSUME ClientTypeOK, NEW b \in Browsers,
           \/ \E to \in Pages : Navigate(b, to)
           \/ \E at \in Pages : Open(b, at)
           \/ UpdateField(b)
    PROVE  ClientTypeOK'
<1>1. ASSUME NEW to \in Pages, Navigate(b, to) PROVE ClientTypeOK'
  <2>1. FormMounted(b)' \in BOOLEAN
    BY DEF FormMounted
  <2>2. form' \in [Browsers -> BOOLEAN]
    BY <1>1, <2>1 DEF Navigate, KeepForm, ClientTypeOK
  <2>3. /\ visited' \in [Browsers -> BOOLEAN]
        /\ due' \in [Browsers -> BOOLEAN] /\ page' \in [Browsers -> Pages]
    BY <1>1 DEF Navigate, Show, ClientTypeOK
  <2> QED BY <1>1, <2>2, <2>3 DEF Navigate, ClientTypeOK, FunctionOn
<1>2. ASSUME NEW at \in Pages, Open(b, at) PROVE ClientTypeOK'
  <2>1. /\ page' \in [Browsers -> Pages] /\ visited' \in [Browsers -> BOOLEAN]
        /\ due' \in [Browsers -> BOOLEAN] /\ form' \in [Browsers -> BOOLEAN]
    BY <1>2 DEF Open, ClientTypeOK
  <2>2. FunctionOn(shown', Browsers) /\ \A x \in Browsers : PositiveLines(shown'[x])
    BY <1>2, NoLinesPositive DEF Open, ClientTypeOK, FunctionOn
  <2>3. /\ listed' \in [Browsers -> SUBSET Nat]
        /\ catalogue' \in [Browsers -> Catalogues]
    BY <1>2 DEF Open, ClientTypeOK, Catalogues
  <2>4. /\ FunctionOn(receipt', Browsers)
        /\ \A x \in Browsers : receipt'[x].order \in Nat
    BY <1>2 DEF Open, ClientTypeOK, FunctionOn, NoReceipt
  <2>5. FunctionOn(call', Requests) /\ \A r \in Requests : CallShape(call'[r])
    BY <1>2, NoCallShape DEF Open, ClientTypeOK, FunctionOn
  <2>6. FunctionOn(body', Requests) /\ \A r \in Requests : PositiveLines(body'[r])
    BY <1>2, NoLinesPositive DEF Open, ClientTypeOK, FunctionOn
  <2> QED BY <2>1, <2>2, <2>3, <2>4, <2>5, <2>6 DEF ClientTypeOK
<1>3. ASSUME UpdateField(b) PROVE ClientTypeOK'
  BY <1>3 DEF UpdateField, ClientTypeOK, FunctionOn
<1> QED BY <1>1, <1>2, <1>3

\* A call is made.
LEMMA CallTypes ==
    ASSUME ClientTypeOK, NEW b \in Browsers, NEW r \in Requests,
           NEW kind \in CallKinds, NEW p \in ProductIds \cup {NoProduct},
           NEW q \in Nat, NEW total, Call(b, r, kind, p, q, total),
           catalogue' \in [Browsers -> Catalogues],
           due' \in [Browsers -> BOOLEAN]
    PROVE  ClientTypeOK'
<1> DEFINE new == [kind |-> kind, pid |-> p, qty |-> q, total |-> total]
<1>1. CallShape(new)
  BY DEF CallShape
<1>2. call' = [call EXCEPT ![r] = new]
  BY DEF Call
<1> HIDE DEF new
<1>3. FunctionOn(call', Requests) /\ \A x \in Requests : CallShape(call'[x])
  BY <1>1, <1>2 DEF ClientTypeOK, FunctionOn
<1> QED BY <1>3 DEF Call, ClientTypeOK, FunctionOn

\* Effects and clicks.
LEMMA CallsTypes ==
    ASSUME ClientTypeOK, NEW b \in Browsers, NEW r \in Requests,
           Effects(b, r) \/ Clicks(b, r)
    PROVE  ClientTypeOK'
<1> USE ProductIdsAssumption, MaxShownAssumption DEF CallKinds
<1>0. /\ catalogue \in [Browsers -> Catalogues] /\ due \in [Browsers -> BOOLEAN]
  BY DEF ClientTypeOK
<1>1. CASE LoadProducts(b, r)
  <2>1. catalogue' \in [Browsers -> Catalogues] /\ due' \in [Browsers -> BOOLEAN]
    BY <1>0, <1>1 DEF LoadProducts, Rendered, Catalogues
  <2> QED BY <1>1, <2>1, CallTypes DEF LoadProducts
<1>2. CASE LoadCart(b, r)
  <2>1. catalogue' \in [Browsers -> Catalogues] /\ due' \in [Browsers -> BOOLEAN]
    BY <1>0, <1>2 DEF LoadCart
  <2> QED BY <1>2, <2>1, CallTypes DEF LoadCart
<1>3. ASSUME NEW p \in Products, ClickAdd(b, r, p) PROVE ClientTypeOK'
  BY <1>0, <1>3, CallTypes DEF ClickAdd
<1>4. ASSUME NEW p \in Products, NEW q \in 1..MaxShown,
             ClickQuantity(b, r, p, q)
      PROVE  ClientTypeOK'
  BY <1>0, <1>4, CallTypes DEF ClickQuantity
<1>5. ASSUME NEW p \in Products, ClickRemove(b, r, p) PROVE ClientTypeOK'
  BY <1>0, <1>5, CallTypes DEF ClickRemove
<1>6. CASE ClickClear(b, r)
  BY <1>0, <1>6, CallTypes DEF ClickClear
<1>7. CASE Submit(b, r)
  BY <1>0, <1>7, CallTypes DEF Submit
<1> QED BY <1>1, <1>2, <1>3, <1>4, <1>5, <1>6, <1>7 DEF Effects, Clicks

\* The reducer makes a cart of a cart, whatever the answer.
LEMMA ReducedLines ==
    ASSUME ClientTypeOK, NEW r \in Requests, CallOK(r), call[r] # NoCall,
           NEW lines, PositiveLines(lines)
    PROVE  PositiveLines(Reduced(r, lines))
<1> DEFINE p == call[r].pid
           q == call[r].qty
<1>1. /\ q \in Nat /\ PositiveLines(body[r])
      /\ call[r].kind = "addItem" => p \in Products /\ q > 0
      /\ call[r].kind = "putItem" => q > 0
  BY DEF ClientTypeOK, CallShape, CallOK
<1> HIDE DEF p, q
<1>2. CASE call[r].kind = "getCart"
  BY <1>1, <1>2 DEF Reduced, ReadCart
<1>3. CASE call[r].kind = "addItem"
  <2>1. QuantityOf(lines, p) + q \in Nat \ {0}
    BY <1>1, <1>3 DEF QuantityOf, PositiveLines, IsLines
  <2>2. PositiveLines(AddLine(lines, p, q))
    BY <1>1, <1>3, <2>1, WithRowPositive DEF AddLine
  <2> QED BY <1>3, <2>2 DEF Reduced, AddedTo, p, q
<1>4. CASE call[r].kind = "putItem"
  <2> DEFINE all == SetRow(lines, p, q)
  <2>1. PositiveLines(all)
    BY <1>1, <1>4, SetRowPositive
  <2> HIDE DEF all
  <2>2. PositiveLines(Restrict(all, {x \in DOMAIN all : all[x] > 0}))
    BY <2>1, RestrictLines DEF PositiveLines, Restrict
  <2>3. PositiveLines(Updated(lines, p, q))
    BY <2>2 DEF Updated, all
  <2> QED BY <1>4, <2>3 DEF Reduced, p, q
<1>5. CASE call[r].kind = "removeItem"
  BY <1>5, DeleteRowPositive DEF Reduced, Removed
<1>6. CASE call[r].kind \in {"clearCart", "createOrder"}
  BY <1>6, NoLinesPositive DEF Reduced
<1>7. CASE call[r].kind \notin {"getCart", "addItem", "putItem", "removeItem",
                               "clearCart", "createOrder"}
  BY <1>7 DEF Reduced
<1> QED BY <1>2, <1>3, <1>4, <1>5, <1>6, <1>7

\* The order of a 201 not yet taken is there, complete, and no other handler
\* names it.
LEMMA AnsweredOrderThere ==
    ASSUME SlotsInv, NEW r \in Requests, reply[r] = 201
    PROVE  /\ DOMAIN view[r] = {AnsweredOrder(r)}
           /\ AnsweredOrder(r) \in DOMAIN orders
           /\ Complete(orders[AnsweredOrder(r)])
           /\ Claims(r) = {AnsweredOrder(r)}
<1>1. PICK n \in DOMAIN orders : DOMAIN view[r] = {n} /\ Complete(orders[n])
  BY DEF SlotsInv, SlotOK, CreatedTrue
<1>2. AnsweredOrder(r) = n
  BY <1>1 DEF AnsweredOrder
<1>3. ~Writing(r)
  BY DEF SlotsInv, SlotOK, HandOK, Writing
<1> QED BY <1>1, <1>2, <1>3 DEF Claims

\* An answer to a submit that succeeded is a 201.
LEMMA SubmitsAnswer ==
    ASSUME NEW b \in Browsers, NEW r \in Requests, CallOK(r), OrderAnswer(b, r)
    PROVE  reply[r] = 201
BY DEF OrderAnswer, Ok, CallOK, NoCall

\* A call has been answered, or given up.
LEMMA DoneTypes ==
    ASSUME ClientTypeOK, NEW r \in Requests, Done(r)
    PROVE  /\ FunctionOn(call', Requests)
           /\ \A x \in Requests : CallShape(call'[x])
           /\ FunctionOn(body', Requests)
           /\ \A x \in Requests : PositiveLines(body'[x])
BY NoCallShape, NoLinesPositive DEF Done, ClientTypeOK, FunctionOn

\* Answers.
LEMMA AnswersTypes ==
    ASSUME IInv, SlotsInv, ClientTypeOK, NEW b \in Browsers, NEW r \in Requests,
           CallOK(r), Answers(b, r) \/ Loses(b, r)
    PROVE  ClientTypeOK'
<1>1. /\ form \in [Browsers -> BOOLEAN] /\ page \in [Browsers -> Pages]
      /\ due \in [Browsers -> BOOLEAN] /\ visited \in [Browsers -> BOOLEAN]
      /\ catalogue \in [Browsers -> Catalogues]
      /\ listed \in [Browsers -> SUBSET Nat]
      /\ FunctionOn(shown, Browsers) /\ \A x \in Browsers : PositiveLines(shown[x])
      /\ FunctionOn(receipt, Browsers)
      /\ \A x \in Browsers : receipt[x].order \in Nat
  BY DEF ClientTypeOK
<1>2. ASSUME KeepForm(b) PROVE form' \in [Browsers -> BOOLEAN]
  <2>1. FormMounted(b)' \in BOOLEAN
    BY DEF FormMounted
  <2> QED BY <1>1, <1>2, <2>1 DEF KeepForm
<1>3. ASSUME Rendered(b) PROVE due' \in [Browsers -> BOOLEAN]
  BY <1>1, <1>3 DEF Rendered
<1>4. CASE CartAnswer(b, r)
  <2>1. PositiveLines(Reduced(r, shown[b]))
    BY <1>1, <1>4, ReducedLines DEF CartAnswer, Done
  <2>2. FunctionOn(shown', Browsers) /\ \A x \in Browsers : PositiveLines(shown'[x])
    BY <1>1, <1>4, <2>1 DEF CartAnswer, FunctionOn
  <2> QED BY <1>1, <1>2, <1>3, <1>4, <2>2, DoneTypes
          DEF CartAnswer, ClientTypeOK, FunctionOn
<1>5. CASE OrderAnswer(b, r)
  <2> DEFINE n == AnsweredOrder(r)
  <2>1. n \in Nat
    BY <1>5, SubmitsAnswer, AnsweredOrderThere DEF IInv, TypeOK
  <2>2. PositiveLines(Reduced(r, shown[b]))
    BY <1>1, <1>5, ReducedLines DEF OrderAnswer, Done
  <2>3. FunctionOn(shown', Browsers) /\ \A x \in Browsers : PositiveLines(shown'[x])
    BY <1>1, <1>5, <2>2 DEF OrderAnswer, FunctionOn
  <2> HIDE DEF n
  <2>4. listed' = [listed EXCEPT ![b] = @ \cup {n}]
    BY <1>5 DEF OrderAnswer, n
  <2>5. listed' \in [Browsers -> SUBSET Nat]
    BY <1>1, <2>1, <2>4
  <2>6. /\ page' \in [Browsers -> Pages] /\ due' \in [Browsers -> BOOLEAN]
        /\ visited' \in [Browsers -> BOOLEAN]
    BY <1>1, <1>5 DEF OrderAnswer, Show, Pages
  <2>7. receipt' = [receipt EXCEPT ![b] = [order |-> n, total |-> call[r].total]]
    BY <1>5 DEF OrderAnswer, n
  <2>8. /\ FunctionOn(receipt', Browsers)
        /\ \A x \in Browsers : receipt'[x].order \in Nat
    BY <1>1, <2>1, <2>7 DEF FunctionOn
  <2>9. form' \in [Browsers -> BOOLEAN] /\ catalogue' = catalogue /\ Done(r)
    BY <1>2, <1>5 DEF OrderAnswer
  <2> QED BY <1>1, <2>3, <2>5, <2>6, <2>8, <2>9, DoneTypes DEF ClientTypeOK
<1>6. ASSUME NEW ok, ProductsAnswer(b, r, ok) PROVE ClientTypeOK'
  <2>1. catalogue' \in [Browsers -> Catalogues]
    BY <1>1, <1>6 DEF ProductsAnswer, Catalogues
  <2> QED BY <1>1, <1>3, <1>6, <2>1, DoneTypes
          DEF ProductsAnswer, ClientTypeOK, FunctionOn
<1>7. CASE FailedAnswer(b, r)
  BY <1>1, <1>7, DoneTypes DEF FailedAnswer, browserVars, ClientTypeOK, FunctionOn
<1> QED BY <1>4, <1>5, <1>6, <1>7 DEF Answers, Loses

\* A step of the server.
LEMMA ServerTypes ==
    ASSUME IInv, ClientTypeOK, CartsPositive, NEW r \in Requests,
           ServerHandles(r) \/ ServerFails(r)
    PROVE  ClientTypeOK'
<1>1. PositiveLines(CartOf(r))
  BY SessionAssumption DEF CartsPositive, CartOf, Session
<1>2. FunctionOn(body', Requests) /\ \A x \in Requests : PositiveLines(body'[x])
  BY <1>1 DEF ServerHandles, ServerFails, Reads, clientVars, ClientTypeOK,
              FunctionOn
<1>3. UNCHANGED <<browserVars, call>>
  BY DEF ServerHandles, ServerFails, clientVars
<1> QED BY <1>2, <1>3 DEF browserVars, ClientTypeOK, FunctionOn

-----------------------------------------------------------------------------
(* Calls, receipts and lists.                                              *)

\* A handler is at work when it takes a step, and on the same request until
\* it has answered.
LEMMA KeepsInput ==
    ASSUME TypeOK, NEW r \in Requests, Handle(r) \/ Fail(r)
    PROVE  pc[r] # "idle" /\ (pc'[r] # "idle" => input'[r] = input[r])
<1> USE DEF TypeOK
<1>1. CASE SelectProduct(r) \/ SelectExisting(r) \/ UpdateRow(r)
           \/ InsertRow(r) \/ PutRow(r) \/ RemoveRow(r)
  BY <1>1 DEF SelectProduct, SelectExisting, UpdateRow, InsertRow, PutRow,
              RemoveRow, Goto, Answer
<1>2. CASE ClearCart(r) \/ SelectCart(r) \/ SelectOrderRows(r)
           \/ CountOrders(r) \/ SelectProducts(r) \/ SelectById(r)
  BY <1>2 DEF ClearCart, SelectCart, SelectOrderRows, CountOrders,
              SelectProducts, SelectById, Goto, Answer
<1>3. CASE InsertOrder(r) \/ InsertItem(r) \/ ClearOrdered(r) \/ FetchOrder(r)
           \/ SelectOrder(r) \/ SelectOrders(r) \/ SelectItems(r)
  BY <1>3 DEF InsertOrder, InsertItem, ClearOrdered, FetchOrder, SelectOrder,
              SelectOrders, SelectItems, ReadHeaders, Goto, Answer
<1>4. CASE Fail(r)
  BY <1>4 DEF Fail, QueryFails, ProcessDies, ProxyRetries, Answer
<1> QED BY <1>1, <1>2, <1>3, <1>4 DEF Handle

\* No checkout is answered 200.
LEMMA NoPlainAnswer ==
    ASSUME IInv, NEW r \in Requests, SlotOK(r), Handle(r) \/ Fail(r),
           input[r].op = "createOrder"
    PROVE  reply'[r] # 200
<1> USE DEF IInv, TypeOK
<1>1. /\ StageOK(r) /\ reply[r] = 0
      /\ pc[r] \notin {"putRow", "deleteRow", "clearCart", "selectCart",
                      "selectProducts", "selectById", "selectProduct",
                      "selectExisting", "updateRow", "insertRow",
                      "selectOrder", "selectOrders"}
  BY KeepsInput DEF ShopInv, StageOK, SlotOK, HandOK
<1>2. CASE SelectOrderRows(r) \/ CountOrders(r) \/ InsertOrder(r)
           \/ InsertItem(r) \/ ClearOrdered(r) \/ FetchOrder(r)
  BY <1>1, <1>2 DEF SelectOrderRows, CountOrders, InsertOrder, InsertItem,
                    ClearOrdered, FetchOrder, ReadHeaders, Goto, Answer
<1>3. CASE SelectItems(r)
  BY <1>1, <1>3 DEF SelectItems, SuccessCode, Answer
<1>4. CASE Fail(r)
  BY <1>1, <1>4 DEF Fail, QueryFails, ProcessDies, ProxyRetries, ErrorCode, Answer
<1> QED BY <1>1, <1>2, <1>3, <1>4
        DEF Handle, SelectProduct, SelectExisting, UpdateRow, InsertRow, PutRow,
            RemoveRow, ClearCart, SelectCart, SelectOrder, SelectOrders,
            SelectProducts, SelectById

\* A request that comes leaves carts positive.
LEMMA ArrivesPositive ==
    ASSUME TypeOK, CartsPositive, NEW r \in Requests, NEW op, NEW p, NEW q,
           NEW n, Receive(r, op, p, q, n), op = "addItem" => q > 0
    PROVE  CartsPositive'
BY DEF Receive, TypeOK, CartsPositive

\* A step of a handler too.
LEMMA ServesPositive ==
    ASSUME IInv, CartsPositive, NEW r \in Requests, Handle(r) \/ Fail(r)
    PROVE  CartsPositive'
<1> DEFINE p == input[r].pid
           q == input[r].qty
           s == Session(r)
<1>1. /\ FunctionOn(cart, Sessions) /\ s \in Sessions /\ q \in Int
      /\ \A x \in Sessions : PositiveLines(cart[x])
      /\ StageOK(r) /\ (input[r].op = "addItem" => q > 0)
  BY SessionAssumption
     DEF IInv, ShopInv, TypeOK, InputType, CartsPositive, Session
<1>2. ASSUME NEW x \in Requests PROVE input'[x].op = "addItem" => input'[x].qty > 0
  <2>1. CASE x = r
    <3>1. StageOK(r)'
      BY NextIInv DEF Next, IInv, ShopInv
    <3> QED BY <1>1, <2>1, <3>1, KeepsInput DEF StageOK, IInv
  <2>2. CASE x # r
    BY <2>2, OneSlot DEF IInv, SlotKept, CartsPositive
  <2> QED BY <2>1, <2>2
<1> HIDE DEF p, q, s
<1>3. ASSUME NEW lines, PositiveLines(lines), cart' = [cart EXCEPT ![s] = lines]
      PROVE  \A x \in Sessions : PositiveLines(cart'[x])
  BY <1>1, <1>3 DEF FunctionOn
<1>4. ASSUME UNCHANGED cart PROVE \A x \in Sessions : PositiveLines(cart'[x])
  BY <1>1, <1>4
<1>5. CASE UpdateRow(r)
  <2>1. PositiveLines(IncrementRow(cart[s], p, q))
    BY <1>1, <1>5, IncrementPositive DEF UpdateRow, StageOK
  <2> QED BY <1>2, <1>3, <1>5, <2>1
          DEF UpdateRow, IncrementedRows, CartOf, CartsPositive, p, q, s
<1>6. CASE InsertRow(r)
  <2>1. PositiveLines(WithRow(cart[s], p, q))
    BY <1>1, <1>6, WithRowPositive DEF InsertRow, StageOK, p
  <2>2. \/ cart' = [cart EXCEPT ![s] = WithRow(cart[s], p, q)]
        \/ UNCHANGED cart
    BY <1>6 DEF InsertRow, p, q, s
  <2> QED BY <1>2, <1>3, <1>4, <2>1, <2>2 DEF CartsPositive
<1>7. CASE PutRow(r)
  <2>1. PositiveLines(PutRows(r))
    BY <1>1, DeleteRowPositive, SetRowPositive DEF PutRows, CartOf, p, q, s
  <2> QED BY <1>2, <1>3, <1>7, <2>1 DEF PutRow, CartsPositive, s
<1>8. CASE RemoveRow(r)
  <2>1. PositiveLines(DeleteRow(cart[s], p))
    BY <1>1, DeleteRowPositive
  <2> QED BY <1>2, <1>3, <1>8, <2>1 DEF RemoveRow, CartsPositive, p, s
<1>9. CASE ClearCart(r) \/ ClearOrdered(r)
  BY <1>2, <1>3, <1>9, NoLinesPositive
     DEF ClearCart, ClearOrdered, CartsWithout, CartsPositive, s
<1>10. CASE SelectProduct(r) \/ SelectExisting(r) \/ SelectCart(r)
            \/ SelectOrderRows(r) \/ CountOrders(r) \/ InsertOrder(r)
            \/ InsertItem(r) \/ FetchOrder(r) \/ SelectOrder(r)
            \/ SelectOrders(r) \/ SelectItems(r) \/ SelectProducts(r)
            \/ SelectById(r)
  BY <1>2, <1>4, <1>10
     DEF SelectProduct, SelectExisting, SelectCart, SelectOrderRows,
         CountOrders, InsertOrder, InsertItem, FetchOrder, SelectOrder,
         SelectOrders, SelectItems, SelectProducts, SelectById, CartsPositive
<1>11. CASE Fail(r)
  BY <1>2, <1>4, <1>11
     DEF Fail, QueryFails, ProcessDies, ProxyRetries, CartsPositive
<1> QED BY <1>5, <1>6, <1>7, <1>8, <1>9, <1>10, <1>11 DEF Handle

\* Nothing was called, ordered or listed at the start.
LEMMA InitClientInv == ClientInit => ClientInv
BY NoLinesPositive
   DEF ClientInit, Init, ClientInv, ReceiptNamesOrder, CartsPositive, CallOK,
       ListOK, NoCall, NoInput

\* A step that the server does not see and that lists no order.
LEMMA QuietInv ==
    ASSUME ClientInv, UNCHANGED vars,
           \A x \in Browsers : listed'[x] \subseteq listed[x],
           \A x \in Browsers : receipt'[x] \in {receipt[x], NoReceipt},
           \A x \in Requests : call'[x] \in {call[x], NoCall}
    PROVE  ClientInv'
<1> USE DEF ClientInv, vars
<1>1. ReceiptNamesOrder'
  BY DEF ReceiptNamesOrder
<1>2. ASSUME NEW x \in Requests PROVE CallOK(x)'
  BY DEF CallOK
<1>3. ASSUME NEW b \in Browsers PROVE ListOK(b)'
  <2>1. \A x \in Requests : Claims(x)' = Claims(x)
    BY DEF Claims, Writing
  <2>2. \A x \in Requests :
           call'[x].kind = "createOrder" => call[x].kind = "createOrder"
    BY DEF NoCall
  <2> QED BY <2>1, <2>2 DEF ListOK
<1>4. CartsPositive'
  BY DEF CartsPositive
<1> QED BY <1>1, <1>2, <1>3, <1>4

\* An order is answered and listed.
LEMMA OrderAnswerInv ==
    ASSUME SlotsInv, ClientTypeOK, ClientInv, NEW b \in Browsers,
           NEW r \in Requests, OrderAnswer(b, r)
    PROVE  ClientInv'
<1> DEFINE n == AnsweredOrder(r)
<1>1. /\ n \in DOMAIN orders /\ Complete(orders[n]) /\ Claims(r) = {n}
  BY SubmitsAnswer, AnsweredOrderThere DEF ClientInv
<1>2. /\ listed' = [listed EXCEPT ![b] = @ \cup {n}]
      /\ receipt' = [receipt EXCEPT ![b] = [order |-> n, total |-> call[r].total]]
      /\ call' = [call EXCEPT ![r] = NoCall]
      /\ UNCHANGED vars
  BY DEF OrderAnswer, Done
<1> HIDE DEF n
<1>3. /\ listed'[b] = listed[b] \cup {n}
      /\ \A x \in Browsers : x # b => listed'[x] = listed[x]
      /\ call'[r] = NoCall
      /\ \A x \in Requests : x # r => call'[x] = call[x]
      /\ receipt'[b].order = n
      /\ \A x \in Browsers : x # b => receipt'[x] = receipt[x]
  BY <1>2 DEF ClientTypeOK, FunctionOn
<1>4. ReceiptNamesOrder'
  BY <1>1, <1>2, <1>3 DEF ReceiptNamesOrder, ClientInv, vars, Complete
<1>5. ASSUME NEW x \in Requests PROVE CallOK(x)'
  BY <1>2, <1>3 DEF CallOK, ClientInv, vars
<1>6. ASSUME NEW x \in Browsers PROVE ListOK(x)'
  <2>1. \A y \in Requests : Claims(y)' = Claims(y)
    BY <1>2 DEF Claims, Writing, vars
  <2>2. \A y \in Requests :
           call'[y].kind = "createOrder" =>
              call[y].kind = "createOrder" /\ y # r
    BY <1>3 DEF NoCall
  <2>3. \A y \in Requests : y # r => n \notin Claims(y)
    BY <1>1 DEF SlotsInv, OwnOrders
  <2>4. listed'[x] \subseteq listed[x] \cup {n} /\ orders' = orders
    BY <1>2, <1>3 DEF vars
  <2> QED BY <1>1, <2>1, <2>2, <2>3, <2>4 DEF ListOK, ClientInv
<1>7. CartsPositive'
  BY <1>2 DEF CartsPositive, ClientInv, vars
<1> QED BY <1>4, <1>5, <1>6, <1>7 DEF ClientInv

\* Every other step of a browser that calls nobody.
LEMMA QuietStepInv ==
    ASSUME SlotsInv, ClientTypeOK, ClientInv, NEW b \in Browsers, Quiet(b)
    PROVE  ClientInv'
<1> USE DEF ClientTypeOK, FunctionOn
<1>0. UNCHANGED vars
  BY QuietUnseen
<1>1. ASSUME NEW to \in Pages, Navigate(b, to) PROVE ClientInv'
  BY <1>0, <1>1, QuietInv DEF Navigate
<1>2. ASSUME NEW at \in Pages, Open(b, at) PROVE ClientInv'
  <2>1. \A x \in Browsers : listed'[x] \subseteq listed[x]
    BY <1>2 DEF Open
  <2>2. \A x \in Browsers : receipt'[x] \in {receipt[x], NoReceipt}
    BY <1>2 DEF Open
  <2>3. \A x \in Requests : call'[x] \in {call[x], NoCall}
    BY <1>2 DEF Open
  <2> QED BY <1>0, <2>1, <2>2, <2>3, QuietInv
<1>3. CASE UpdateField(b)
  BY <1>0, <1>3, QuietInv DEF UpdateField
<1>4. ASSUME NEW r \in Requests, OrderAnswer(b, r) PROVE ClientInv'
  BY <1>4, OrderAnswerInv
<1>5. ASSUME NEW r \in Requests, Done(r), UNCHANGED <<listed, receipt>>
      PROVE  ClientInv'
  <2>1. \A x \in Requests : call'[x] \in {call[x], NoCall}
    BY <1>5 DEF Done
  <2> QED BY <1>0, <1>5, <2>1, QuietInv
<1>6. ASSUME NEW r \in Requests, CartAnswer(b, r) PROVE ClientInv'
  BY <1>5, <1>6 DEF CartAnswer
<1>7. ASSUME NEW r \in Requests, NEW ok, ProductsAnswer(b, r, ok)
      PROVE  ClientInv'
  BY <1>5, <1>7 DEF ProductsAnswer
<1>8. ASSUME NEW r \in Requests, FailedAnswer(b, r) PROVE ClientInv'
  BY <1>5, <1>8 DEF FailedAnswer, browserVars
<1> QED BY <1>1, <1>2, <1>3, <1>4, <1>6, <1>7, <1>8 DEF Quiet, Answers, Loses

\* The request of a call, and what the answer will be used for.
LEMMA CallSent ==
    ASSUME TypeOK, ClientTypeOK, NEW b \in Browsers, NEW r \in Requests,
           Effects(b, r) \/ Clicks(b, r)
    PROVE  \E op \in AllOps : \E p, q, n :
              /\ Receive(r, op, p, q, n)
              /\ op = "addItem" => p \in Products
              /\ op \in {"addItem", "putItem"} => q > 0
              /\ \E total : call' = [call EXCEPT ![r] =
                       [kind |-> op, pid |-> p, qty |-> q, total |-> total]]
              /\ UNCHANGED <<listed, receipt>>
<1> DEFINE Sent == \E op \in AllOps : \E p, q, n :
              /\ Receive(r, op, p, q, n)
              /\ op = "addItem" => p \in Products
              /\ op \in {"addItem", "putItem"} => q > 0
              /\ \E total : call' = [call EXCEPT ![r] =
                       [kind |-> op, pid |-> p, qty |-> q, total |-> total]]
              /\ UNCHANGED <<listed, receipt>>
<1>0. ASSUME NEW op \in AllOps, NEW p, NEW q, NEW n, NEW total,
             Receive(r, op, p, q, n), Call(b, r, op, p, q, total),
             op = "addItem" => p \in Products,
             op \in {"addItem", "putItem"} => q > 0
      PROVE  Sent
  BY <1>0 DEF Call
<1> SUFFICES Sent
  OBVIOUS
<1> HIDE DEF Sent
<1> USE DEF AllOps
<1>1. CASE LoadProducts(b, r)
  BY <1>0, <1>1 DEF LoadProducts, ReceiveListProducts
<1>2. CASE LoadCart(b, r)
  BY <1>0, <1>2 DEF LoadCart, ReceiveGetCart
<1>3. ASSUME NEW p \in Products, ClickAdd(b, r, p) PROVE Sent
  BY <1>0, <1>3 DEF ClickAdd, ReceiveAdd
<1>4. ASSUME NEW p \in Products, NEW q \in 1..MaxShown,
             ClickQuantity(b, r, p, q)
      PROVE  Sent
  BY <1>0, <1>4 DEF ClickQuantity, ReceivePut
<1>5. ASSUME NEW p \in Products, ClickRemove(b, r, p) PROVE Sent
  BY <1>0, <1>5 DEF ClickRemove, ReceiveRemove
<1>6. CASE ClickClear(b, r)
  BY <1>0, <1>6 DEF ClickClear, ReceiveClear
<1>7. CASE Submit(b, r)
  BY <1>0, <1>7 DEF Submit, ReceiveCreate
<1> QED BY <1>1, <1>2, <1>3, <1>4, <1>5, <1>6, <1>7 DEF Effects, Clicks

\* A call keeps lists and receipts as they are, and waits for no order yet.
LEMMA CallInv ==
    ASSUME IInv, SlotsInv, ClientTypeOK, ClientInv, NEW b \in Browsers,
           NEW r \in Requests, Effects(b, r) \/ Clicks(b, r)
    PROVE  ClientInv'
<1>1. PICK op, p, q, n :
         /\ op \in AllOps
         /\ Receive(r, op, p, q, n)
         /\ op = "addItem" => p \in Products
         /\ op \in {"addItem", "putItem"} => q > 0
         /\ \E total : call' = [call EXCEPT ![r] =
                  [kind |-> op, pid |-> p, qty |-> q, total |-> total]]
         /\ UNCHANGED <<listed, receipt>>
  BY CallSent DEF IInv
<1>2. PICK total :
         call' = [call EXCEPT ![r] =
                     [kind |-> op, pid |-> p, qty |-> q, total |-> total]]
  BY <1>1
<1>3. /\ call'[r] = [kind |-> op, pid |-> p, qty |-> q, total |-> total]
      /\ \A x \in Requests : x # r => call'[x] = call[x]
  BY <1>2 DEF ClientTypeOK, FunctionOn
<1>4. /\ pc'[r] = FirstStatement[op] /\ input'[r].op = op /\ reply'[r] = 0
      /\ UNCHANGED orders
  BY <1>1 DEF Receive, IInv, TypeOK
<1>5. \A x \in Requests : x # r => SlotKept(x) /\ Claims(x)' = Claims(x)
  BY CallsArrive, OneSlot, KeptClaims DEF IInv
<1>6. Claims(r)' = {}
  BY <1>1, <1>4, Begins DEF Claims, Writing
<1>7. ReceiptNamesOrder'
  BY <1>1, <1>4 DEF ReceiptNamesOrder, ClientInv
<1>8. ASSUME NEW x \in Requests PROVE CallOK(x)'
  <2>1. CASE x = r
    BY <1>1, <1>3, <1>4, <2>1 DEF CallOK
  <2>2. CASE x # r
    BY <1>3, <1>5, <2>2 DEF CallOK, ClientInv, SlotKept
  <2> QED BY <2>1, <2>2
<1>9. ASSUME NEW x \in Browsers PROVE ListOK(x)'
  BY <1>1, <1>3, <1>4, <1>5, <1>6 DEF ListOK, ClientInv
<1>10. CartsPositive'
  BY <1>1, ArrivesPositive DEF IInv, ClientInv
<1> QED BY <1>7, <1>8, <1>9, <1>10 DEF ClientInv

\* A step of the server.
LEMMA ServerInv ==
    ASSUME IInv, SlotsInv, ClientTypeOK, ClientInv, NEW r \in Requests,
           ServerHandles(r) \/ ServerFails(r)
    PROVE  ClientInv'
<1>1. /\ Handle(r) \/ Fail(r)
      /\ UNCHANGED <<listed, receipt, call>>
  BY DEF ServerHandles, ServerFails, browserVars, clientVars
<1>2. Grows
  BY <1>1, OrdersGrow
<1>3. ReceiptNamesOrder'
  BY <1>1, <1>2 DEF ReceiptNamesOrder, ClientInv, Grows, Complete
<1>4. \A x \in Requests : x # r => SlotKept(x) /\ Claims(x)' = Claims(x)
  BY <1>1, OneSlot, KeptClaims DEF IInv
<1>5. ASSUME NEW x \in Requests PROVE CallOK(x)'
  <2>1. CASE x = r
    <3>1. pc[r] # "idle" /\ (pc'[r] # "idle" => input'[r] = input[r])
      BY <1>1, KeepsInput DEF IInv
    <3>2. input[r].op = "createOrder" => reply'[r] # 200
      BY <1>1, NoPlainAnswer DEF SlotsInv
    <3> QED BY <1>1, <2>1, <3>1, <3>2 DEF CallOK, ClientInv
  <2>2. CASE x # r
    BY <1>1, <1>4, <2>2 DEF CallOK, ClientInv, SlotKept
  <2> QED BY <2>1, <2>2
<1>6. ASSUME NEW b \in Browsers PROVE ListOK(b)'
  <2>1. listed[b] \subseteq DOMAIN orders
    BY DEF ClientInv, ListOK
  <2>2. listed'[b] \subseteq DOMAIN orders'
    BY <1>1, <1>2, <2>1 DEF Grows
  <2>3. Claims(r)' \subseteq Claims(r) \/ Claims(r)' \cap DOMAIN orders = {}
    BY <1>1, InsertedClaims, OldClaims DEF SlotsInv
  <2>4. ASSUME NEW x \in Requests, call[x].kind = "createOrder"
        PROVE  Claims(x)' \cap listed[b] = {}
    <3>1. Claims(x) \cap listed[b] = {}
      BY <2>4 DEF ClientInv, ListOK
    <3> QED BY <1>4, <2>1, <2>3, <3>1
  <2> QED BY <1>1, <2>2, <2>4 DEF ListOK
<1>7. CartsPositive'
  BY <1>1, ServesPositive DEF ClientInv
<1> QED BY <1>3, <1>5, <1>6, <1>7 DEF ClientInv

\* Every step.
LEMMA NextClient ==
    IInv /\ SlotsInv /\ ClientTypeOK /\ ClientInv /\ [ClientNext]_allVars
       => (ClientTypeOK /\ ClientInv)'
<1> SUFFICES ASSUME IInv, SlotsInv, ClientTypeOK, ClientInv,
                    [ClientNext]_allVars
             PROVE  (ClientTypeOK /\ ClientInv)'
  OBVIOUS
<1>1. CASE UNCHANGED allVars
  <2>1. ClientTypeOK'
    BY <1>1 DEF allVars, clientVars, browserVars, ClientTypeOK, FunctionOn
  <2>2. ClientInv'
    BY <1>1, QuietInv DEF allVars, clientVars, browserVars
  <2> QED BY <2>1, <2>2
<1>2. ASSUME NEW b \in Browsers, BrowserStep(b)
      PROVE  (ClientTypeOK /\ ClientInv)'
  <2>1. CASE Quiet(b)
    <3>1. ClientInv'
      BY <2>1, QuietStepInv
    <3>2. ClientTypeOK'
      BY <2>1, PageTypes, AnswersTypes DEF Quiet, ClientInv
    <3> QED BY <3>1, <3>2
  <2>2. CASE \E r \in Requests : Effects(b, r) \/ Clicks(b, r)
    BY <2>2, CallsTypes, CallInv
  <2> QED BY <1>2, <2>1, <2>2 DEF BrowserStep, Quiet
<1>3. ASSUME NEW r \in Requests, ServerHandles(r) \/ ServerFails(r)
      PROVE  (ClientTypeOK /\ ClientInv)'
  BY <1>3, ServerTypes, ServerInv DEF ClientInv
<1> QED BY <1>1, <1>2, <1>3 DEF ClientNext

LEMMA ClientInvariant == ClientSpec => [](ClientTypeOK /\ ClientInv)
<1>1. ClientInit => ClientTypeOK /\ ClientInv
  BY InitClientTypes, InitClientInv
<1> QED BY <1>1, NextClient, ServerInvariant, PTL DEF ClientSpec

\* A browser shows carts of positive quantities, whatever the order of the
\* answers (AppContext.tsx:26-49) and although the server would store others.
THEOREM BrowsersTyped == ClientSpec => []ClientTypeOK
BY ClientInvariant, PTL

\* Nor does the server come to store another quantity for a cart that only the
\* shipped client uses (ProductsPage.tsx:13, ShoppingCart.tsx:55).
THEOREM StoredPositive ==
    ClientSpec => [](\A s \in Sessions : PositiveLines(cart[s]))
<1>1. ClientInv => \A s \in Sessions : PositiveLines(cart[s])
  BY DEF ClientInv, CartsPositive
<1> QED BY <1>1, ClientInvariant, PTL

\* The order that the success page names is in the database, complete
\* (CheckoutPage.tsx:28).
THEOREM ReceiptsTrue == ClientSpec => []ReceiptNamesOrder
<1>1. ClientInv => ReceiptNamesOrder
  BY DEF ClientInv
<1> QED BY <1>1, ClientInvariant, PTL

\* Two submits, of one browser or of two, are never answered with one order,
\* nor with one that a browser lists already (server.js:379).
THEOREM EachConfirmedOnce == ClientSpec => []ConfirmedOnce
<1>1. SlotsInv /\ ClientInv => ConfirmedOnce
  <2> SUFFICES ASSUME SlotsInv, ClientInv, NEW r1 \in Requests,
                      NEW r2 \in Requests,
                      call[r1].kind = "createOrder", reply[r1] = 201
               PROVE  /\ AnsweredOrder(r1) \notin listed[BrowserOf[r1]]
                      /\ (/\ r1 # r2 /\ call[r2].kind = "createOrder"
                          /\ reply[r2] = 201) =>
                            AnsweredOrder(r1) # AnsweredOrder(r2)
    BY DEF ConfirmedOnce
  <2>1. BrowserOf[r1] \in Browsers
    BY BrowserAssumption
  <2>2. Claims(r1) = {AnsweredOrder(r1)}
    BY AnsweredOrderThere
  <2>3. AnsweredOrder(r1) \notin listed[BrowserOf[r1]]
    BY <2>1, <2>2 DEF ClientInv, ListOK
  <2>4. ASSUME r1 # r2, reply[r2] = 201
        PROVE  AnsweredOrder(r1) # AnsweredOrder(r2)
    BY <2>2, <2>4, AnsweredOrderThere DEF SlotsInv, OwnOrders
  <2> QED BY <2>3, <2>4
<1> QED BY <1>1, ClientInvariant, ServerInvariant, PTL

-----------------------------------------------------------------------------
(* Reading the cart.                                                       *)

\* A read of b has failed, or was lost.
ReadEnds(b) == \E r \in Slots(b) : /\ call[r].kind = "getCart"
                                   /\ call'[r] = NoCall
                                   /\ shown' = shown

\* A step of another browser leaves the reading of b alone.
LEMMA OthersRead ==
    ASSUME ClientTypeOK, NEW b \in Browsers, NEW x \in Browsers, b # x,
           BrowserStep(x), Reading(b)
    PROVE  Reading(b)'
<1> USE DEF ClientTypeOK, FunctionOn
<1>1. due'[b] = due[b]
  BY DEF BrowserStep, Navigate, Show, Open, UpdateField, Effects, LoadProducts,
         LoadCart, Rendered, Clicks, ClickAdd, ClickQuantity, ClickRemove,
         ClickClear, Submit, Answers, Loses, CartAnswer, OrderAnswer,
         ProductsAnswer, FailedAnswer, browserVars
<1>2. ASSUME NEW r \in Slots(b) PROVE call'[r] = call[r]
  <2>1. r \in Requests /\ r \notin Slots(x)
    BY <1>2 DEF Slots
  <2>2. CASE \/ \E to \in Pages : Navigate(x, to)
             \/ \E at \in Pages : Open(x, at)
             \/ UpdateField(x)
    BY <2>1, <2>2 DEF Navigate, Open, UpdateField
  <2>3. ASSUME NEW y \in Requests, Effects(x, y) \/ Clicks(x, y)
        PROVE  call'[r] = call[r]
    BY <2>1, <2>3 DEF Effects, Clicks, LoadProducts, LoadCart, ClickAdd,
                      ClickQuantity, ClickRemove, ClickClear, Submit, Call
  <2>4. ASSUME NEW y \in Requests, Answers(x, y) \/ Loses(x, y)
        PROVE  call'[r] = call[r]
    BY <2>1, <2>4 DEF Answers, Loses, CartAnswer, OrderAnswer, ProductsAnswer,
                      FailedAnswer, Done
  <2> QED BY <2>2, <2>3, <2>4 DEF BrowserStep
<1>3. Slots(b)' = Slots(b)
  BY DEF Slots
<1> QED BY <1>1, <1>2, <1>3 DEF Reading

\* A step of the browser itself.
LEMMA OwnRead ==
    ASSUME ClientTypeOK, NEW b \in Browsers, BrowserStep(b), Reading(b),
           page[b] = "cart", page'[b] = "cart"
    PROVE  Reading(b)' \/ ReadEnds(b)
<1> USE DEF ClientTypeOK, FunctionOn
<1>1. ASSUME due'[b] PROVE Reading(b)'
  BY <1>1 DEF Reading
<1>2. ASSUME due'[b] = due[b], NEW r \in Requests, call[r] = NoCall,
             NEW c, call' = [call EXCEPT ![r] = c]
      PROVE  Reading(b)'
  BY <1>2 DEF Reading, Slots, NoCall
<1>3. ASSUME NEW to \in Pages, Navigate(b, to) PROVE FALSE
  BY <1>3 DEF Navigate, Show
<1>4. ASSUME NEW at \in Pages, Open(b, at) PROVE Reading(b)'
  BY <1>1, <1>4 DEF Open
<1>5. CASE UpdateField(b)
  BY <1>5 DEF UpdateField, Reading, Slots
<1>6. ASSUME NEW r \in Requests, LoadProducts(b, r) PROVE Reading(b)'
  BY <1>1, <1>6 DEF LoadProducts, Rendered
<1>7. ASSUME NEW r \in Requests, LoadCart(b, r) PROVE Reading(b)'
  <2>1. r \in Slots(b) /\ call'[r].kind = "getCart"
    BY <1>7 DEF LoadCart, Call
  <2> QED BY <2>1 DEF Reading, Slots
<1>8. ASSUME NEW r \in Requests, Clicks(b, r) PROVE Reading(b)'
  BY <1>2, <1>8 DEF Clicks, ClickAdd, ClickQuantity, ClickRemove, ClickClear,
                    Submit, Call
<1>9. ASSUME NEW r \in Requests,
             CartAnswer(b, r) \/ \E ok : ProductsAnswer(b, r, ok)
      PROVE  Reading(b)'
  BY <1>1, <1>9 DEF CartAnswer, ProductsAnswer, Rendered
<1>10. ASSUME NEW r \in Requests, OrderAnswer(b, r) PROVE FALSE
  BY <1>10 DEF OrderAnswer, Show
<1>11. ASSUME NEW r \in Requests, FailedAnswer(b, r)
       PROVE  Reading(b)' \/ ReadEnds(b)
  <2>1. /\ r \in Slots(b) /\ due' = due /\ shown' = shown
        /\ call' = [call EXCEPT ![r] = NoCall]
    BY <1>11 DEF FailedAnswer, Done, browserVars
  <2>2. CASE call[r].kind = "getCart"
    <3>1. call'[r] = NoCall
      BY <2>1 DEF Slots
    <3> QED BY <2>1, <2>2, <3>1 DEF ReadEnds
  <2>3. CASE call[r].kind # "getCart"
    BY <2>1, <2>3 DEF Reading, Slots
  <2> QED BY <2>2, <2>3
<1> QED BY <1>3, <1>4, <1>5, <1>6, <1>7, <1>8, <1>9, <1>10, <1>11
        DEF BrowserStep, Effects, Answers, Loses

\* The cart page goes on reading until it is left or a read fails, whatever
\* else is answered or done meanwhile (CartPage.tsx:11-13).
THEOREM ReadingGoesOn == ClientSpec => ReadsGoOn
<1>1. ASSUME ClientTypeOK, ClientNext, NEW b \in Browsers,
             page[b] = "cart", Reading(b), page'[b] = "cart"
      PROVE  Reading(b)' \/ ReadEnds(b)
  <2>1. CASE \E x \in Browsers : BrowserStep(x)
    BY <1>1, <2>1, OthersRead, OwnRead
  <2>2. CASE \E r \in Requests : ServerHandles(r) \/ ServerFails(r)
    BY <1>1, <2>2 DEF ServerHandles, ServerFails, clientVars, browserVars,
                      Reading, Slots
  <2> QED BY <1>1, <2>1, <2>2 DEF ClientNext
<1>2. ClientTypeOK /\ [ClientNext]_allVars =>
         [\A b \in Browsers :
            page[b] = "cart" /\ Reading(b) /\ page'[b] = "cart" =>
               \/ Reading(b)'
               \/ \E r \in Slots(b) : /\ call[r].kind = "getCart"
                                      /\ call'[r] = NoCall
                                      /\ shown' = shown]_allVars
  BY <1>1 DEF ReadEnds
<1> QED BY <1>2, ClientInvariant, PTL DEF ClientSpec, ReadsGoOn
=============================================================================
