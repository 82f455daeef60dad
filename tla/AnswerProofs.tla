---------------------------- MODULE AnswerProofs ----------------------------
(***************************************************************************)
(* Theorems about the answers of the shop server, and about its carts, for *)
(* any number of requests, sessions and products, with every kind of       *)
(* failure.                                                                *)
(***************************************************************************)
EXTENDS ShopProofs

-----------------------------------------------------------------------------
(* Orders only grow.                                                       *)

\* What a step may do to the orders that are there.
Grows == \A n \in DOMAIN orders :
            /\ n \in DOMAIN orders'
            /\ orders'[n].total = orders[n].total
            /\ orders'[n].basis = orders[n].basis
            /\ SubLines(orders[n].items, orders'[n].items)
            /\ Complete(orders[n]) => orders'[n] = orders[n]

\* A step leaves every order that is there, and its lines, and adds nothing
\* to a complete one.
LEMMA OrdersGrow ==
    ASSUME IInv, NEW r \in Requests, Arrive(r) \/ Handle(r) \/ Fail(r)
    PROVE  Grows
<1>1. CASE InsertItem(r)
  <2> DEFINE n == oid[r]
  <2>1. PICK p \in todo[r] :
           /\ n \in DOMAIN orders
           /\ p \in DOMAIN rows[r] \ DOMAIN orders[n].items
           /\ orders[n].basis = rows[r]
           /\ orders' = [orders EXCEPT ![n].items = WithRow(@, p, rows[r][p])]
    BY <1>1, InsertItemEffect
  <2>2. OrderShape(orders[n]) /\ ~Complete(orders[n])
    BY <2>1 DEF IInv, TypeOK, Complete
  <2>3. DOMAIN orders' = DOMAIN orders
        /\ \A m \in DOMAIN orders : m # n => orders'[m] = orders[m]
    BY <2>1
  <2>4. orders'[n] = [orders[n] EXCEPT !.items =
                         WithRow(orders[n].items, p, rows[r][p])]
    BY <2>1
  <2>5. /\ orders'[n].items = WithRow(orders[n].items, p, rows[r][p])
        /\ orders'[n].basis = orders[n].basis
        /\ orders'[n].total = orders[n].total
    BY <2>2, <2>4, WithItems
  <2>6. SubLines(orders[n].items, orders'[n].items)
    BY <2>1, <2>5 DEF SubLines, WithRow
  <2> QED BY <2>2, <2>3, <2>5, <2>6 DEF Grows, SubLines
<1>2. CASE InsertOrder(r) /\ ~IdTaken(r)
  <2>1. \A n \in DOMAIN orders : n \in DOMAIN orders' /\ orders'[n] = orders[n]
    BY <1>2 DEF InsertOrder, IdTaken
  <2> QED BY <2>1 DEF Grows, SubLines
<1>3. CASE UNCHANGED orders
  BY <1>3 DEF Grows, SubLines
<1> QED BY <1>1, <1>2, <1>3, OtherStepsKeepOrders

-----------------------------------------------------------------------------
(* A step changes one slot.                                                *)

\* The slot of x is as it was.
SlotKept(x) == /\ pc'[x] = pc[x] /\ input'[x] = input[x] /\ rows'[x] = rows[x]
               /\ todo'[x] = todo[x] /\ oid'[x] = oid[x] /\ view'[x] = view[x]
               /\ unread'[x] = unread[x] /\ reply'[x] = reply[x]

\* An arrival, a statement or a failure of r changes no other slot.
LEMMA OneSlot ==
    ASSUME TypeOK, NEW r \in Requests, Arrive(r) \/ Handle(r) \/ Fail(r),
           NEW x \in Requests, x # r
    PROVE  SlotKept(x)
<1> USE DEF TypeOK, FunctionOn, SlotKept
<1>1. CASE Arrive(r)
  BY <1>1 DEF Arrive, ReceiveAdd, ReceivePut, ReceiveRemove, ReceiveClear,
              ReceiveGetCart, ReceiveCreate, ReceiveGetOrder,
              ReceiveListOrders, ReceiveListProducts, ReceiveGetProduct,
              Receive
<1>2. CASE SelectProduct(r) \/ SelectExisting(r) \/ UpdateRow(r) \/ InsertRow(r)
  BY <1>2 DEF SelectProduct, SelectExisting, UpdateRow, InsertRow, Goto,
              Answer, Forget, locals
<1>3. CASE PutRow(r) \/ RemoveRow(r) \/ ClearCart(r) \/ SelectCart(r)
  BY <1>3 DEF PutRow, RemoveRow, ClearCart, SelectCart, Goto, Answer, Forget
<1>4. CASE SelectOrderRows(r) \/ CountOrders(r) \/ InsertOrder(r)
  BY <1>4 DEF SelectOrderRows, CountOrders, InsertOrder, Goto, Answer, Forget
<1>5. CASE InsertItem(r) \/ ClearOrdered(r)
  BY <1>5 DEF InsertItem, ClearOrdered, Goto
<1>6. CASE FetchOrder(r) \/ SelectOrder(r) \/ SelectOrders(r)
  BY <1>6 DEF FetchOrder, SelectOrder, SelectOrders, ReadHeaders, Goto,
              Answer, Forget
<1>7. CASE SelectItems(r) \/ SelectProducts(r) \/ SelectById(r)
  BY <1>7 DEF SelectItems, SelectProducts, SelectById, Answer, Forget
<1>8. CASE Fail(r)
  BY <1>8 DEF Fail, QueryFails, ProcessDies, ProxyRetries, Answer, Forget
<1> QED BY <1>1, <1>2, <1>3, <1>4, <1>5, <1>6, <1>7, <1>8 DEF Handle

-----------------------------------------------------------------------------
(* Answers, slot by slot.                                                  *)

\* The part of ViewsSound about r.
ViewSound(r) ==
    \A n \in DOMAIN view[r] :
        /\ n \in DOMAIN orders
        /\ view[r][n].total = orders[n].total
        /\ SubLines(view[r][n].items, orders[n].items)

\* A 201 names one order, which is complete, and holds all its lines.
CreatedTrue(r) ==
    reply[r] = 201 =>
        \E n \in DOMAIN orders :
            /\ DOMAIN view[r] = {n}
            /\ Complete(orders[n])
            /\ view[r][n].items = orders[n].items

SlotOK(r) == HandOK(r) /\ ViewSound(r) /\ CreatedTrue(r)

SlotsInv == OwnOrders /\ \A r \in Requests : SlotOK(r)

\* Lines that are lines of an order stay so.
LEMMA SubLinesTransitive ==
    ASSUME NEW a, NEW b, NEW c, SubLines(a, b), SubLines(b, c)
    PROVE  SubLines(a, c)
BY DEF SubLines

\* What is seen stays true while orders grow.
LEMMA ViewKept ==
    ASSUME NEW r, ViewSound(r), Grows, view'[r] = view[r]
    PROVE  ViewSound(r)'
<1> SUFFICES ASSUME NEW n \in DOMAIN view[r]
             PROVE  /\ n \in DOMAIN orders'
                    /\ view[r][n].total = orders'[n].total
                    /\ SubLines(view[r][n].items, orders'[n].items)
  BY DEF ViewSound
<1>1. /\ n \in DOMAIN orders
      /\ view[r][n].total = orders[n].total
      /\ SubLines(view[r][n].items, orders[n].items)
  BY DEF ViewSound
<1>2. /\ n \in DOMAIN orders'
      /\ orders'[n].total = orders[n].total
      /\ SubLines(orders[n].items, orders'[n].items)
  BY <1>1 DEF Grows
<1> QED BY <1>1, <1>2, SubLinesTransitive

\* A slot that is left alone stays as it should be.
LEMMA KeptSlotOK ==
    ASSUME NEW x, SlotOK(x), Grows, SlotKept(x)
    PROVE  SlotOK(x)'
<1>1. ViewSound(x)'
  BY ViewKept DEF SlotOK, SlotKept
<1>2. HandOK(x)'
  BY DEF SlotOK, HandOK, SlotKept, FunctionOn
<1>3. CreatedTrue(x)'
  BY DEF SlotOK, CreatedTrue, SlotKept, Grows, Complete
<1> QED BY <1>1, <1>2, <1>3 DEF SlotOK

\* A handler that goes on to a statement other than the reading of items.
LEMMA MovedSlotOK ==
    ASSUME NEW r, SlotOK(r), Grows,
           view'[r] = view[r], unread'[r] = unread[r], reply'[r] = reply[r],
           pc[r] \notin {"idle", "selectItems"}, pc'[r] # "selectItems"
    PROVE  SlotOK(r)'
<1>1. ViewSound(r)'
  BY ViewKept DEF SlotOK
<1>2. HandOK(r)'
  BY DEF SlotOK, HandOK, FunctionOn
<1>3. CreatedTrue(r)'
  BY DEF SlotOK, HandOK, CreatedTrue
<1> QED BY <1>1, <1>2, <1>3 DEF SlotOK

\* A slot that has nothing in hand.
LEMMA EmptySlotOK ==
    ASSUME NEW r, view'[r] = NoOrders, unread'[r] = {}, reply'[r] # 201,
           pc'[r] # "selectItems", pc'[r] # "idle" => reply'[r] = 0
    PROVE  SlotOK(r)'
BY DEF SlotOK, HandOK, ViewSound, CreatedTrue, NoOrders, FunctionOn

\* The handler has read headers of orders that are there.
LEMMA HeadersSlotOK ==
    ASSUME TypeOK, NEW r \in Requests, SlotOK(r), NEW ids, ids \subseteq DOMAIN orders,
           UNCHANGED orders, ReadHeaders(r, ids), pc[r] # "idle",
           input[r].op = "createOrder" => ids = {oid[r]}
    PROVE  SlotOK(r)'
<1>1. /\ view'[r] = Headers(ids) /\ unread'[r] = ids /\ pc'[r] = "selectItems"
      /\ input'[r] = input[r] /\ oid'[r] = oid[r] /\ reply'[r] = reply[r]
  BY DEF ReadHeaders, Goto, TypeOK, FunctionOn
<1>2. reply[r] = 0
  BY DEF SlotOK, HandOK
<1>3. HandOK(r)'
  BY <1>1, <1>2 DEF HandOK, Headers, FunctionOn
<1>4. ViewSound(r)'
  BY <1>1 DEF ViewSound, Headers, SubLines, NoLines
<1>5. CreatedTrue(r)'
  BY <1>1, <1>2 DEF CreatedTrue
<1> QED BY <1>3, <1>4, <1>5 DEF SlotOK

\* The handler has read the items of one more order.
LEMMA ItemsSlotOK ==
    ASSUME IInv, NEW r \in Requests, SlotOK(r), SelectItems(r)
    PROVE  SlotOK(r)'
<1>1. PICK n \in unread[r] :
         LET read == [view[r] EXCEPT ![n].items = ItemsOf(n)]
         IN  \/ /\ unread[r] = {n}
                /\ Answer(r, SuccessCode(input[r].op), read)
             \/ /\ unread[r] # {n}
                /\ view' = [view EXCEPT ![r] = read]
                /\ unread' = [unread EXCEPT ![r] = @ \ {n}]
                /\ UNCHANGED <<pc, input, reply, rows, todo, oid>>
  BY DEF SelectItems
<1> DEFINE read == [view[r] EXCEPT ![n].items = ItemsOf(n)]
<1>2. /\ pc[r] = "selectItems" /\ UNCHANGED orders /\ reply[r] = 0
      /\ n \in DOMAIN view[r] /\ n \in DOMAIN orders
      /\ view[r] = [m \in DOMAIN view[r] |-> view[r][m]]
  BY DEF SelectItems, SlotOK, HandOK, ViewSound, FunctionOn
<1>3. /\ DOMAIN read = DOMAIN view[r]
      /\ \A m \in DOMAIN view[r] : m # n => read[m] = view[r][m]
      /\ read[n] = [view[r][n] EXCEPT !.items = orders[n].items]
      /\ read = [m \in DOMAIN read |-> read[m]]
  BY <1>2 DEF ItemsOf
<1>4. read[n] = [total |-> view[r][n].total, items |-> orders[n].items]
  <2>1. view[r][n] = [total |-> view[r][n].total, items |-> view[r][n].items]
    BY <1>2 DEF SlotOK, HandOK
  <2> QED BY <2>1, <1>3
<1> HIDE DEF read
<1>5. view'[r] = read
  BY <1>1 DEF Answer, Forget, IInv, TypeOK, FunctionOn, read
<1>6. ViewSound(r)'
  BY <1>2, <1>3, <1>4, <1>5 DEF SlotOK, ViewSound, SubLines
<1>7. \A m \in DOMAIN read :
         read[m] = [total |-> read[m].total, items |-> read[m].items]
  BY <1>3, <1>4 DEF SlotOK, HandOK
<1>8. CASE unread[r] = {n} /\ Answer(r, SuccessCode(input[r].op), read)
  <2>1. /\ pc'[r] = "idle" /\ unread'[r] = {}
        /\ reply'[r] = SuccessCode(input[r].op)
    BY <1>8 DEF Answer, Forget, IInv, TypeOK
  <2>2. HandOK(r)'
    BY <1>3, <1>5, <1>7, <2>1 DEF HandOK, FunctionOn
  <2>3. CASE input[r].op = "createOrder"
    <3>1. Writing(r) /\ DOMAIN view[r] = {oid[r]} /\ n = oid[r]
      BY <1>2, <2>3 DEF Writing, SlotOK, HandOK
    <3>2. /\ orders[n].basis = rows[r]
          /\ orders[n].items = Restrict(rows[r], DOMAIN rows[r])
          /\ IsLines(rows[r])
      BY <1>2, <3>1 DEF IInv, ShopInv, TypeOK, WriterOK
    <3>3. Complete(orders[n])
      BY <3>2 DEF Complete, Restrict, IsLines
    <3> QED BY <1>2, <1>3, <1>4, <1>5, <1>6, <2>2, <3>1, <3>3
            DEF CreatedTrue, SlotOK
  <2>4. CASE input[r].op # "createOrder"
    <3>1. reply'[r] = 200
      BY <2>1, <2>4 DEF SuccessCode
    <3> QED BY <1>6, <2>2, <3>1 DEF CreatedTrue, SlotOK
  <2> QED BY <2>3, <2>4
<1>9. CASE /\ view' = [view EXCEPT ![r] = read]
           /\ unread' = [unread EXCEPT ![r] = @ \ {n}]
           /\ UNCHANGED <<pc, input, reply, rows, todo, oid>>
  <2>1. unread'[r] \subseteq unread[r]
    BY <1>9 DEF IInv, TypeOK
  <2>2. HandOK(r)'
    BY <1>2, <1>3, <1>5, <1>7, <1>9, <2>1 DEF SlotOK, HandOK, FunctionOn
  <2>3. CreatedTrue(r)'
    BY <1>2, <1>9 DEF CreatedTrue
  <2> QED BY <1>6, <2>2, <2>3 DEF SlotOK
<1> QED BY <1>1, <1>8, <1>9 DEF read

\* A handler that answers without a body, or an answer of an error.
LEMMA BareAnswer ==
    ASSUME TypeOK, NEW r \in Requests, NEW code, code # 201,
           Answer(r, code, NoOrders)
    PROVE  SlotOK(r)'
<1>1. /\ view'[r] = NoOrders /\ unread'[r] = {} /\ reply'[r] # 201
      /\ pc'[r] = "idle"
  BY DEF Answer, Forget, TypeOK, FunctionOn
<1> QED BY <1>1, EmptySlotOK

\* A request that arrives has nothing in hand.
LEMMA ArriveSlotOK ==
    ASSUME IInv, NEW r \in Requests, SlotOK(r), Arrive(r)
    PROVE  SlotOK(r)'
<1>1. \E op, p, q, n : op \in AllOps /\ Receive(r, op, p, q, n)
  BY DEF Arrive, ReceiveAdd, ReceivePut, ReceiveRemove, ReceiveClear,
         ReceiveGetCart, ReceiveCreate, ReceiveGetOrder, ReceiveListOrders,
         ReceiveListProducts, ReceiveGetProduct, AllOps
<1>2. PICK op, p, q, n : op \in AllOps /\ Receive(r, op, p, q, n)
  BY <1>1
<1>3. /\ view'[r] = NoOrders /\ reply'[r] = 0 /\ unread'[r] = unread[r]
      /\ pc[r] = "idle" /\ pc'[r] = FirstStatement[op]
  BY <1>2 DEF Receive, IInv, TypeOK, FunctionOn
<1>4. unread[r] = {} /\ FirstStatement[op] # "selectItems"
  BY <1>2, <1>3, Begins DEF SlotOK, HandOK
<1> QED BY <1>3, <1>4, EmptySlotOK

\* A failure leaves nothing in hand.
LEMMA FailSlotOK ==
    ASSUME IInv, NEW r \in Requests, SlotOK(r), Fail(r)
    PROVE  SlotOK(r)'
<1>1. CASE QueryFails(r) \/ ProcessDies(r)
  <2>1. ErrorCode(input[r].op) # 201
    BY DEF ErrorCode
  <2> QED BY <1>1, <2>1, BareAnswer DEF IInv, QueryFails, ProcessDies
<1>2. CASE ProxyRetries(r)
  <2>1. input[r].op \in AllOps
    BY <1>2 DEF ProxyRetries, Idempotent
  <2>2. /\ view'[r] = NoOrders /\ unread'[r] = {} /\ reply'[r] = reply[r]
        /\ pc'[r] = FirstStatement[input[r].op] /\ pc[r] # "idle"
    BY <1>2 DEF ProxyRetries, Forget, IInv, TypeOK, FunctionOn
  <2>3. reply'[r] = 0 /\ pc'[r] # "selectItems"
    BY <2>1, <2>2, Begins DEF SlotOK, HandOK
  <2> QED BY <2>2, <2>3, EmptySlotOK
<1> QED BY <1>1, <1>2 DEF Fail

\* No statement of a handler leaves a wrong answer in hand.
LEMMA HandleSlotOK ==
    ASSUME IInv, NEW r \in Requests, SlotOK(r), Handle(r)
    PROVE  SlotOK(r)'
<1>0. Grows /\ TypeOK /\ StageOK(r)
  BY OrdersGrow DEF IInv, ShopInv
<1>1. ASSUME NEW label, label # "selectItems", Goto(r, label),
             pc[r] \notin {"idle", "selectItems"},
             UNCHANGED <<view, unread>>
      PROVE  SlotOK(r)'
  <2>1. /\ view'[r] = view[r] /\ unread'[r] = unread[r]
        /\ reply'[r] = reply[r] /\ pc'[r] = label
    BY <1>0, <1>1 DEF Goto, TypeOK
  <2> QED BY <1>0, <1>1, <2>1, MovedSlotOK
<1>2. CASE SelectProduct(r)
  BY <1>0, <1>1, <1>2, BareAnswer DEF SelectProduct, ProductFound, locals
<1>3. CASE SelectExisting(r)
  BY <1>1, <1>3 DEF SelectExisting
<1>4. CASE UpdateRow(r)
  BY <1>1, <1>4 DEF UpdateRow
<1>5. CASE InsertRow(r)
  BY <1>0, <1>1, <1>5, BareAnswer DEF InsertRow, locals
<1>6. CASE PutRow(r) \/ RemoveRow(r)
  BY <1>1, <1>6 DEF PutRow, RemoveRow
<1>7. CASE ClearCart(r) \/ SelectCart(r)
  BY <1>0, <1>7, BareAnswer DEF ClearCart, SelectCart
<1>8. CASE SelectOrderRows(r)
  BY <1>0, <1>1, <1>8, BareAnswer DEF SelectOrderRows
<1>9. CASE CountOrders(r)
  BY <1>1, <1>9 DEF CountOrders
<1>10. CASE InsertOrder(r)
  BY <1>0, <1>1, <1>10, BareAnswer DEF InsertOrder
<1>11. CASE InsertItem(r)
  <2>1. /\ view'[r] = view[r] /\ unread'[r] = unread[r] /\ pc'[r] = pc[r]
        /\ reply'[r] = reply[r] /\ pc[r] = "insertItems"
    BY <1>11 DEF InsertItem
  <2> QED BY <1>0, <2>1, MovedSlotOK
<1>12. CASE ClearOrdered(r)
  BY <1>1, <1>12 DEF ClearOrdered
<1>13. CASE FetchOrder(r)
  <2>1. pc[r] = "fetchOrder" /\ Writing(r) /\ oid[r] \in DOMAIN orders
    BY <1>13 DEF FetchOrder, Writing, IInv, ShopInv, WriterOK
  <2> QED BY <1>0, <1>13, <2>1, HeadersSlotOK DEF FetchOrder
<1>14. CASE SelectOrder(r)
  <2>1. pc[r] = "selectOrder" /\ input[r].op # "createOrder"
    BY <1>0, <1>14 DEF SelectOrder, StageOK
  <2>2. CASE input[r].order \in DOMAIN orders
    BY <1>0, <1>14, <2>1, <2>2, HeadersSlotOK DEF SelectOrder
  <2>3. CASE input[r].order \notin DOMAIN orders
    BY <1>0, <1>14, <2>3, BareAnswer DEF SelectOrder
  <2> QED BY <2>2, <2>3
<1>15. CASE SelectOrders(r)
  <2>1. pc[r] = "selectOrders" /\ input[r].op # "createOrder"
    BY <1>0, <1>15 DEF SelectOrders, StageOK
  <2>2. CASE DOMAIN orders # {}
    BY <1>0, <1>15, <2>1, <2>2, HeadersSlotOK DEF SelectOrders
  <2>3. CASE DOMAIN orders = {}
    BY <1>0, <1>15, <2>3, BareAnswer DEF SelectOrders
  <2> QED BY <2>2, <2>3
<1>16. CASE SelectItems(r)
  BY <1>16, ItemsSlotOK
<1>17. CASE SelectProducts(r) \/ SelectById(r)
  BY <1>0, <1>17, BareAnswer DEF SelectProducts, SelectById
<1> QED BY <1>2, <1>3, <1>4, <1>5, <1>6, <1>7, <1>8, <1>9, <1>10, <1>11, <1>12,
           <1>13, <1>14, <1>15, <1>16, <1>17 DEF Handle

-----------------------------------------------------------------------------
(* Who names which order.                                                  *)

\* What is written or answered with is there.
LEMMA ClaimsExist ==
    ASSUME IInv, NEW r \in Requests, SlotOK(r)
    PROVE  Claims(r) \subseteq DOMAIN orders
<1>1. WriterOK(r)
  BY DEF IInv, ShopInv
<1> QED BY <1>1 DEF Claims, WriterOK, SlotOK, CreatedTrue

\* A slot that is left alone names what it named.
LEMMA KeptClaims ==
    ASSUME NEW x, SlotKept(x)
    PROVE  Claims(x)' = Claims(x)
BY DEF SlotKept, Claims, Writing

\* An order that a handler inserts is new.
LEMMA InsertedClaims ==
    ASSUME IInv, NEW r \in Requests, InsertOrder(r), ~IdTaken(r)
    PROVE  Claims(r)' \cap DOMAIN orders = {}
<1>1. /\ pc' = [pc EXCEPT ![r] = "insertItems"] /\ oid' = oid
      /\ oid[r] \notin DOMAIN orders
  BY DEF InsertOrder, IdTaken, Goto
<1>2. pc'[r] = "insertItems" /\ oid'[r] = oid[r]
  BY <1>1 DEF IInv, TypeOK
<1>3. Claims(r)' = {oid[r]}
  BY <1>2 DEF Claims, Writing
<1> QED BY <1>1, <1>3

\* A step that inserts no order lets its handler name none but the one it
\* wrote.
LEMMA OldClaims ==
    ASSUME IInv, NEW r \in Requests, SlotOK(r),
           Arrive(r) \/ Handle(r) \/ Fail(r), ~(InsertOrder(r) /\ ~IdTaken(r))
    PROVE  Claims(r)' \subseteq Claims(r)
<1> USE DEF IInv, TypeOK, FunctionOn
<1>0. StageOK(r)
  BY DEF IInv, ShopInv
<1>1. ASSUME pc'[r] \notin {"insertItems", "fetchOrder", "selectItems"},
             reply'[r] # 201
      PROVE  Claims(r)' = {}
  BY <1>1 DEF Claims, Writing
<1>2. ASSUME pc[r] # "idle", reply'[r] = reply[r],
             pc'[r] \notin {"insertItems", "fetchOrder", "selectItems"}
      PROVE  Claims(r)' = {}
  BY <1>1, <1>2 DEF SlotOK, HandOK
<1>3. ASSUME NEW code, code # 201, NEW read, Answer(r, code, read)
      PROVE  Claims(r)' = {}
  BY <1>1, <1>3 DEF Answer, Forget
<1>4. ASSUME NEW label, Goto(r, label), pc[r] # "idle",
             label \notin {"insertItems", "fetchOrder", "selectItems"}
      PROVE  Claims(r)' = {}
  BY <1>2, <1>4 DEF Goto
<1>5. CASE Arrive(r)
  <2>1. PICK op, p, q, n : op \in AllOps /\ Receive(r, op, p, q, n)
    BY <1>5 DEF Arrive, ReceiveAdd, ReceivePut, ReceiveRemove, ReceiveClear,
                ReceiveGetCart, ReceiveCreate, ReceiveGetOrder,
                ReceiveListOrders, ReceiveListProducts, ReceiveGetProduct,
                AllOps
  <2>2. reply'[r] = 0 /\ pc'[r] = FirstStatement[op]
    BY <2>1 DEF Receive
  <2> QED BY <1>1, <2>1, <2>2, Begins
<1>6. CASE SelectProduct(r) \/ SelectExisting(r) \/ UpdateRow(r)
           \/ InsertRow(r) \/ PutRow(r) \/ RemoveRow(r)
  BY <1>3, <1>4, <1>6 DEF SelectProduct, SelectExisting, UpdateRow, InsertRow,
                          PutRow, RemoveRow
<1>7. CASE ClearCart(r) \/ SelectCart(r) \/ SelectOrderRows(r)
           \/ CountOrders(r) \/ SelectProducts(r) \/ SelectById(r)
  BY <1>3, <1>4, <1>7 DEF ClearCart, SelectCart, SelectOrderRows, CountOrders,
                          SelectProducts, SelectById
<1>8. CASE InsertOrder(r) /\ IdTaken(r)
  BY <1>3, <1>8 DEF InsertOrder
<1>9. CASE InsertItem(r) \/ ClearOrdered(r) \/ FetchOrder(r)
  <2>1. Writing(r) /\ oid'[r] = oid[r] /\ input'[r] = input[r]
    BY <1>9 DEF InsertItem, ClearOrdered, FetchOrder, ReadHeaders, Goto, Writing
  <2>2. input[r].op = "createOrder"
    BY <1>0, <1>9 DEF StageOK, InsertItem, ClearOrdered, FetchOrder
  <2>3. pc'[r] \in {"insertItems", "fetchOrder", "selectItems"}
    BY <1>9 DEF InsertItem, ClearOrdered, FetchOrder, ReadHeaders, Goto
  <2> QED BY <2>1, <2>2, <2>3 DEF Claims, Writing
<1>10. CASE SelectOrder(r) \/ SelectOrders(r)
  <2>1. input[r].op # "createOrder" /\ pc[r] # "idle"
    BY <1>0, <1>10 DEF StageOK, SelectOrder, SelectOrders
  <2>2. ASSUME NEW ids, ReadHeaders(r, ids) PROVE Claims(r)' = {}
    <3>1. /\ pc'[r] = "selectItems" /\ input'[r] = input[r]
          /\ reply'[r] = reply[r]
      BY <2>2 DEF ReadHeaders, Goto
    <3> QED BY <2>1, <3>1 DEF Claims, Writing, SlotOK, HandOK
  <2> QED BY <1>3, <1>10, <2>2 DEF SelectOrder, SelectOrders
<1>11. CASE SelectItems(r)
  <2>1. pc[r] = "selectItems" /\ reply[r] = 0
    BY <1>11 DEF SelectItems, SlotOK, HandOK
  <2>2. CASE pc'[r] # "idle"
    <3>1. UNCHANGED <<pc, input, reply, oid>>
      BY <1>11, <2>2 DEF SelectItems, Answer
    <3> QED BY <2>1, <3>1 DEF Claims, Writing
  <2>3. CASE pc'[r] = "idle" /\ input[r].op = "createOrder"
    <3>1. Writing(r) /\ DOMAIN view[r] = {oid[r]}
      BY <2>1, <2>3 DEF Writing, SlotOK, HandOK
    <3>2. DOMAIN view'[r] = DOMAIN view[r]
      BY <1>11 DEF SelectItems, Answer, Forget
    <3>3. Claims(r) = {oid[r]} /\ Claims(r)' \subseteq DOMAIN view'[r]
      BY <2>3, <3>1 DEF Claims, Writing
    <3> QED BY <3>1, <3>2, <3>3
  <2>4. CASE pc'[r] = "idle" /\ input[r].op # "createOrder"
    <3>1. SuccessCode(input[r].op) = 200
      BY <2>4 DEF SuccessCode
    <3>2. reply'[r] # 201
      BY <1>11, <2>1, <3>1 DEF SelectItems, Answer
    <3> QED BY <1>1, <2>4, <3>2
  <2> QED BY <2>2, <2>3, <2>4
<1>12. CASE Fail(r)
  <2>1. CASE QueryFails(r) \/ ProcessDies(r)
    <3>1. ErrorCode(input[r].op) # 201
      BY DEF ErrorCode
    <3> QED BY <1>3, <2>1, <3>1 DEF QueryFails, ProcessDies
  <2>2. CASE ProxyRetries(r)
    <3>1. input[r].op \in AllOps
      BY <2>2 DEF ProxyRetries, Idempotent
    <3>2. /\ pc[r] # "idle" /\ reply'[r] = reply[r]
          /\ pc'[r] = FirstStatement[input[r].op]
      BY <2>2 DEF ProxyRetries
    <3> QED BY <1>2, <3>1, <3>2, Begins
  <2> QED BY <1>12, <2>1, <2>2 DEF Fail
<1> QED BY <1>5, <1>6, <1>7, <1>8, <1>9, <1>10, <1>11, <1>12 DEF Handle

\* A step lets no two checkouts name one order.
LEMMA OwnOrdersKept ==
    ASSUME IInv, SlotsInv, NEW r \in Requests, Arrive(r) \/ Handle(r) \/ Fail(r)
    PROVE  OwnOrders'
<1>1. ASSUME NEW x \in Requests, x # r
      PROVE  Claims(x)' = Claims(x) /\ Claims(x) \subseteq DOMAIN orders
  <2>1. SlotKept(x)
    BY <1>1, OneSlot DEF IInv
  <2>2. SlotOK(x)
    BY DEF SlotsInv
  <2> QED BY <2>1, <2>2, KeptClaims, ClaimsExist
<1>2. SlotOK(r)
  BY DEF SlotsInv
<1>3. ASSUME NEW x \in Requests, x # r PROVE Claims(x)' \cap Claims(r)' = {}
  <2>1. CASE InsertOrder(r) /\ ~IdTaken(r)
    BY <1>1, <1>3, <2>1, InsertedClaims
  <2>2. CASE ~(InsertOrder(r) /\ ~IdTaken(r))
    <3>1. Claims(r)' \subseteq Claims(r)
      BY <1>2, <2>2, OldClaims
    <3>2. Claims(x) \cap Claims(r) = {}
      BY <1>3 DEF SlotsInv, OwnOrders
    <3> QED BY <1>1, <1>3, <3>1, <3>2
  <2> QED BY <2>1, <2>2
<1>4. ASSUME NEW x \in Requests, NEW y \in Requests, x # y
      PROVE  Claims(x)' \cap Claims(y)' = {}
  <2>1. CASE x = r
    BY <1>3, <1>4, <2>1
  <2>2. CASE y = r
    BY <1>3, <1>4, <2>2
  <2>3. CASE x # r /\ y # r
    <3>1. Claims(x) \cap Claims(y) = {}
      BY <1>4 DEF SlotsInv, OwnOrders
    <3> QED BY <1>1, <2>3, <3>1
  <2> QED BY <2>1, <2>2, <2>3
<1> QED BY <1>4 DEF OwnOrders

\* The slots are as they should be at the start.
LEMMA InitSlots == Init => SlotsInv
<1> SUFFICES ASSUME Init PROVE SlotsInv
  OBVIOUS
<1>1. ASSUME NEW r \in Requests PROVE SlotOK(r) /\ Claims(r) = {}
  <2>1. /\ pc[r] = "idle" /\ reply[r] = 0 /\ view[r] = NoOrders /\ unread[r] = {}
    BY DEF Init
  <2> QED BY <2>1 DEF SlotOK, HandOK, ViewSound, CreatedTrue, NoOrders,
                      FunctionOn, Claims, Writing
<1> QED BY <1>1 DEF SlotsInv, OwnOrders

\* Every step leaves the slots as they should be.
LEMMA NextSlots == IInv /\ SlotsInv /\ [Next]_vars => SlotsInv'
<1>1. ASSUME SlotsInv, UNCHANGED vars PROVE SlotsInv'
  BY <1>1 DEF SlotsInv, OwnOrders, Claims, Writing, SlotOK, HandOK, ViewSound,
              CreatedTrue, FunctionOn, vars
<1>2. ASSUME IInv, SlotsInv, NEW r \in Requests,
             Arrive(r) \/ Handle(r) \/ Fail(r)
      PROVE  SlotsInv'
  <2>1. ASSUME NEW x \in Requests, x # r PROVE SlotOK(x)'
    <3>1. SlotKept(x) /\ SlotOK(x) /\ Grows
      BY <1>2, <2>1, OneSlot, OrdersGrow DEF IInv, SlotsInv
    <3> QED BY <3>1, KeptSlotOK
  <2>2. SlotOK(r)'
    BY <1>2, ArriveSlotOK, HandleSlotOK, FailSlotOK DEF SlotsInv
  <2>3. OwnOrders'
    BY <1>2, OwnOrdersKept
  <2> QED BY <2>1, <2>2, <2>3 DEF SlotsInv
<1> QED BY <1>1, <1>2 DEF Next

\* Slots as they should be are what the invariants say.
LEMMA SlotsAnswer == IInv /\ SlotsInv => AnswerInv
<1> SUFFICES ASSUME IInv, SlotsInv PROVE AnswerInv
  OBVIOUS
<1>1. ViewsSound
  BY DEF SlotsInv, SlotOK, ViewSound, ViewsSound
<1>2. CreatedReplyTrue
  <2> SUFFICES ASSUME NEW r \in Requests, reply[r] = 201
               PROVE  \E n \in DOMAIN orders :
                         /\ DOMAIN view[r] = {n}
                         /\ Complete(orders[n])
                         /\ view[r][n].items = orders[n].items
                         /\ view[r][n].total = LinesTotal(view[r][n].items)
    BY DEF CreatedReplyTrue
  <2>1. PICK n \in DOMAIN orders :
           /\ DOMAIN view[r] = {n}
           /\ Complete(orders[n])
           /\ view[r][n].items = orders[n].items
    BY DEF SlotsInv, SlotOK, CreatedTrue
  <2>2. view[r][n].total = orders[n].total
    BY <2>1, <1>1 DEF ViewsSound
  <2>3. orders[n].total = LinesTotal(orders[n].basis)
    BY DEF IInv, ShopInv, OrdersSound
  <2> QED BY <2>1, <2>2, <2>3 DEF Complete
<1> QED BY <1>1, <1>2 DEF AnswerInv, SlotsInv, SlotOK

\* What is answered is true (server.js:314-337, 411-477): a 201 names one order
\* of the database, complete, with its lines and their total; no two checkouts
\* write or answer with one order; whoever reads orders sees orders that are
\* there, with their totals and a part of their lines.
THEOREM AnswersAreTrue == Spec => []AnswerInv
<1>1. Spec => []IInv
  BY InitIInv, NextIInv, PTL DEF Spec
<1> QED BY <1>1, InitSlots, NextSlots, SlotsAnswer, PTL DEF Spec

\* A checkout that is answered 201 has created the order it answers with.
THEOREM CreatedRepliesTrue == Spec => []CreatedReplyTrue
<1>1. AnswerInv => CreatedReplyTrue
  BY DEF AnswerInv
<1> QED BY <1>1, AnswersAreTrue, PTL

\* What a reader of orders has in hand is there, with its total.
THEOREM ReadersSeeOrders == Spec => []ViewsSound
<1>1. AnswerInv => ViewsSound
  BY DEF AnswerInv
<1> QED BY <1>1, AnswersAreTrue, PTL

-----------------------------------------------------------------------------
(* Adds.                                                                   *)

\* The statements of a POST /api/cart change its row by what it asks for.
LEMMA AddStep ==
    ASSUME IInv, NEW r \in Requests, Arrive(r) \/ Handle(r) \/ Fail(r),
           input[r].op = "addItem", cart' # cart
    PROVE  cart' = [cart EXCEPT ![Session(r)] =
                       AddLine(@, input[r].pid, input[r].qty)]
<1>1. /\ StageOK(r)
      /\ ~(pc[r] \in {"putRow", "deleteRow", "clearCart", "insertItems"})
  BY DEF IInv, ShopInv, StageOK
<1>2. CASE Arrive(r) \/ Fail(r)
  BY <1>2 DEF Arrive, ReceiveAdd, ReceivePut, ReceiveRemove, ReceiveClear,
              ReceiveGetCart, ReceiveCreate, ReceiveGetOrder,
              ReceiveListOrders, ReceiveListProducts, ReceiveGetProduct,
              Receive, Fail, QueryFails, ProcessDies, ProxyRetries
<1>3. CASE UpdateRow(r)
  <2> DEFINE s == Session(r)
             p == input[r].pid
             q == input[r].qty
  <2>1. cart' = [cart EXCEPT ![s] = IncrementRow(cart[s], p, q)]
    BY <1>3 DEF UpdateRow, IncrementedRows, CartOf
  <2>2. CASE p \in DOMAIN cart[s]
    BY <2>1, <2>2 DEF IncrementRow, SetRow, AddLine
  <2>3. CASE p \notin DOMAIN cart[s]
    <3>1. cart' = [cart EXCEPT ![s] = cart[s]]
      BY <2>1, <2>3 DEF IncrementRow, SetRow
    <3> QED BY <3>1 DEF IInv, TypeOK, FunctionOn
  <2> QED BY <2>2, <2>3
<1>4. CASE InsertRow(r)
  <2> DEFINE s == Session(r)
             p == input[r].pid
             q == input[r].qty
  <2>1. ~RowExists(r)
    BY <1>4 DEF InsertRow
  <2>2. cart' = [cart EXCEPT ![s] = WithRow(cart[s], p, q)]
    BY <1>4, <2>1 DEF InsertRow
  <2>3. QuantityOf(cart[s], p) + q = q
    BY <2>1 DEF RowExists, CartOf, QuantityOf, IInv, TypeOK, InputType
  <2> QED BY <2>2, <2>3 DEF AddLine
<1> QED BY <1>1, <1>2, <1>3, <1>4
        DEF Handle, SelectProduct, SelectExisting, PutRow, RemoveRow, ClearCart,
            SelectCart, SelectOrderRows, CountOrders, InsertOrder, InsertItem,
            ClearOrdered, FetchOrder, SelectOrder, SelectOrders, SelectItems,
            SelectProducts, SelectById

\* Two handlers that add to one row at the same time both count
\* (server.js:178-187).
THEOREM AddsBothCount == Spec => AddsAreRelative
<1>1. IInv /\ [Next]_vars =>
         [\A r \in Requests :
            input[r].op = "addItem" /\ pc'[r] # pc[r] /\ cart' # cart =>
               cart' = [cart EXCEPT ![Session(r)] =
                           AddLine(@, input[r].pid, input[r].qty)]]_vars
  <2> SUFFICES ASSUME IInv, Next, NEW r \in Requests, input[r].op = "addItem",
                      pc'[r] # pc[r], cart' # cart
               PROVE  cart' = [cart EXCEPT ![Session(r)] =
                                  AddLine(@, input[r].pid, input[r].qty)]
    OBVIOUS
  <2>1. PICK x \in Requests : Arrive(x) \/ Handle(x) \/ Fail(x)
    BY DEF Next
  <2>2. x = r
    BY <2>1, OneSlot DEF IInv, SlotKept
  <2> QED BY <2>1, <2>2, AddStep
<1>2. Spec => []IInv
  BY InitIInv, NextIInv, PTL DEF Spec
<1> QED BY <1>1, <1>2, PTL DEF Spec, AddsAreRelative
=============================================================================
