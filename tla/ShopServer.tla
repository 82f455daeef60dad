----------------------------- MODULE ShopServer -----------------------------
(***************************************************************************)
(* The request handlers of the shop server (server/src/server.js).  Three  *)
(* Node processes run the same handlers behind the load balancer and share *)
(* one PostgreSQL.  A handler keeps nothing between requests and runs each *)
(* SQL statement on its own: `await pool.query(...)' takes any free        *)
(* connection of the pool, opens no transaction and commits at once.  So a *)
(* statement is atomic, and between two statements of one handler any      *)
(* statement of any other handler may run.                                 *)
(*                                                                         *)
(* A request is one use of a slot of Requests: the slot is taken when the  *)
(* request reaches its handler and freed when the handler has answered or  *)
(* died.  pc names the statement the handler runs next; each action below  *)
(* is that statement and the code up to the next one.                      *)
(***************************************************************************)
EXTENDS ShopData

CONSTANTS
    Requests,      \* slots for requests being handled at the same time
    Sessions,      \* values of the x-session-id header
    SessionOf,     \* the session each slot's requests carry
    Ops,           \* the endpoints that are called
    AddQtys,       \* quantities of POST /api/cart
    PutQtys,       \* quantities of PUT /api/cart/:id
    Faults,        \* "query": a statement may fail; "crash": a process may die;
                   \* "retry": it may die and the proxy ask the next one
    MaxQty,        \* bound: an add arrives while the row holds less, and more
                   \* than its negative
    MaxOrders      \* bound: orders placed, and being placed

AllOps == {"getCart", "addItem", "putItem", "removeItem", "clearCart",
           "createOrder", "getOrder", "listOrders", "listProducts",
           "getProduct"}

ASSUME SessionAssumption == SessionOf \in [Requests -> Sessions]
ASSUME OpsAssumption == Ops \subseteq AllOps
ASSUME AddQtysAssumption == AddQtys \subseteq Int
ASSUME PutQtysAssumption == PutQtys \subseteq Int
ASSUME BoundsAssumption == MaxQty \in Nat /\ MaxOrders \in Nat

VARIABLES
    cart,          \* cart_items: the rows of each session
    orders,        \* orders and their order_items, by the number of the id
    pc,            \* the statement a handler runs next
    input,         \* what the request asks for
    rows,          \* cart rows the handler has read
    todo,          \* products of rows the items loop has still to insert
    oid,           \* the order id the handler generated
    view,          \* orders read for the answer
    unread,        \* orders of view whose items are not read yet
    reply          \* status code of the slot's last answer, 0 for none

locals == <<rows, todo, oid, view, unread>>
vars == <<cart, orders, pc, input, rows, todo, oid, view, unread, reply>>

-----------------------------------------------------------------------------
(* Orders.                                                                 *)

\* An orders row with its order_items.  basis is a history field: the cart
\* rows the order was created from.  The code neither stores nor reads it.
NewOrder(basis) ==
    [total |-> LinesTotal(basis), items |-> NoLines, basis |-> basis]

Complete(order) == order.items = order.basis

NoOrders == [n \in {} |-> 0]

\* The orders rows with these ids as a SELECT returns them, items not read.
Headers(ids) == [n \in ids |-> [total |-> orders[n].total, items |-> NoLines]]

-----------------------------------------------------------------------------
(* Control of a handler.                                                   *)

Labels == {"idle", "selectProduct", "selectExisting", "updateRow",
           "insertRow", "putRow", "deleteRow", "clearCart", "selectCart",
           "orderRows", "countOrders", "insertOrder", "insertItems",
           "fetchOrder", "selectOrder", "selectOrders", "selectItems",
           "selectProducts", "selectById"}

Codes == {0, 200, 201, 400, 404, 500, 502}

NoInput == [op |-> "none", pid |-> NoProduct, qty |-> 0, order |-> 0]

Session(r) == SessionOf[r]

CartOf(r) == cart[Session(r)]

Goto(r, label) == /\ pc' = [pc EXCEPT ![r] = label]
                  /\ UNCHANGED <<input, reply>>

\* The handler's locals go; body is what it has read for its answer.
Forget(r, body) == /\ view' = [view EXCEPT ![r] = body]
                   /\ rows' = [rows EXCEPT ![r] = NoLines]
                   /\ todo' = [todo EXCEPT ![r] = {}]
                   /\ oid' = [oid EXCEPT ![r] = 0]
                   /\ unread' = [unread EXCEPT ![r] = {}]

\* sendResponse, or the end of the connection.
Answer(r, code, body) == /\ pc' = [pc EXCEPT ![r] = "idle"]
                         /\ reply' = [reply EXCEPT ![r] = code]
                         /\ input' = [input EXCEPT ![r] = NoInput]
                         /\ Forget(r, body)

Init == /\ cart = [s \in Sessions |-> NoLines]
        /\ orders = NoOrders
        /\ pc = [r \in Requests |-> "idle"]
        /\ input = [r \in Requests |-> NoInput]
        /\ rows = [r \in Requests |-> NoLines]
        /\ todo = [r \in Requests |-> {}]
        /\ oid = [r \in Requests |-> 0]
        /\ view = [r \in Requests |-> NoOrders]
        /\ unread = [r \in Requests |-> {}]
        /\ reply = [r \in Requests |-> 0]

-----------------------------------------------------------------------------
(* Routing: method and path choose the handler, whose first statement is   *)
(* next.                                                                   *)

FirstStatement ==
    [getCart |-> "selectCart", addItem |-> "selectProduct",
     putItem |-> "putRow", removeItem |-> "deleteRow",
     clearCart |-> "clearCart", createOrder |-> "orderRows",
     getOrder |-> "selectOrder", listOrders |-> "selectOrders",
     listProducts |-> "selectProducts", getProduct |-> "selectById"]

Receive(r, op, p, q, n) ==
    /\ pc[r] = "idle"
    /\ op \in Ops
    /\ pc' = [pc EXCEPT ![r] = FirstStatement[op]]
    /\ input' = [input EXCEPT ![r] =
                    [op |-> op, pid |-> p, qty |-> q, order |-> n]]
    /\ reply' = [reply EXCEPT ![r] = 0]
    /\ view' = [view EXCEPT ![r] = NoOrders]
    /\ UNCHANGED <<cart, orders, rows, todo, oid, unread>>

\* Any quantity will do, 0 and negative ones too: nothing checks it.
ReceiveAdd(r, p, q) ==
    /\ QuantityOf(CartOf(r), p) \in (1 - MaxQty)..(MaxQty - 1)
    /\ Receive(r, "addItem", p, q, 0)

ReceivePut(r, p, q) == Receive(r, "putItem", p, q, 0)

ReceiveRemove(r, p) == Receive(r, "removeItem", p, 0, 0)

ReceiveClear(r) == Receive(r, "clearCart", NoProduct, 0, 0)

ReceiveGetCart(r) == Receive(r, "getCart", NoProduct, 0, 0)

BeingCreated == {r \in Requests : input[r].op = "createOrder"}

ReceiveCreate(r) ==
    /\ Cardinality(DOMAIN orders) + Cardinality(BeingCreated) < MaxOrders
    /\ Receive(r, "createOrder", NoProduct, 0, 0)

ReceiveGetOrder(r, n) ==
    Receive(r, "getOrder", NoProduct, 0, n)

ReceiveListOrders(r) ==
    Receive(r, "listOrders", NoProduct, 0, 0)

ReceiveListProducts(r) ==
    Receive(r, "listProducts", NoProduct, 0, 0)

ReceiveGetProduct(r, p) == Receive(r, "getProduct", p, 0, 0)

-----------------------------------------------------------------------------
(* GET /api/products and GET /api/products/:id.  The rows are constants    *)
(* and left out of the answers.                                            *)

SelectProducts(r) ==
    /\ pc[r] = "selectProducts"
    /\ Answer(r, 200, NoOrders)
    /\ UNCHANGED <<cart, orders>>

SelectById(r) ==
    /\ pc[r] = "selectById"
    /\ Answer(r, IF input[r].pid \in Products THEN 200 ELSE 404, NoOrders)
    /\ UNCHANGED <<cart, orders>>

-----------------------------------------------------------------------------
(* POST /api/cart.                                                         *)

\* A fault: nobody looks the product up, no foreign key either.
AnyProduct(r) == TRUE

\* SELECT * FROM products WHERE id = $1
ProductFound(r) == input[r].pid \in Products

SelectProduct(r) ==
    /\ pc[r] = "selectProduct"
    /\ \/ /\ ProductFound(r)
          /\ Goto(r, "selectExisting")
          /\ UNCHANGED locals
       \/ /\ ~ProductFound(r)
          /\ Answer(r, 404, NoOrders)
    /\ UNCHANGED <<cart, orders>>

\* WHERE product_id = $1 AND session_id = $2
ExistingRow(r) == Restrict(CartOf(r), DOMAIN CartOf(r) \cap {input[r].pid})

\* The row read decides between UPDATE and INSERT; its quantity is not used.
SelectExisting(r) ==
    /\ pc[r] = "selectExisting"
    /\ rows' = [rows EXCEPT ![r] = ExistingRow(r)]
    /\ Goto(r, IF rows'[r] = NoLines THEN "insertRow" ELSE "updateRow")
    /\ UNCHANGED <<cart, orders, todo, oid, view, unread>>

\* A fault: UPDATE without AND product_id = $2.
IncrementedAll(r) ==
    [p \in DOMAIN CartOf(r) |-> CartOf(r)[p] + input[r].qty]

\* A fault: the handler adds to the quantity it has read.
IncrementedFromRead(r) ==
    SetRow(CartOf(r), input[r].pid,
           QuantityOf(rows[r], input[r].pid) + input[r].qty)

\* quantity = quantity + $1: the database adds to what the row holds then.
IncrementedRows(r) == IncrementRow(CartOf(r), input[r].pid, input[r].qty)

UpdateRow(r) ==
    /\ pc[r] = "updateRow"
    /\ cart' = [cart EXCEPT ![Session(r)] = IncrementedRows(r)]
    /\ Goto(r, "selectCart")
    /\ UNCHANGED <<orders, rows, todo, oid, view, unread>>

\* UNIQUE(product_id, session_id)
RowExists(r) == input[r].pid \in DOMAIN CartOf(r)

\* A fault: the violated constraint is not caught, and nobody answers.
InsertRowUncaught(r) ==
    /\ pc[r] = "insertRow"
    /\ ~RowExists(r)
    /\ cart' = [cart EXCEPT ![Session(r)] =
                   WithRow(@, input[r].pid, input[r].qty)]
    /\ Goto(r, "selectCart")
    /\ UNCHANGED <<orders, rows, todo, oid, view, unread>>

InsertRow(r) ==
    /\ pc[r] = "insertRow"
    /\ \/ /\ ~RowExists(r)
          /\ cart' = [cart EXCEPT ![Session(r)] =
                         WithRow(@, input[r].pid, input[r].qty)]
          /\ Goto(r, "selectCart")
          /\ UNCHANGED locals
       \/ /\ RowExists(r)
          /\ Answer(r, 400, NoOrders)
          /\ UNCHANGED cart
    /\ UNCHANGED orders

-----------------------------------------------------------------------------
(* PUT and DELETE /api/cart/:id, DELETE /api/cart, GET /api/cart.          *)

\* A fault: PUT removes the last one too.
PutRowsOfLast(r) == IF input[r].qty <= 1
                    THEN DeleteRow(CartOf(r), input[r].pid)
                    ELSE SetRow(CartOf(r), input[r].pid, input[r].qty)

\* A fault: PUT stores the row it is asked for, whether there is one or not.
PutRowsUpsert(r) == IF input[r].qty <= 0
                    THEN DeleteRow(CartOf(r), input[r].pid)
                    ELSE WithRow(CartOf(r), input[r].pid, input[r].qty)

PutRows(r) == IF input[r].qty <= 0
              THEN DeleteRow(CartOf(r), input[r].pid)
              ELSE SetRow(CartOf(r), input[r].pid, input[r].qty)

PutRow(r) ==
    /\ pc[r] = "putRow"
    /\ cart' = [cart EXCEPT ![Session(r)] = PutRows(r)]
    /\ Goto(r, "selectCart")
    /\ UNCHANGED <<orders, rows, todo, oid, view, unread>>

RemoveRow(r) ==
    /\ pc[r] = "deleteRow"
    /\ cart' = [cart EXCEPT ![Session(r)] = DeleteRow(@, input[r].pid)]
    /\ Goto(r, "selectCart")
    /\ UNCHANGED <<orders, rows, todo, oid, view, unread>>

\* DELETE FROM cart_items WHERE session_id = $1: all rows of the session,
\* whichever of them a checkout has read.
CartsWithout(s) == [cart EXCEPT ![s] = NoLines]

\* The DELETE may commit and its acknowledgement be lost.
ClearCart(r) ==
    /\ pc[r] = "clearCart"
    /\ cart' = CartsWithout(Session(r))
    /\ \/ Answer(r, 200, NoOrders)
       \/ "query" \in Faults /\ Answer(r, 500, NoOrders)
    /\ UNCHANGED orders

\* The read back of a cart handler, and GET /api/cart.
SelectCart(r) ==
    /\ pc[r] = "selectCart"
    /\ Answer(r, 200, NoOrders)
    /\ UNCHANGED <<cart, orders>>

-----------------------------------------------------------------------------
(* POST /api/orders.                                                       *)

SelectOrderRows(r) ==
    /\ pc[r] = "orderRows"
    /\ \/ /\ CartOf(r) = NoLines
          /\ Answer(r, 400, NoOrders)
       \/ /\ CartOf(r) # NoLines
          /\ rows' = [rows EXCEPT ![r] = CartOf(r)]
          /\ Goto(r, "countOrders")
          /\ UNCHANGED <<todo, oid, view, unread>>
    /\ UNCHANGED <<cart, orders>>

\* A fault: SELECT COUNT(*) without the + 1.
LastId == Cardinality(DOMAIN orders)

\* A fault: the SELECT counts the orders that have lines.
NextIdOfFilled ==
    Cardinality({n \in DOMAIN orders : orders[n].items # NoLines}) + 1

\* SELECT COUNT(*) + 1 FROM orders
NextId == Cardinality(DOMAIN orders) + 1

CountOrders(r) ==
    /\ pc[r] = "countOrders"
    /\ oid' = [oid EXCEPT ![r] = NextId]
    /\ Goto(r, "insertOrder")
    /\ UNCHANGED <<cart, orders, rows, todo, view, unread>>

\* A fault: INSERT ... ON CONFLICT (id) DO UPDATE.
NeverTaken(r) == FALSE

\* orders.id PRIMARY KEY
IdTaken(r) == oid[r] \in DOMAIN orders

InsertOrder(r) ==
    /\ pc[r] = "insertOrder"
    /\ \/ /\ ~IdTaken(r)
          /\ orders' = [n \in DOMAIN orders \cup {oid[r]} |->
                           IF n = oid[r] THEN NewOrder(rows[r]) ELSE orders[n]]
          /\ todo' = [todo EXCEPT ![r] = DOMAIN rows[r]]
          /\ Goto(r, "insertItems")
          /\ UNCHANGED <<rows, oid, view, unread>>
       \/ /\ IdTaken(r)
          /\ Answer(r, 400, NoOrders)
          /\ UNCHANGED orders
    /\ UNCHANGED cart

\* A fault: the loop ends one row early.
AllButOneInserted(r) == Cardinality(todo[r]) <= 1

AllInserted(r) == todo[r] = {}

\* One turn of the loop over the cart rows, in the order the SELECT gave.
InsertItem(r) ==
    /\ pc[r] = "insertItems"
    /\ ~AllInserted(r)
    /\ \E p \in todo[r] :
          /\ orders' = [orders EXCEPT ![oid[r]].items =
                           AddLine(@, p, rows[r][p])]
          /\ todo' = [todo EXCEPT ![r] = @ \ {p}]
    /\ UNCHANGED <<cart, pc, input, reply, rows, oid, view, unread>>

ClearOrdered(r) ==
    /\ pc[r] = "insertItems"
    /\ AllInserted(r)
    /\ cart' = CartsWithout(Session(r))
    /\ Goto(r, "fetchOrder")
    /\ UNCHANGED <<orders, rows, todo, oid, view, unread>>

-----------------------------------------------------------------------------
(* Reading orders: the end of POST /api/orders, GET /api/orders/:id and    *)
(* GET /api/orders.  The orders rows come first and the items of each      *)
(* order in a statement of its own, in any order for the list.             *)

ReadHeaders(r, ids) ==
    /\ view' = [view EXCEPT ![r] = Headers(ids)]
    /\ unread' = [unread EXCEPT ![r] = ids]
    /\ Goto(r, "selectItems")
    /\ UNCHANGED <<rows, todo, oid>>

FetchOrder(r) ==
    /\ pc[r] = "fetchOrder"
    /\ ReadHeaders(r, {oid[r]})
    /\ UNCHANGED <<cart, orders>>

SelectOrder(r) ==
    /\ pc[r] = "selectOrder"
    /\ \/ /\ input[r].order \in DOMAIN orders
          /\ ReadHeaders(r, {input[r].order})
       \/ /\ input[r].order \notin DOMAIN orders
          /\ Answer(r, 404, NoOrders)
    /\ UNCHANGED <<cart, orders>>

SelectOrders(r) ==
    /\ pc[r] = "selectOrders"
    /\ \/ /\ DOMAIN orders # {}
          /\ ReadHeaders(r, DOMAIN orders)
       \/ /\ DOMAIN orders = {}
          /\ Answer(r, 200, NoOrders)
    /\ UNCHANGED <<cart, orders>>

SuccessCode(op) == IF op = "createOrder" THEN 201 ELSE 200

\* A fault: every order of the list gets the items of the last one.
ItemsOfLast(n) == orders[Cardinality(DOMAIN orders)].items

\* SELECT * FROM order_items WHERE order_id = n
ItemsOf(n) == orders[n].items

SelectItems(r) ==
    /\ pc[r] = "selectItems"
    /\ \E n \in unread[r] :
          LET read == [view[r] EXCEPT ![n].items = ItemsOf(n)]
          IN  \/ /\ unread[r] = {n}
                 /\ Answer(r, SuccessCode(input[r].op), read)
              \/ /\ unread[r] # {n}
                 /\ view' = [view EXCEPT ![r] = read]
                 /\ unread' = [unread EXCEPT ![r] = @ \ {n}]
                 /\ UNCHANGED <<pc, input, reply, rows, todo, oid>>
    /\ UNCHANGED <<cart, orders>>

-----------------------------------------------------------------------------
(* Failures.                                                               *)

ErrorCode(op) ==
    IF op \in {"addItem", "putItem", "createOrder"} THEN 400 ELSE 500

\* The statement throws and the handler's catch block answers.  A statement
\* that commits and then throws is the statement followed by the failure of
\* the next one, which changes nothing else.
QueryFails(r) ==
    /\ "query" \in Faults
    /\ pc[r] # "idle"
    /\ Answer(r, ErrorCode(input[r].op), NoOrders)
    /\ UNCHANGED <<cart, orders>>

\* The process dies and the load balancer answers.
ProcessDies(r) ==
    /\ "crash" \in Faults
    /\ pc[r] # "idle"
    /\ Answer(r, 502, NoOrders)
    /\ UNCHANGED <<cart, orders>>

\* A fault: every method is retried.
EveryOp == AllOps

\* Methods that nginx sends to the next server when one breaks the connection
\* (proxy_next_upstream is not set; its default leaves POST out).
Idempotent == AllOps \ {"addItem", "createOrder"}

\* The process dies before it has answered and another one begins anew; the
\* last statement of the dead one has run or never will.
ProxyRetries(r) ==
    /\ "retry" \in Faults
    /\ pc[r] # "idle" /\ input[r].op \in Idempotent
    /\ pc' = [pc EXCEPT ![r] = FirstStatement[input[r].op]]
    /\ Forget(r, NoOrders)
    /\ UNCHANGED <<cart, orders, input, reply>>

-----------------------------------------------------------------------------
Arrive(r) ==
    \/ \E p \in ProductIds, q \in AddQtys : ReceiveAdd(r, p, q)
    \/ \E p \in ProductIds, q \in PutQtys : ReceivePut(r, p, q)
    \/ \E p \in ProductIds : ReceiveRemove(r, p)
    \/ ReceiveClear(r)
    \/ ReceiveGetCart(r)
    \/ ReceiveCreate(r)
    \/ \E n \in 1..MaxOrders : ReceiveGetOrder(r, n)
    \/ ReceiveListOrders(r)
    \/ ReceiveListProducts(r)
    \/ \E p \in ProductIds : ReceiveGetProduct(r, p)

Handle(r) ==
    \/ SelectProduct(r)
    \/ SelectExisting(r)
    \/ UpdateRow(r)
    \/ InsertRow(r)
    \/ PutRow(r)
    \/ RemoveRow(r)
    \/ ClearCart(r)
    \/ SelectCart(r)
    \/ SelectOrderRows(r)
    \/ CountOrders(r)
    \/ InsertOrder(r)
    \/ InsertItem(r)
    \/ ClearOrdered(r)
    \/ FetchOrder(r)
    \/ SelectOrder(r)
    \/ SelectOrders(r)
    \/ SelectItems(r)
    \/ SelectProducts(r)
    \/ SelectById(r)

Fail(r) == QueryFails(r) \/ ProcessDies(r) \/ ProxyRetries(r)

Next == \E r \in Requests : Arrive(r) \/ Handle(r) \/ Fail(r)

Spec == Init /\ [][Next]_vars
=============================================================================
