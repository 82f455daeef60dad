--------------------------- MODULE ShopProperties ---------------------------
(***************************************************************************)
(* What the shop server (ShopServer) promises, and what its texts promise  *)
(* and it does not keep when a session is shared.                          *)
(***************************************************************************)
EXTENDS ShopServer

-----------------------------------------------------------------------------
(* Types.                                                                  *)

FunctionOn(f, S) == f = [x \in S |-> f[x]]

OrderShape(o) == /\ o = [total |-> o.total, items |-> o.items,
                         basis |-> o.basis]
                 /\ IsLines(o.items)
                 /\ IsLines(o.basis) /\ o.basis # NoLines

InputType == [op : AllOps \cup {"none"}, pid : ProductIds \cup {NoProduct},
              qty : Int, order : Nat]

\* The types of the tables and of what a handler holds: carts and order lines
\* name catalogue products, and no order is made of an empty cart
\* (server.js:367).  Quantities are integers: PUT removes a row rather than let
\* it reach 0 (server.js:226), but POST checks nothing (server.js:178-187).
TypeOK ==
    /\ FunctionOn(cart, Sessions)
    /\ \A s \in Sessions : IsLines(cart[s])
    /\ IsFiniteSet(DOMAIN orders) /\ DOMAIN orders \subseteq Nat
    /\ FunctionOn(orders, DOMAIN orders)
    /\ \A n \in DOMAIN orders : OrderShape(orders[n])
    /\ pc \in [Requests -> Labels]
    /\ input \in [Requests -> InputType]
    /\ FunctionOn(rows, Requests)
    /\ \A r \in Requests : IsLines(rows[r])
    /\ todo \in [Requests -> SUBSET Products]
    /\ oid \in [Requests -> Nat]
    /\ unread \in [Requests -> SUBSET Nat]
    /\ FunctionOn(view, Requests)
    /\ reply \in [Requests -> Codes]

-----------------------------------------------------------------------------
(* Orders.                                                                 *)

\* The handler has inserted an orders row and holds its id.
Writing(r) == \/ pc[r] \in {"insertItems", "fetchOrder"}
              \/ pc[r] = "selectItems" /\ input[r].op = "createOrder"

\* COUNT(*) + 1 numbers the orders without gaps, however many checkouts race
\* for a number, fail or die on the way (server.js:379-395).
OrderIdsDense == DOMAIN orders = 1..Cardinality(DOMAIN orders)

\* No two handlers write lines of the same order.
SoleWriter ==
    \A r1, r2 \in Requests :
        Writing(r1) /\ Writing(r2) /\ oid[r1] = oid[r2] => r1 = r2

\* While the loop runs, the order holds exactly the lines it has passed, and
\* once it has ended, all of them (server.js:398-405).
WriterOK(r) ==
    Writing(r) =>
        /\ oid[r] \in DOMAIN orders
        /\ orders[oid[r]].basis = rows[r]
        /\ todo[r] \subseteq DOMAIN rows[r]
        /\ orders[oid[r]].items = Restrict(rows[r], DOMAIN rows[r] \ todo[r])
        /\ pc[r] # "insertItems" => todo[r] = {}

\* A number that a checkout has generated is at most the next one: orders are
\* never deleted, so it can only have been taken meanwhile.
CounterOK(r) ==
    /\ pc[r] = "insertOrder" => oid[r] \in 1..NextId
    /\ pc[r] \in {"countOrders", "insertOrder"} => rows[r] # NoLines

\* The statement a handler runs next is one of its endpoint, past the first
\* SELECT of POST /api/cart the product is one of the catalogue, and a slot
\* that is free asks for nothing.
StageOK(r) ==
    /\ pc[r] = "idle" => input[r].op = "none"
    /\ input[r].op = "getCart" => pc[r] = "selectCart"
    /\ pc[r] = "selectProduct" => input[r].op = "addItem"
    /\ pc[r] \in {"selectExisting", "updateRow", "insertRow"} =>
          input[r].op = "addItem" /\ input[r].pid \in Products
    /\ pc[r] \in {"orderRows", "countOrders", "insertOrder", "insertItems",
                 "fetchOrder"} => input[r].op = "createOrder"
    /\ pc[r] \in {"selectOrder", "selectOrders"} =>
          input[r].op \in {"getOrder", "listOrders"}
    /\ pc[r] = "putRow" => input[r].op = "putItem"
    /\ pc[r] = "deleteRow" => input[r].op = "removeItem"
    /\ pc[r] = "clearCart" => input[r].op = "clearCart"
    /\ pc[r] \in {"selectCart", "selectProducts", "selectById"} =>
          input[r].op # "createOrder"

\* An order never holds a line its cart did not have, and its total is what
\* that cart cost.
OrdersSound ==
    \A n \in DOMAIN orders :
        /\ orders[n].total = LinesTotal(orders[n].basis)
        /\ SubLines(orders[n].items, orders[n].basis)

\* POST /api/orders answers 201 only with one order that is in the database
\* with every line it was created from, and whose total is what the lines in
\* the answer cost (server.js:411-432).
CreatedReplyTrue ==
    \A r \in Requests :
        reply[r] = 201 =>
            \E n \in DOMAIN orders :
                /\ DOMAIN view[r] = {n}
                /\ Complete(orders[n])
                /\ view[r][n].items = orders[n].items
                /\ view[r][n].total = LinesTotal(view[r][n].items)

\* What makes the orders sound and their numbers dense, step by step: the
\* invariant the proofs use.
ShopInv == /\ OrderIdsDense
           /\ OrdersSound
           /\ SoleWriter
           /\ \A r \in Requests : WriterOK(r) /\ CounterOK(r) /\ StageOK(r)

Ledger == INSTANCE OrderLedger WITH
             IsCart <- IsLines,
             CostOf <- LinesTotal,
             ledger <- orders

\* The orders tables are an append-only ledger: see OrderLedger.
LedgerSpec == Ledger!Spec

\* When nothing fails, an order that lacks lines is one a handler is still
\* writing: no cart is half ordered for good.
IncompleteIsBeingWritten ==
    \A n \in DOMAIN orders :
        ~Complete(orders[n]) => \E r \in Requests : Writing(r) /\ oid[r] = n

\* What a reader of orders has in hand: orders that exist, each with the
\* total of the order of that number, and of its lines a part
\* (server.js:314-337, 441-477).
ViewsSound ==
    \A r \in Requests : \A n \in DOMAIN view[r] :
        /\ n \in DOMAIN orders
        /\ view[r][n].total = orders[n].total
        /\ SubLines(view[r][n].items, orders[n].items)

\* What a handler has in hand for its answer: headers, the items of some of
\* them still to be read, and of its own order alone when it has created one.
HandOK(r) ==
    /\ pc[r] # "idle" => reply[r] = 0
    /\ pc[r] # "selectItems" => unread[r] = {}
    /\ unread[r] \subseteq DOMAIN view[r]
    /\ FunctionOn(view[r], DOMAIN view[r])
    /\ \A n \in DOMAIN view[r] :
          view[r][n] = [total |-> view[r][n].total, items |-> view[r][n].items]
    /\ pc[r] = "selectItems" /\ input[r].op = "createOrder" =>
          DOMAIN view[r] = {oid[r]}

\* The order a handler of POST /api/orders writes, or has answered with.
Claims(r) == IF Writing(r) THEN {oid[r]}
             ELSE IF reply[r] = 201 THEN DOMAIN view[r] ELSE {}

\* No two checkouts write, or answer with, one order (server.js:379).
OwnOrders == \A r1, r2 \in Requests :
                r1 # r2 => Claims(r1) \cap Claims(r2) = {}

\* What makes the answers true, step by step: for the proofs.
AnswerInv == /\ ViewsSound
             /\ CreatedReplyTrue
             /\ OwnOrders
             /\ \A r \in Requests : HandOK(r)

-----------------------------------------------------------------------------
(* Carts.                                                                  *)

\* Two handlers that add to one row at the same time both count: the step by
\* which a POST /api/cart changes the carts changes one row, by the quantity
\* asked for, whatever happened since the row was read (server.js:178-187).
AddsAreRelative ==
    [][\A r \in Requests :
         input[r].op = "addItem" /\ pc'[r] # pc[r] /\ cart' # cart =>
            cart' = [cart EXCEPT ![Session(r)] =
                        AddLine(@, input[r].pid, input[r].qty)]]_vars

\* POST /api/cart adds the item: past the UPDATE, the row is there.
AckedAddLands ==
    [][\A r \in Requests :
         pc[r] = "updateRow" /\ pc'[r] = "selectCart" =>
            input[r].pid \in DOMAIN cart'[Session(r)]]_vars

\* A checkout takes out of the carts no more than the rows it ordered
\* (server.js:359, 408).
CheckoutTakesOnlyOrdered ==
    [][\A r \in Requests :
         pc[r] = "insertItems" /\ pc'[r] = "fetchOrder" =>
            \A s \in Sessions :
               cart'[s] # cart[s] =>
                  s = Session(r) /\ SubLines(cart[s], rows[r])]_vars

-----------------------------------------------------------------------------
(* Answers.                                                                *)

\* A checkout that answers an error has created no order.
FailedCheckoutCreatesNothing ==
    [][\A r \in Requests :
         Writing(r) /\ pc'[r] = "idle" => reply'[r] = 201]_vars

\* A POST /api/cart whose body is well formed is not answered 400 "Invalid
\* request body".
ValidAddAccepted ==
    [][\A r \in Requests :
         input[r].op = "addItem" /\ pc'[r] = "idle" => reply'[r] # 400]_vars

\* Checkouts that race for a number do not all lose: of those that have read
\* their cart when there are n orders, one comes to add another, although a
\* number that is taken is answered with an error (server.js:379-395).
OrdersAdvance ==
    \A r \in Requests : \A n \in 0..(MaxOrders - 1) :
        (pc[r] = "countOrders" /\ Cardinality(DOMAIN orders) = n)
           ~> Cardinality(DOMAIN orders) > n

-----------------------------------------------------------------------------
(* Atomic operations.                                                      *)

\* A checkout takes effect when it empties the cart; until then its order is
\* not there yet.
Settled == {n \in DOMAIN orders :
              \A r \in Requests : pc[r] = "insertItems" => oid[r] # n}

Service == INSTANCE CartService WITH
              carts <- cart,
              placed <- [n \in Settled |-> orders[n].items]

\* With one request of a session at a time and no failure but a server that
\* dies and whose request runs again, the statements of the handlers amount to
\* atomic operations: see CartService.
ServiceSpec == Service!Spec
=============================================================================
