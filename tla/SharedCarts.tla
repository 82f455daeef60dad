---------------------------- MODULE SharedCarts -----------------------------
(***************************************************************************)
(* What the shop server (ShopServer) still promises when several requests  *)
(* of one session are under way, as with the shipped client, all of whose  *)
(* browsers are `default-session'.  A handler that has read its cart goes  *)
(* by what it has read; met is a history variable, which the code does not *)
(* have: the requests of the same session that have changed the cart since.*)
(* The properties say that nothing else can come of a shared session than  *)
(* what one of these requests has asked for.                               *)
(***************************************************************************)
EXTENDS ShopProperties

VARIABLE met       \* for each slot, what those requests asked for

hvars == <<vars, met>>

-----------------------------------------------------------------------------
\* The handler has read rows of its cart and has still to write by them.
GoesByCart(r) == pc[r] \in {"updateRow", "insertRow", "countOrders",
                            "insertOrder", "insertItems"}

\* What the requests other than r have asked for that change its cart in this
\* step.
ChangedBy(r) == {input[x] : x \in {y \in Requests :
                                     /\ y # r /\ Session(y) = Session(r)
                                     /\ pc'[y] # pc[y]
                                     /\ CartOf(r)' # CartOf(r)}}

Meet == met' = [r \in Requests |->
                   IF GoesByCart(r) /\ GoesByCart(r)'
                   THEN met[r] \cup ChangedBy(r)
                   ELSE {}]

HInit == Init /\ met = [r \in Requests |-> {}]

HNext == Next /\ Meet

HSpec == HInit /\ [][HNext]_hvars

-----------------------------------------------------------------------------
(* What a request asks for.                                                *)

\* It removes the row of p, if there is one.
Removes(m, p) == \/ m.op = "removeItem" /\ m.pid = p
                 \/ m.op = "putItem" /\ m.pid = p /\ m.qty <= 0
                 \/ m.op \in {"clearCart", "createOrder"}

Adds(m, p) == m.op = "addItem" /\ m.pid = p

\* It says what becomes of the row of p.
Concerns(m, p) == \/ m.op \in {"addItem", "putItem", "removeItem"} /\ m.pid = p
                  \/ m.op \in {"clearCart", "createOrder"}

SameRow(a, b, p) == /\ p \in DOMAIN a <=> p \in DOMAIN b
                    /\ QuantityOf(a, p) = QuantityOf(b, p)

\* What a handler has read of its cart, and goes by, is still so, but for what
\* the requests it has met asked for: for the proofs.
ReadOK(r) ==
    /\ pc[r] = "updateRow" /\ input[r].pid \notin DOMAIN CartOf(r) =>
          \E m \in met[r] : Removes(m, input[r].pid)
    /\ pc[r] = "insertRow" /\ input[r].pid \in DOMAIN CartOf(r) =>
          \E m \in met[r] : Adds(m, input[r].pid)
    /\ pc[r] \in {"countOrders", "insertOrder", "insertItems"} =>
          \A p \in Products : \/ SameRow(rows[r], CartOf(r), p)
                              \/ \E m \in met[r] : Concerns(m, p)

\* The quantities asked for are those the callers use: likewise.
AskedOK(r) ==
    /\ input[r].op = "addItem" => input[r].qty \in AddQtys
    /\ input[r].op = "putItem" => input[r].qty \in PutQtys

MetInv == \A r \in Requests : ReadOK(r) /\ AskedOK(r)

-----------------------------------------------------------------------------
(* Properties.                                                             *)

\* An add that finds its row adds to it, or a request of the same session has
\* asked to remove this row, or to order it, between the SELECT and the UPDATE:
\* nothing else makes an add that is answered 200 have no effect
\* (server.js:172-181).
AddLandsUnlessRemoved ==
    [][\A r \in Requests :
         pc[r] = "updateRow" /\ pc'[r] = "selectCart" =>
            \/ cart' = [cart EXCEPT ![Session(r)] =
                           AddLine(@, input[r].pid, input[r].qty)]
            \/ \E m \in met[r] : Removes(m, input[r].pid)]_hvars

\* When no statement fails, the INSERT of an add is refused only for an add of
\* the same product to the same cart that ran between its SELECT and its
\* INSERT: one of two adds always gets in (server.js:172-187).
AddRefusedForAnother ==
    [][\A r \in Requests :
         pc[r] = "insertRow" /\ pc'[r] = "idle" /\ reply'[r] = 400 =>
            \E m \in met[r] : Adds(m, input[r].pid)]_hvars

\* A checkout empties the cart of its own session, and what it takes out is
\* what it has ordered, row by row, but for rows that another request of the
\* session has asked to change since the cart was read (server.js:359-408).
CheckoutTakesItsCart ==
    [][\A r \in Requests :
         pc[r] = "insertItems" /\ pc'[r] = "fetchOrder" =>
            /\ cart' = [cart EXCEPT ![Session(r)] = NoLines]
            /\ \A p \in Products :
                  \/ SameRow(orders[oid[r]].items, CartOf(r), p)
                  \/ \E m \in met[r] : Concerns(m, p)]_hvars

\* A request that meets no other one is atomic, whatever else runs, fails or
\* dies: each statement of its handler is an operation of CartService or not
\* seen by whoever uses the service (server.js:160-440).
AtomicUnlessMet ==
    [][\A r \in Requests :
         Handle(r) /\ met[r] = {} => [Service!Next]_(Service!svars)]_hvars
=============================================================================
