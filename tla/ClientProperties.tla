-------------------------- MODULE ClientProperties --------------------------
(***************************************************************************)
(* What a browser shows, against what the shop server holds.               *)
(***************************************************************************)
EXTENDS ShopClient, ShopProperties

CallKinds == {"none", "listProducts", "getCart", "addItem", "putItem",
              "removeItem", "clearCart", "createOrder"}

CallShape(c) == /\ c = [kind |-> c.kind, pid |-> c.pid, qty |-> c.qty,
                        total |-> c.total]
                /\ c.kind \in CallKinds
                /\ c.pid \in ProductIds \cup {NoProduct}
                /\ c.qty \in Nat

PositiveLines(f) == IsLines(f) /\ \A p \in DOMAIN f : f[p] > 0

\* The types of what a browser keeps.  A cart shown has positive quantities of
\* catalogue products, in whatever order the answers come, and so has one that
\* the server sends: it accepts any quantity, but the client adds 1 and asks
\* for none below 1 (AppContext.tsx:107, ShoppingCart.tsx:55).
ClientTypeOK ==
    /\ FunctionOn(shown, Browsers)
    /\ \A b \in Browsers : PositiveLines(shown[b])
    /\ listed \in [Browsers -> SUBSET Nat]
    /\ catalogue \in [Browsers -> Catalogues]
    /\ page \in [Browsers -> Pages]
    /\ visited \in [Browsers -> BOOLEAN]
    /\ due \in [Browsers -> BOOLEAN]
    /\ form \in [Browsers -> BOOLEAN]
    /\ FunctionOn(receipt, Browsers)
    /\ \A b \in Browsers : receipt[b].order \in Nat
    /\ FunctionOn(call, Requests)
    /\ \A r \in Requests : CallShape(call[r])
    /\ FunctionOn(body, Requests)
    /\ \A r \in Requests : PositiveLines(body[r])

-----------------------------------------------------------------------------
(* The cart.                                                               *)

CartOps == {"addItem", "putItem", "removeItem", "clearCart", "createOrder"}

\* The cart page is open, was loaded some time ago, and nothing that changes a
\* cart is on its way or being handled.
LeftAlone(b) == /\ page[b] = "cart" /\ catalogue[b] # "none"
                /\ \A r \in Requests : /\ call[r].kind \notin CartOps
                                       /\ input[r].op \notin CartOps

\* The page is about to read the cart or waits for what it has read.
Reading(b) == due[b] \/ \E r \in Slots(b) : call[r].kind = "getCart"

\* The cart page that is left alone and goes on reading comes to show the cart
\* the server has, and keeps showing it: an answer to an older read that came
\* late, an add that a read had already brought, a change whose answer was
\* lost are all made good (AppContext.tsx:100, CartPage.tsx:11-13).
CartPageConverges ==
    \A b \in Browsers, s \in Sessions :
        (/\ \A r \in Slots(b) : Session(r) = s
         /\ <>[](LeftAlone(b) /\ Reading(b)))
        => <>[](shown[b] = cart[s])

\* The cart page goes on reading until it is left or a read fails, whatever
\* else is answered: its effect depends on a function that every render makes
\* anew (CartPage.tsx:13, AppContext.tsx:96).
ReadsGoOn ==
    [][\A b \in Browsers :
         page[b] = "cart" /\ Reading(b) /\ page'[b] = "cart" =>
            \/ Reading(b)'
            \/ \E r \in Slots(b) : /\ call[r].kind = "getCart"
                                   /\ call'[r] = NoCall
                                   /\ shown' = shown]_allVars

\* Every call comes to an end, at the server and, unless it has been left, for
\* the page that made it: no handler stops at a statement that fails, and
\* fetch, which has no timeout, waits for no answer that will not come
\* (api.ts:33, server.js:205).
CallsSettle ==
    \A r \in Requests : (call[r] # NoCall \/ pc[r] # "idle")
                        ~> (call[r] = NoCall /\ pc[r] = "idle")

-----------------------------------------------------------------------------
(* Orders.                                                                 *)

\* An order the success page names is in the database, whole
\* (CheckoutPage.tsx:28, server.js:411-432).
ReceiptNamesOrder ==
    \A b \in Browsers :
        receipt[b] # NoReceipt =>
            /\ receipt[b].order \in DOMAIN orders
            /\ Complete(orders[receipt[b].order])

\* Answers to two submits, of one browser or of two, are about two orders:
\* nobody is shown the order of another cart, however they raced for its
\* number (server.js:379, AppContext.tsx:155).
ConfirmedOnce ==
    \A r1, r2 \in Requests :
        /\ call[r1].kind = "createOrder" /\ reply[r1] = 201
        =>
        /\ AnsweredOrder(r1) \notin listed[BrowserOf[r1]]
        /\ (r1 # r2 /\ call[r2].kind = "createOrder" /\ reply[r2] = 201) =>
              AnsweredOrder(r1) # AnsweredOrder(r2)

\* A call in flight is the request its slot carries, and what it will be used
\* for fits the reducer.
CallOK(r) ==
    call[r] # NoCall =>
        /\ pc[r] # "idle" => input[r].op = call[r].kind
        /\ call[r].kind = "addItem" => call[r].pid \in Products
        /\ call[r].kind \in {"addItem", "putItem"} => call[r].qty > 0
        /\ call[r].kind = "createOrder" => reply[r] # 200

\* A browser lists orders that are there, and none that a call of its, or of
\* another browser, is still to be answered with.
ListOK(b) ==
    /\ listed[b] \subseteq DOMAIN orders
    /\ \A r \in Requests :
          call[r].kind = "createOrder" => Claims(r) \cap listed[b] = {}

\* Carts have positive quantities, and adds under way leave it at that.
CartsPositive ==
    /\ \A s \in Sessions : PositiveLines(cart[s])
    /\ \A r \in Requests : input[r].op = "addItem" => input[r].qty > 0

\* What keeps receipts and carts right: for the proofs.
ClientInv == /\ ReceiptNamesOrder
             /\ CartsPositive
             /\ \A r \in Requests : CallOK(r)
             /\ \A b \in Browsers : ListOK(b)

\* The total on the success page is the total of the order.
ReceiptShowsTotal ==
    \A b \in Browsers :
        receipt[b] # NoReceipt =>
            receipt[b].total = orders[receipt[b].order].total
=============================================================================
