----------------------------- MODULE ShopClient -----------------------------
(***************************************************************************)
(* The React client (client/src) in front of the shop server.  A browser   *)
(* keeps the state of AppContext.tsx, shows one page, and may have several *)
(* calls in flight, whose answers arrive in any order.  No page waits for  *)
(* an answer, and no call is repeated or timed out.                        *)
(*                                                                         *)
(* A slot of ShopServer carries one call: a click takes a free slot and    *)
(* its request reaches the handler at once (a request that is late or lost *)
(* on its way is one whose first statement is late or fails).  The answer  *)
(* waits in the slot until the browser takes it.  Client steps and server  *)
(* steps interleave; every action of the server is one of ShopServer.      *)
(***************************************************************************)
EXTENDS ShopServer

CONSTANTS
    Browsers,      \* browser tabs
    BrowserOf,     \* the browser that uses a slot
    Network,       \* "lost": an answer may get lost
    MaxShown       \* bound: clicks that raise a quantity start below it

ASSUME BrowserAssumption == BrowserOf \in [Requests -> Browsers]
ASSUME MaxShownAssumption == MaxShown \in Nat
ASSUME ClicksAssumption == 1 \in AddQtys /\ 1..MaxShown \subseteq PutQtys

VARIABLES
    shown,         \* state.cart of AppContext
    listed,        \* ids in state.orders
    catalogue,     \* state.products, state.loading and state.error
    page,          \* the route
    visited,       \* the checkout page is in the history of the document
    due,           \* the effect of CartPage has to run
    form,          \* the fields of CheckoutForm are such that it validates
    receipt,       \* location.state of the success page
    call,          \* what an answer will be used for
    body           \* the cart in the answer to a getCart

browserVars == <<shown, listed, catalogue, page, visited, due, form, receipt>>
clientVars == <<browserVars, call, body>>
allVars == <<vars, clientVars>>

Pages == {"products", "cart", "checkout", "success"}

\* Before loadProducts has run, while it waits, and how it ended: loading is
\* true in the second, error is set in the last.
Catalogues == {"none", "loading", "loaded", "failed"}

NoReceipt == [order |-> 0, total |-> 0]

NoCall == [kind |-> "none", pid |-> NoProduct, qty |-> 0, total |-> 0]

Slots(b) == {r \in Requests : BrowserOf[r] = b}

-----------------------------------------------------------------------------
(* Rendering.                                                              *)

\* A fault: the effect of CartPage runs when it is mounted, and then no more.
RenderedOnce(b) == UNCHANGED due

\* Every dispatch renders the provider, which makes a new loadCart, and the
\* effect of CartPage depends on loadCart.  (Dispatches that React handles in
\* one go render once.)
Rendered(b) == due' = [due EXCEPT ![b] = page[b] = "cart"]

\* CheckoutForm is mounted while there is something to check out; what was
\* typed goes when it is unmounted.
FormMounted(b) == page[b] = "checkout" /\ shown[b] # NoLines

KeepForm(b) == form' = [form EXCEPT ![b] = @ /\ FormMounted(b)']

\* Another page of the same document is mounted.
Show(b, to) == /\ page' = [page EXCEPT ![b] = to]
               /\ due' = [due EXCEPT ![b] = to = "cart"]
               /\ visited' = [visited EXCEPT ![b] = @ \/ to = "checkout"]

\* Links lead to the catalogue and the cart.  None leads to the checkout, and
\* "Proceed to Checkout" has no handler: it is reached by its address or, in
\* a document that has been there, by the history.
Navigate(b, to) ==
    /\ page[b] # to
    /\ to = "checkout" => visited[b]
    /\ to = "success" => receipt[b] # NoReceipt
    /\ Show(b, to)
    /\ UNCHANGED <<shown, listed, catalogue, receipt>>
    /\ KeepForm(b)
    /\ UNCHANGED <<call, body, vars>>

\* A document is loaded: an address is entered, a plain <a href> or the Retry
\* button clicked, or the page reloaded.  Its state is the initial one, but for
\* the receipt the history has for the success page; calls in flight go on at
\* the server and nobody waits for them.
Open(b, at) ==
    /\ at = "success" => receipt[b] # NoReceipt
    /\ page' = [page EXCEPT ![b] = at]
    /\ visited' = [visited EXCEPT ![b] = at = "checkout"]
    /\ due' = [due EXCEPT ![b] = at = "cart"]
    /\ shown' = [shown EXCEPT ![b] = NoLines]
    /\ listed' = [listed EXCEPT ![b] = {}]
    /\ catalogue' = [catalogue EXCEPT ![b] = "none"]
    /\ form' = [form EXCEPT ![b] = FALSE]
    /\ receipt' = [receipt EXCEPT ![b] = IF at = "success" THEN @ ELSE NoReceipt]
    /\ call' = [r \in Requests |-> IF r \in Slots(b) THEN NoCall ELSE call[r]]
    /\ body' = [r \in Requests |-> IF r \in Slots(b) THEN NoLines ELSE body[r]]
    /\ UNCHANGED vars

-----------------------------------------------------------------------------
(* Calls.                                                                  *)

Call(b, r, kind, p, q, total) ==
    /\ r \in Slots(b) /\ call[r] = NoCall
    /\ call' = [call EXCEPT ![r] =
                   [kind |-> kind, pid |-> p, qty |-> q, total |-> total]]
    /\ UNCHANGED <<shown, listed, page, visited, receipt, form, body>>

\* loadProducts: the effect of AppProvider, which runs once.
LoadProducts(b, r) ==
    /\ catalogue[b] = "none"
    /\ Call(b, r, "listProducts", NoProduct, 0, 0)
    /\ ReceiveListProducts(r)
    /\ catalogue' = [catalogue EXCEPT ![b] = "loading"]
    /\ Rendered(b)

\* loadCart: the effect of CartPage.
LoadCart(b, r) ==
    /\ page[b] = "cart" /\ due[b]
    /\ Call(b, r, "getCart", NoProduct, 0, 0)
    /\ ReceiveGetCart(r)
    /\ due' = [due EXCEPT ![b] = FALSE]
    /\ UNCHANGED catalogue

\* "Add to Cart" of a ProductCard that is in stock.
ClickAdd(b, r, p) ==
    /\ page[b] = "products" /\ catalogue[b] = "loaded"
    /\ QuantityOf(shown[b], p) < MaxShown
    /\ Call(b, r, "addItem", p, 1, 0)
    /\ ReceiveAdd(r, p, 1)
    /\ UNCHANGED <<catalogue, due>>

\* The buttons beside an item of the cart ask for a quantity, counted from
\* the one shown.
ClickQuantity(b, r, p, q) ==
    /\ page[b] = "cart" /\ p \in DOMAIN shown[b]
    /\ \/ q = shown[b][p] - 1 /\ shown[b][p] > 1
       \/ q = shown[b][p] + 1 /\ shown[b][p] < MaxShown
    /\ Call(b, r, "putItem", p, q, 0)
    /\ ReceivePut(r, p, q)
    /\ UNCHANGED <<catalogue, due>>

ClickRemove(b, r, p) ==
    /\ page[b] = "cart" /\ p \in DOMAIN shown[b]
    /\ Call(b, r, "removeItem", p, 0, 0)
    /\ ReceiveRemove(r, p)
    /\ UNCHANGED <<catalogue, due>>

ClickClear(b, r) ==
    /\ page[b] = "cart" /\ shown[b] # NoLines
    /\ Call(b, r, "clearCart", NoProduct, 0, 0)
    /\ ReceiveClear(r)
    /\ UNCHANGED <<catalogue, due>>

\* Typing into CheckoutForm.
UpdateField(b) ==
    /\ FormMounted(b)
    /\ \E valid \in BOOLEAN : form' = [form EXCEPT ![b] = valid]
    /\ UNCHANGED <<shown, listed, catalogue, page, visited, due, receipt>>
    /\ UNCHANGED <<call, body, vars>>

\* handleSubmit and handleOrderSubmit.  The overlay drawn meanwhile disables
\* nothing: Enter in a field submits again.  The items and the total sent are
\* those shown; the server reads neither.
Submit(b, r) ==
    /\ FormMounted(b) /\ form[b]
    /\ Call(b, r, "createOrder", NoProduct, 0, LinesTotal(shown[b]))
    /\ ReceiveCreate(r)
    /\ UNCHANGED <<catalogue, due>>

-----------------------------------------------------------------------------
(* Answers.                                                                *)

\* response.ok of fetch
Ok(r) == reply[r] \in {200, 201}

\* ADD_TO_CART
AddedTo(lines, p, q) == AddLine(lines, p, q)

\* UPDATE_CART_ITEM
Updated(lines, p, q) ==
    LET all == SetRow(lines, p, q)
    IN  Restrict(all, {x \in DOMAIN all : all[x] > 0})

\* A fault: the item stays, with no quantity.
RemovedKept(lines, p) == SetRow(lines, p, 0)

\* REMOVE_FROM_CART
Removed(lines, p) == DeleteRow(lines, p)

\* A fault: what was shown is kept and only filled up.
ReadMerged(r) == [p \in DOMAIN shown[BrowserOf[r]] \cup DOMAIN body[r] |->
                     IF p \in DOMAIN body[r] THEN body[r][p]
                                             ELSE shown[BrowserOf[r]][p]]

\* SET_CART
ReadCart(r) == body[r]

\* appReducer: the cart shown after the action that the answer of r, a
\* success, dispatches.
Reduced(r, lines) ==
    CASE call[r].kind = "getCart"     -> ReadCart(r)
      [] call[r].kind = "addItem"     -> AddedTo(lines, call[r].pid, call[r].qty)
      [] call[r].kind = "putItem"     -> Updated(lines, call[r].pid, call[r].qty)
      [] call[r].kind = "removeItem"  -> Removed(lines, call[r].pid)
      [] call[r].kind = "clearCart"   -> NoLines
      [] call[r].kind = "createOrder" -> NoLines
      [] OTHER                        -> lines

\* The id in the answer to a createOrder.
AnsweredOrder(r) == CHOOSE n \in DOMAIN view[r] : TRUE

Done(r) == /\ call[r] # NoCall
           /\ call' = [call EXCEPT ![r] = NoCall]
           /\ body' = [body EXCEPT ![r] = NoLines]
           /\ UNCHANGED vars

\* A cart call has succeeded: its action is dispatched.  The cart the server
\* sent is used by loadCart only.
CartAnswer(b, r) ==
    /\ r \in Slots(b) /\ pc[r] = "idle" /\ Ok(r)
    /\ call[r].kind \notin {"createOrder", "listProducts"}
    /\ shown' = [shown EXCEPT ![b] = Reduced(r, @)]
    /\ Rendered(b)
    /\ UNCHANGED <<listed, catalogue, page, visited, receipt>>
    /\ KeepForm(b)
    /\ Done(r)

\* createOrder has succeeded: ADD_ORDER, CLEAR_CART, and the success page,
\* whichever page is shown by then, with the total that was sent.
OrderAnswer(b, r) ==
    /\ r \in Slots(b) /\ pc[r] = "idle" /\ Ok(r)
    /\ call[r].kind = "createOrder"
    /\ shown' = [shown EXCEPT ![b] = Reduced(r, @)]
    /\ listed' = [listed EXCEPT ![b] = @ \cup {AnsweredOrder(r)}]
    /\ Show(b, "success")
    /\ receipt' = [receipt EXCEPT ![b] =
                      [order |-> AnsweredOrder(r), total |-> call[r].total]]
    /\ UNCHANGED catalogue
    /\ KeepForm(b)
    /\ Done(r)

\* loadProducts ends, whatever the answer: SET_PRODUCTS or SET_ERROR, then
\* SET_LOADING.
ProductsAnswer(b, r, ok) ==
    /\ r \in Slots(b) /\ call[r].kind = "listProducts"
    /\ catalogue' = [catalogue EXCEPT ![b] = IF ok THEN "loaded" ELSE "failed"]
    /\ Rendered(b)
    /\ UNCHANGED <<shown, listed, page, visited, form, receipt>>
    /\ Done(r)

\* Any other call has failed: that is logged, nothing is dispatched, nothing
\* rendered, and the effect of CartPage does not run again.
FailedAnswer(b, r) ==
    /\ r \in Slots(b) /\ call[r].kind # "listProducts"
    /\ UNCHANGED browserVars
    /\ Done(r)

Answers(b, r) ==
    \/ CartAnswer(b, r)
    \/ OrderAnswer(b, r)
    \/ pc[r] = "idle" /\ ProductsAnswer(b, r, Ok(r))
    \/ pc[r] = "idle" /\ ~Ok(r) /\ FailedAnswer(b, r)

\* fetch rejects: the connection broke, whatever becomes of the request.
Loses(b, r) == /\ "lost" \in Network
               /\ ProductsAnswer(b, r, FALSE) \/ FailedAnswer(b, r)

-----------------------------------------------------------------------------
(* The server.  The answer to a getCart holds the rows its statement read. *)

Reads(r) ==
    body' = [body EXCEPT ![r] =
        IF pc[r] = "selectCart" /\ call[r].kind = "getCart" THEN CartOf(r)
                                                            ELSE @]

ServerHandles(r) == Handle(r) /\ Reads(r) /\ UNCHANGED <<browserVars, call>>

ServerFails(r) == Fail(r) /\ UNCHANGED clientVars

-----------------------------------------------------------------------------
ClientInit ==
    /\ Init
    /\ shown = [b \in Browsers |-> NoLines]
    /\ listed = [b \in Browsers |-> {}]
    /\ catalogue = [b \in Browsers |-> "none"]
    /\ page \in [Browsers -> {"products", "cart", "checkout"}]
    /\ visited = [b \in Browsers |-> page[b] = "checkout"]
    /\ due = [b \in Browsers |-> page[b] = "cart"]
    /\ form = [b \in Browsers |-> FALSE]
    /\ receipt = [b \in Browsers |-> NoReceipt]
    /\ call = [r \in Requests |-> NoCall]
    /\ body = [r \in Requests |-> NoLines]

Effects(b, r) == LoadProducts(b, r) \/ LoadCart(b, r)

Clicks(b, r) ==
    \/ \E p \in Products : ClickAdd(b, r, p)
    \/ \E p \in Products, q \in 1..MaxShown : ClickQuantity(b, r, p, q)
    \/ \E p \in Products : ClickRemove(b, r, p)
    \/ ClickClear(b, r)
    \/ Submit(b, r)

BrowserStep(b) ==
    \/ \E to \in Pages : Navigate(b, to)
    \/ \E at \in Pages : Open(b, at)
    \/ UpdateField(b)
    \/ \E r \in Requests : Effects(b, r) \/ Clicks(b, r)
    \/ \E r \in Requests : Answers(b, r) \/ Loses(b, r)

ClientNext == \/ \E b \in Browsers : BrowserStep(b)
              \/ \E r \in Requests : ServerHandles(r) \/ ServerFails(r)

ClientSpec == ClientInit /\ [][ClientNext]_allVars

\* React runs the effects of what it has rendered, answers that have come are
\* taken, handlers go on.  Nobody has to click.
ClientFairness ==
    /\ \A r \in Requests : WF_allVars(ServerHandles(r))
    /\ \A b \in Browsers : WF_allVars(\E r \in Requests : Effects(b, r))
    /\ \A b \in Browsers, r \in Requests : WF_allVars(Answers(b, r))

FairClientSpec == ClientSpec /\ ClientFairness
=============================================================================
