---------------------------- MODULE ServiceProofs ----------------------------
(***************************************************************************)
(* Theorems about requests that share a session: what can come of an add   *)
(* or a checkout besides what it asks for, and that a request which meets  *)
(* no other is atomic.  Numbers of requests, sessions and products are     *)
(* any, requests of one session as many as there are slots, and statements *)
(* fail and processes die, unless a theorem says otherwise.                *)
(***************************************************************************)
EXTENDS AnswerProofs, SharedCarts

-----------------------------------------------------------------------------
(* Rows.                                                                   *)

\* An UPDATE that finds its row adds to it.
LEMMA IncrementAdds ==
    ASSUME NEW lines, NEW p \in DOMAIN lines, NEW q
    PROVE  IncrementRow(lines, p, q) = AddLine(lines, p, q)
BY DEF IncrementRow, SetRow, AddLine

\* An INSERT that finds none adds to nothing.
LEMMA InsertAdds ==
    ASSUME NEW lines, NEW p, p \notin DOMAIN lines, NEW q \in Int
    PROVE  WithRow(lines, p, q) = AddLine(lines, p, q)
<1>1. QuantityOf(lines, p) + q = q
  BY DEF QuantityOf
<1> QED BY <1>1 DEF AddLine

\* A product that is no catalogue product has no row to set or delete.
LEMMA UnknownProduct ==
    ASSUME NEW lines, IsLines(lines), NEW p, p \notin Products, NEW q
    PROVE  SetRow(lines, p, q) = lines /\ DeleteRow(lines, p) = lines
<1>1. p \notin DOMAIN lines
  BY DEF IsLines
<1>2. SetRow(lines, p, q) = lines
  BY <1>1 DEF SetRow
<1>3. Restrict(lines, DOMAIN lines \ {p}) = lines
  BY <1>1 DEF Restrict, IsLines
<1> QED BY <1>2, <1>3 DEF DeleteRow

\* The row of a product, if there is one.
LEMMA ExistingRowTells ==
    ASSUME NEW r \in Requests
    PROVE  ExistingRow(r) = NoLines <=> input[r].pid \notin DOMAIN CartOf(r)
<1>1. DOMAIN ExistingRow(r) = DOMAIN CartOf(r) \cap {input[r].pid}
  BY DEF ExistingRow, Restrict
<1>2. DOMAIN NoLines = {}
  BY DEF NoLines
<1>3. CASE input[r].pid \notin DOMAIN CartOf(r)
  <2>1. DOMAIN CartOf(r) \cap {input[r].pid} = {}
    BY <1>3
  <2> QED BY <1>3, <2>1 DEF ExistingRow, Restrict, NoLines
<1>4. CASE input[r].pid \in DOMAIN CartOf(r)
  BY <1>1, <1>2, <1>4
<1> QED BY <1>3, <1>4

\* Rows that agree on every product are the same.
LEMMA SameRowsSame ==
    ASSUME NEW a, IsLines(a), NEW b, IsLines(b),
           \A p \in Products : SameRow(a, b, p)
    PROVE  a = b
<1>1. DOMAIN a = DOMAIN b
  BY DEF IsLines, SameRow
<1>2. \A p \in DOMAIN a : a[p] = b[p]
  BY <1>1 DEF IsLines, SameRow, QuantityOf
<1> QED BY <1>1, <1>2 DEF IsLines

-----------------------------------------------------------------------------
(* A handler changes the cart of its own session and no other, and there   *)
(* what it has been asked to change.                                       *)

\* The cart of another session is as it was.
LEMMA OneCart ==
    ASSUME NEW r \in Requests, Arrive(r) \/ Handle(r) \/ Fail(r), TypeOK,
           NEW s \in Sessions, s # Session(r)
    PROVE  cart'[s] = cart[s]
<1>1. CASE Arrive(r) \/ Fail(r)
  BY <1>1 DEF Arrive, ReceiveAdd, ReceivePut, ReceiveRemove, ReceiveClear,
              ReceiveGetCart, ReceiveCreate, ReceiveGetOrder,
              ReceiveListOrders, ReceiveListProducts, ReceiveGetProduct,
              Receive, Fail, QueryFails, ProcessDies, ProxyRetries
<1>2. CASE \E lines : cart' = [cart EXCEPT ![Session(r)] = lines]
  BY <1>2 DEF TypeOK, FunctionOn
<1>3. CASE UpdateRow(r) \/ InsertRow(r) \/ PutRow(r) \/ RemoveRow(r)
  BY <1>2, <1>3 DEF UpdateRow, InsertRow, PutRow, RemoveRow
<1>4. CASE ClearCart(r) \/ ClearOrdered(r)
  BY <1>2, <1>4 DEF ClearCart, ClearOrdered, CartsWithout
<1> QED BY <1>1, <1>3, <1>4
        DEF Handle, SelectProduct, SelectExisting, SelectCart, SelectOrderRows,
            CountOrders, InsertOrder, InsertItem, FetchOrder, SelectOrder,
            SelectOrders, SelectItems, SelectProducts, SelectById

\* What a step of r takes out of its cart it was asked to remove, what it puts
\* in to add, and other rows it leaves alone.
LEMMA WritesAsked ==
    ASSUME IInv, NEW r \in Requests, Arrive(r) \/ Handle(r) \/ Fail(r),
           CartOf(r)' # CartOf(r), NEW p \in Products
    PROVE  /\ pc'[r] # pc[r]
           /\ p \in DOMAIN CartOf(r) /\ p \notin DOMAIN CartOf(r)' =>
                 Removes(input[r], p)
           /\ p \notin DOMAIN CartOf(r) /\ p \in DOMAIN CartOf(r)' =>
                 Adds(input[r], p)
           /\ ~SameRow(CartOf(r), CartOf(r)', p) => Concerns(input[r], p)
<1> DEFINE s == Session(r)
           i == input[r].pid
           q == input[r].qty
           lines == cart[s]
<1>1. /\ s \in Sessions /\ CartOf(r) = lines /\ CartOf(r)' = cart'[s]
      /\ FunctionOn(cart, Sessions) /\ IsLines(lines) /\ StageOK(r)
      /\ r \in DOMAIN pc /\ q \in Int
  BY SessionAssumption
     DEF IInv, ShopInv, TypeOK, Session, CartOf, InputType
<1>2. cart' # cart
  BY <1>1
<1>3. ASSUME NEW to, cart' = [cart EXCEPT ![s] = to] PROVE cart'[s] = to
  BY <1>1, <1>3 DEF FunctionOn
<1> HIDE DEF s
<1>4. ASSUME UpdateRow(r) \/ InsertRow(r)
      PROVE  input[r].op = "addItem"
  BY <1>1, <1>4 DEF UpdateRow, InsertRow, StageOK
<1>5. CASE UpdateRow(r)
  <2>1. cart'[s] = IncrementRow(lines, i, q)
    BY <1>1, <1>3, <1>5 DEF UpdateRow, IncrementedRows, s
  <2>2. /\ DOMAIN cart'[s] = DOMAIN lines
        /\ p # i => SameRow(lines, cart'[s], p)
    BY <2>1 DEF IncrementRow, SetRow, WithRow, SameRow, QuantityOf
  <2>3. pc'[r] # pc[r]
    BY <1>1, <1>5 DEF UpdateRow, Goto
  <2> QED BY <1>1, <1>4, <1>5, <2>2, <2>3 DEF Concerns
<1>6. CASE InsertRow(r)
  <2>1. cart'[s] = WithRow(lines, i, q)
    BY <1>1, <1>2, <1>3, <1>6 DEF InsertRow, s
  <2>2. /\ DOMAIN cart'[s] = DOMAIN lines \cup {i}
        /\ p # i => SameRow(lines, cart'[s], p)
    BY <2>1 DEF WithRow, SameRow, QuantityOf
  <2>3. pc'[r] # pc[r]
    BY <1>1, <1>2, <1>6 DEF InsertRow, Goto
  <2> QED BY <1>1, <1>4, <1>6, <2>2, <2>3 DEF Concerns, Adds
<1>7. CASE PutRow(r)
  <2>1. cart'[s] = PutRows(r) /\ input[r].op = "putItem"
    BY <1>1, <1>3, <1>7 DEF PutRow, StageOK, s
  <2>2. /\ DOMAIN cart'[s] \subseteq DOMAIN lines
        /\ p \in DOMAIN lines \ DOMAIN cart'[s] => p = i /\ q <= 0
        /\ p # i => SameRow(lines, cart'[s], p)
    <3>1. CASE q <= 0
      <4>1. cart'[s] = Restrict(lines, DOMAIN lines \ {i})
        BY <1>1, <2>1, <3>1 DEF PutRows, DeleteRow
      <4> QED BY <3>1, <4>1 DEF Restrict, SameRow, QuantityOf
    <3>2. CASE ~(q <= 0)
      <4>1. cart'[s] = SetRow(lines, i, q)
        BY <1>1, <2>1, <3>2 DEF PutRows
      <4> QED BY <4>1 DEF SetRow, WithRow, SameRow, QuantityOf
    <3> QED BY <3>1, <3>2
  <2>3. pc'[r] # pc[r]
    BY <1>1, <1>7 DEF PutRow, Goto
  <2> QED BY <1>1, <2>1, <2>2, <2>3 DEF Concerns, Removes
<1>8. CASE RemoveRow(r)
  <2>1. cart'[s] = DeleteRow(lines, i) /\ input[r].op = "removeItem"
    BY <1>1, <1>3, <1>8 DEF RemoveRow, StageOK, s
  <2>2. /\ DOMAIN cart'[s] = DOMAIN lines \ {i}
        /\ p # i => SameRow(lines, cart'[s], p)
    BY <2>1 DEF DeleteRow, Restrict, SameRow, QuantityOf
  <2>3. pc'[r] # pc[r]
    BY <1>1, <1>8 DEF RemoveRow, Goto
  <2> QED BY <1>1, <2>1, <2>2, <2>3 DEF Concerns, Removes
<1>9. CASE ClearCart(r) \/ ClearOrdered(r)
  <2>1. input[r].op \in {"clearCart", "createOrder"}
    BY <1>1, <1>9 DEF ClearCart, ClearOrdered, StageOK
  <2>2. cart'[s] = NoLines
    BY <1>1, <1>3, <1>9 DEF ClearCart, ClearOrdered, CartsWithout, s
  <2>3. pc'[r] # pc[r]
    BY <1>1, <1>9 DEF ClearCart, ClearOrdered, Goto, Answer
  <2>4. p \notin DOMAIN cart'[s]
    BY <2>2 DEF NoLines
  <2> QED BY <1>1, <2>1, <2>3, <2>4 DEF Concerns, Removes
<1>10. CASE Arrive(r) \/ Fail(r)
  BY <1>2, <1>10 DEF Arrive, ReceiveAdd, ReceivePut, ReceiveRemove,
              ReceiveClear, ReceiveGetCart, ReceiveCreate, ReceiveGetOrder,
              ReceiveListOrders, ReceiveListProducts, ReceiveGetProduct,
              Receive, Fail, QueryFails, ProcessDies, ProxyRetries
<1> QED BY <1>2, <1>5, <1>6, <1>7, <1>8, <1>9, <1>10
        DEF Handle, SelectProduct, SelectExisting, SelectCart, SelectOrderRows,
            CountOrders, InsertOrder, InsertItem, FetchOrder, SelectOrder,
            SelectOrders, SelectItems, SelectProducts, SelectById

-----------------------------------------------------------------------------
(* The invariant: what a handler goes by is so, but for what it has met.   *)
(* What fails does not matter to it: a handler that fails goes by nothing. *)

\* Nothing is read at the start.
LEMMA InitMet == HInit => MetInv
BY DEF HInit, Init, MetInv, ReadOK, AskedOK, NoInput

\* A handler that goes by its cart forgets nobody it has met.
LEMMA MetKept ==
    ASSUME NEW r \in Requests, Meet, GoesByCart(r), GoesByCart(r)'
    PROVE  met'[r] = met[r] \cup ChangedBy(r)
BY DEF Meet

\* A request asks for quantities its callers use.
LEMMA ReceiveAsked ==
    ASSUME IInv, NEW r \in Requests, NEW op \in AllOps, NEW p, NEW q, NEW n,
           Receive(r, op, p, q, n),
           op = "addItem" => q \in AddQtys, op = "putItem" => q \in PutQtys
    PROVE  ReadOK(r)' /\ AskedOK(r)'
<1>1. pc'[r] = FirstStatement[op]
      /\ input'[r] = [op |-> op, pid |-> p, qty |-> q, order |-> n]
  BY DEF Receive, IInv, TypeOK
<1> QED BY <1>1 DEF ReadOK, AskedOK, FirstStatement, AllOps

\* So does every request that arrives.
LEMMA ArriveAsked ==
    ASSUME IInv, NEW r \in Requests, Arrive(r)
    PROVE  ReadOK(r)' /\ AskedOK(r)'
<1>1. ASSUME NEW op \in AllOps, NEW p, NEW q, NEW n, Receive(r, op, p, q, n),
             op = "addItem" => q \in AddQtys, op = "putItem" => q \in PutQtys
      PROVE  ReadOK(r)' /\ AskedOK(r)'
  BY <1>1, ReceiveAsked
<1> QED BY <1>1 DEF Arrive, ReceiveAdd, ReceivePut, ReceiveRemove, ReceiveClear,
                    ReceiveGetCart, ReceiveCreate, ReceiveGetOrder,
                    ReceiveListOrders, ReceiveListProducts, ReceiveGetProduct,
                    AllOps

\* A handler that has answered asks for nothing and goes by nothing.
LEMMA AnswerAsked ==
    ASSUME IInv, NEW r \in Requests, NEW code, NEW read, Answer(r, code, read)
    PROVE  ReadOK(r)' /\ AskedOK(r)'
<1>1. pc'[r] = "idle" /\ input'[r] = NoInput
  BY DEF Answer, IInv, TypeOK
<1> QED BY <1>1 DEF ReadOK, AskedOK, NoInput

\* One that goes on to a statement where it goes by nothing it has read.
LEMMA GotoAsked ==
    ASSUME IInv, NEW r \in Requests, AskedOK(r), NEW label, Goto(r, label),
           label \notin {"updateRow", "insertRow", "countOrders", "insertOrder",
                         "insertItems"}
    PROVE  ReadOK(r)' /\ AskedOK(r)'
<1>1. pc'[r] = label /\ input'[r] = input[r]
  BY DEF Goto, IInv, TypeOK
<1> QED BY <1>1 DEF ReadOK, AskedOK

\* A failing handler, and one that begins anew.
LEMMA FailAsked ==
    ASSUME IInv, NEW r \in Requests, AskedOK(r), Fail(r)
    PROVE  ReadOK(r)' /\ AskedOK(r)'
<1>1. CASE QueryFails(r) \/ ProcessDies(r)
  BY <1>1, AnswerAsked DEF QueryFails, ProcessDies
<1>2. CASE ProxyRetries(r)
  <2>1. /\ input[r].op \in AllOps /\ input'[r] = input[r]
        /\ pc'[r] = FirstStatement[input[r].op]
    BY <1>2 DEF ProxyRetries, Idempotent, IInv, TypeOK
  <2> QED BY <2>1 DEF ReadOK, AskedOK, FirstStatement, AllOps
<1> QED BY <1>1, <1>2 DEF Fail

\* The statements of a handler: what it reads is so, and until it writes it
\* changes no cart.
LEMMA HandleAsked ==
    ASSUME IInv, NEW r \in Requests, ReadOK(r), AskedOK(r), Handle(r), Meet
    PROVE  ReadOK(r)' /\ AskedOK(r)'
<1> USE DEF IInv, TypeOK, FunctionOn
<1>1. CASE SelectProduct(r)
  BY <1>1, AnswerAsked, GotoAsked DEF SelectProduct
<1>2. CASE SelectExisting(r)
  <2>1. /\ pc'[r] = IF ExistingRow(r) = NoLines THEN "insertRow" ELSE "updateRow"
        /\ UNCHANGED <<input, cart>>
    BY <1>2 DEF SelectExisting, Goto
  <2> QED BY <2>1, ExistingRowTells DEF ReadOK, AskedOK, CartOf
<1>3. CASE UpdateRow(r) \/ PutRow(r) \/ RemoveRow(r)
  BY <1>3, GotoAsked DEF UpdateRow, PutRow, RemoveRow
<1>4. CASE InsertRow(r)
  BY <1>4, AnswerAsked, GotoAsked DEF InsertRow
<1>5. CASE ClearCart(r) \/ SelectCart(r)
  BY <1>5, AnswerAsked DEF ClearCart, SelectCart
<1>6. CASE SelectOrderRows(r)
  <2>1. CASE CartOf(r) = NoLines
    BY <1>6, <2>1, AnswerAsked DEF SelectOrderRows
  <2>2. CASE CartOf(r) # NoLines
    <3>1. /\ pc'[r] = "countOrders" /\ rows'[r] = CartOf(r)
          /\ UNCHANGED <<input, cart>>
      BY <1>6, <2>2 DEF SelectOrderRows, Goto
    <3> QED BY <3>1 DEF ReadOK, AskedOK, CartOf, SameRow
  <2> QED BY <2>1, <2>2
<1>7. CASE CountOrders(r)
  <2>1. /\ pc[r] = "countOrders" /\ pc'[r] = "insertOrder"
        /\ UNCHANGED <<input, cart, rows>>
    BY <1>7 DEF CountOrders, Goto
  <2>2. met[r] \subseteq met'[r]
    BY <2>1, MetKept DEF GoesByCart
  <2> QED BY <2>1, <2>2 DEF ReadOK, AskedOK, CartOf
<1>8. CASE InsertOrder(r)
  <2>1. CASE IdTaken(r)
    BY <1>8, <2>1, AnswerAsked DEF InsertOrder
  <2>2. CASE ~IdTaken(r)
    <3>1. /\ pc[r] = "insertOrder" /\ pc'[r] = "insertItems"
          /\ UNCHANGED <<input, cart, rows>>
      BY <1>8, <2>2 DEF InsertOrder, Goto
    <3>2. met[r] \subseteq met'[r]
      BY <3>1, MetKept DEF GoesByCart
    <3> QED BY <3>1, <3>2 DEF ReadOK, AskedOK, CartOf
  <2> QED BY <2>1, <2>2
<1>9. CASE InsertItem(r)
  <2>1. pc[r] = "insertItems" /\ UNCHANGED <<pc, input, cart, rows>>
    BY <1>9 DEF InsertItem
  <2>2. met[r] \subseteq met'[r]
    BY <2>1, MetKept DEF GoesByCart
  <2> QED BY <2>1, <2>2 DEF ReadOK, AskedOK, CartOf
<1>10. CASE ClearOrdered(r)
  BY <1>10, GotoAsked DEF ClearOrdered
<1>11. CASE FetchOrder(r) \/ SelectOrder(r) \/ SelectOrders(r)
  BY <1>11, AnswerAsked, GotoAsked
     DEF FetchOrder, SelectOrder, SelectOrders, ReadHeaders
<1>12. CASE SelectItems(r)
  <2>1. CASE UNCHANGED pc
    <3>1. pc[r] = "selectItems" /\ UNCHANGED <<pc, input>>
      BY <1>12, <2>1 DEF SelectItems, Answer
    <3> QED BY <3>1 DEF ReadOK, AskedOK
  <2>2. CASE ~UNCHANGED pc
    BY <1>12, <2>2, AnswerAsked DEF SelectItems
  <2> QED BY <2>1, <2>2
<1>13. CASE SelectProducts(r) \/ SelectById(r)
  BY <1>13, AnswerAsked DEF SelectProducts, SelectById
<1> QED BY <1>1, <1>2, <1>3, <1>4, <1>5, <1>6, <1>7, <1>8, <1>9, <1>10, <1>11,
           <1>12, <1>13 DEF Handle

\* A step of another slot either leaves x what it goes by or is met by it.
LEMMA OthersMet ==
    ASSUME IInv, NEW x \in Requests, ReadOK(x), AskedOK(x), Meet,
           NEW r \in Requests, r # x, Arrive(r) \/ Handle(r) \/ Fail(r)
    PROVE  ReadOK(x)' /\ AskedOK(x)'
<1>1. SlotKept(x)
  BY OneSlot DEF IInv
<1>2. AskedOK(x)'
  BY <1>1 DEF SlotKept, AskedOK
<1>3. /\ GoesByCart(x)' <=> GoesByCart(x)
      /\ pc'[x] = pc[x] /\ input'[x] = input[x] /\ rows'[x] = rows[x]
  BY <1>1 DEF SlotKept, GoesByCart
<1>4. GoesByCart(x) => met'[x] = met[x] \cup ChangedBy(x)
  BY <1>3, MetKept
<1>5. /\ pc[x] \in {"updateRow", "insertRow"} => input[x].pid \in Products
      /\ Session(x) \in Sessions
  BY SessionAssumption DEF IInv, ShopInv, StageOK, Session
<1>6. CASE CartOf(x)' = CartOf(x)
  BY <1>2, <1>3, <1>4, <1>6 DEF ReadOK, GoesByCart
<1>7. CASE CartOf(x)' # CartOf(x)
  <2>1. Session(r) = Session(x)
    BY <1>5, <1>7, OneCart DEF IInv, CartOf, Session
  <2>2. CartOf(r) = CartOf(x) /\ CartOf(r)' = CartOf(x)'
    BY <2>1 DEF CartOf, Session
  <2>3. ASSUME NEW p \in Products
        PROVE  /\ pc'[r] # pc[r]
               /\ p \in DOMAIN CartOf(x) /\ p \notin DOMAIN CartOf(x)' =>
                     Removes(input[r], p)
               /\ p \notin DOMAIN CartOf(x) /\ p \in DOMAIN CartOf(x)' =>
                     Adds(input[r], p)
               /\ ~SameRow(CartOf(x), CartOf(x)', p) => Concerns(input[r], p)
    BY <1>7, <2>2, WritesAsked
  <2>4. (\E p \in Products : TRUE) => input[r] \in ChangedBy(x)
    BY <1>7, <2>1, <2>3 DEF ChangedBy
  <2>5. pc[x] = "updateRow" => /\ met'[x] = met[x] \cup ChangedBy(x)
                               /\ input[r] \in ChangedBy(x)
    BY <1>4, <1>5, <2>4 DEF GoesByCart
  <2>6. pc[x] = "insertRow" => /\ met'[x] = met[x] \cup ChangedBy(x)
                               /\ input[r] \in ChangedBy(x)
    BY <1>4, <1>5, <2>4 DEF GoesByCart
  <2>7. pc'[x] = "updateRow" /\ input'[x].pid \notin DOMAIN CartOf(x)' =>
           \E m \in met'[x] : Removes(m, input'[x].pid)
    BY <1>3, <1>5, <2>3, <2>5 DEF ReadOK
  <2>8. pc'[x] = "insertRow" /\ input'[x].pid \in DOMAIN CartOf(x)' =>
           \E m \in met'[x] : Adds(m, input'[x].pid)
    BY <1>3, <1>5, <2>3, <2>6 DEF ReadOK
  <2>9. ASSUME pc'[x] \in {"countOrders", "insertOrder", "insertItems"},
               NEW p \in Products
        PROVE  \/ SameRow(rows'[x], CartOf(x)', p)
               \/ \E m \in met'[x] : Concerns(m, p)
    <3>1. met'[x] = met[x] \cup ChangedBy(x) /\ input[r] \in ChangedBy(x)
      BY <1>3, <1>4, <2>4, <2>9 DEF GoesByCart
    <3>2. CASE SameRow(CartOf(x), CartOf(x)', p)
      <4>1. SameRow(rows[x], CartOf(x), p) => SameRow(rows[x], CartOf(x)', p)
        BY <3>2 DEF SameRow
      <4> QED BY <1>3, <2>9, <3>1, <4>1 DEF ReadOK
    <3>3. CASE ~SameRow(CartOf(x), CartOf(x)', p)
      BY <2>3, <3>1, <3>3
    <3> QED BY <3>2, <3>3
  <2>10. ReadOK(x)'
    BY <2>7, <2>8, <2>9 DEF ReadOK
  <2> QED BY <1>2, <2>10
<1> QED BY <1>2, <1>6, <1>7

\* No step disturbs the invariant.
LEMMA NextMet ==
    ASSUME IInv, MetInv, HNext
    PROVE  MetInv'
<1>1. PICK r \in Requests : Arrive(r) \/ Handle(r) \/ Fail(r)
  BY DEF HNext, Next
<1>2. ReadOK(r)' /\ AskedOK(r)'
  BY <1>1, ArriveAsked, HandleAsked, FailAsked DEF MetInv, HNext
<1>3. ASSUME NEW x \in Requests, x # r PROVE ReadOK(x)' /\ AskedOK(x)'
  BY <1>1, <1>3, OthersMet DEF MetInv, HNext
<1> QED BY <1>2, <1>3 DEF MetInv

\* The history variable changes nothing about the server.
LEMMA HistoryOnly == HSpec => Spec
<1>1. HInit => Init
  BY DEF HInit
<1>2. [HNext]_hvars => [Next]_vars
  BY DEF HNext, hvars
<1> QED BY <1>1, <1>2, PTL DEF HSpec, Spec

\* What a handler has read of its cart is so until it writes it, but for what
\* the requests of its session that have changed the cart since have asked for,
\* whatever fails (server.js:167-187, 359-408).
THEOREM ReadsStayTrueUnlessMet == HSpec => []MetInv
<1>1. IInv /\ MetInv /\ [HNext]_hvars => MetInv'
  <2>1. ASSUME MetInv, UNCHANGED hvars PROVE MetInv'
    BY <2>1 DEF MetInv, ReadOK, AskedOK, CartOf, Session, hvars, vars
  <2> QED BY <2>1, NextMet
<1>2. HSpec => []IInv
  BY HistoryOnly, InitIInv, NextIInv, PTL DEF Spec
<1> QED BY <1>1, <1>2, InitMet, PTL DEF HSpec

\* A step that changes the slot of r is a step of r.
LEMMA StepOfSlot ==
    ASSUME IInv, Next, NEW r \in Requests, pc'[r] # pc[r]
    PROVE  Arrive(r) \/ Handle(r) \/ Fail(r)
<1>1. PICK x \in Requests : Arrive(x) \/ Handle(x) \/ Fail(x)
  BY DEF Next
<1>2. x = r
  BY <1>1, OneSlot DEF IInv, SlotKept
<1> QED BY <1>1, <1>2

-----------------------------------------------------------------------------
(* Adds and checkouts of a shared session.                                 *)

\* The statement by which a handler gets from one label to another.
LEMMA LeavesLabel ==
    ASSUME IInv, NEW r \in Requests, Arrive(r) \/ Handle(r) \/ Fail(r)
    PROVE  /\ pc[r] = "updateRow" /\ pc'[r] = "selectCart" => UpdateRow(r)
           /\ pc[r] = "insertItems" /\ pc'[r] = "fetchOrder" => ClearOrdered(r)
<1> SUFFICES ASSUME pc[r] \in {"updateRow", "insertItems"},
                    pc'[r] \in {"selectCart", "fetchOrder"}
             PROVE  UpdateRow(r) \/ ClearOrdered(r)
  BY DEF UpdateRow, ClearOrdered
<1>1. input[r].op \in {"addItem", "createOrder"}
  BY DEF IInv, ShopInv, StageOK
<1>2. ~Arrive(r)
  BY DEF Arrive, ReceiveAdd, ReceivePut, ReceiveRemove, ReceiveClear,
         ReceiveGetCart, ReceiveCreate, ReceiveGetOrder, ReceiveListOrders,
         ReceiveListProducts, ReceiveGetProduct, Receive
<1>3. ~Fail(r)
  BY <1>1 DEF Fail, QueryFails, ProcessDies, ProxyRetries, Idempotent, Answer,
              IInv, TypeOK
<1>4. ~InsertItem(r)
  BY DEF InsertItem
<1> QED BY <1>2, <1>3, <1>4
        DEF Handle, SelectProduct, SelectExisting, InsertRow, PutRow, RemoveRow,
            ClearCart, SelectCart, SelectOrderRows, CountOrders, InsertOrder,
            FetchOrder, SelectOrder, SelectOrders, SelectItems, SelectProducts,
            SelectById

\* An add that is answered 200 is in the cart, unless a request of the same
\* session has asked to remove or order its row meanwhile (server.js:172-181).
THEOREM AddsLand == HSpec => AddLandsUnlessRemoved
<1>1. IInv /\ MetInv /\ [HNext]_hvars =>
         [\A r \in Requests :
            pc[r] = "updateRow" /\ pc'[r] = "selectCart" =>
               \/ cart' = [cart EXCEPT ![Session(r)] =
                              AddLine(@, input[r].pid, input[r].qty)]
               \/ \E m \in met[r] : Removes(m, input[r].pid)]_hvars
  <2> SUFFICES ASSUME IInv, MetInv, HNext, NEW r \in Requests,
                      pc[r] = "updateRow", pc'[r] = "selectCart",
                      ~\E m \in met[r] : Removes(m, input[r].pid)
               PROVE  cart' = [cart EXCEPT ![Session(r)] =
                                  AddLine(@, input[r].pid, input[r].qty)]
    OBVIOUS
  <2>1. UpdateRow(r)
    BY StepOfSlot, LeavesLabel DEF HNext
  <2>2. input[r].pid \in DOMAIN CartOf(r)
    BY DEF MetInv, ReadOK
  <2>3. IncrementedRows(r) = AddLine(CartOf(r), input[r].pid, input[r].qty)
    BY <2>2, IncrementAdds DEF IncrementedRows
  <2> QED BY <2>1, <2>3 DEF UpdateRow, CartOf
<1>2. HSpec => []IInv
  BY HistoryOnly, InitIInv, NextIInv, PTL DEF Spec
<1> QED BY <1>1, <1>2, ReadsStayTrueUnlessMet, PTL
        DEF HSpec, AddLandsUnlessRemoved

\* When no statement fails, an INSERT of an add is refused only for another
\* add of the same product to the same cart (server.js:172-187).
THEOREM AddsRefusedForAdds ==
    ASSUME "query" \notin Faults PROVE HSpec => AddRefusedForAnother
<1>1. IInv /\ MetInv /\ [HNext]_hvars =>
         [\A r \in Requests :
            pc[r] = "insertRow" /\ pc'[r] = "idle" /\ reply'[r] = 400 =>
               \E m \in met[r] : Adds(m, input[r].pid)]_hvars
  <2> SUFFICES ASSUME IInv, MetInv, HNext, NEW r \in Requests,
                      pc[r] = "insertRow", pc'[r] = "idle", reply'[r] = 400
               PROVE  input[r].pid \in DOMAIN CartOf(r)
    BY DEF MetInv, ReadOK
  <2>1. Arrive(r) \/ Handle(r) \/ Fail(r)
    BY StepOfSlot DEF HNext
  <2>2. input[r].op = "addItem" /\ r \in DOMAIN reply /\ r \in DOMAIN pc
    BY DEF IInv, ShopInv, StageOK, TypeOK
  <2>3. ~Arrive(r)
    BY DEF Arrive, ReceiveAdd, ReceivePut, ReceiveRemove, ReceiveClear,
           ReceiveGetCart, ReceiveCreate, ReceiveGetOrder, ReceiveListOrders,
           ReceiveListProducts, ReceiveGetProduct, Receive
  <2>4. ~Fail(r)
    BY <2>2 DEF Fail, QueryFails, ProcessDies, ProxyRetries, Idempotent, Answer
  <2>5. InsertRow(r)
    BY <2>1, <2>3, <2>4
       DEF Handle, SelectProduct, SelectExisting, UpdateRow, PutRow, RemoveRow,
           ClearCart, SelectCart, SelectOrderRows, CountOrders, InsertOrder,
           InsertItem, ClearOrdered, FetchOrder, SelectOrder, SelectOrders,
           SelectItems, SelectProducts, SelectById
  <2> QED BY <2>2, <2>5 DEF InsertRow, RowExists, Goto
<1>2. HSpec => []IInv
  BY HistoryOnly, InitIInv, NextIInv, PTL DEF Spec
<1> QED BY <1>1, <1>2, ReadsStayTrueUnlessMet, PTL
        DEF HSpec, AddRefusedForAnother

\* A checkout takes out of the carts what it has ordered, but for rows that
\* another request of the session has asked to change meanwhile
\* (server.js:359-408).
THEOREM CheckoutsTakeTheirCart == HSpec => CheckoutTakesItsCart
<1>1. IInv /\ MetInv /\ [HNext]_hvars =>
         [\A r \in Requests :
            pc[r] = "insertItems" /\ pc'[r] = "fetchOrder" =>
               /\ cart' = [cart EXCEPT ![Session(r)] = NoLines]
               /\ \A p \in Products :
                     \/ SameRow(orders[oid[r]].items, CartOf(r), p)
                     \/ \E m \in met[r] : Concerns(m, p)]_hvars
  <2> SUFFICES ASSUME IInv, MetInv, HNext, NEW r \in Requests,
                      pc[r] = "insertItems", pc'[r] = "fetchOrder"
               PROVE  /\ cart' = [cart EXCEPT ![Session(r)] = NoLines]
                      /\ \A p \in Products :
                            \/ SameRow(orders[oid[r]].items, CartOf(r), p)
                            \/ \E m \in met[r] : Concerns(m, p)
    OBVIOUS
  <2>1. ClearOrdered(r)
    BY StepOfSlot, LeavesLabel DEF HNext
  <2>2. /\ todo[r] = {} /\ WriterOK(r) /\ IsLines(rows[r]) /\ Writing(r)
        /\ cart' = [cart EXCEPT ![Session(r)] = NoLines]
    BY <2>1 DEF ClearOrdered, AllInserted, CartsWithout, IInv, ShopInv, TypeOK,
                Writing
  <2>3. orders[oid[r]].items = rows[r]
    BY <2>2 DEF WriterOK, Restrict, IsLines
  <2> QED BY <2>2, <2>3 DEF MetInv, ReadOK
<1>2. HSpec => []IInv
  BY HistoryOnly, InitIInv, NextIInv, PTL DEF Spec
<1> QED BY <1>1, <1>2, ReadsStayTrueUnlessMet, PTL
        DEF HSpec, CheckoutTakesItsCart

-----------------------------------------------------------------------------
(* Orders that lack lines.                                                 *)

\* A handler that writes an order goes on writing it, or the order is whole.
LEMMA WriterGoesOn ==
    ASSUME IInv, "query" \notin Faults, "crash" \notin Faults,
           NEW r \in Requests, Arrive(r) \/ Handle(r) \/ Fail(r), Writing(r)
    PROVE  (Writing(r)' /\ oid'[r] = oid[r]) \/ Complete(orders'[oid[r]])
<1>1. /\ input[r].op = "createOrder"
      /\ pc[r] \in {"insertItems", "fetchOrder", "selectItems"}
      /\ WriterOK(r) /\ IsLines(rows[r])
      /\ r \in DOMAIN pc /\ r \in DOMAIN input
  BY DEF IInv, ShopInv, TypeOK, StageOK, Writing
<1>2. ~Arrive(r) /\ ~Fail(r)
  BY <1>1 DEF Arrive, ReceiveAdd, ReceivePut, ReceiveRemove, ReceiveClear,
              ReceiveGetCart, ReceiveCreate, ReceiveGetOrder,
              ReceiveListOrders, ReceiveListProducts, ReceiveGetProduct,
              Receive, Fail, QueryFails, ProcessDies, ProxyRetries, Idempotent
<1>3. CASE InsertItem(r) \/ ClearOrdered(r) \/ FetchOrder(r)
  BY <1>1, <1>3 DEF InsertItem, ClearOrdered, FetchOrder, ReadHeaders, Goto,
                    Writing
<1>4. CASE SelectItems(r)
  <2>1. CASE UNCHANGED <<pc, input, oid>>
    BY <1>1, <1>4, <2>1 DEF SelectItems, Writing
  <2>2. /\ oid[r] \in DOMAIN orders
        /\ orders[oid[r]].basis = rows[r]
        /\ orders[oid[r]].items = Restrict(rows[r], DOMAIN rows[r])
    BY <1>1, <1>4 DEF SelectItems, WriterOK
  <2>3. Restrict(rows[r], DOMAIN rows[r]) = rows[r]
    BY <1>1 DEF Restrict, IsLines
  <2>4. orders' = orders
    BY <1>4 DEF SelectItems
  <2> QED BY <2>2, <2>3, <2>4 DEF Complete
<1> QED BY <1>1, <1>2, <1>3, <1>4
        DEF Handle, SelectProduct, SelectExisting, UpdateRow, InsertRow, PutRow,
            RemoveRow, ClearCart, SelectCart, SelectOrderRows, CountOrders,
            InsertOrder, SelectOrder, SelectOrders, SelectProducts, SelectById

\* An order that appears has a handler that writes it.
LEMMA NewOrderWritten ==
    ASSUME IInv, NEW r \in Requests, Arrive(r) \/ Handle(r) \/ Fail(r),
           NEW n \in DOMAIN orders' \ DOMAIN orders
    PROVE  Writing(r)' /\ oid'[r] = n
<1>1. CASE InsertItem(r)
  <2>1. DOMAIN orders' = DOMAIN orders
    BY <1>1, InsertItemEffect
  <2> QED BY <2>1
<1>2. CASE InsertOrder(r) /\ ~IdTaken(r)
  BY <1>2 DEF InsertOrder, Goto, Writing, IInv, TypeOK
<1> QED BY <1>1, <1>2, OtherStepsKeepOrders

\* Where nothing fails, an order that lacks lines has a handler that writes
\* it, after a step as before.
LEMMA StepWritten ==
    ASSUME IInv, IncompleteIsBeingWritten, "query" \notin Faults,
           "crash" \notin Faults, NEW r \in Requests,
           Arrive(r) \/ Handle(r) \/ Fail(r)
    PROVE  IncompleteIsBeingWritten'
<1> SUFFICES ASSUME NEW n \in DOMAIN orders', ~Complete(orders'[n])
             PROVE  \E x \in Requests : Writing(x)' /\ oid'[x] = n
  BY DEF IncompleteIsBeingWritten
<1>1. CASE n \notin DOMAIN orders
  BY <1>1, NewOrderWritten
<1>2. CASE n \in DOMAIN orders
  <2>1. ~Complete(orders[n])
    BY <1>2, OrdersGrow DEF Grows
  <2>2. PICK x \in Requests : Writing(x) /\ oid[x] = n
    BY <1>2, <2>1 DEF IncompleteIsBeingWritten
  <2>3. CASE x = r
    BY <2>2, <2>3, WriterGoesOn
  <2>4. CASE x # r
    BY <2>2, <2>4, OneSlot DEF IInv, SlotKept, Writing
  <2> QED BY <2>3, <2>4
<1> QED BY <1>1, <1>2

\* No cart is half ordered for good, unless something fails: an order that
\* lacks lines is one a handler is still writing (server.js:389-405).
THEOREM OrdersGetWritten ==
    ASSUME "query" \notin Faults, "crash" \notin Faults
    PROVE  Spec => []IncompleteIsBeingWritten
<1>1. Init => IncompleteIsBeingWritten
  BY DEF Init, NoOrders, IncompleteIsBeingWritten
<1>2. IInv /\ IncompleteIsBeingWritten /\ [Next]_vars
         => IncompleteIsBeingWritten'
  <2>1. ASSUME IncompleteIsBeingWritten, UNCHANGED vars
        PROVE  IncompleteIsBeingWritten'
    BY <2>1 DEF IncompleteIsBeingWritten, Writing, vars
  <2> QED BY <2>1, StepWritten DEF Next
<1>3. Spec => []IInv
  BY InitIInv, NextIInv, PTL DEF Spec
<1> QED BY <1>1, <1>2, <1>3, PTL DEF Spec

-----------------------------------------------------------------------------
(* The operations of CartService.  A cart statement takes effect where it  *)
(* writes; a checkout where it empties the cart, which is still what it    *)
(* has read if it has met nobody, into an order that is not placed before. *)

\* What a handler has read of its cart, and goes by, is still so.
SnapshotOK(r) ==
    /\ pc[r] = "updateRow" => input[r].pid \in DOMAIN CartOf(r)
    /\ pc[r] = "insertRow" => input[r].pid \notin DOMAIN CartOf(r)
    /\ pc[r] \in {"countOrders", "insertOrder", "insertItems"} =>
          rows[r] = CartOf(r)

\* So it is for a handler that has met nobody.
LEMMA UnmetSnapshot ==
    ASSUME IInv, MetInv, NEW r \in Requests, met[r] = {}
    PROVE  SnapshotOK(r)
<1>1. IsLines(rows[r]) /\ IsLines(CartOf(r))
  BY SessionAssumption DEF IInv, TypeOK, CartOf, Session
<1> QED BY <1>1, SameRowsSame DEF SnapshotOK, MetInv, ReadOK

\* The lines of the orders that are placed.
PlacedLines == [n \in Settled |-> orders[n].items]

\* CartService says of rows what ShopData does.
LEMMA SameRows ==
    ASSUME NEW lines, NEW p, NEW q
    PROVE  /\ Service!AddLine(lines, p, q) = AddLine(lines, p, q)
           /\ Service!SetRow(lines, p, q) = SetRow(lines, p, q)
           /\ Service!DeleteRow(lines, p) = DeleteRow(lines, p)
           /\ Service!NoLines = NoLines
BY DEF Service!AddLine, Service!SetRow, Service!DeleteRow, Service!NoLines,
       Service!WithRow, Service!QuantityOf, Service!Restrict,
       AddLine, SetRow, DeleteRow, NoLines, WithRow, QuantityOf, Restrict

\* A step that leaves the orders, and whose handler neither begins nor ends
\* the writing of lines, places nothing.
LEMMA NothingPlaced ==
    ASSUME TypeOK, NEW r \in Requests, Arrive(r) \/ Handle(r) \/ Fail(r),
           UNCHANGED orders, pc[r] # "insertItems", pc'[r] # "insertItems"
    PROVE  UNCHANGED PlacedLines
<1>1. \A x \in Requests : /\ pc'[x] = "insertItems" <=> pc[x] = "insertItems"
                          /\ pc[x] = "insertItems" => oid'[x] = oid[x]
  BY OneSlot DEF SlotKept
<1>2. Settled' = Settled
  BY <1>1 DEF Settled
<1> QED BY <1>2 DEF PlacedLines

\* An order that is being inserted, with its lines, is not placed.
LEMMA WritingPlacesNothing ==
    ASSUME IInv, NEW r \in Requests,
           (InsertOrder(r) /\ ~IdTaken(r)) \/ InsertItem(r)
    PROVE  UNCHANGED PlacedLines
<1>1. /\ pc'[r] = "insertItems" /\ oid'[r] = oid[r]
      /\ pc[r] = "insertItems" \/ oid[r] \notin DOMAIN orders
      /\ DOMAIN orders' = DOMAIN orders \cup {oid[r]}
      /\ \A n \in DOMAIN orders : n # oid[r] => orders'[n] = orders[n]
  <2>1. CASE InsertOrder(r) /\ ~IdTaken(r)
    BY <2>1 DEF InsertOrder, IdTaken, Goto, IInv, TypeOK
  <2>2. CASE InsertItem(r)
    <3>1. pc[r] = "insertItems" /\ UNCHANGED <<pc, oid>>
      BY <2>2 DEF InsertItem
    <3>2. PICK p \in todo[r] :
             /\ oid[r] \in DOMAIN orders
             /\ orders' = [orders EXCEPT ![oid[r]].items =
                              WithRow(@, p, rows[r][p])]
      BY <2>2, InsertItemEffect
    <3> QED BY <3>1, <3>2
  <2> QED BY <2>1, <2>2
<1>2. \A x \in Requests : x # r => pc'[x] = pc[x] /\ oid'[x] = oid[x]
  BY OneSlot DEF SlotKept, Handle, IInv
<1>3. oid[r] \notin Settled /\ oid[r] \notin Settled'
  BY <1>1 DEF Settled
<1>4. Settled' = Settled
  BY <1>1, <1>2, <1>3 DEF Settled
<1>5. \A n \in Settled : orders'[n] = orders[n]
  BY <1>1, <1>3 DEF Settled
<1> QED BY <1>4, <1>5 DEF PlacedLines

\* The statement that empties the cart of a checkout places its order.
LEMMA ClearOrderedPlaces ==
    ASSUME IInv, NEW r \in Requests, SnapshotOK(r), ClearOrdered(r)
    PROVE  Service!Checkout(Session(r))
<1> DEFINE s == Session(r)
           n == oid[r]
<1>1. /\ pc[r] = "insertItems" /\ todo[r] = {} /\ rows[r] = cart[s]
      /\ pc'[r] = "fetchOrder" /\ UNCHANGED <<orders, oid>>
      /\ cart' = [cart EXCEPT ![s] = NoLines]
  BY DEF ClearOrdered, AllInserted, CartsWithout, Goto, IInv, TypeOK,
         SnapshotOK, CartOf
<1>2. /\ n \in DOMAIN orders /\ orders[n].basis = rows[r]
      /\ orders[n].items = Restrict(rows[r], DOMAIN rows[r])
      /\ IsLines(rows[r]) /\ rows[r] # NoLines
  BY <1>1 DEF IInv, ShopInv, WriterOK, Writing, TypeOK, OrderShape
<1>3. orders[n].items = cart[s]
  BY <1>1, <1>2 DEF Restrict, IsLines
<1>4. \A x \in Requests : x # r => pc'[x] = pc[x]
  BY OneSlot DEF SlotKept, Handle, IInv
<1>5. \A x \in Requests : x # r /\ pc[x] = "insertItems" => oid[x] # n
  BY <1>1 DEF IInv, ShopInv, SoleWriter, Writing
<1>6. n \notin Settled /\ Settled' = Settled \cup {n}
  BY <1>1, <1>2, <1>4, <1>5 DEF Settled
<1>7. \A m \in Settled' : PlacedLines'[m] = IF m = n THEN cart[s]
                                                    ELSE PlacedLines[m]
  BY <1>1, <1>3, <1>6 DEF PlacedLines
<1>8. /\ DOMAIN PlacedLines = Settled
      /\ PlacedLines' = [m \in Settled' |-> PlacedLines'[m]]
  BY DEF PlacedLines
<1> HIDE DEF s, n
<1>9. /\ n \in DOMAIN PlacedLines' \ DOMAIN PlacedLines
      /\ PlacedLines' = [m \in DOMAIN PlacedLines \cup {n} |->
                            IF m = n THEN cart[s] ELSE PlacedLines[m]]
  BY <1>6, <1>7, <1>8
<1>10. /\ cart[s] # Service!NoLines
       /\ cart' = [cart EXCEPT ![s] = Service!NoLines]
  BY <1>1, <1>2, SameRows
<1>11. Service!Checkout(s)
  BY <1>9, <1>10 DEF Service!Checkout, PlacedLines
<1> QED BY <1>11 DEF s

\* A handler that writes rows of its cart does what the service offers.
LEMMA WritesServe ==
    ASSUME IInv, NEW r \in Requests, SnapshotOK(r), AskedOK(r),
           UpdateRow(r) \/ InsertRow(r) \/ PutRow(r) \/ RemoveRow(r)
              \/ ClearCart(r)
    PROVE  Service!Next \/ UNCHANGED <<cart, PlacedLines>>
<1> DEFINE s == Session(r)
           p == input[r].pid
           q == input[r].qty
<1>1. /\ s \in Sessions /\ StageOK(r)
      /\ IsLines(cart[s]) /\ q \in Int /\ cart = [cart EXCEPT ![s] = cart[s]]
  BY SessionAssumption DEF IInv, ShopInv, TypeOK, InputType, Session,
                           FunctionOn
<1>2. UNCHANGED PlacedLines
  <2>1. UNCHANGED orders /\ pc[r] # "insertItems" /\ pc'[r] # "insertItems"
    BY DEF UpdateRow, InsertRow, PutRow, RemoveRow, ClearCart, Goto, Answer,
           IInv, TypeOK
  <2> QED BY <2>1, NothingPlaced DEF IInv, Handle
<1>3. ASSUME NEW lines, cart' = [cart EXCEPT ![s] = lines]
      PROVE  Service!Change(s, lines)
  BY <1>2, <1>3 DEF Service!Change, PlacedLines
<1>4. CASE UpdateRow(r)
  <2>1. p \in Products /\ q \in AddQtys /\ p \in DOMAIN cart[s]
    BY <1>1, <1>4 DEF UpdateRow, StageOK, AskedOK, SnapshotOK, CartOf
  <2>2. cart' = [cart EXCEPT ![s] = AddLine(cart[s], p, q)]
    BY <1>4, <2>1, IncrementAdds DEF UpdateRow, IncrementedRows, CartOf
  <2>3. Service!Add(s, p, q)
    BY <1>3, <2>2, SameRows DEF Service!Add
  <2> QED BY <1>1, <2>1, <2>3 DEF Service!Next
<1>5. CASE InsertRow(r)
  <2>1. p \in Products /\ q \in AddQtys /\ p \notin DOMAIN cart[s]
    BY <1>1, <1>5 DEF InsertRow, StageOK, AskedOK, SnapshotOK, CartOf
  <2>2. cart' = [cart EXCEPT ![s] = WithRow(cart[s], p, q)]
    BY <1>5, <2>1 DEF InsertRow, RowExists, CartOf
  <2>3. WithRow(cart[s], p, q) = AddLine(cart[s], p, q)
    BY <1>1, <2>1, InsertAdds
  <2>4. Service!Add(s, p, q)
    BY <1>3, <2>2, <2>3, SameRows DEF Service!Add
  <2> QED BY <1>1, <2>1, <2>4 DEF Service!Next
<1>6. CASE PutRow(r)
  <2>1. q \in PutQtys
    BY <1>1, <1>6 DEF PutRow, StageOK, AskedOK
  <2> DEFINE lines == IF q > 0 THEN SetRow(cart[s], p, q)
                               ELSE DeleteRow(cart[s], p)
  <2>2. cart' = [cart EXCEPT ![s] = lines]
    <3>1. PutRows(r) = lines
      BY <1>1 DEF PutRows, CartOf
    <3> QED BY <1>6, <3>1 DEF PutRow
  <2>3. CASE p \in Products
    <3>1. lines = IF q > 0 THEN Service!SetRow(cart[s], p, q)
                           ELSE Service!DeleteRow(cart[s], p)
      BY SameRows
    <3>2. Service!Change(s, lines)
      BY <1>3, <2>2
    <3>3. Service!Put(s, p, q)
      BY <3>1, <3>2 DEF Service!Put
    <3> QED BY <1>1, <2>1, <2>3, <3>3 DEF Service!Next
  <2>4. CASE p \notin Products
    <3>1. UNCHANGED cart
      BY <1>1, <2>2, <2>4, UnknownProduct
    <3> QED BY <1>2, <3>1
  <2> QED BY <2>3, <2>4
<1>7. CASE RemoveRow(r)
  <2>1. cart' = [cart EXCEPT ![s] = DeleteRow(cart[s], p)]
    BY <1>7 DEF RemoveRow
  <2>2. CASE p \in Products
    <3>1. Service!Remove(s, p)
      BY <1>3, <2>1, SameRows DEF Service!Remove
    <3> QED BY <1>1, <2>2, <3>1 DEF Service!Next
  <2>3. CASE p \notin Products
    <3>1. UNCHANGED cart
      BY <1>1, <2>1, <2>3, UnknownProduct
    <3> QED BY <1>2, <3>1
  <2> QED BY <2>2, <2>3
<1>8. CASE ClearCart(r)
  <2>1. Service!Clear(s)
    BY <1>3, <1>8, SameRows DEF Service!Clear, ClearCart, CartsWithout
  <2> QED BY <1>1, <2>1 DEF Service!Next
<1> QED BY <1>4, <1>5, <1>6, <1>7, <1>8

\* The other statements are not seen by whoever uses the service.
LEMMA OthersUnseen ==
    ASSUME IInv, NEW r \in Requests, Handle(r),
           ~UpdateRow(r), ~InsertRow(r), ~PutRow(r), ~RemoveRow(r),
           ~ClearCart(r), ~ClearOrdered(r)
    PROVE  UNCHANGED <<cart, PlacedLines>>
<1>1. UNCHANGED cart
  BY DEF Handle, SelectProduct, SelectExisting,
         SelectCart, SelectOrderRows, CountOrders, InsertOrder, InsertItem,
         FetchOrder, SelectOrder, SelectOrders, SelectItems, SelectProducts,
         SelectById
<1>2. CASE InsertItem(r) \/ (InsertOrder(r) /\ ~IdTaken(r))
  BY <1>1, <1>2, WritingPlacesNothing
<1>3. CASE ~InsertItem(r) /\ ~(InsertOrder(r) /\ ~IdTaken(r))
  <2>1. UNCHANGED orders
    BY <1>3, OtherStepsKeepOrders
  <2>2. pc[r] # "insertItems" /\ pc'[r] # "insertItems"
    <3>1. CASE SelectProduct(r) \/ SelectExisting(r) \/ SelectCart(r)
                  \/ SelectOrderRows(r) \/ CountOrders(r)
      BY <3>1 DEF SelectProduct, SelectExisting, SelectCart, SelectOrderRows,
                  CountOrders, Goto, Answer, IInv, TypeOK
    <3>2. CASE InsertOrder(r) \/ FetchOrder(r) \/ SelectOrder(r)
                  \/ SelectOrders(r)
      BY <1>3, <3>2 DEF InsertOrder, FetchOrder, SelectOrder, SelectOrders,
                        ReadHeaders, Goto, Answer, IInv, TypeOK
    <3>3. CASE SelectItems(r)
      <4>1. pc[r] = "selectItems" /\ (UNCHANGED pc \/ pc' = [pc EXCEPT ![r] = "idle"])
        BY <3>3 DEF SelectItems, Answer
      <4> QED BY <4>1 DEF IInv, TypeOK
    <3>4. CASE SelectProducts(r) \/ SelectById(r)
      BY <3>4 DEF SelectProducts, SelectById, Answer, IInv, TypeOK
    <3> QED BY <1>3, <3>1, <3>2, <3>3, <3>4 DEF Handle
  <2> QED BY <1>1, <2>1, <2>2, NothingPlaced DEF IInv
<1> QED BY <1>2, <1>3

\* A statement of a handler that has met nobody is an operation of CartService
\* or not seen by whoever uses the service.
LEMMA UnmetServes ==
    ASSUME IInv, MetInv, NEW r \in Requests, Handle(r), met[r] = {}
    PROVE  Service!Next \/ UNCHANGED <<cart, PlacedLines>>
<1>1. SnapshotOK(r) /\ AskedOK(r) /\ Session(r) \in Sessions
  BY UnmetSnapshot, SessionAssumption DEF MetInv, Session
<1>2. CASE ClearOrdered(r)
  BY <1>1, <1>2, ClearOrderedPlaces DEF Service!Next
<1> QED BY <1>1, <1>2, WritesServe, OthersUnseen

\* A request that meets no other request of its session is atomic, whatever
\* else runs, fails or dies: with it CartService describes the server for
\* shared sessions too, statement by statement (server.js:160-440).
THEOREM UnmetRequestsAtomic == HSpec => AtomicUnlessMet
<1>1. IInv /\ MetInv /\ [HNext]_hvars =>
         [\A r \in Requests :
            Handle(r) /\ met[r] = {} => [Service!Next]_(Service!svars)]_hvars
  <2>1. ASSUME IInv, MetInv, NEW r \in Requests, Handle(r), met[r] = {}
        PROVE  [Service!Next]_(Service!svars)
    BY <2>1, UnmetServes DEF PlacedLines, Service!svars
  <2> QED BY <2>1
<1>2. HSpec => []IInv
  BY HistoryOnly, InitIInv, NextIInv, PTL DEF Spec
<1> QED BY <1>1, <1>2, ReadsStayTrueUnlessMet, PTL DEF HSpec, AtomicUnlessMet
=============================================================================
