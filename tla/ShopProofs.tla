----------------------------- MODULE ShopProofs -----------------------------
(***************************************************************************)
(* Theorems about the shop server, for any number of requests, sessions    *)
(* and products, with every kind of failure.                               *)
(***************************************************************************)
EXTENDS ShopProperties, TLAPS, FiniteSetTheorems

-----------------------------------------------------------------------------
(* Rows.                                                                   *)

\* No rows are rows.
LEMMA NoLinesAreLines == IsLines(NoLines)
BY DEF IsLines, NoLines

\* Writing a row of a product of the catalogue leaves rows.
LEMMA WithRowLines ==
    ASSUME NEW lines, IsLines(lines), NEW p \in Products, NEW q \in Int
    PROVE  IsLines(WithRow(lines, p, q))
BY DEF IsLines, WithRow

\* Deleting a row leaves rows.
LEMMA DeleteRowLines ==
    ASSUME NEW lines, IsLines(lines), NEW p
    PROVE  IsLines(DeleteRow(lines, p))
BY DEF IsLines, DeleteRow, Restrict

\* Updating a row leaves rows: no row of an unknown product appears.
LEMMA SetRowLines ==
    ASSUME NEW lines, IsLines(lines), NEW p, NEW q \in Int
    PROVE  IsLines(SetRow(lines, p, q))
BY WithRowLines DEF SetRow, IsLines

\* Adding to a row leaves rows.
LEMMA IncrementRowLines ==
    ASSUME NEW lines, IsLines(lines), NEW p, NEW q \in Int
    PROVE  IsLines(IncrementRow(lines, p, q))
<1>1. CASE p \in DOMAIN lines
  <2>1. QuantityOf(lines, p) + q \in Int
    BY <1>1 DEF QuantityOf, IsLines
  <2> QED BY <2>1, SetRowLines DEF IncrementRow
<1>2. CASE p \notin DOMAIN lines
  BY <1>2 DEF IncrementRow, SetRow
<1> QED BY <1>1, <1>2

\* The part of rows that concerns some products is rows.
LEMMA RestrictLines ==
    ASSUME NEW lines, IsLines(lines), NEW S \in SUBSET DOMAIN lines
    PROVE  IsLines(Restrict(lines, S))
BY DEF IsLines, Restrict

-----------------------------------------------------------------------------
(* The inductive invariant.  TypeOK alone is not inductive: that a line    *)
(* inserted names a product the handler has read, of an order that exists, *)
(* is what WriterOK says.                                                  *)

IInv == TypeOK /\ ShopInv

\* The carts half of TypeOK.
CartsOK == FunctionOn(cart, Sessions) /\ \A s \in Sessions : IsLines(cart[s])

\* Nothing is there at the start.
LEMMA InitIInv == Init => IInv
<1> SUFFICES ASSUME Init PROVE IInv
  OBVIOUS
<1> USE DEF Init
<1>1. TypeOK
  <2>1. DOMAIN orders = {}
    BY DEF NoOrders
  <2>2. IsFiniteSet(DOMAIN orders) /\ DOMAIN orders \subseteq Nat
    BY <2>1, FS_EmptySet
  <2>3. FunctionOn(orders, DOMAIN orders) /\ \A n \in DOMAIN orders : OrderShape(orders[n])
    BY <2>1 DEF NoOrders, FunctionOn
  <2>4. CartsOK
    BY NoLinesAreLines DEF CartsOK, FunctionOn
  <2>5. FunctionOn(rows, Requests) /\ \A r \in Requests : IsLines(rows[r])
    BY NoLinesAreLines DEF FunctionOn
  <2>6. input \in [Requests -> InputType]
    BY DEF InputType, NoInput
  <2>7. FunctionOn(view, Requests)
    BY DEF FunctionOn
  <2>8. pc \in [Requests -> Labels] /\ reply \in [Requests -> Codes]
    BY DEF Labels, Codes
  <2> QED BY <2>2, <2>3, <2>4, <2>5, <2>6, <2>7, <2>8 DEF TypeOK, CartsOK
<1>2. OrderIdsDense
  <2>1. DOMAIN orders = {} /\ Cardinality({}) = 0
    BY FS_EmptySet DEF NoOrders
  <2> QED BY <2>1 DEF OrderIdsDense
<1>3. OrdersSound
  BY DEF OrdersSound, NoOrders
<1>4. SoleWriter /\ \A r \in Requests : WriterOK(r) /\ CounterOK(r) /\ StageOK(r)
  BY DEF SoleWriter, WriterOK, CounterOK, StageOK, Writing, NoInput
<1> QED BY <1>1, <1>2, <1>3, <1>4 DEF IInv, ShopInv

\* The invariant reads the tables and the slots: a stutter keeps it.
LEMMA StutterIInv == ASSUME IInv, UNCHANGED vars PROVE IInv'
<1> USE DEF vars
<1>1. TypeOK'
  BY DEF IInv, TypeOK, FunctionOn, OrderShape
<1>2. OrderIdsDense' /\ OrdersSound'
  BY DEF IInv, ShopInv, OrderIdsDense, OrdersSound
<1>3. SoleWriter'
  BY DEF IInv, ShopInv, SoleWriter, Writing
<1>4. ASSUME NEW x \in Requests PROVE (WriterOK(x) /\ CounterOK(x) /\ StageOK(x))'
  BY DEF IInv, ShopInv, WriterOK, CounterOK, StageOK, Writing, NextId
<1> QED BY <1>1, <1>2, <1>3, <1>4 DEF IInv, ShopInv

-----------------------------------------------------------------------------
(* Steps that leave the orders tables alone.                               *)

\* Where a handler begins, by endpoint.
LEMMA Begins ==
    ASSUME NEW op \in AllOps
    PROVE  /\ FirstStatement[op] \in
                 {"selectProduct", "putRow", "deleteRow", "clearCart",
                  "selectCart", "orderRows", "selectOrder", "selectOrders",
                  "selectProducts", "selectById"}
           /\ FirstStatement[op] = "selectProduct" => op = "addItem"
           /\ FirstStatement[op] = "orderRows" => op = "createOrder"
           /\ FirstStatement[op] \in {"selectOrder", "selectOrders"} =>
                 op \in {"getOrder", "listOrders"}
           /\ FirstStatement[op] = "putRow" => op = "putItem"
           /\ FirstStatement[op] = "deleteRow" => op = "removeItem"
           /\ FirstStatement[op] = "clearCart" => op = "clearCart"
           /\ FirstStatement[op] \in {"selectCart", "selectProducts",
                                     "selectById"} =>
                 op # "createOrder"
           /\ op = "getCart" => FirstStatement[op] = "selectCart"
BY DEF AllOps, FirstStatement

\* A request that reaches its handler.
LEMMA ReceiveIInv ==
    ASSUME IInv, NEW r \in Requests, NEW op \in AllOps,
           NEW p \in ProductIds \cup {NoProduct}, NEW q \in Int, NEW n \in Nat,
           Receive(r, op, p, q, n)
    PROVE  IInv'
<1> DEFINE first == FirstStatement[op]
<1>0. /\ first \in {"selectProduct", "putRow", "deleteRow", "clearCart",
                    "selectCart", "orderRows", "selectOrder", "selectOrders",
                    "selectProducts", "selectById"}
      /\ first = "selectProduct" => op = "addItem"
      /\ first = "orderRows" => op = "createOrder"
      /\ first \in {"selectOrder", "selectOrders"} =>
            op \in {"getOrder", "listOrders"}
      /\ first = "putRow" => op = "putItem"
      /\ first = "deleteRow" => op = "removeItem"
      /\ first = "clearCart" => op = "clearCart"
      /\ first \in {"selectCart", "selectProducts", "selectById"} =>
            op # "createOrder"
      /\ op = "getCart" => first = "selectCart"
      /\ pc' = [pc EXCEPT ![r] = first]
  BY Begins DEF Receive
<1> HIDE DEF first
<1> USE DEF Receive
<1>1. TypeOK'
  <2>1. pc' \in [Requests -> Labels]
    BY <1>0 DEF IInv, TypeOK, Labels
  <2>2. input' \in [Requests -> InputType]
    BY DEF IInv, TypeOK, InputType
  <2>3. reply' \in [Requests -> Codes]
    BY DEF IInv, TypeOK, Codes
  <2>4. FunctionOn(view', Requests)
    BY DEF IInv, TypeOK, FunctionOn
  <2> QED BY <2>1, <2>2, <2>3, <2>4 DEF IInv, TypeOK
<1>2. \A x \in Requests : Writing(x)' => Writing(x) /\ x # r
  BY <1>0 DEF IInv, TypeOK, Writing, InputType
<1>3. OrderIdsDense' /\ OrdersSound' /\ SoleWriter'
  BY <1>2 DEF IInv, ShopInv, OrderIdsDense, OrdersSound, SoleWriter
<1>4. ASSUME NEW x \in Requests PROVE (WriterOK(x) /\ CounterOK(x) /\ StageOK(x))'
  <2>1. WriterOK(x)'
    BY <1>0, <1>2 DEF IInv, ShopInv, TypeOK, WriterOK
  <2>2. CounterOK(x)'
    BY <1>0 DEF IInv, ShopInv, TypeOK, CounterOK, NextId
  <2>3. StageOK(x)'
    BY <1>0 DEF IInv, ShopInv, TypeOK, StageOK, InputType
  <2> QED BY <2>1, <2>2, <2>3
<1> QED BY <1>1, <1>3, <1>4 DEF IInv, ShopInv

\* A handler that answers, or dies, without a change of the orders tables.
LEMMA AnswerIInv ==
    ASSUME IInv, NEW r \in Requests, NEW code \in Codes, NEW body,
           Answer(r, code, body), UNCHANGED orders, CartsOK'
    PROVE  IInv'
<1> USE DEF Answer, Forget
<1>1. TypeOK'
  <2>1. pc' \in [Requests -> Labels]
    BY DEF IInv, TypeOK, Labels
  <2>2. input' \in [Requests -> InputType]
    BY DEF IInv, TypeOK, InputType, NoInput
  <2>3. reply' \in [Requests -> Codes] /\ oid' \in [Requests -> Nat]
    BY DEF IInv, TypeOK
  <2>4. FunctionOn(view', Requests) /\ FunctionOn(rows', Requests)
    BY DEF IInv, TypeOK, FunctionOn
  <2>5. \A x \in Requests : IsLines(rows'[x])
    BY NoLinesAreLines DEF IInv, TypeOK, FunctionOn
  <2>6. todo' \in [Requests -> SUBSET Products] /\ unread' \in [Requests -> SUBSET Nat]
    BY DEF IInv, TypeOK
  <2> QED BY <2>1, <2>2, <2>3, <2>4, <2>5, <2>6 DEF IInv, TypeOK, CartsOK
<1>2. \A x \in Requests : Writing(x)' => Writing(x) /\ x # r
  BY DEF IInv, TypeOK, Writing, InputType
<1>3. OrderIdsDense' /\ OrdersSound' /\ SoleWriter'
  BY <1>2 DEF IInv, ShopInv, OrderIdsDense, OrdersSound, SoleWriter, TypeOK
<1>4. ASSUME NEW x \in Requests PROVE (WriterOK(x) /\ CounterOK(x) /\ StageOK(x))'
  <2>1. WriterOK(x)'
    BY <1>2 DEF IInv, ShopInv, TypeOK, WriterOK, FunctionOn
  <2>2. CounterOK(x)'
    BY DEF IInv, ShopInv, TypeOK, CounterOK, NextId, FunctionOn
  <2>3. StageOK(x)'
    BY DEF IInv, ShopInv, TypeOK, StageOK, InputType, NoInput
  <2> QED BY <2>1, <2>2, <2>3
<1> QED BY <1>1, <1>3, <1>4 DEF IInv, ShopInv

\* A handler that has written no order begins anew elsewhere.
LEMMA RetryIInv ==
    ASSUME IInv, NEW r \in Requests, ProxyRetries(r)
    PROVE  IInv'
<1> DEFINE op == input[r].op
           first == FirstStatement[op]
<1>0. /\ op \in AllOps
      /\ first \in {"selectProduct", "putRow", "deleteRow", "clearCart",
                    "selectCart", "orderRows", "selectOrder", "selectOrders",
                    "selectProducts", "selectById"}
      /\ first = "selectProduct" => op = "addItem"
      /\ first = "orderRows" => op = "createOrder"
      /\ first \in {"selectOrder", "selectOrders"} =>
            op \in {"getOrder", "listOrders"}
      /\ first = "putRow" => op = "putItem"
      /\ first = "deleteRow" => op = "removeItem"
      /\ first = "clearCart" => op = "clearCart"
      /\ first \in {"selectCart", "selectProducts", "selectById"} =>
            op # "createOrder"
      /\ op = "getCart" => first = "selectCart"
      /\ pc' = [pc EXCEPT ![r] = first]
  <2>1. op \in AllOps
    BY DEF ProxyRetries, Idempotent
  <2> QED BY <2>1, Begins DEF ProxyRetries
<1> HIDE DEF first
<1> USE DEF ProxyRetries, Forget
<1>1. TypeOK'
  <2>1. pc' \in [Requests -> Labels]
    BY <1>0 DEF IInv, TypeOK, Labels
  <2>2. FunctionOn(view', Requests) /\ FunctionOn(rows', Requests)
    BY DEF IInv, TypeOK, FunctionOn
  <2>3. \A x \in Requests : IsLines(rows'[x])
    BY NoLinesAreLines DEF IInv, TypeOK, FunctionOn
  <2>4. /\ todo' \in [Requests -> SUBSET Products]
        /\ unread' \in [Requests -> SUBSET Nat] /\ oid' \in [Requests -> Nat]
    BY DEF IInv, TypeOK
  <2>5. CartsOK'
    BY DEF IInv, TypeOK, CartsOK, FunctionOn
  <2> QED BY <2>1, <2>2, <2>3, <2>4, <2>5 DEF IInv, TypeOK, CartsOK
<1>2. \A x \in Requests : Writing(x)' => Writing(x) /\ x # r
  BY <1>0 DEF IInv, TypeOK, Writing
<1>3. OrderIdsDense' /\ OrdersSound' /\ SoleWriter'
  BY <1>2 DEF IInv, ShopInv, OrderIdsDense, OrdersSound, SoleWriter, TypeOK
<1>4. ASSUME NEW x \in Requests PROVE (WriterOK(x) /\ CounterOK(x) /\ StageOK(x))'
  <2>1. WriterOK(x)'
    BY <1>2 DEF IInv, ShopInv, TypeOK, WriterOK, FunctionOn
  <2>2. CounterOK(x)'
    BY <1>0 DEF IInv, ShopInv, TypeOK, CounterOK, NextId, FunctionOn
  <2>3. StageOK(x)'
    BY <1>0 DEF IInv, ShopInv, TypeOK, StageOK
  <2> QED BY <2>1, <2>2, <2>3
<1> QED BY <1>1, <1>3, <1>4 DEF IInv, ShopInv

\* A handler that goes on to its next statement and has written no order.
LEMMA MoveIInv ==
    ASSUME IInv, NEW r \in Requests, ~Writing(r),
           NEW label \in {"selectExisting", "updateRow", "insertRow",
                          "selectCart", "countOrders"},
           label \in {"selectExisting", "updateRow", "insertRow"} =>
              input[r].op = "addItem" /\ input[r].pid \in Products,
           label = "selectCart" => input[r].op # "createOrder",
           Goto(r, label), CartsOK',
           NEW read, IsLines(read), rows' = [rows EXCEPT ![r] = read],
           label = "countOrders" =>
              input[r].op = "createOrder" /\ read # NoLines,
           UNCHANGED <<orders, todo, oid, view, unread>>
    PROVE  IInv'
<1> USE DEF Goto
<1>1. TypeOK'
  <2>1. pc' \in [Requests -> Labels]
    BY DEF IInv, TypeOK, Labels
  <2>2. FunctionOn(rows', Requests) /\ \A x \in Requests : IsLines(rows'[x])
    BY DEF IInv, TypeOK, FunctionOn
  <2> QED BY <2>1, <2>2 DEF IInv, TypeOK, CartsOK, FunctionOn, OrderShape
<1>2. \A x \in Requests : Writing(x)' => Writing(x) /\ x # r
  BY DEF IInv, TypeOK, Writing, InputType
<1>3. OrderIdsDense' /\ OrdersSound' /\ SoleWriter'
  BY <1>2 DEF IInv, ShopInv, OrderIdsDense, OrdersSound, SoleWriter, TypeOK
<1>4. ASSUME NEW x \in Requests PROVE (WriterOK(x) /\ CounterOK(x) /\ StageOK(x))'
  <2>1. WriterOK(x)'
    BY <1>2 DEF IInv, ShopInv, TypeOK, WriterOK, FunctionOn
  <2>2. CounterOK(x)'
    BY DEF IInv, ShopInv, TypeOK, CounterOK, NextId, FunctionOn
  <2>3. StageOK(x)'
    BY DEF IInv, ShopInv, TypeOK, StageOK, InputType
  <2> QED BY <2>1, <2>2, <2>3
<1> QED BY <1>1, <1>3, <1>4 DEF IInv, ShopInv

\* The headers read by a handler: one that has just created the order it
\* reads, or one that has created none.
LEMMA HeadersIInv ==
    ASSUME IInv, NEW r \in Requests, NEW ids \in SUBSET Nat,
           pc[r] = "fetchOrder" \/ input[r].op \in {"getOrder", "listOrders"},
           ReadHeaders(r, ids), UNCHANGED <<cart, orders>>
    PROVE  IInv'
<1> USE DEF ReadHeaders, Goto
<1>1. TypeOK'
  <2>1. pc' \in [Requests -> Labels]
    BY DEF IInv, TypeOK, Labels
  <2>2. FunctionOn(view', Requests) /\ unread' \in [Requests -> SUBSET Nat]
    BY DEF IInv, TypeOK, FunctionOn
  <2> QED BY <2>1, <2>2 DEF IInv, TypeOK, FunctionOn, OrderShape
<1>2. \A x \in Requests : Writing(x)' => Writing(x) /\ (x = r => pc[r] = "fetchOrder")
  BY DEF IInv, TypeOK, Writing, InputType
<1>3. OrderIdsDense' /\ OrdersSound' /\ SoleWriter'
  BY <1>2 DEF IInv, ShopInv, OrderIdsDense, OrdersSound, SoleWriter, TypeOK
<1>4. ASSUME NEW x \in Requests PROVE (WriterOK(x) /\ CounterOK(x) /\ StageOK(x))'
  <2>1. WriterOK(x)'
    BY <1>2 DEF IInv, ShopInv, TypeOK, WriterOK, FunctionOn
  <2>2. CounterOK(x)'
    BY DEF IInv, ShopInv, TypeOK, CounterOK, NextId, FunctionOn
  <2>3. StageOK(x)'
    BY DEF IInv, ShopInv, TypeOK, StageOK, InputType
  <2> QED BY <2>1, <2>2, <2>3
<1> QED BY <1>1, <1>3, <1>4 DEF IInv, ShopInv

\* The next number is generated.
LEMMA CountOrdersIInv ==
    ASSUME IInv, NEW r \in Requests, CountOrders(r)
    PROVE  IInv'
<1> USE DEF CountOrders, Goto
<1>0. NextId \in Nat /\ NextId \in 1..NextId
  BY FS_CardinalityType DEF IInv, TypeOK, NextId
<1>1. TypeOK'
  <2>1. pc' \in [Requests -> Labels]
    BY DEF IInv, TypeOK, Labels
  <2>2. oid' \in [Requests -> Nat]
    BY <1>0 DEF IInv, TypeOK
  <2> QED BY <2>1, <2>2 DEF IInv, TypeOK, FunctionOn, OrderShape
<1>2. \A x \in Requests : Writing(x)' => Writing(x) /\ x # r
  BY DEF IInv, TypeOK, Writing, InputType
<1>3. OrderIdsDense' /\ OrdersSound' /\ SoleWriter'
  BY <1>2 DEF IInv, ShopInv, OrderIdsDense, OrdersSound, SoleWriter, TypeOK
<1>4. ASSUME NEW x \in Requests PROVE (WriterOK(x) /\ CounterOK(x) /\ StageOK(x))'
  <2>1. WriterOK(x)'
    BY <1>2 DEF IInv, ShopInv, TypeOK, WriterOK, FunctionOn
  <2>2. CounterOK(x)'
    <3>1. NextId' = NextId
      BY DEF NextId
    <3> QED BY <1>0, <3>1 DEF IInv, ShopInv, TypeOK, CounterOK, FunctionOn
  <2>3. StageOK(x)'
    BY DEF IInv, ShopInv, TypeOK, StageOK, InputType
  <2> QED BY <2>1, <2>2, <2>3
<1> QED BY <1>1, <1>3, <1>4 DEF IInv, ShopInv

\* The ordered cart is emptied; the loop has ended, so the order is complete.
LEMMA ClearOrderedIInv ==
    ASSUME IInv, NEW r \in Requests, ClearOrdered(r)
    PROVE  IInv'
<1> USE DEF ClearOrdered, Goto
<1>1. TypeOK'
  <2>1. pc' \in [Requests -> Labels]
    BY DEF IInv, TypeOK, Labels
  <2>2. CartsOK'
    BY NoLinesAreLines DEF IInv, TypeOK, CartsOK, CartsWithout, FunctionOn
  <2> QED BY <2>1, <2>2 DEF IInv, TypeOK, CartsOK, FunctionOn, OrderShape
<1>2. \A x \in Requests : Writing(x)' => Writing(x) /\ (x = r => todo[r] = {})
  BY DEF IInv, TypeOK, Writing, InputType, AllInserted
<1>3. OrderIdsDense' /\ OrdersSound' /\ SoleWriter'
  BY <1>2 DEF IInv, ShopInv, OrderIdsDense, OrdersSound, SoleWriter, TypeOK
<1>4. ASSUME NEW x \in Requests PROVE (WriterOK(x) /\ CounterOK(x) /\ StageOK(x))'
  <2>1. WriterOK(x)'
    BY <1>2 DEF IInv, ShopInv, TypeOK, WriterOK, FunctionOn
  <2>2. CounterOK(x)'
    BY DEF IInv, ShopInv, TypeOK, CounterOK, NextId, FunctionOn
  <2>3. StageOK(x)'
    BY DEF IInv, ShopInv, TypeOK, StageOK, InputType
  <2> QED BY <2>1, <2>2, <2>3
<1> QED BY <1>1, <1>3, <1>4 DEF IInv, ShopInv

-----------------------------------------------------------------------------
(* Steps that write the orders tables.                                     *)

\* A generated number that nobody has taken is the next one.
LEMMA FreeNumberIsNext ==
    ASSUME IInv, NEW r \in Requests, pc[r] = "insertOrder", ~IdTaken(r)
    PROVE  oid[r] = NextId
<1>1. Cardinality(DOMAIN orders) \in Nat
  BY FS_CardinalityType DEF IInv, TypeOK
<1>2. oid[r] \in 1..NextId /\ oid[r] \notin 1..Cardinality(DOMAIN orders)
  BY DEF IInv, ShopInv, CounterOK, OrderIdsDense, IdTaken
<1> QED BY <1>1, <1>2 DEF NextId

\* The orders row is inserted.
LEMMA InsertOrderIInv ==
    ASSUME IInv, NEW r \in Requests, InsertOrder(r), ~IdTaken(r)
    PROVE  IInv'
<1> USE DEF InsertOrder, Goto
<1>0. oid[r] = NextId /\ oid[r] \notin DOMAIN orders
  BY FreeNumberIsNext DEF IdTaken
<1>1. /\ orders' = [n \in DOMAIN orders \cup {oid[r]} |->
                      IF n = oid[r] THEN NewOrder(rows[r]) ELSE orders[n]]
      /\ todo' = [todo EXCEPT ![r] = DOMAIN rows[r]]
      /\ pc' = [pc EXCEPT ![r] = "insertItems"]
      /\ UNCHANGED <<input, reply, rows, oid, view, unread, cart>>
  BY <1>0 DEF Answer
<1>2. /\ DOMAIN orders' = DOMAIN orders \cup {oid[r]}
      /\ orders'[oid[r]] = NewOrder(rows[r])
      /\ \A n \in DOMAIN orders : orders'[n] = orders[n]
  BY <1>0, <1>1
<1>3. IsFiniteSet(DOMAIN orders') /\ Cardinality(DOMAIN orders') = NextId
  BY <1>0, <1>2, FS_AddElement DEF IInv, TypeOK, NextId
<1>4. OrderShape(NewOrder(rows[r]))
  BY NoLinesAreLines DEF OrderShape, NewOrder, IInv, ShopInv, TypeOK, CounterOK
<1>5. Cardinality(DOMAIN orders) \in Nat
  BY FS_CardinalityType DEF IInv, TypeOK
<1>6. TypeOK'
  <2>1. DOMAIN orders' \subseteq Nat
    BY <1>2 DEF IInv, TypeOK
  <2>2. \A n \in DOMAIN orders' : OrderShape(orders'[n])
    BY <1>2, <1>4 DEF IInv, TypeOK
  <2>3. FunctionOn(orders', DOMAIN orders')
    BY <1>1 DEF FunctionOn
  <2>4. pc' \in [Requests -> Labels] /\ todo' \in [Requests -> SUBSET Products]
    BY <1>1 DEF IInv, TypeOK, Labels, IsLines
  <2>5. CartsOK' /\ FunctionOn(rows', Requests) /\ FunctionOn(view', Requests)
    BY <1>1 DEF IInv, TypeOK, CartsOK, FunctionOn
  <2> QED BY <1>1, <1>3, <2>1, <2>2, <2>3, <2>4, <2>5 DEF IInv, TypeOK, CartsOK
<1>7. OrderIdsDense'
  <2>1. DOMAIN orders' = 1..NextId
    BY <1>0, <1>2, <1>5 DEF IInv, ShopInv, OrderIdsDense, NextId
  <2> QED BY <2>1, <1>3 DEF OrderIdsDense
<1>8. OrdersSound'
  BY <1>2 DEF IInv, ShopInv, OrdersSound, NewOrder, SubLines, NoLines
<1>9. \A x \in Requests :
         /\ oid'[x] = oid[x] /\ rows'[x] = rows[x] /\ input'[x] = input[x]
         /\ x # r => /\ pc'[x] = pc[x] /\ todo'[x] = todo[x]
                     /\ Writing(x)' <=> Writing(x)
  BY <1>1 DEF IInv, TypeOK, Writing
<1>10. SoleWriter'
  <2>1. \A x \in Requests : Writing(x) => oid[x] # oid[r]
    BY <1>0 DEF IInv, ShopInv, WriterOK
  <2> QED BY <1>9, <2>1 DEF IInv, ShopInv, SoleWriter
<1>11. ASSUME NEW x \in Requests PROVE (WriterOK(x) /\ CounterOK(x) /\ StageOK(x))'
  <2>1. WriterOK(x)'
    <3>1. CASE x = r
      <4>1. pc'[r] = "insertItems" /\ todo'[r] = DOMAIN rows[r]
        BY <1>1 DEF IInv, TypeOK
      <4>2. Restrict(rows[r], DOMAIN rows[r] \ DOMAIN rows[r]) = NoLines
        BY DEF Restrict, NoLines
      <4>3. /\ orders'[oid'[r]].basis = rows[r]
            /\ orders'[oid'[r]].items = NoLines
            /\ oid'[r] \in DOMAIN orders'
        BY <1>2, <1>9 DEF NewOrder
      <4> QED BY <3>1, <4>1, <4>2, <4>3, <1>9 DEF WriterOK
    <3>2. CASE x # r
      <4> SUFFICES ASSUME Writing(x)' PROVE WriterOK(x)'
        BY DEF WriterOK
      <4>1. WriterOK(x) /\ Writing(x) /\ oid[x] \in DOMAIN orders
        BY <3>2, <1>9 DEF IInv, ShopInv, WriterOK
      <4>2. /\ orders'[oid'[x]] = orders[oid[x]] /\ oid'[x] \in DOMAIN orders'
            /\ pc'[x] = pc[x] /\ todo'[x] = todo[x] /\ rows'[x] = rows[x]
        BY <3>2, <4>1, <1>2, <1>9
      <4> QED BY <4>1, <4>2 DEF WriterOK
    <3> QED BY <3>1, <3>2
  <2>2. CounterOK(x)'
    <3>1. NextId' = NextId + 1 /\ NextId \in Nat
      BY <1>3, <1>5 DEF NextId
    <3>2. CASE x = r
      BY <3>2, <1>1 DEF CounterOK, IInv, TypeOK
    <3>3. CASE x # r
      BY <3>1, <3>3, <1>9 DEF IInv, ShopInv, CounterOK
    <3> QED BY <3>2, <3>3
  <2>3. StageOK(x)'
    BY <1>1 DEF IInv, ShopInv, TypeOK, StageOK
  <2> QED BY <2>1, <2>2, <2>3
<1> QED BY <1>6, <1>7, <1>8, <1>10, <1>11 DEF IInv, ShopInv

\* Inserting the line of a row still to do leaves the lines of the rows done.
LEMMA NextLine ==
    ASSUME NEW lines, IsLines(lines), NEW left \in SUBSET DOMAIN lines,
           NEW p \in left
    PROVE  AddLine(Restrict(lines, DOMAIN lines \ left), p, lines[p])
              = Restrict(lines, DOMAIN lines \ (left \ {p}))
<1>1. QuantityOf(Restrict(lines, DOMAIN lines \ left), p) + lines[p] = lines[p]
  BY DEF QuantityOf, Restrict, IsLines
<1> QED BY <1>1 DEF AddLine, WithRow, Restrict

\* Writing the lines of an order writes nothing else of it.
LEMMA WithItems ==
    ASSUME NEW o, OrderShape(o), NEW lines
    PROVE  /\ [o EXCEPT !.items = lines].items = lines
           /\ [o EXCEPT !.items = lines].basis = o.basis
           /\ [o EXCEPT !.items = lines].total = o.total
           /\ IsLines(lines) => OrderShape([o EXCEPT !.items = lines])
<1>1. [o EXCEPT !.items = lines] =
         [total |-> o.total, items |-> lines, basis |-> o.basis]
  BY DEF OrderShape
<1> QED BY <1>1 DEF OrderShape

\* What one turn of the loop does to the tables.
LEMMA InsertItemEffect ==
    ASSUME IInv, NEW r \in Requests, InsertItem(r)
    PROVE  \E p \in todo[r] :
              /\ todo' = [todo EXCEPT ![r] = todo[r] \ {p}]
              /\ Writing(r) /\ oid[r] \in DOMAIN orders
              /\ p \in DOMAIN rows[r] \ DOMAIN orders[oid[r]].items
              /\ orders[oid[r]].basis = rows[r]
              /\ orders' = [orders EXCEPT ![oid[r]].items =
                               WithRow(@, p, rows[r][p])]
              /\ orders'[oid[r]].items =
                    Restrict(rows[r], DOMAIN rows[r] \ (todo[r] \ {p}))
              /\ IsLines(orders'[oid[r]].items)
<1>1. PICK p \in todo[r] :
         /\ orders' = [orders EXCEPT ![oid[r]].items =
                          AddLine(@, p, rows[r][p])]
         /\ todo' = [todo EXCEPT ![r] = @ \ {p}]
  BY DEF InsertItem
<1> DEFINE n == oid[r]
<1>2. /\ Writing(r) /\ n \in DOMAIN orders /\ orders[n].basis = rows[r]
      /\ todo[r] \in SUBSET DOMAIN rows[r]
      /\ orders[n].items = Restrict(rows[r], DOMAIN rows[r] \ todo[r])
  BY DEF InsertItem, Writing, IInv, ShopInv, WriterOK
<1>3. IsLines(rows[r]) /\ OrderShape(orders[n])
  BY <1>2 DEF IInv, TypeOK
<1>4. AddLine(orders[n].items, p, rows[r][p])
         = Restrict(rows[r], DOMAIN rows[r] \ (todo[r] \ {p}))
  BY <1>2, <1>3, NextLine
<1>5. orders'[n].items = AddLine(orders[n].items, p, rows[r][p])
  <2>1. orders'[n] = [orders[n] EXCEPT !.items =
                         AddLine(orders[n].items, p, rows[r][p])]
    BY <1>1, <1>2
  <2> QED BY <2>1, <1>3, WithItems
<1>6. IsLines(orders'[n].items)
  BY <1>2, <1>3, <1>4, <1>5, RestrictLines
<1>7. p \notin DOMAIN orders[n].items
  BY <1>2 DEF Restrict
<1>8. AddLine(orders[n].items, p, rows[r][p])
         = WithRow(orders[n].items, p, rows[r][p])
  BY <1>2, <1>3, <1>7 DEF AddLine, QuantityOf, IsLines
<1>9. orders' = [orders EXCEPT ![n].items = WithRow(@, p, rows[r][p])]
  BY <1>1, <1>8
<1>10. p \in DOMAIN rows[r] \ DOMAIN orders[n].items
  BY <1>2, <1>7
<1>11. orders'[n].items = Restrict(rows[r], DOMAIN rows[r] \ (todo[r] \ {p}))
  BY <1>4, <1>5
<1> QED BY <1>1, <1>2, <1>6, <1>9, <1>10, <1>11

\* A line of an order is inserted.
LEMMA InsertItemIInv ==
    ASSUME IInv, NEW r \in Requests, InsertItem(r)
    PROVE  IInv'
<1> DEFINE n == oid[r]
<1>1. PICK p \in todo[r] :
         /\ todo' = [todo EXCEPT ![r] = todo[r] \ {p}]
         /\ Writing(r) /\ n \in DOMAIN orders
         /\ p \in DOMAIN rows[r] \ DOMAIN orders[n].items
         /\ orders[n].basis = rows[r]
         /\ orders' = [orders EXCEPT ![n].items = WithRow(@, p, rows[r][p])]
         /\ orders'[n].items =
               Restrict(rows[r], DOMAIN rows[r] \ (todo[r] \ {p}))
         /\ IsLines(orders'[n].items)
  BY InsertItemEffect
<1>2. UNCHANGED <<cart, pc, input, reply, rows, oid, view, unread>>
  BY DEF InsertItem
<1>3. OrderShape(orders[n])
  BY <1>1 DEF IInv, TypeOK
<1>4. /\ DOMAIN orders' = DOMAIN orders
      /\ \A m \in DOMAIN orders : m # n => orders'[m] = orders[m]
      /\ orders'[n] = [orders[n] EXCEPT !.items = orders'[n].items]
      /\ FunctionOn(orders', DOMAIN orders')
  <2>1. orders'[n] = [orders[n] EXCEPT !.items =
                         WithRow(orders[n].items, p, rows[r][p])]
    BY <1>1
  <2>2. orders'[n] = [orders[n] EXCEPT !.items = orders'[n].items]
    BY <2>1, <1>3, WithItems
  <2> QED BY <1>1, <2>2 DEF FunctionOn
<1>5. /\ OrderShape(orders'[n]) /\ orders'[n].basis = orders[n].basis
      /\ orders'[n].total = orders[n].total
  <2>1. PICK l : IsLines(l) /\ orders'[n] = [orders[n] EXCEPT !.items = l]
    BY <1>1, <1>4
  <2> QED BY <2>1, <1>3, WithItems
<1>6. TypeOK'
  <2>1. \A m \in DOMAIN orders' : OrderShape(orders'[m])
    BY <1>4, <1>5 DEF IInv, TypeOK
  <2>2. IsFiniteSet(DOMAIN orders') /\ DOMAIN orders' \subseteq Nat
    BY <1>4 DEF IInv, TypeOK
  <2>3. todo' \in [Requests -> SUBSET Products]
    BY <1>1 DEF IInv, TypeOK
  <2>4. CartsOK' /\ FunctionOn(rows', Requests) /\ FunctionOn(view', Requests)
    BY <1>2 DEF IInv, TypeOK, CartsOK, FunctionOn
  <2> QED BY <1>2, <1>4, <2>1, <2>2, <2>3, <2>4 DEF IInv, TypeOK, CartsOK
<1>7. OrderIdsDense'
  BY <1>4 DEF IInv, ShopInv, OrderIdsDense
<1>8. OrdersSound'
  <2>1. SubLines(orders'[n].items, orders'[n].basis)
    BY <1>1, <1>5 DEF SubLines, Restrict
  <2> QED BY <2>1, <1>4, <1>5 DEF IInv, ShopInv, OrdersSound
<1>9. \A x \in Requests :
         /\ oid'[x] = oid[x] /\ rows'[x] = rows[x] /\ input'[x] = input[x]
         /\ pc'[x] = pc[x] /\ (Writing(x)' <=> Writing(x))
         /\ x # r => todo'[x] = todo[x]
  BY <1>1, <1>2 DEF IInv, TypeOK, Writing
<1>10. SoleWriter'
  BY <1>9 DEF IInv, ShopInv, SoleWriter
<1>11. ASSUME NEW x \in Requests PROVE (WriterOK(x) /\ CounterOK(x) /\ StageOK(x))'
  <2>1. WriterOK(x)'
    <3> SUFFICES ASSUME Writing(x)' PROVE WriterOK(x)'
      BY DEF WriterOK
    <3>1. CASE x = r
      <4>1. todo'[r] = todo[r] \ {p} /\ todo[r] \subseteq DOMAIN rows[r]
        BY <1>1 DEF IInv, ShopInv, TypeOK, WriterOK
      <4>2. pc[r] = "insertItems"
        BY DEF InsertItem
      <4> QED BY <3>1, <4>1, <4>2, <1>1, <1>4, <1>5, <1>9 DEF WriterOK
    <3>2. CASE x # r
      <4>1. WriterOK(x) /\ Writing(x) /\ oid[x] \in DOMAIN orders
        BY <3>2, <1>9 DEF IInv, ShopInv, WriterOK
      <4>2. oid[x] # n
        BY <3>2, <4>1, <1>1 DEF IInv, ShopInv, SoleWriter
      <4>3. /\ orders'[oid'[x]] = orders[oid[x]] /\ oid'[x] \in DOMAIN orders'
            /\ pc'[x] = pc[x] /\ todo'[x] = todo[x] /\ rows'[x] = rows[x]
        BY <3>2, <4>1, <4>2, <1>4, <1>9
      <4> QED BY <4>1, <4>3 DEF WriterOK
    <3> QED BY <3>1, <3>2
  <2>2. CounterOK(x)'
    BY <1>4, <1>9 DEF IInv, ShopInv, CounterOK, NextId
  <2>3. StageOK(x)'
    BY <1>9 DEF IInv, ShopInv, StageOK
  <2> QED BY <2>1, <2>2, <2>3
<1> QED BY <1>6, <1>7, <1>8, <1>10, <1>11 DEF IInv, ShopInv

-----------------------------------------------------------------------------
(* Every step.                                                             *)

\* The items of one more order are read.
LEMMA SelectItemsIInv ==
    ASSUME IInv, NEW r \in Requests, SelectItems(r)
    PROVE  IInv'
<1>0. CartsOK'
  BY DEF SelectItems, IInv, TypeOK, CartsOK, FunctionOn
<1>1. SuccessCode(input[r].op) \in Codes
  BY DEF SuccessCode, Codes
<1>2. ASSUME NEW body, Answer(r, SuccessCode(input[r].op), body)
      PROVE  IInv'
  BY <1>0, <1>1, <1>2, AnswerIInv DEF SelectItems
<1>3. ASSUME NEW body, NEW n,
             view' = [view EXCEPT ![r] = body],
             unread' = [unread EXCEPT ![r] = @ \ {n}],
             UNCHANGED <<pc, input, reply, rows, todo, oid>>
      PROVE  IInv'
  <2>1. FunctionOn(view', Requests) /\ unread' \in [Requests -> SUBSET Nat]
    BY <1>3 DEF IInv, TypeOK, FunctionOn
  <2>2. UNCHANGED <<cart, orders>>
    BY DEF SelectItems
  <2>3. TypeOK'
    BY <1>3, <2>1, <2>2 DEF IInv, TypeOK, FunctionOn, OrderShape
  <2>4. OrderIdsDense' /\ OrdersSound' /\ SoleWriter'
    BY <1>3, <2>2 DEF IInv, ShopInv, OrderIdsDense, OrdersSound, SoleWriter,
                      Writing
  <2>5. ASSUME NEW x \in Requests
        PROVE  (WriterOK(x) /\ CounterOK(x) /\ StageOK(x))'
    BY <1>3, <2>2 DEF IInv, ShopInv, WriterOK, CounterOK, StageOK, Writing,
                      NextId
  <2> QED BY <2>3, <2>4, <2>5 DEF IInv, ShopInv
<1> QED BY <1>2, <1>3 DEF SelectItems

\* A cart is replaced by rows.
LEMMA CartsStay ==
    ASSUME IInv, NEW s, NEW lines, IsLines(lines),
           cart' = [cart EXCEPT ![s] = lines]
    PROVE  CartsOK'
BY DEF IInv, TypeOK, CartsOK, FunctionOn

\* No arrival disturbs the invariant.
LEMMA ArriveIInv ==
    ASSUME IInv, NEW r \in Requests, Arrive(r)
    PROVE  IInv'
<1> USE AddQtysAssumption, PutQtysAssumption, BoundsAssumption DEF AllOps
<1>1. ASSUME NEW p \in ProductIds, NEW q \in AddQtys, ReceiveAdd(r, p, q)
      PROVE  IInv'
  BY <1>1, ReceiveIInv DEF ReceiveAdd
<1>2. ASSUME NEW p \in ProductIds, NEW q \in PutQtys, ReceivePut(r, p, q)
      PROVE  IInv'
  BY <1>2, ReceiveIInv DEF ReceivePut
<1>3. ASSUME NEW p \in ProductIds, ReceiveRemove(r, p) PROVE IInv'
  BY <1>3, ReceiveIInv DEF ReceiveRemove
<1>4. CASE ReceiveClear(r)
  BY <1>4, ReceiveIInv DEF ReceiveClear
<1>5. CASE ReceiveGetCart(r)
  BY <1>5, ReceiveIInv DEF ReceiveGetCart
<1>6. CASE ReceiveCreate(r)
  BY <1>6, ReceiveIInv DEF ReceiveCreate
<1>7. ASSUME NEW n \in 1..MaxOrders, ReceiveGetOrder(r, n) PROVE IInv'
  BY <1>7, ReceiveIInv DEF ReceiveGetOrder
<1>8. CASE ReceiveListOrders(r)
  BY <1>8, ReceiveIInv DEF ReceiveListOrders
<1>9. CASE ReceiveListProducts(r)
  BY <1>9, ReceiveIInv DEF ReceiveListProducts
<1>10. ASSUME NEW p \in ProductIds, ReceiveGetProduct(r, p) PROVE IInv'
  BY <1>10, ReceiveIInv DEF ReceiveGetProduct
<1> QED BY <1>1, <1>2, <1>3, <1>4, <1>5, <1>6, <1>7, <1>8, <1>9, <1>10
        DEF Arrive

\* No statement of a handler disturbs the invariant.
LEMMA HandleIInv ==
    ASSUME IInv, NEW r \in Requests, Handle(r)
    PROVE  IInv'
<1> DEFINE s == Session(r)
           p == input[r].pid
           q == input[r].qty
<1>1. IsLines(CartOf(r)) /\ IsLines(rows[r]) /\ q \in Int /\ oid[r] \in Nat
  BY SessionAssumption DEF IInv, TypeOK, CartOf, Session, InputType
<1>2. StageOK(r) /\ CounterOK(r)
  BY DEF IInv, ShopInv
<1>3. UNCHANGED cart => CartsOK'
  BY DEF IInv, TypeOK, CartsOK, FunctionOn
<1>4. Codes = {0, 200, 201, 400, 404, 500, 502}
  BY DEF Codes
<1>5. UNCHANGED rows => rows' = [rows EXCEPT ![r] = rows[r]]
  BY DEF IInv, TypeOK, FunctionOn
<1>6. input[r].op \in AllOps \cup {"none"}
  BY DEF IInv, TypeOK, InputType
<1>7. CASE SelectProduct(r)
  <2>1. CASE p \in Products
    <3>1. ~Writing(r) /\ input[r].op = "addItem"
      BY <1>2, <1>7 DEF SelectProduct, Writing, StageOK
    <3> QED BY <1>1, <1>3, <1>5, <1>7, <2>1, <3>1, MoveIInv
            DEF SelectProduct, ProductFound, locals
  <2>2. CASE p \notin Products
    BY <1>3, <1>4, <1>7, <2>2, AnswerIInv DEF SelectProduct, ProductFound
  <2> QED BY <2>1, <2>2
<1>8. CASE SelectExisting(r)
  <2>1. ~Writing(r) /\ input[r].op = "addItem" /\ p \in Products
    BY <1>2, <1>8 DEF SelectExisting, Writing, StageOK
  <2>2. IsLines(ExistingRow(r))
    BY <1>1, RestrictLines DEF ExistingRow
  <2>3. ASSUME NEW label \in {"insertRow", "updateRow"}, Goto(r, label)
        PROVE  IInv'
    BY <1>3, <1>8, <2>1, <2>2, <2>3, MoveIInv DEF SelectExisting
  <2> QED BY <1>8, <2>3 DEF SelectExisting
<1>9. CASE UpdateRow(r)
  <2>1. ~Writing(r) /\ q \in Int /\ input[r].op = "addItem"
    BY <1>1, <1>2, <1>9 DEF UpdateRow, Writing, StageOK
  <2>2. IsLines(IncrementedRows(r))
    BY <1>1, <2>1, IncrementRowLines DEF IncrementedRows
  <2>3. CartsOK'
    BY <1>9, <2>2, CartsStay DEF UpdateRow
  <2> QED BY <1>1, <1>5, <1>9, <2>1, <2>3, MoveIInv DEF UpdateRow
<1>10. CASE InsertRow(r)
  <2>1. CASE RowExists(r)
    BY <1>3, <1>4, <1>10, <2>1, AnswerIInv DEF InsertRow
  <2>2. CASE ~RowExists(r)
    <3>1. /\ ~Writing(r) /\ q \in Int /\ p \in Products
          /\ input[r].op = "addItem"
      BY <1>1, <1>2, <1>10 DEF InsertRow, Writing, StageOK
    <3>2. IsLines(WithRow(cart[s], p, q))
      BY <1>1, <3>1, WithRowLines DEF CartOf
    <3>3. CartsOK'
      BY <1>10, <2>2, <3>2, CartsStay DEF InsertRow
    <3> QED BY <1>1, <1>5, <1>10, <2>2, <3>1, <3>3, MoveIInv
            DEF InsertRow, locals
  <2> QED BY <2>1, <2>2
<1>11. CASE PutRow(r)
  <2>1. IsLines(PutRows(r))
    BY <1>1, DeleteRowLines, SetRowLines DEF PutRows
  <2>2. CartsOK'
    BY <1>11, <2>1, CartsStay DEF PutRow
  <2>3. ~Writing(r) /\ input[r].op # "createOrder"
    BY <1>2, <1>11 DEF PutRow, Writing, StageOK
  <2> QED BY <1>1, <1>5, <1>11, <2>2, <2>3, MoveIInv DEF PutRow
<1>12. CASE RemoveRow(r)
  <2>1. IsLines(DeleteRow(cart[s], p))
    BY <1>1, DeleteRowLines DEF CartOf
  <2>2. CartsOK'
    BY <1>12, <2>1, CartsStay DEF RemoveRow
  <2>3. ~Writing(r) /\ input[r].op # "createOrder"
    BY <1>2, <1>12 DEF RemoveRow, Writing, StageOK
  <2> QED BY <1>1, <1>5, <1>12, <2>2, <2>3, MoveIInv DEF RemoveRow
<1>13. CASE ClearCart(r)
  <2>1. CartsOK'
    BY <1>13, NoLinesAreLines, CartsStay DEF ClearCart, CartsWithout
  <2> QED BY <1>4, <1>13, <2>1, AnswerIInv DEF ClearCart
<1>14. CASE SelectCart(r)
  BY <1>3, <1>4, <1>14, AnswerIInv DEF SelectCart
<1>15. CASE SelectOrderRows(r)
  <2>1. CASE CartOf(r) = NoLines
    BY <1>3, <1>4, <1>15, <2>1, AnswerIInv DEF SelectOrderRows
  <2>2. CASE CartOf(r) # NoLines
    <3>1. ~Writing(r) /\ input[r].op = "createOrder"
      BY <1>2, <1>15 DEF SelectOrderRows, Writing, StageOK
    <3> QED BY <1>1, <1>3, <1>15, <2>2, <3>1, MoveIInv DEF SelectOrderRows
  <2> QED BY <2>1, <2>2
<1>16. CASE CountOrders(r)
  BY <1>16, CountOrdersIInv
<1>17. CASE InsertOrder(r)
  <2>1. CASE IdTaken(r)
    BY <1>3, <1>4, <1>17, <2>1, AnswerIInv DEF InsertOrder
  <2> QED BY <1>17, <2>1, InsertOrderIInv
<1>18. CASE InsertItem(r)
  BY <1>18, InsertItemIInv
<1>19. CASE ClearOrdered(r)
  BY <1>19, ClearOrderedIInv
<1>20. CASE FetchOrder(r)
  <2>1. {oid[r]} \in SUBSET Nat
    BY <1>1
  <2> QED BY <1>20, <2>1, HeadersIInv DEF FetchOrder
<1>21. CASE SelectOrder(r)
  <2>1. input[r].op \in {"getOrder", "listOrders"}
    BY <1>2, <1>21 DEF SelectOrder, StageOK
  <2>2. {input[r].order} \in SUBSET Nat
    BY DEF IInv, TypeOK, InputType
  <2>3. CASE input[r].order \in DOMAIN orders
    BY <1>21, <2>1, <2>2, <2>3, HeadersIInv DEF SelectOrder
  <2>4. CASE input[r].order \notin DOMAIN orders
    BY <1>3, <1>4, <1>21, <2>4, AnswerIInv DEF SelectOrder
  <2> QED BY <2>3, <2>4
<1>22. CASE SelectOrders(r)
  <2>1. input[r].op \in {"getOrder", "listOrders"}
    BY <1>2, <1>22 DEF SelectOrders, StageOK
  <2>2. DOMAIN orders \in SUBSET Nat
    BY DEF IInv, TypeOK
  <2>3. CASE DOMAIN orders # {}
    BY <1>22, <2>1, <2>2, <2>3, HeadersIInv DEF SelectOrders
  <2>4. CASE DOMAIN orders = {}
    BY <1>3, <1>4, <1>22, <2>4, AnswerIInv DEF SelectOrders
  <2> QED BY <2>3, <2>4
<1>23. CASE SelectItems(r)
  BY <1>23, SelectItemsIInv
<1>24. CASE SelectProducts(r)
  BY <1>3, <1>4, <1>24, AnswerIInv DEF SelectProducts
<1>25. CASE SelectById(r)
  BY <1>3, <1>4, <1>25, AnswerIInv DEF SelectById
<1> QED BY <1>7, <1>8, <1>9, <1>10, <1>11, <1>12, <1>13, <1>14, <1>15, <1>16,
           <1>17, <1>18, <1>19, <1>20, <1>21, <1>22, <1>23, <1>24, <1>25
        DEF Handle

\* No failure disturbs the invariant.
LEMMA FailIInv ==
    ASSUME IInv, NEW r \in Requests, Fail(r)
    PROVE  IInv'
<1>1. UNCHANGED cart => CartsOK'
  BY DEF IInv, TypeOK, CartsOK, FunctionOn
<1>2. ErrorCode(input[r].op) \in Codes /\ 502 \in Codes
  BY DEF ErrorCode, Codes
<1>3. CASE QueryFails(r)
  BY <1>1, <1>2, <1>3, AnswerIInv DEF QueryFails
<1>4. CASE ProcessDies(r)
  BY <1>1, <1>2, <1>4, AnswerIInv DEF ProcessDies
<1> QED BY <1>3, <1>4, RetryIInv DEF Fail

\* The invariant is inductive.
LEMMA NextIInv == IInv /\ [Next]_vars => IInv'
BY StutterIInv, ArriveIInv, HandleIInv, FailIInv DEF Next

\* The invariant holds throughout: orders are numbered without gaps, have one
\* writer each, hold exactly the lines their writer has passed, and carry the
\* total of the cart they were created from (server.js:347-439).
THEOREM ShopInvariant == Spec => [](TypeOK /\ ShopInv)
<1>1. Init => IInv
  BY InitIInv
<1>2. IInv /\ [Next]_vars => IInv'
  BY NextIInv
<1>3. IInv => TypeOK /\ ShopInv
  BY DEF IInv
<1> QED BY <1>1, <1>2, <1>3, PTL DEF Spec

\* The tables and the handlers' locals keep their types.
THEOREM TypeCorrect == Spec => []TypeOK
BY ShopInvariant, PTL

\* Orders are numbered 1, 2, 3... without gaps.
THEOREM NumbersDense == Spec => []OrderIdsDense
<1>1. TypeOK /\ ShopInv => OrderIdsDense
  BY DEF ShopInv
<1> QED BY <1>1, ShopInvariant, PTL

-----------------------------------------------------------------------------
(* The orders tables implement the ledger.                                 *)

\* Inserting an orders row places an order.
LEMMA InsertOrderPlaces ==
    ASSUME IInv, NEW r \in Requests, InsertOrder(r), ~IdTaken(r)
    PROVE  Ledger!Place
<1>1. oid[r] = NextId /\ oid[r] \notin DOMAIN orders
  BY FreeNumberIsNext DEF InsertOrder, IdTaken
<1>2. orders' = [n \in DOMAIN orders \cup {oid[r]} |->
                    IF n = oid[r] THEN NewOrder(rows[r]) ELSE orders[n]]
  BY DEF InsertOrder, IdTaken
<1>3. IsLines(rows[r]) /\ rows[r] # NoLines
  BY DEF InsertOrder, IInv, ShopInv, TypeOK, CounterOK
<1>4. oid[r] \in Nat \ {0} /\ DOMAIN orders = 1..(oid[r] - 1)
  BY <1>1, FS_CardinalityType
     DEF IInv, ShopInv, TypeOK, OrderIdsDense, NextId
<1>5. /\ DOMAIN orders' = DOMAIN orders \cup {oid[r]}
      /\ \A n \in DOMAIN orders : orders'[n] = orders[n]
      /\ orders'[oid[r]] = NewOrder(rows[r])
  BY <1>1, <1>2
<1>6. DOMAIN orders' = 1..oid[r] /\ oid[r] \in DOMAIN orders'
  BY <1>4, <1>5
<1>7. DOMAIN rows[r] # {}
  BY <1>3 DEF IsLines, NoLines
<1>8. Ledger!Placed(orders'[oid[r]])
  BY <1>3, <1>5, <1>7 DEF Ledger!Placed, NewOrder, NoLines
<1> QED BY <1>4, <1>5, <1>6, <1>8 DEF Ledger!Place

\* Inserting an order_items row writes a line.
LEMMA InsertItemWrites ==
    ASSUME IInv, NEW r \in Requests, InsertItem(r)
    PROVE  \E n \in DOMAIN orders :
              \E p \in DOMAIN orders[n].basis : Ledger!WriteLine(n, p)
<1>1. PICK p \in todo[r] :
         /\ oid[r] \in DOMAIN orders
         /\ p \in DOMAIN rows[r] \ DOMAIN orders[oid[r]].items
         /\ orders[oid[r]].basis = rows[r]
         /\ orders' = [orders EXCEPT ![oid[r]].items =
                          WithRow(@, p, rows[r][p])]
  BY InsertItemEffect
<1>2. Ledger!WriteLine(oid[r], p)
  BY <1>1 DEF Ledger!WriteLine, WithRow
<1> QED BY <1>1, <1>2

\* No other step changes the orders tables.
LEMMA OtherStepsKeepOrders ==
    ASSUME NEW r \in Requests, Arrive(r) \/ Handle(r) \/ Fail(r),
           ~InsertItem(r), ~(InsertOrder(r) /\ ~IdTaken(r))
    PROVE  UNCHANGED orders
<1>1. CASE Arrive(r)
  BY <1>1 DEF Arrive, ReceiveAdd, ReceivePut, ReceiveRemove, ReceiveClear,
              ReceiveGetCart, ReceiveCreate, ReceiveGetOrder,
              ReceiveListOrders, ReceiveListProducts, ReceiveGetProduct,
              Receive
<1>2. CASE Handle(r)
  BY <1>2 DEF Handle, SelectProduct, SelectExisting, UpdateRow, InsertRow,
              PutRow, RemoveRow, ClearCart, SelectCart, SelectOrderRows,
              CountOrders, InsertOrder, ClearOrdered, FetchOrder, SelectOrder,
              SelectOrders, SelectItems, SelectProducts, SelectById
<1>3. CASE Fail(r)
  BY <1>3 DEF Fail, QueryFails, ProcessDies, ProxyRetries
<1> QED BY <1>1, <1>2, <1>3

\* The orders tables are an append-only ledger (server.js:379-405): every
\* step of the server places an order, writes one line of one order, or
\* leaves the orders as they are.
THEOREM OrdersAreALedger == Spec => LedgerSpec
<1>1. Init => Ledger!Init
  BY DEF Init, Ledger!Init, NoOrders
<1>2. IInv /\ [Next]_vars => [Ledger!Next]_orders
  <2> SUFFICES ASSUME IInv, Next PROVE Ledger!Next \/ UNCHANGED orders
    BY DEF vars
  <2>1. PICK r \in Requests : Arrive(r) \/ Handle(r) \/ Fail(r)
    BY DEF Next
  <2>2. CASE InsertItem(r)
    BY <2>2, InsertItemWrites DEF Ledger!Next
  <2>3. CASE InsertOrder(r) /\ ~IdTaken(r)
    BY <2>3, InsertOrderPlaces DEF Ledger!Next
  <2> QED BY <2>1, <2>2, <2>3, OtherStepsKeepOrders
<1>3. Spec => []IInv
  BY InitIInv, NextIInv, PTL DEF Spec
<1> QED BY <1>1, <1>2, <1>3, PTL DEF Spec, LedgerSpec, Ledger!Spec
=============================================================================
