------------------------------ MODULE ShopData ------------------------------
(***************************************************************************)
(* The rows of the shop's PostgreSQL schema (server/db/schema.sql) as the  *)
(* shop server uses them.  No endpoint writes the products table, so the   *)
(* catalogue is a constant.  A set of cart_items rows of one session, and  *)
(* the order_items rows of one order, are a partial function from products *)
(* to quantities; prices are in cents.                                     *)
(***************************************************************************)
EXTENDS Integers, FiniteSets, FiniteSetsExt

CONSTANTS
    Products,      \* ids of the rows of the products table
    ProductIds,    \* ids a request may name: the products and unknown ones
    Price,         \* products.price, in cents
    NoProduct      \* the product of a request that names none

ASSUME ProductIdsAssumption == Products \subseteq ProductIds
ASSUME PriceAssumption == Price \in [Products -> Nat]
ASSUME NoProductAssumption == NoProduct \notin ProductIds

-----------------------------------------------------------------------------
(* Rows.                                                                   *)

\* Rows by product: UNIQUE(product_id, session_id), product_id REFERENCES
\* products(id), quantity INTEGER NOT NULL.  No CHECK keeps it positive.
IsLines(f) == /\ DOMAIN f \subseteq Products
              /\ f \in [DOMAIN f -> Int]

NoLines == [p \in {} |-> 0]

\* The rows with the row of p holding quantity q.
WithRow(lines, p, q) ==
    [x \in DOMAIN lines \cup {p} |-> IF x = p THEN q ELSE lines[x]]

QuantityOf(lines, p) == IF p \in DOMAIN lines THEN lines[p] ELSE 0

\* DELETE ... WHERE product_id = p
DeleteRow(lines, p) == Restrict(lines, DOMAIN lines \ {p})

\* UPDATE ... SET quantity = q WHERE product_id = p: no row, no effect.
SetRow(lines, p, q) ==
    IF p \in DOMAIN lines THEN WithRow(lines, p, q) ELSE lines

\* UPDATE ... SET quantity = quantity + q WHERE product_id = p
IncrementRow(lines, p, q) == SetRow(lines, p, QuantityOf(lines, p) + q)

\* INSERT INTO order_items: the table has no unique key on the product, so a
\* line inserted twice counts twice.
AddLine(lines, p, q) == WithRow(lines, p, QuantityOf(lines, p) + q)

\* What the lines cost: the sum of price * quantity.
LinesTotal(lines) ==
    LET Subtotal(p) == Price[p] * lines[p]
    IN  MapThenSumSet(Subtotal, DOMAIN lines)

\* Every line of a is a line of b with the same quantity.
SubLines(a, b) == /\ DOMAIN a \subseteq DOMAIN b
                  /\ \A p \in DOMAIN a : a[p] = b[p]
=============================================================================
