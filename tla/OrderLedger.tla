---------------------------- MODULE OrderLedger -----------------------------
(***************************************************************************)
(* What the orders tables of the shop promise to whoever reads them, with  *)
(* no mention of requests, statements or failures.  An order is placed     *)
(* with the next number and the cost of some cart (basis); its lines are   *)
(* then written one at a time, each once and as they were in that cart;    *)
(* nothing is ever removed or rewritten.                                   *)
(***************************************************************************)
EXTENDS Integers

CONSTANTS
    IsCart(_),     \* a cart: a function from its products to quantities
    CostOf(_)      \* what a cart costs

VARIABLE ledger    \* the orders by number

Init == ledger = [n \in {} |-> 0]

Placed(order) == /\ IsCart(order.basis) /\ DOMAIN order.basis # {}
                 /\ order.total = CostOf(order.basis)
                 /\ order.items = [p \in {} |-> 0]

Place == \E n \in DOMAIN ledger' :
    /\ DOMAIN ledger = 1..(n - 1)
    /\ DOMAIN ledger' = 1..n
    /\ \A m \in DOMAIN ledger : ledger'[m] = ledger[m]
    /\ Placed(ledger'[n])

WriteLine(n, p) ==
    /\ p \notin DOMAIN ledger[n].items
    /\ ledger' = [ledger EXCEPT ![n].items =
          [x \in DOMAIN @ \cup {p} |->
              IF x = p THEN ledger[n].basis[p] ELSE @[x]]]

Next == \/ Place
        \/ \E n \in DOMAIN ledger :
              \E p \in DOMAIN ledger[n].basis : WriteLine(n, p)

Spec == Init /\ [][Next]_ledger
=============================================================================
