---------------------------- MODULE CartService -----------------------------
(***************************************************************************)
(* The shop a browser expects: every request takes effect at once, or not  *)
(* at all.  A checkout moves the whole cart of its session into one new    *)
(* order.  The server does this only for sessions that nobody shares.      *)
(***************************************************************************)
EXTENDS ShopData

CONSTANTS Sessions, AddQtys, PutQtys

VARIABLES
    carts,     \* the cart of each session
    placed     \* the lines of each order placed, by number

svars == <<carts, placed>>

Init == /\ carts = [s \in Sessions |-> NoLines]
        /\ placed = [n \in {} |-> 0]

Change(s, lines) == /\ carts' = [carts EXCEPT ![s] = lines]
                    /\ UNCHANGED placed

Add(s, p, q) == Change(s, AddLine(carts[s], p, q))

Put(s, p, q) == Change(s, IF q > 0 THEN SetRow(carts[s], p, q)
                                   ELSE DeleteRow(carts[s], p))

Remove(s, p) == Change(s, DeleteRow(carts[s], p))

Clear(s) == Change(s, NoLines)

Checkout(s) ==
    /\ carts[s] # NoLines
    /\ carts' = [carts EXCEPT ![s] = NoLines]
    /\ \E n \in DOMAIN placed' \ DOMAIN placed :
          placed' = [m \in DOMAIN placed \cup {n} |->
                        IF m = n THEN carts[s] ELSE placed[m]]

Next == \E s \in Sessions :
    \/ \E p \in Products, q \in AddQtys : Add(s, p, q)
    \/ \E p \in Products, q \in PutQtys : Put(s, p, q)
    \/ \E p \in Products : Remove(s, p)
    \/ Clear(s)
    \/ Checkout(s)

Spec == Init /\ [][Next]_svars
=============================================================================
