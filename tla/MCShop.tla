------------------------------- MODULE MCShop -------------------------------
(***************************************************************************)
(* Instances of the shop server for TLC.                                   *)
(***************************************************************************)
EXTENDS SharedCarts, TLC

CONSTANTS c1, c2, c3, s1, s2, tea, pot, ghost

\* Two products whose prices tell carts apart, and an id that is neither.
MCProducts == {tea, pot}
MCProductIds == {tea, pot, ghost}
MCPrice == (tea :> 3) @@ (pot :> 10)

\* Every slot carries the session of the shipped client, which sends no
\* x-session-id header: `default-session'.
SharedSession == [r \in Requests |-> s1]

\* One slot a session: a client that waits for its answer and sends a header
\* of its own.
OwnSession == (c1 :> s1) @@ (c2 :> s2)

\* One product only.
TeaPrice == tea :> 3

RequestSymmetry == Permutations(Requests)
=============================================================================
