----------------------------- MODULE MCRefresh ------------------------------
(* An instance of the authentication server, with its refreshes watched,   *)
(* for TLC.                                                                *)
EXTENDS RefreshRaces, TLC

CONSTANTS a, b, t1, t2, t3

AuthSymmetry == Permutations(Tokens) \cup Permutations(Conns)
=============================================================================
