------------------------------- MODULE MCAuth -------------------------------
(* Instances of the authentication server for TLC.                         *)
EXTENDS AuthProperties, TLC

CONSTANTS a, b, t1, t2, t3

AuthSymmetry == Permutations(Tokens) \cup Permutations(Conns)
=============================================================================
