--------------------------- MODULE MCConnections ----------------------------
(* Instances of the connections of the authentication server for TLC.      *)
EXTENDS AuthConnections

CONSTANTS a, b
=============================================================================
