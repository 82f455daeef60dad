------------------------------ MODULE MCClient ------------------------------
(***************************************************************************)
(* Instances of browser and shop server for TLC.                           *)
(***************************************************************************)
EXTENDS ClientProperties, TLC

CONSTANTS b1, c1, c2, s1, tea

MCProducts == {tea}
MCPrice == tea :> 3

\* No browser sends an x-session-id header.
SharedSession == [r \in Requests |-> s1]

OneBrowser == [r \in Requests |-> b1]
=============================================================================
