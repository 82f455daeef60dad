---------------------------- MODULE SessionLife -----------------------------
(***************************************************************************)
(* What the authentication server promises about a session token, with no  *)
(* mention of requests, stores or failures: a token becomes a session at   *)
(* most once, and once it stopped being one it never is one again.         *)
(***************************************************************************)
CONSTANT Tokens

VARIABLE life   \* "unborn", then "live", then "dead"

Init == life = [t \in Tokens |-> "unborn"]

Issue(t) == /\ life[t] = "unborn"
            /\ life' = [life EXCEPT ![t] = "live"]

\* Generated, but never stored.
Waste(t) == /\ life[t] = "unborn"
            /\ life' = [life EXCEPT ![t] = "dead"]

End(t) == /\ life[t] = "live"
          /\ life' = [life EXCEPT ![t] = "dead"]

Next == \E t \in Tokens : Issue(t) \/ Waste(t) \/ End(t)

Spec == Init /\ [][Next]_life
=============================================================================
