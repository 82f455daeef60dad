---------------------------- MODULE RefreshRaces ----------------------------
(***************************************************************************)
(* What a refresh does to a login (AuthSessions).  It deletes one session  *)
(* and creates another, in many commands, and refreshes on two connections *)
(* may do so for the same login.  crossed is a history variable, which the *)
(* code does not have: the logins two of whose refreshes were under way at *)
(* the same time.                                                          *)
(***************************************************************************)
EXTENDS AuthProperties

VARIABLE crossed

hvars == <<vars, crossed>>

-----------------------------------------------------------------------------
\* The logins that two connections refresh now.
Crossing ==
    {root[job[c].token] : c \in {d \in Conns :
        \E e \in Conns \ {d} :
            /\ job[d].op = "refresh" /\ job[e].op = "refresh"
            /\ {job[d].token, job[e].token} \subseteq Generated
            /\ root[job[d].token] = root[job[e].token]}}

HInit == Init /\ crossed = {}

HNext == Next /\ crossed' = crossed \cup Crossing

HSpec == HInit /\ [][HNext]_hvars

-----------------------------------------------------------------------------
\* As long as Redis answers, a login has one session that has not expired,
\* however often it is refreshed and whatever becomes of PostgreSQL: only
\* refreshes of it that overlap leave it two (session_service.go:144-163).
OneSessionUnlessCrossed ==
    \A t, u \in Tokens :
        Live(t) /\ Live(u) /\ root[t] = root[u] =>
            t = u \/ root[t] \in crossed
=============================================================================
