--------------------------- MODULE AuthProperties ---------------------------
(***************************************************************************)
(* What the authentication server's sessions are for, stated over the      *)
(* states and steps of AuthSessions.                                       *)
(***************************************************************************)
EXTENDS AuthSessions

Types == {"login", "validate", "refresh", "logout"}

Jobs == [op : Types \cup {"none"}, token : Tokens \cup {NoToken},
         stage : Stages, frames : 0..MaxFrames,
         made : Tokens \cup {NoToken}, dead : BOOLEAN]

\* The type invariant: the stores hold tokens the server generated, and the
\* stack of GetSession and DeleteSession is as deep as the statement in hand
\* says (session_service.go:90-141).
TypeOK ==
    /\ keys \subseteq Tokens \ Unused
    /\ rows \subseteq Tokens \ Unused
    /\ overdue \subseteq Tokens \ Unused
    /\ root \in [Tokens -> Tokens \cup {NoToken}]
    /\ told \subseteq Tokens \ Unused
    /\ revoked \subseteq Tokens \cup {NoToken}
    /\ pc \in [Conns -> Labels]
    /\ job \in [Conns -> Jobs]
    /\ answer \in [Conns -> Answers]

Generated == Tokens \ Unused

\* What the goroutine of c relies on between two commands: the token it was
\* given was generated or is none, the statement in hand fits the request and
\* the stage it is in, and a token that was dead on arrival stays so
\* (session_service.go:90-163).
JobOK(c) ==
    /\ job[c].token \in Generated \cup {NoToken}
    /\ job[c].op = "login" => job[c].stage = "create"
    /\ job[c].stage = "create" => job[c].op \in {"login", "refresh"}
    /\ pc[c] \in {"findUser", "setKey", "addIndex", "insertRow"}
          => job[c].stage = "create"
    /\ pc[c] = "findUser" => job[c].op = "login"
    /\ pc[c] \in {"addIndex", "insertRow"} => job[c].made \in Generated
    /\ pc[c] = "get" /\ job[c].frames = 0
          => job[c].op \in {"validate", "refresh"}
    /\ pc[c] \in {"delKey", "delRow"} => job[c].frames > 0
    /\ job[c].op = "refresh" /\ job[c].stage # "check"
          => job[c].token \in Generated
    /\ pc[c] = "loadUser" => job[c].token \in Generated
    /\ pc[c] = "loadUser" => job[c].op \in {"validate", "refresh"}
    /\ job[c].dead => ~Live(job[c].token) /\ pc[c] # "loadUser"

\* Every goroutine's request is in such a state, whatever the others did to
\* its session since its last command: for the proofs.
JobsSound == \A c \in Conns : JobOK(c)

-----------------------------------------------------------------------------
(* Whatever fails.                                                         *)

Lives == INSTANCE SessionLife WITH
    life <- [t \in Tokens |-> IF root[t] = NoToken THEN "unborn"
                              ELSE IF t \in keys THEN "live" ELSE "dead"]

\* A token that was deleted, refreshed away or dropped by Redis never names
\* a session again (session_service.go:39-45, 64-67): not after a late
\* command of another connection, a failure or a restart.
LivesSpec == Lives!Spec

Finishes(c) == pc[c] # "idle" /\ pc'[c] = "idle"

\* Nobody is vouched for by a token that had expired or been revoked before
\* the question was asked (session_service.go:98-102).
DeadNeverValid ==
    [][\A c \in Conns :
          Finishes(c) /\ answer'[c] = "valid" => ~job[c].dead]_vars

-----------------------------------------------------------------------------
(* As long as Redis answers.                                               *)

\* The token of a logout or refresh answered success is no session, now or
\* later (session_service.go:125-127), however PostgreSQL fails and whoever
\* presents the token at the same time.
RevokedIsGone == revoked \cap keys = {}

\* What keeps it so: a goroutine past the DEL of its token finds it gone for
\* good, and a revoked token will not be generated.
RevokedInv ==
    /\ RevokedIsGone
    /\ revoked \subseteq Generated \cup {NoToken}
    /\ \A c \in Conns :
          (\/ pc[c] = "delRow"
           \/ job[c].op = "refresh" /\ job[c].stage = "create")
          => job[c].token \notin keys

\* A session that has not expired is known to a client, or is about to be:
\* none is stored and its token thrown away (session_service.go:64-86).
NoOrphan ==
    \A t \in Tokens : Live(t) =>
        t \in told \/ \E c \in Conns : pc[c] # "idle" /\ job[c].made = t

-----------------------------------------------------------------------------
(* As long as both stores answer and the process runs.                     *)

\* A connection that is between the two stores with token t.
Between(c, t) == \/ pc[c] \in {"addIndex", "insertRow"} /\ job[c].made = t
                 \/ pc[c] = "delRow" /\ job[c].token = t

\* The backup has a row for each session that has not expired, and no other,
\* but while a connection is writing one store and then the other
\* (session_service.go:65-81, 125-138).
StoresAgree ==
    \A t \in Tokens \ overdue :
        (t \in keys) # (t \in rows) => \E c \in Conns : Between(c, t)

\* A session that has not expired ends only by a logout or refresh that
\* presented its token, and until then no validate is answered "not valid":
\* requests for other tokens of the user and late commands leave it alone
\* (session_service.go:112-138, auth_handler.go:106-112).
LiveNeverRefused ==
    [][/\ \A t \in keys \ keys' :
             t \in overdue \/ \E c \in Conns : /\ job[c].op \in {"logout", "refresh"}
                                              /\ job[c].token = t
       /\ \A c \in Conns :
             Finishes(c) /\ answer'[c] = "invalid" => ~Live(job[c].token)]_vars

\* Every request is answered: the recursion of GetSession and DeleteSession
\* on an expired session ends when Redis drops the key
\* (session_service.go:99-100, 114).
SessionAnswered == \A c \in Conns : pc[c] # "idle" ~> pc[c] = "idle"

-----------------------------------------------------------------------------
(* What a comment says of a refresh, and the code does not do.             *)

\* "RefreshSession extends a session's expiration" (session_service.go:143):
\* a login has one session at a time, however often it is refreshed.
OneSessionPerLogin ==
    \A t, u \in Tokens : Live(t) /\ Live(u) /\ root[t] = root[u] => t = u

\* Likewise: a refresh that fails leaves the session as it was.
FailedRefreshKeepsSession ==
    [][\A c \in Conns :
          /\ Finishes(c) /\ answer'[c] = "error"
          /\ job[c].op = "refresh" /\ job[c].token \notin overdue
          /\ \A d \in Conns \ {c} : pc[d] = "idle"
          /\ ~job[c].dead
          => job[c].token \in keys']_vars
=============================================================================
