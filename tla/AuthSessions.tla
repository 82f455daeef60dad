---------------------------- MODULE AuthSessions ----------------------------
(***************************************************************************)
(* The sessions of the TCP authentication server: login, validate, refresh *)
(* and logout (internal/handler/auth_handler.go) down to the commands they *)
(* send to Redis and the statements they send to PostgreSQL                *)
(* (internal/service/session_service.go).  A connection serves one request *)
(* at a time; an action is one command or statement of the request and the *)
(* code up to the next one, so that those of several connections           *)
(* interleave as their goroutines do.                                      *)
(*                                                                         *)
(* One user is enough: a session is told from another by its token alone.  *)
(* The set user_sessions:<id> and the key connection:<id> are written and  *)
(* never read by a handler: they are not kept, but the SADD that may fail  *)
(* a login is a step.                                                      *)
(***************************************************************************)
EXTENDS Integers, FiniteSets

CONSTANTS
    Conns,      \* the connections, each with its goroutine
    Tokens,     \* what GenerateToken can return, one after the other
    NoToken,    \* no token, or a string that was never one
    Ops,        \* the request types that arrive
    Faults,     \* what may go wrong: subset of AllFaults
    MaxFrames   \* bound on the recursion GetSession -> DeleteSession

AllFaults == {"redis", "postgres", "crash", "hangup"}

ASSUME NoTokenAssumption == NoToken \notin Tokens
ASSUME FaultsAssumption == Faults \subseteq AllFaults
ASSUME MaxFramesAssumption == MaxFrames \in Nat \ {0}

VARIABLES
    keys,       \* Redis: the tokens t with a key session:<t>
    rows,       \* PostgreSQL: the tokens with a row in user_sessions
    overdue,    \* the tokens whose ExpiresAt has passed
    root,       \* the login a token descends from, NoToken: not generated
    told,       \* the tokens some client was sent
    revoked,    \* tokens whose logout or refresh was answered success
    pc,         \* the command or statement a goroutine sends next
    job,        \* its request and locals
    answer      \* the last response on a connection

vars == <<keys, rows, overdue, root, told, revoked, pc, job, answer>>

Labels == {"idle", "findUser", "get", "loadUser", "delKey", "delRow",
           "setKey", "addIndex", "insertRow"}

\* "check": GetSession of ValidateToken; "renew": that of RefreshSession;
\* "drop": DeleteSession; "create": CreateSession.
Stages == {"none", "check", "renew", "drop", "create"}

Answers == {"none", "ok", "error", "valid", "invalid", "lost"}

\* The client can tell a session by its token until it expires.
Live(t) == t \in keys \ overdue

Unused == {t \in Tokens : root[t] = NoToken}

NoJob == [op |-> "none", token |-> NoToken, stage |-> "none",
          frames |-> 0, made |-> NoToken, dead |-> FALSE]

Init == /\ keys = {}
        /\ rows = {}
        /\ overdue = {}
        /\ root = [t \in Tokens |-> NoToken]
        /\ told = {}
        /\ revoked = {}
        /\ pc = [c \in Conns |-> "idle"]
        /\ job = [c \in Conns |-> NoJob]
        /\ answer = [c \in Conns |-> "none"]

-----------------------------------------------------------------------------
(* Control of a goroutine.                                                 *)

Goto(c, label) == /\ pc' = [pc EXCEPT ![c] = label]
                  /\ UNCHANGED <<told, revoked, answer>>

\* sendResponse; given holds the token of the response.  A client that is
\* gone misses it.
Respond(c, word, given) ==
    /\ pc' = [pc EXCEPT ![c] = "idle"]
    /\ job' = [job EXCEPT ![c] = NoJob]
    /\ \/ /\ answer' = [answer EXCEPT ![c] = word]
          /\ told' = told \cup given
          /\ revoked' = IF word = "ok" /\ job[c].op \in {"logout", "refresh"}
                        THEN revoked \cup {job[c].token}
                        ELSE revoked
       \/ /\ "hangup" \in Faults
          /\ answer' = [answer EXCEPT ![c] = "lost"]
          /\ UNCHANGED <<told, revoked>>

\* The session is not found, or expired.
Reject(c) ==
    Respond(c, IF job[c].op = "validate" THEN "invalid" ELSE "error", {})

\* The locals of c at another stage of its request.
At(c, stage, frames) ==
    [job[c] EXCEPT !.stage = stage, !.frames = frames]

-----------------------------------------------------------------------------
(* Requests.  Anyone presents a token that some client was sent, or none   *)
(* the server ever made.                                                   *)

\* dead remembers what was true when the request arrived.
NewJob(op, t, stage, frames) ==
    [op |-> op, token |-> t, stage |-> stage, frames |-> frames,
     made |-> NoToken, dead |-> ~Live(t)]

Receive(c, op, t, first, stage, frames) ==
    /\ pc[c] = "idle"
    /\ op \in Ops
    /\ pc' = [pc EXCEPT ![c] = first]
    /\ job' = [job EXCEPT ![c] = NewJob(op, t, stage, frames)]
    /\ answer' = [answer EXCEPT ![c] = "none"]
    /\ UNCHANGED <<keys, rows, overdue, root, told, revoked>>

Issuing == {c \in Conns : job[c].op \in {"login", "refresh"}
                             /\ job[c].made = NoToken}

\* A bound: no request that may need a token arrives when none is left.
TokenLeft == Cardinality(Issuing) < Cardinality(Unused)

ReceiveLogin(c) ==
    /\ TokenLeft
    /\ Receive(c, "login", NoToken, "findUser", "create", 0)

ReceiveValidate(c, t) == Receive(c, "validate", t, "get", "check", 0)

ReceiveRefresh(c, t) ==
    /\ TokenLeft
    /\ Receive(c, "refresh", t, "get", "check", 0)

ReceiveLogout(c, t) == Receive(c, "logout", t, "get", "drop", 1)

-----------------------------------------------------------------------------
(* CreateSession, for a login and for a refresh.                           *)

\* The user is found and the password right, or not.
FindUser(c) ==
    /\ pc[c] = "findUser"
    /\ \/ Goto(c, "setKey") /\ UNCHANGED job
       \/ Respond(c, "error", {})
    /\ UNCHANGED <<keys, rows, overdue, root>>

\* A fault: the refreshed session keeps its token.
FreshOrOwn(c) == IF job[c].op = "refresh" THEN {job[c].token} ELSE Unused

\* GenerateToken: never the same twice.
Fresh(c) == Unused

Generate(c, t) ==
    /\ t \in Fresh(c)
    /\ root' = [root EXCEPT ![t] = IF job[c].op = "login"
                                   THEN t ELSE root[job[c].token]]

SetKey(c) ==
    /\ pc[c] = "setKey"
    /\ \E t \in Tokens : /\ Generate(c, t)
                         /\ keys' = keys \cup {t}
                         /\ job' = [job EXCEPT ![c].made = t]
    /\ Goto(c, "addIndex")
    /\ UNCHANGED <<rows, overdue>>

AddIndex(c) ==
    /\ pc[c] = "addIndex"
    /\ Goto(c, "insertRow")
    /\ UNCHANGED <<keys, rows, overdue, root, job>>

\* A fault: the response carries the token of the request.
InsertRowOldToken(c) ==
    /\ pc[c] = "insertRow"
    /\ rows' = rows \cup {job[c].made}
    /\ Respond(c, "ok", {job[c].token})
    /\ UNCHANGED <<keys, overdue, root>>

InsertRow(c) ==
    /\ pc[c] = "insertRow"
    /\ rows' = rows \cup {job[c].made}
    /\ Respond(c, "ok", {job[c].made})
    /\ UNCHANGED <<keys, overdue, root>>

-----------------------------------------------------------------------------
(* GetSession and DeleteSession, which call each other: frames counts the  *)
(* calls of DeleteSession on the stack.                                    *)

\* GetSession does not find the key: the innermost DeleteSession goes on to
\* clean up; without one the caller of GetSession gives up.
NotFound(c) ==
    \/ /\ job[c].frames > 0
       /\ Goto(c, "delKey")
       /\ UNCHANGED job
    \/ /\ job[c].frames = 0
       /\ Reject(c)

GetMissing(c) ==
    /\ pc[c] = "get"
    /\ job[c].token \notin keys
    /\ NotFound(c)
    /\ UNCHANGED <<keys, rows, overdue, root>>

\* A fault: the key is trusted as long as Redis has it.
NeverExpired(t) == FALSE

\* time.Now().After(session.ExpiresAt)
Expired(t) == t \in overdue

\* A found session goes to DeleteSession or to the caller's user lookup.
GetFound(c) ==
    /\ pc[c] = "get"
    /\ job[c].token \in keys
    /\ ~Expired(job[c].token)
    /\ Goto(c, IF job[c].frames > 0 THEN "delKey" ELSE "loadUser")
    /\ UNCHANGED <<keys, rows, overdue, root, job>>

\* An expired session is deleted, which begins by getting it once more.
GetExpired(c) ==
    /\ pc[c] = "get"
    /\ job[c].token \in keys
    /\ Expired(job[c].token)
    /\ job[c].frames < MaxFrames
    /\ Goto(c, "get")
    /\ job' = [job EXCEPT ![c].frames = @ + 1]
    /\ UNCHANGED <<keys, rows, overdue, root>>

\* A fault: only the row is deleted, the key is left to its TTL.
DelKeyLeft(c) ==
    /\ pc[c] = "delKey"
    /\ Goto(c, "delRow")
    /\ UNCHANGED <<keys, rows, overdue, root, job>>

\* A fault: the logout ends all sessions of the user.
DelKeysOfUser(c) ==
    /\ pc[c] = "delKey"
    /\ keys' = {}
    /\ Goto(c, "delRow")
    /\ UNCHANGED <<rows, overdue, root, job>>

DelKey(c) ==
    /\ pc[c] = "delKey"
    /\ keys' = keys \ {job[c].token}
    /\ Goto(c, "delRow")
    /\ UNCHANGED <<rows, overdue, root, job>>

\* DeleteSession returns: to the GetSession that called it, which reports an
\* expired session; to Logout; or to RefreshSession, which creates the next.
Return(c) ==
    \/ /\ job[c].frames > 1
       /\ Goto(c, "delKey")
       /\ job' = [job EXCEPT ![c].frames = @ - 1]
    \/ /\ job[c].frames = 1
       /\ job[c].stage # "drop"
       /\ Reject(c)
    \/ /\ job[c].frames = 1
       /\ job[c].stage = "drop"
       /\ \/ /\ job[c].op = "logout"
             /\ Respond(c, "ok", {})
          \/ /\ job[c].op = "refresh"
             /\ Goto(c, "setKey")
             /\ job' = [job EXCEPT ![c] = At(c, "create", 0)]

\* A fault: the row stays, for the audit.
DelRowKept(c) ==
    /\ pc[c] = "delRow"
    /\ Return(c)
    /\ UNCHANGED <<keys, rows, overdue, root>>

DelRow(c) ==
    /\ pc[c] = "delRow"
    /\ rows' = rows \ {job[c].token}
    /\ Return(c)
    /\ UNCHANGED <<keys, overdue, root>>

\* GetUserByID for a session that was found.
LoadUser(c) ==
    /\ pc[c] = "loadUser"
    /\ \/ /\ job[c].op = "validate"
          /\ Respond(c, "valid", {})
       \/ /\ job[c].op = "refresh"
          /\ Goto(c, "get")
          /\ \/ /\ job[c].stage = "check"
                /\ job' = [job EXCEPT ![c] = At(c, "renew", 0)]
             \/ /\ job[c].stage = "renew"
                /\ job' = [job EXCEPT ![c] = At(c, "drop", 1)]
    /\ UNCHANGED <<keys, rows, overdue, root>>

-----------------------------------------------------------------------------
(* Failures.  A command or statement that fails has had its effect, or not. *)

GetFails(c) ==
    /\ pc[c] = "get"
    /\ NotFound(c)
    /\ UNCHANGED <<keys, rows, overdue, root>>

DelKeyFails(c) ==
    /\ pc[c] = "delKey"
    /\ keys' \in {keys, keys \ {job[c].token}}
    /\ Goto(c, "delRow")
    /\ UNCHANGED <<rows, overdue, root, job>>

SetKeyFails(c) ==
    /\ pc[c] = "setKey"
    /\ \E t \in Tokens : Generate(c, t) /\ keys' \in {keys, keys \cup {t}}
    /\ Respond(c, "error", {})
    /\ UNCHANGED <<rows, overdue>>

AddIndexFails(c) ==
    /\ pc[c] = "addIndex"
    /\ Respond(c, "error", {})
    /\ UNCHANGED <<keys, rows, overdue, root>>

RedisFails(c) ==
    /\ "redis" \in Faults
    /\ \/ GetFails(c)
       \/ DelKeyFails(c)
       \/ SetKeyFails(c)
       \/ AddIndexFails(c)

LookupFails(c) ==
    /\ pc[c] \in {"findUser", "loadUser"}
    /\ Reject(c)
    /\ UNCHANGED <<keys, rows, overdue, root>>

\* A fault: a missing backup row is taken for a failed login.
InsertRowFailsLogin(c) ==
    /\ pc[c] = "insertRow"
    /\ rows' \in {rows, rows \cup {job[c].made}}
    /\ Respond(c, "error", {})
    /\ UNCHANGED <<keys, overdue, root>>

\* The backup is not critical: the session is created all the same.
InsertRowFails(c) ==
    /\ pc[c] = "insertRow"
    /\ rows' \in {rows, rows \cup {job[c].made}}
    /\ Respond(c, "ok", {job[c].made})
    /\ UNCHANGED <<keys, overdue, root>>

DelRowFails(c) ==
    /\ pc[c] = "delRow"
    /\ rows' \in {rows, rows \ {job[c].token}}
    /\ Return(c)
    /\ UNCHANGED <<keys, overdue, root>>

PostgresFails(c) ==
    /\ "postgres" \in Faults
    /\ \/ LookupFails(c)
       \/ InsertRowFails(c)
       \/ DelRowFails(c)

\* The server process ends, with or without the other connections' requests.
ProcessDies(c) ==
    /\ "crash" \in Faults
    /\ pc[c] # "idle"
    /\ pc' = [pc EXCEPT ![c] = "idle"]
    /\ job' = [job EXCEPT ![c] = NoJob]
    /\ answer' = [answer EXCEPT ![c] = "lost"]
    /\ UNCHANGED <<keys, rows, overdue, root, told, revoked>>

-----------------------------------------------------------------------------
(* Time.  ExpiresAt is computed before the SET that starts the key's TTL:  *)
(* it passes first.                                                        *)

Lapse(t) ==
    /\ root[t] # NoToken
    /\ t \notin overdue
    /\ overdue' = overdue \cup {t}
    /\ UNCHANGED <<keys, rows, root, told, revoked, pc, job, answer>>

\* A fault: the key is stored without its TTL.
RedisKeeps(t) == FALSE /\ UNCHANGED vars

RedisExpires(t) ==
    /\ t \in keys \cap overdue
    /\ keys' = keys \ {t}
    /\ UNCHANGED <<rows, overdue, root, told, revoked, pc, job, answer>>

-----------------------------------------------------------------------------
Arrive(c) == \/ ReceiveLogin(c)
             \/ \E t \in told \cup {NoToken} :
                                \/ ReceiveValidate(c, t)
                                \/ ReceiveRefresh(c, t)
                                \/ ReceiveLogout(c, t)

Handle(c) == \/ FindUser(c) \/ SetKey(c) \/ AddIndex(c) \/ InsertRow(c)
             \/ GetMissing(c) \/ GetFound(c) \/ GetExpired(c)
             \/ DelKey(c) \/ DelRow(c) \/ LoadUser(c)

Fail(c) == RedisFails(c) \/ PostgresFails(c) \/ ProcessDies(c)

Next == \/ \E c \in Conns : Arrive(c) \/ Handle(c) \/ Fail(c)
        \/ \E t \in Tokens : Lapse(t) \/ RedisExpires(t)

Spec == Init /\ [][Next]_vars

\* A goroutine with something to send sends it; Redis drops what is due.
FairSpec == /\ Spec
            /\ \A c \in Conns : WF_vars(Handle(c))
            /\ \A t \in Tokens : WF_vars(RedisExpires(t))
=============================================================================
