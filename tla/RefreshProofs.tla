---------------------------- MODULE RefreshProofs ---------------------------
(***************************************************************************)
(* What refreshes leave of a login, for any number of connections and      *)
(* tokens, as long as Redis answers.                                       *)
(***************************************************************************)
EXTENDS StoreProofs, RefreshRaces

-----------------------------------------------------------------------------
(* The history variable changes nothing about the server.                  *)

LEMMA HistoryOnly == HSpec => Spec
<1>1. HInit => Init
  BY DEF HInit
<1>2. [HNext]_hvars => [Next]_vars
  BY DEF HNext, hvars
<1> QED BY <1>1, <1>2, PTL DEF HSpec, Spec

-----------------------------------------------------------------------------
(* The commands of a request.                                              *)

\* A request that arrives knows what its NewJob says.
LEMMA ArriveJob ==
    ASSUME IInv, NEW c \in Conns, Arrive(c)
    PROVE  /\ UNCHANGED <<keys, root, overdue>>
           /\ job'[c].dead <=> ~Live(job'[c].token)
           /\ \/ job'[c].stage = "create" /\ pc'[c] = "findUser"
                 /\ job'[c].op = "login"
              \/ job'[c].stage = "check" /\ pc'[c] = "get" /\ job'[c].frames = 0
              \/ job'[c].stage = "drop" /\ pc'[c] = "get"
                 /\ job'[c].op = "logout" /\ job'[c].frames = 1
<1>1. ASSUME NEW op, NEW t, NEW first, NEW stage, NEW frames,
             Receive(c, op, t, first, stage, frames)
      PROVE  /\ pc'[c] = first /\ job'[c].op = op /\ job'[c].stage = stage
             /\ job'[c].frames = frames
             /\ job'[c].dead <=> ~Live(job'[c].token)
  BY <1>1, NewJobFields DEF Receive, IInv, TypeOK
<1>2. UNCHANGED <<keys, root, overdue>>
  BY DEF Arrive, Receive, ReceiveLogin, ReceiveValidate, ReceiveRefresh,
         ReceiveLogout
<1> QED BY <1>1, <1>2 DEF Arrive, ReceiveLogin, ReceiveValidate,
                          ReceiveRefresh, ReceiveLogout

\* The commands of a request and what they do to its locals, as long as Redis
\* answers: it ends, goes on with the same, or is one of the rest.
LEMMA JobMoves ==
    ASSUME IInv, "redis" \notin Faults, NEW c \in Conns, Handle(c) \/ Fail(c)
    PROVE  \/ /\ job'[c] = NoJob /\ pc'[c] = "idle" /\ UNCHANGED <<keys, root>>
           \/ /\ UNCHANGED <<job, keys, root>>
              /\ \/ pc[c] = "findUser" /\ pc'[c] = "setKey"
                 \/ pc[c] = "addIndex" /\ pc'[c] = "insertRow"
                 \/ pc[c] = "get" /\ pc'[c] = "delKey" /\ job[c].frames > 0
                 \/ pc[c] = "get" /\ pc'[c] = "loadUser" /\ job[c].frames = 0
                    /\ Live(job[c].token)
           \/ DelKey(c) \/ SetKey(c) \/ GetExpired(c)
           \/ /\ DelRow(c) \/ DelRowFails(c)
              /\ ~(job'[c] = NoJob /\ pc'[c] = "idle")
           \/ LoadUser(c) /\ Goto(c, "get")
<1>0. TypeOK /\ job[c] \in Jobs
  BY DEF IInv, TypeOK
<1>1. ASSUME NEW w, NEW G, Respond(c, w, G)
      PROVE  job'[c] = NoJob /\ pc'[c] = "idle"
  BY <1>0, <1>1 DEF Respond, TypeOK
<1>2. Reject(c) => job'[c] = NoJob /\ pc'[c] = "idle"
  BY <1>1 DEF Reject
<1>3. ASSUME NEW label, Goto(c, label) PROVE pc'[c] = label
  BY <1>0, <1>3 DEF Goto, TypeOK
<1>4. CASE FindUser(c) \/ AddIndex(c) \/ InsertRow(c)
  BY <1>1, <1>3, <1>4 DEF FindUser, AddIndex, InsertRow
<1>5. CASE GetMissing(c) \/ GetFound(c)
  BY <1>0, <1>2, <1>3, <1>5
     DEF GetMissing, GetFound, NotFound, Expired, Live, Jobs
<1>6. CASE DelRow(c) \/ DelRowFails(c)
  BY <1>6 DEF DelRow, DelRowFails
<1>7. CASE LoadUser(c)
  BY <1>1, <1>7 DEF LoadUser
<1>8. CASE Fail(c) /\ ~DelRowFails(c)
  BY <1>0, <1>1, <1>2, <1>8
     DEF Fail, RedisFails, PostgresFails, LookupFails, InsertRowFails,
         ProcessDies, TypeOK
<1> QED BY <1>4, <1>5, <1>6, <1>7, <1>8 DEF Handle

\* What the moves that go on change in a job.
LEMMA JobGoesOn ==
    ASSUME IInv, NEW c \in Conns,
           \/ DelKey(c) \/ SetKey(c) \/ GetExpired(c)
           \/ /\ DelRow(c) \/ DelRowFails(c)
              /\ ~(job'[c] = NoJob /\ pc'[c] = "idle")
           \/ LoadUser(c) /\ Goto(c, "get")
    PROVE  /\ job'[c].op = job[c].op /\ job'[c].token = job[c].token
           /\ job'[c].dead = job[c].dead
           /\ \/ DelKey(c) /\ pc'[c] = "delRow" /\ job' = job
              \/ SetKey(c) /\ pc'[c] = "addIndex"
                 /\ job'[c].stage = job[c].stage
              \/ GetExpired(c) /\ pc'[c] = "get" /\ job'[c].stage = job[c].stage
                 /\ job'[c].frames > 0
              \/ /\ pc[c] = "delRow" /\ UNCHANGED <<keys, root>>
                 /\ \/ pc'[c] = "delKey" /\ job'[c].stage = job[c].stage
                       /\ job'[c].frames > 0
                    \/ pc'[c] = "setKey" /\ job'[c].stage = "create"
                       /\ job[c].op = "refresh"
                       /\ job[c].stage = "drop"
              \/ /\ pc[c] = "loadUser" /\ pc'[c] = "get" /\ UNCHANGED <<keys, root>>
                 /\ \/ job[c].stage = "check" /\ job'[c].stage = "renew"
                       /\ job'[c].frames = 0
                    \/ job[c].stage = "renew" /\ job'[c].stage = "drop"
                       /\ job'[c].frames = 1
<1>0. TypeOK /\ job[c] \in Jobs
  BY DEF IInv, TypeOK
<1>1. ASSUME NEW w, NEW G, Respond(c, w, G)
      PROVE  job'[c] = NoJob /\ pc'[c] = "idle"
  BY <1>0, <1>1 DEF Respond, TypeOK
<1>2. Reject(c) => job'[c] = NoJob /\ pc'[c] = "idle"
  BY <1>1 DEF Reject
<1>3. ASSUME NEW label, Goto(c, label) PROVE pc'[c] = label
  BY <1>0, <1>3 DEF Goto, TypeOK
<1>4. CASE DelKey(c)
  BY <1>3, <1>4 DEF DelKey
<1>5. CASE SetKey(c)
  <2>1. PICK t \in Tokens : job' = [job EXCEPT ![c].made = t]
    BY <1>5 DEF SetKey
  <2>2. SameRequest(c) /\ job'[c].stage = job[c].stage
        /\ job'[c].dead = job[c].dead
    BY <1>0, <2>1 DEF TypeOK, Jobs, SameRequest
  <2> QED BY <1>3, <1>5, <2>2 DEF SetKey, SameRequest
<1>6. CASE GetExpired(c)
  <2>1. SameRequest(c) /\ job'[c].stage = job[c].stage
        /\ job'[c].dead = job[c].dead /\ job'[c].frames = job[c].frames + 1
    BY <1>0, <1>6 DEF GetExpired, TypeOK, Jobs, SameRequest
  <2>2. job'[c].frames > 0
    BY <1>0, <2>1, MaxFramesAssumption DEF Jobs
  <2> QED BY <1>3, <1>6, <2>1, <2>2 DEF GetExpired, SameRequest
<1>7. CASE (DelRow(c) \/ DelRowFails(c))
           /\ ~(job'[c] = NoJob /\ pc'[c] = "idle")
  <2>1. pc[c] = "delRow" /\ UNCHANGED <<keys, root>> /\ Return(c)
    BY <1>7 DEF DelRow, DelRowFails
  <2>2. CASE job' = [job EXCEPT ![c].frames = @ - 1] /\ job[c].frames > 1
             /\ Goto(c, "delKey")
    <3>1. SameRequest(c) /\ job'[c].stage = job[c].stage
          /\ job'[c].dead = job[c].dead /\ job'[c].frames = job[c].frames - 1
      BY <1>0, <2>2 DEF TypeOK, Jobs, SameRequest
    <3>2. job'[c].frames > 0
      BY <1>0, <2>2, <3>1, MaxFramesAssumption DEF Jobs
    <3> QED BY <1>3, <2>1, <2>2, <3>1, <3>2 DEF SameRequest
  <2>3. CASE job' = [job EXCEPT ![c] = At(c, "create", 0)]
             /\ Goto(c, "setKey") /\ job[c].op = "refresh"
             /\ job[c].stage = "drop"
    <3>1. job'[c] = At(c, "create", 0)
      BY <1>0, <2>3 DEF TypeOK
    <3>2. SameRequest(c) /\ job'[c].stage = "create"
          /\ job'[c].dead = job[c].dead
      BY <1>0, <3>1, AtFields DEF Stages, SameRequest
    <3> QED BY <1>3, <2>1, <2>3, <3>2 DEF SameRequest
  <2> QED BY <1>1, <1>2, <1>7, <2>1, <2>2, <2>3 DEF Return
<1>8. CASE LoadUser(c) /\ Goto(c, "get")
  <2>1. pc[c] = "loadUser" /\ pc'[c] = "get" /\ UNCHANGED <<keys, root>>
    BY <1>3, <1>8 DEF LoadUser
  <2>2. PICK s \in {"renew", "drop"} :
           /\ job' = [job EXCEPT ![c] = At(c, s, IF s = "renew" THEN 0 ELSE 1)]
           /\ job[c].stage = IF s = "renew" THEN "check" ELSE "renew"
    BY <1>1, <1>8, <2>1 DEF LoadUser
  <2>3. job'[c] = At(c, s, IF s = "renew" THEN 0 ELSE 1)
    BY <1>0, <2>2 DEF TypeOK
  <2>4. /\ job'[c].stage = s
        /\ job'[c].frames = IF s = "renew" THEN 0 ELSE 1
        /\ SameRequest(c) /\ job'[c].dead = job[c].dead
    BY <1>0, <2>3, AtFields DEF Stages, SameRequest
  <2> QED BY <2>1, <2>2, <2>4 DEF SameRequest
<1> QED BY <1>4, <1>5, <1>6, <1>7, <1>8

-----------------------------------------------------------------------------
(* A refresh puts one session in the place of another.                     *)

\* Descent goes back to tokens that were generated.
RootsKnown == \A t \in Tokens : root[t] \in Generated \cup {NoToken}

\* The logins two of whose refreshes overlap, or have.
Crossed == crossed \cup Crossing

\* A refresh that has found its session, and has not made the next, has found
\* the only one of its login, unless another refresh has met it.
SoleHeir(c) ==
    /\ job[c].op = "refresh"
    /\ pc[c] = "loadUser" \/ job[c].stage # "check"
    /\ pc[c] \notin Writing
    => \A t \in Tokens :
          Live(t) /\ root[t] = root[job[c].token] =>
             t = job[c].token \/ root[t] \in Crossed

HeirInv == /\ OneSessionUnlessCrossed
           /\ RootsKnown
           /\ \A c \in Conns : SoleHeir(c)

\* What a refresh that SoleHeir is about has been given.
LEMMA HeirsToken ==
    ASSUME IInv, NEW c \in Conns, job[c].op = "refresh",
           pc[c] = "loadUser" \/ job[c].stage # "check"
    PROVE  job[c].token \in Generated
BY DEF IInv, JobsSound, JobOK

\* Who has met another refresh has for good.
LEMMA CrossedGrows ==
    ASSUME HNext
    PROVE  Crossed \subseteq Crossed' /\ crossed' = Crossed
BY DEF HNext, Crossed

\* The session a refresh has found stays the only one of its login.
LEMMA HeirKept ==
    ASSUME IInv, HeirInv, "redis" \notin Faults, HNext, NEW c \in Conns,
           Arrive(c) \/ Handle(c) \/ Fail(c)
    PROVE  SoleHeir(c)'
<1>0. TypeOK /\ JobOK(c) /\ SoleHeir(c) /\ overdue \subseteq overdue'
  BY ConnSound DEF IInv, JobsSound, Sound, Aging, HeirInv
<1>1. CASE Arrive(c)
  BY <1>1, ArriveJob DEF SoleHeir
<1>2. CASE job'[c] = NoJob
  BY <1>2 DEF SoleHeir, NoJob
<1>3. CASE SetKey(c)
  <2>1. pc'[c] = "addIndex"
    BY <1>0, <1>3 DEF SetKey, Goto, TypeOK
  <2> QED BY <2>1 DEF SoleHeir, Writing
<1>4. ASSUME keys' \subseteq keys, root' = root,
             job'[c].token = job[c].token, job'[c].op = job[c].op,
             \/ pc'[c] = "loadUser" /\ Live(job[c].token)
             \/ pc[c] = "loadUser"
             \/ pc[c] \notin Writing /\ pc'[c] # "loadUser"
                /\ (job'[c].stage # "check" => job[c].stage # "check")
             \/ pc'[c] \in Writing
      PROVE  SoleHeir(c)'
  <2> SUFFICES ASSUME job[c].op = "refresh", pc'[c] \notin Writing,
                      pc'[c] = "loadUser" \/ job'[c].stage # "check",
                      NEW t \in Tokens, Live(t)',
                      root[t] = root[job[c].token]
               PROVE  t = job[c].token \/ root[t] \in Crossed'
    BY <1>4 DEF SoleHeir
  <2>1. Live(t)
    BY <1>0, <1>4 DEF Live
  <2>2. CASE Live(job[c].token)
    <3>1. t = job[c].token \/ root[t] \in crossed
      BY <2>1, <2>2 DEF HeirInv, OneSessionUnlessCrossed, IInv, TypeOK, Live
    <3> QED BY <3>1, CrossedGrows DEF Crossed
  <2>3. CASE \/ pc[c] = "loadUser"
             \/ job[c].stage # "check" /\ pc[c] \notin Writing
    <3>1. t = job[c].token \/ root[t] \in Crossed
      BY <1>0, <2>1, <2>3 DEF SoleHeir, Writing
    <3> QED BY <3>1, CrossedGrows
  <2> QED BY <1>4, <2>2, <2>3
<1>5. CASE /\ UNCHANGED <<job, keys, root>>
           /\ \/ pc[c] = "findUser" /\ pc'[c] = "setKey"
              \/ pc[c] = "addIndex" /\ pc'[c] = "insertRow"
              \/ pc[c] = "get" /\ pc'[c] = "delKey" /\ job[c].frames > 0
              \/ pc[c] = "get" /\ pc'[c] = "loadUser" /\ job[c].frames = 0
                 /\ Live(job[c].token)
  BY <1>4, <1>5 DEF Writing
<1>6. ASSUME \/ DelKey(c) \/ GetExpired(c)
             \/ /\ DelRow(c) \/ DelRowFails(c)
                /\ ~(job'[c] = NoJob /\ pc'[c] = "idle")
             \/ LoadUser(c) /\ Goto(c, "get")
      PROVE  SoleHeir(c)'
  <2>1. keys' \subseteq keys /\ root' = root
    BY <1>6 DEF DelKey, GetExpired, DelRow, DelRowFails, LoadUser
  <2>2. pc[c] \notin Writing
    BY <1>6 DEF DelKey, GetExpired, DelRow, DelRowFails, LoadUser, Writing
  <2> QED BY <1>4, <1>6, <2>1, <2>2, JobGoesOn, <1>3
<1> QED BY <1>1, <1>2, <1>3, <1>5, <1>6, JobMoves

\* What SET makes of the sessions: one more, of a new login or of the login
\* whose session was deleted.
LEMMA KeySet ==
    ASSUME IInv, HeirInv, NEW c \in Conns, SetKey(c)
    PROVE  \E t \in Tokens \ Generated :
              /\ keys' = keys \cup {t}
              /\ \A u \in Tokens \ {t} : root'[u] = root[u]
              /\ \/ job[c].op = "login" /\ root'[t] = t
                 \/ /\ job[c].op = "refresh"
                    /\ root'[t] = root[job[c].token]
                    /\ job[c].token \in Generated
              /\ job[c].stage = "create" /\ pc[c] = "setKey"
<1>0. TypeOK /\ JobOK(c)
  BY DEF IInv, JobsSound
<1>1. PICK t \in Unused : /\ keys' = keys \cup {t}
                          /\ root' = [root EXCEPT ![t] =
                                IF job[c].op = "login" THEN t
                                ELSE root[job[c].token]]
  BY DEF SetKey, Generate, Fresh
<1>2. job[c].op \in {"login", "refresh"} /\ job[c].stage = "create"
      /\ pc[c] = "setKey"
  BY <1>0 DEF SetKey, JobOK
<1>3. job[c].op = "refresh" => job[c].token \in Generated
  BY <1>0, <1>2 DEF JobOK
<1> QED BY <1>0, <1>1, <1>2, <1>3 DEF TypeOK, Unused, Generated

\* The session another refresh has found stays the only one of its login, or
\* the two of them meet.
LEMMA OtherHeirs ==
    ASSUME IInv, HeirInv, "redis" \notin Faults, HNext, NEW c \in Conns,
           Arrive(c) \/ Handle(c) \/ Fail(c), NEW d \in Conns \ {c}
    PROVE  SoleHeir(d)'
<1>0. /\ TypeOK /\ SoleHeir(d) /\ RootsKnown
      /\ overdue \subseteq overdue' /\ pc'[d] = pc[d] /\ job'[d] = job[d]
  BY ConnSound DEF IInv, Sound, Aging, HeirInv
<1>1. CASE keys' \subseteq keys /\ root' = root
  BY <1>0, <1>1, CrossedGrows DEF SoleHeir, Live
<1>2. CASE SetKey(c)
  <2>1. PICK t \in Tokens \ Generated :
           /\ keys' = keys \cup {t}
           /\ \A u \in Tokens \ {t} : root'[u] = root[u]
           /\ \/ job[c].op = "login" /\ root'[t] = t
              \/ /\ job[c].op = "refresh"
                 /\ root'[t] = root[job[c].token]
                 /\ job[c].token \in Generated
    BY <1>2, KeySet
  <2> SUFFICES ASSUME job[d].op = "refresh", pc[d] \notin Writing,
                      pc[d] = "loadUser" \/ job[d].stage # "check",
                      NEW u \in Tokens, Live(u)',
                      root'[u] = root'[job[d].token]
               PROVE  u = job[d].token \/ root'[u] \in Crossed'
    BY <1>0 DEF SoleHeir
  <2>2. job[d].token \in Generated /\ job[d].token \in Tokens
    BY HeirsToken DEF Generated
  <2>3. root'[job[d].token] = root[job[d].token]
    BY <2>1, <2>2
  <2>4. CASE u # t
    <3>1. Live(u) /\ root'[u] = root[u]
      BY <1>0, <2>1, <2>4 DEF Live
    <3>2. u = job[d].token \/ root[u] \in Crossed
      BY <1>0, <2>3, <3>1 DEF SoleHeir
    <3> QED BY <3>1, <3>2, CrossedGrows
  <2>5. CASE u = t /\ job[c].op = "login" /\ root'[t] = t
    <3>1. root[job[d].token] \in Generated \cup {NoToken}
      BY <1>0, <2>2 DEF RootsKnown
    <3> QED BY <2>1, <2>3, <2>5, <3>1, NoTokenAssumption
  <2>6. CASE /\ u = t /\ job[c].op = "refresh"
             /\ root'[t] = root[job[c].token] /\ job[c].token \in Generated
    <3>1. root[job[c].token] = root[job[d].token]
      BY <2>3, <2>6
    <3>2. root[job[c].token] \in Crossing
      BY <2>2, <2>6, <3>1 DEF Crossing
    <3> QED BY <2>6, <3>2, CrossedGrows DEF Crossed
  <2> QED BY <2>1, <2>4, <2>5, <2>6
<1>3. CASE ~SetKey(c)
  <2>1. keys' \subseteq keys /\ root' = root
    BY <1>3, ArriveJob, JobMoves
       DEF DelKey, GetExpired, DelRow, DelRowFails, LoadUser
  <2> QED BY <1>1, <2>1
<1> QED BY <1>2, <1>3

\* A session is created for a login, or where the refreshed one was.
LEMMA OneLeft ==
    ASSUME IInv, RevokedInv, HeirInv, "redis" \notin Faults, HNext,
           NEW c \in Conns, Arrive(c) \/ Handle(c) \/ Fail(c)
    PROVE  OneSessionUnlessCrossed' /\ RootsKnown'
<1>0. /\ TypeOK /\ SoleHeir(c) /\ OneSessionUnlessCrossed /\ RootsKnown
      /\ overdue \subseteq overdue' /\ Generated \subseteq Generated'
      /\ crossed \subseteq crossed'
  BY ConnSound DEF IInv, Sound, Aging, HeirInv, HNext
<1>1. CASE keys' \subseteq keys /\ root' = root
  BY <1>0, <1>1 DEF OneSessionUnlessCrossed, RootsKnown, Live
<1>2. CASE SetKey(c)
  <2>1. PICK t \in Tokens \ Generated :
           /\ keys' = keys \cup {t}
           /\ \A u \in Tokens \ {t} : root'[u] = root[u]
           /\ \/ job[c].op = "login" /\ root'[t] = t
              \/ /\ job[c].op = "refresh"
                 /\ root'[t] = root[job[c].token]
                 /\ job[c].token \in Generated
           /\ job[c].stage = "create" /\ pc[c] = "setKey"
    BY <1>2, KeySet
  <2>2. job[c].op = "refresh" => job[c].token \notin keys
    BY <2>1 DEF RevokedInv
  <2>3. RootsKnown'
    <3>1. ASSUME NEW u \in Tokens \ {t}
          PROVE  root'[u] \in Generated' \cup {NoToken}
      BY <1>0, <2>1, <3>1 DEF RootsKnown
    <3>2. root'[t] = t \/ root'[t] \in Generated \cup {NoToken}
      BY <1>0, <2>1 DEF RootsKnown, Generated
    <3>3. root'[t] = t => t \in Generated'
      BY <2>1, NoTokenAssumption DEF Generated, Unused
    <3> QED BY <1>0, <3>1, <3>2, <3>3 DEF RootsKnown
  <2>4. ASSUME NEW u \in Tokens \ {t}, Live(u)'
        PROVE  /\ Live(u) /\ root'[u] = root[u]
               /\ root'[u] = root'[t] => root'[u] \in crossed'
    <3>1. Live(u) /\ root'[u] = root[u]
      BY <1>0, <2>1, <2>4 DEF Live
    <3>2. CASE job[c].op = "login" /\ root'[t] = t
      <4>1. root[u] \in Generated \cup {NoToken}
        BY <1>0 DEF RootsKnown
      <4> QED BY <2>1, <3>1, <3>2, <4>1, NoTokenAssumption
    <3>3. CASE job[c].op = "refresh" /\ root'[t] = root[job[c].token]
      <4>1. root[u] = root[job[c].token] =>
               u = job[c].token \/ root[u] \in Crossed
        BY <1>0, <2>1, <3>1, <3>3 DEF SoleHeir, Writing
      <4>2. u # job[c].token
        BY <2>2, <3>1, <3>3 DEF Live
      <4> QED BY <3>1, <3>3, <4>1, <4>2, CrossedGrows
    <3> QED BY <2>1, <3>1, <3>2, <3>3
  <2>5. OneSessionUnlessCrossed'
    BY <1>0, <2>4 DEF OneSessionUnlessCrossed
  <2> QED BY <2>3, <2>5
<1>3. CASE ~SetKey(c)
  <2>1. keys' \subseteq keys /\ root' = root
    BY <1>3, ArriveJob, JobMoves
       DEF DelKey, GetExpired, DelRow, DelRowFails, LoadUser
  <2> QED BY <1>1, <2>1
<1> QED BY <1>2, <1>3

\* Time takes sessions away.
LEMMA HeirAges ==
    ASSUME IInv, HeirInv, HNext, NEW t \in Tokens, Lapse(t) \/ RedisExpires(t)
    PROVE  HeirInv'
<1>1. /\ UNCHANGED <<root, pc, job>> /\ Generated' = Generated
      /\ overdue \subseteq overdue' /\ keys' \subseteq keys
  BY SameTokens DEF Lapse, RedisExpires
<1>2. \A u : Live(u)' => Live(u)
  BY <1>1 DEF Live
<1>3. crossed \subseteq crossed'
  BY DEF HNext
<1> QED BY <1>1, <1>2, <1>3, CrossedGrows
        DEF HeirInv, OneSessionUnlessCrossed, RootsKnown, SoleHeir

\* Every step.
LEMMA HeirStep ==
    ASSUME "redis" \notin Faults, IInv, RevokedInv, HeirInv, [HNext]_hvars
    PROVE  HeirInv'
<1>1. ASSUME HNext, NEW c \in Conns, Arrive(c) \/ Handle(c) \/ Fail(c)
      PROVE  HeirInv'
  <2>1. ASSUME NEW d \in Conns PROVE SoleHeir(d)'
    BY <1>1, HeirKept, OtherHeirs
  <2> QED BY <1>1, <2>1, OneLeft DEF HeirInv
<1>2. CASE UNCHANGED hvars
  BY <1>2 DEF hvars, vars, HeirInv, OneSessionUnlessCrossed, RootsKnown,
              SoleHeir, Crossed, Crossing, Live, Generated, Unused
<1> QED BY <1>1, <1>2, HeirAges DEF HNext, Next

\* What the comment of RefreshSession says of a refresh is true as long as
\* Redis answers, but for refreshes that overlap: with any number of
\* connections, whatever becomes of PostgreSQL, of clients and of the process,
\* a login has one session that has not expired
\* (session_service.go:143-163).
THEOREM RefreshesReplace ==
    "redis" \notin Faults => (HSpec => []OneSessionUnlessCrossed)
<1> SUFFICES ASSUME "redis" \notin Faults
             PROVE  HSpec => []OneSessionUnlessCrossed
  OBVIOUS
<1>1. HInit => HeirInv
  BY DEF HInit, Init, HeirInv, OneSessionUnlessCrossed, RootsKnown, SoleHeir,
         NoJob, Live
<1>2. IInv /\ RevokedInv /\ HeirInv /\ [HNext]_hvars => HeirInv'
  BY HeirStep
<1>3. Spec => []RevokedInv
  BY LogoutRevokes, PTL
<1>4. HeirInv => OneSessionUnlessCrossed
  BY DEF HeirInv
<1> QED BY <1>1, <1>2, <1>3, <1>4, HistoryOnly, SessionInvariant, PTL DEF HSpec
=============================================================================
