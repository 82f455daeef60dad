---------------------------- MODULE StoreProofs ----------------------------
(***************************************************************************)
(* Theorems about the two stores of the authentication server, for any     *)
(* number of connections and tokens, as long as the failures that break    *)
(* them do not occur: each names the ones it excludes.                     *)
(***************************************************************************)
EXTENDS AuthProofs

-----------------------------------------------------------------------------
(* What a step of connection c does to the stores and to what it carries   *)
(* from one to the other: one of six things.                               *)

Writing == {"addIndex", "insertRow"}

\* Nothing; no token is in hand before or after.
Quiet(c) == /\ UNCHANGED <<keys, rows, told>>
            /\ pc[c] \notin Writing \cup {"delRow"}
            /\ pc'[c] \notin Writing \cup {"delRow"}
            /\ job'[c].made \in {NoToken, job[c].made}
            /\ job'[c].token \in told \cup {NoToken, job[c].token}

\* A new token is generated and its key set.
Sets(c) == /\ UNCHANGED <<rows, told>>
           /\ job'[c].made \in Unused
           /\ keys' = keys \cup {job'[c].made}
           /\ pc[c] = "setKey" /\ pc'[c] = "addIndex"
           /\ job'[c].token = job[c].token

\* It is on its way from the key to the row.
Indexes(c) == /\ UNCHANGED <<keys, rows, told>>
              /\ pc[c] = "addIndex" /\ pc'[c] = "insertRow"
              /\ job'[c] = job[c]

\* Its row is written and the client is told.
Inserts(c) == /\ UNCHANGED keys
              /\ pc[c] = "insertRow" /\ pc'[c] = "idle"
              /\ "postgres" \notin Faults => rows' = rows \cup {job[c].made}
              /\ told' \in {told, told \cup {job[c].made}}
              /\ "hangup" \notin Faults => job[c].made \in told'
              /\ job'[c] = NoJob

\* The key of the token presented is deleted.
Drops(c) == /\ UNCHANGED <<rows, told>>
            /\ keys' = keys \ {job[c].token}
            /\ pc[c] = "delKey" /\ pc'[c] = "delRow"
            /\ job'[c] = job[c]

\* Its row is deleted.
Unlists(c) == /\ UNCHANGED <<keys, told>>
              /\ "postgres" \notin Faults => rows' = rows \ {job[c].token}
              /\ pc[c] = "delRow" /\ pc'[c] \in {"delKey", "idle", "setKey"}
              /\ job'[c].made \in {NoToken, job[c].made}
              /\ job'[c].token \in {NoToken, job[c].token}

StoreStep(c) == \/ Quiet(c) \/ Sets(c) \/ Indexes(c)
                \/ Inserts(c) \/ Drops(c) \/ Unlists(c)

\* A response without a token ends the request and tells nothing.
LEMMA PlainResponse ==
    ASSUME IInv, NEW c \in Conns, NEW w, Respond(c, w, {})
    PROVE  told' = told /\ pc'[c] = "idle" /\ job'[c] = NoJob
BY DEF IInv, TypeOK, Respond

\* So does a rejection.
LEMMA PlainReject ==
    ASSUME IInv, NEW c \in Conns, Reject(c)
    PROVE  told' = told /\ pc'[c] = "idle" /\ job'[c] = NoJob
BY PlainResponse DEF Reject

\* Going on tells nothing.
LEMMA PlainGoto ==
    ASSUME IInv, NEW c \in Conns, NEW label, Goto(c, label)
    PROVE  told' = told /\ pc'[c] = label
BY DEF IInv, TypeOK, Goto

\* An arriving request carries a token that was told, or none.
LEMMA ArriveQuiet ==
    ASSUME IInv, NEW c \in Conns, Arrive(c)
    PROVE  Quiet(c)
<1>1. ASSUME NEW op, NEW t \in told \cup {NoToken}, NEW first \in {"findUser", "get"},
             NEW stage, NEW frames, Receive(c, op, t, first, stage, frames)
      PROVE  Quiet(c)
  <2>1. pc'[c] = first /\ job'[c] = NewJob(op, t, stage, frames)
    BY <1>1 DEF Receive, IInv, TypeOK
  <2>2. job'[c].token = t /\ job'[c].made = NoToken
    BY <2>1 DEF NewJob
  <2> QED BY <1>1, <2>1, <2>2 DEF Receive, Quiet, Writing
<1> QED BY <1>1 DEF Arrive, ReceiveLogin, ReceiveValidate, ReceiveRefresh,
                    ReceiveLogout

\* The locals that a change of stage or depth leaves alone.
LEMMA DepthKeeps ==
    ASSUME IInv, NEW c \in Conns,
           \/ UNCHANGED job
           \/ \E n : job' = [job EXCEPT ![c].frames = n]
           \/ \E stage, n : job' = [job EXCEPT ![c] = At(c, stage, n)]
    PROVE  job'[c].made = job[c].made /\ job'[c].token = job[c].token
BY DEF IInv, TypeOK, Jobs, At

\* A command or statement, as long as Redis answers and the process runs.
LEMMA HandleStores ==
    ASSUME IInv, "redis" \notin Faults, "crash" \notin Faults,
           NEW c \in Conns, Handle(c) \/ Fail(c)
    PROVE  StoreStep(c)
<1>0. TypeOK /\ job[c] \in Jobs
  BY DEF IInv, TypeOK
<1>1. CASE FindUser(c)
  BY <1>1, PlainResponse, PlainGoto
     DEF FindUser, StoreStep, Quiet, Writing, NoJob
<1>2. CASE SetKey(c)
  <2>1. PICK t \in Unused : /\ keys' = keys \cup {t}
                            /\ job' = [job EXCEPT ![c].made = t]
    BY <1>2 DEF SetKey, Generate, Fresh
  <2>2. job'[c].made = t /\ job'[c].token = job[c].token
    BY <1>0, <2>1 DEF TypeOK, Jobs
  <2> QED BY <1>2, <2>1, <2>2, PlainGoto DEF SetKey, StoreStep, Sets
<1>3. CASE AddIndex(c)
  BY <1>3, PlainGoto DEF AddIndex, StoreStep, Indexes
<1>4. CASE InsertRow(c) \/ (InsertRowFails(c) /\ "postgres" \in Faults)
  <2>1. /\ pc[c] = "insertRow" /\ UNCHANGED keys
        /\ "postgres" \notin Faults => rows' = rows \cup {job[c].made}
        /\ Respond(c, "ok", {job[c].made})
    BY <1>4 DEF InsertRow, InsertRowFails
  <2>2. pc'[c] = "idle" /\ job'[c] = NoJob
    BY <1>0, <2>1 DEF Respond, TypeOK
  <2> QED BY <2>1, <2>2 DEF StoreStep, Inserts, Respond
<1>5. CASE GetMissing(c)
  BY <1>5, PlainReject, PlainGoto
     DEF GetMissing, NotFound, StoreStep, Quiet, Writing, NoJob
<1>6. CASE GetFound(c)
  BY <1>6, PlainGoto DEF GetFound, StoreStep, Quiet, Writing
<1>7. CASE GetExpired(c)
  <2>1. job'[c].made = job[c].made /\ job'[c].token = job[c].token
    BY <1>0, <1>7 DEF GetExpired, TypeOK, Jobs
  <2> QED BY <1>7, <2>1, PlainGoto DEF GetExpired, StoreStep, Quiet, Writing
<1>8. CASE DelKey(c)
  BY <1>8, PlainGoto DEF DelKey, StoreStep, Drops
<1>9. CASE DelRow(c) \/ (DelRowFails(c) /\ "postgres" \in Faults)
  <2>1. /\ pc[c] = "delRow" /\ UNCHANGED keys
        /\ "postgres" \notin Faults => rows' = rows \ {job[c].token}
        /\ Return(c)
    BY <1>9 DEF DelRow, DelRowFails
  <2>2. CASE job'[c] = NoJob /\ pc'[c] = "idle" /\ told' = told
    BY <2>1, <2>2 DEF StoreStep, Unlists, NoJob
  <2>3. CASE /\ Goto(c, "delKey") \/ Goto(c, "setKey")
             /\ job'[c].made = job[c].made /\ job'[c].token = job[c].token
    BY <2>1, <2>3, PlainGoto DEF StoreStep, Unlists
  <2>4. ASSUME NEW n, job' = [job EXCEPT ![c].frames = n]
        PROVE  job'[c].made = job[c].made /\ job'[c].token = job[c].token
    BY <1>0, <2>4 DEF TypeOK, Jobs
  <2>5. ASSUME job' = [job EXCEPT ![c] = At(c, "create", 0)]
        PROVE  job'[c].made = job[c].made /\ job'[c].token = job[c].token
    BY <1>0, <2>5, DepthKeeps
  <2> QED BY <2>1, <2>2, <2>3, <2>4, <2>5, PlainReject, PlainResponse DEF Return
<1>10. CASE LoadUser(c)
  <2>1. \/ pc'[c] = "idle" /\ job'[c] = NoJob /\ told' = told
        \/ /\ Goto(c, "get")
           /\ job'[c].made = job[c].made /\ job'[c].token = job[c].token
    BY <1>10, PlainResponse, DepthKeeps DEF LoadUser
  <2> QED BY <1>10, <2>1, PlainGoto DEF LoadUser, StoreStep, Quiet, Writing, NoJob
<1>11. CASE LookupFails(c)
  BY <1>11, PlainReject DEF LookupFails, StoreStep, Quiet, Writing, NoJob
<1> QED BY <1>1, <1>2, <1>3, <1>4, <1>5, <1>6, <1>7, <1>8, <1>9, <1>10, <1>11
        DEF Handle, Fail, RedisFails, PostgresFails, ProcessDies

\* Any step of a connection.
LEMMA ConnStores ==
    ASSUME IInv, "redis" \notin Faults, "crash" \notin Faults,
           NEW c \in Conns, Arrive(c) \/ Handle(c) \/ Fail(c)
    PROVE  StoreStep(c) /\ Sound(c)
BY ArriveQuiet, HandleStores, ConnSound DEF StoreStep

-----------------------------------------------------------------------------
(* No session is stored and its token thrown away.                         *)

\* A new token is in hand from its key to its row, and no longer.
InHand(c) == job[c].made # NoToken => pc[c] \in Writing

\* NoOrphan is not inductive alone: a token in hand must reach its client.
OrphanInv == NoOrphan /\ \A c \in Conns : InHand(c)

\* What a step does to the token in hand: it is kept or told.
LEMMA HandedOver ==
    ASSUME NEW c \in Conns, StoreStep(c), InHand(c), "hangup" \notin Faults,
           TypeOK
    PROVE  /\ told \subseteq told'
           /\ InHand(c)'
           /\ job[c].made \in told' \cup {NoToken, job'[c].made}
           /\ keys' \subseteq keys \cup {job'[c].made}
BY DEF StoreStep, Quiet, Sets, Indexes, Inserts, Drops, Unlists, InHand,
       Writing, NoJob

\* Whatever PostgreSQL does, every step leaves each session known.
LEMMA OrphanStep ==
    ASSUME Faults \subseteq {"postgres"}, IInv, OrphanInv, [Next]_vars
    PROVE  OrphanInv'
<1>0. "redis" \notin Faults /\ "crash" \notin Faults /\ "hangup" \notin Faults
  OBVIOUS
<1>1. ASSUME NEW c \in Conns, Arrive(c) \/ Handle(c) \/ Fail(c)
      PROVE  OrphanInv'
  <2>1. StoreStep(c) /\ Sound(c)
    BY <1>0, <1>1, ConnStores
  <2>2. /\ told \subseteq told'
        /\ InHand(c)'
        /\ job[c].made \in told' \cup {NoToken, job'[c].made}
        /\ keys' \subseteq keys \cup {job'[c].made}
    BY <1>0, <2>1, HandedOver DEF OrphanInv, IInv
  <2>3. ASSUME NEW d \in Conns PROVE InHand(d)'
    BY <2>1, <2>2 DEF Sound, InHand, OrphanInv
  <2>4. ASSUME NEW t \in Tokens, Live(t)', t \notin told'
        PROVE  \E d \in Conns : pc'[d] # "idle" /\ job'[d].made = t
    <3>1. CASE job'[c].made = t
      BY <2>3, <2>4, <3>1, NoTokenAssumption DEF InHand, Writing
    <3>2. CASE job'[c].made # t
      <4>1. Live(t)
        BY <2>1, <2>2, <2>4, <3>2 DEF Live, Sound, Aging
      <4>2. PICK d \in Conns : pc[d] # "idle" /\ job[d].made = t
        BY <2>2, <2>4, <4>1 DEF OrphanInv, NoOrphan
      <4>3. d # c
        BY <2>2, <2>4, <3>2, <4>2, NoTokenAssumption
      <4> QED BY <2>1, <4>2, <4>3 DEF Sound
    <3> QED BY <3>1, <3>2
  <2> QED BY <2>3, <2>4 DEF OrphanInv, NoOrphan
<1>2. ASSUME NEW t \in Tokens, Lapse(t) \/ RedisExpires(t)
      PROVE  OrphanInv'
  <2>1. UNCHANGED <<told, pc, job>> /\ \A u : Live(u)' => Live(u)
    BY <1>2 DEF Lapse, RedisExpires, Live
  <2> QED BY <2>1 DEF OrphanInv, NoOrphan, InHand
<1>3. CASE UNCHANGED vars
  BY <1>3 DEF vars, OrphanInv, NoOrphan, InHand, Live
<1> QED BY <1>1, <1>2, <1>3 DEF Next

\* However PostgreSQL fails, a session that has not expired is known to a client
\* or about to be (session_service.go:64-86).
THEOREM SessionsKnown ==
    Faults \subseteq {"postgres"} => (Spec => []NoOrphan)
<1> SUFFICES ASSUME Faults \subseteq {"postgres"} PROVE Spec => []NoOrphan
  OBVIOUS
<1>1. Init => OrphanInv
  BY DEF Init, OrphanInv, NoOrphan, InHand, NoJob, Live
<1>2. IInv /\ OrphanInv /\ [Next]_vars => OrphanInv'
  BY OrphanStep
<1>3. OrphanInv => NoOrphan
  BY DEF OrphanInv
<1> QED BY <1>1, <1>2, <1>3, SessionInvariant, PTL DEF Spec

-----------------------------------------------------------------------------
(* The backup follows Redis, as long as both stores answer.                *)

\* What keeps the stores together: a client knows no token before its row is
\* written, so nobody deletes a session that is being created; two goroutines
\* create different ones; and one that deletes has deleted the key.
Handling(c) ==
    /\ InHand(c)
    /\ job[c].token \in told \cup {NoToken}
    /\ pc[c] \in Writing => job[c].made \in (keys \cup overdue) \ told
    /\ pc[c] = "delRow" => job[c].token \notin keys

\* Only one goroutine creates a session.
OneMaker ==
    \A c, d \in Conns :
        pc[c] \in Writing /\ job[c].made = job[d].made => c = d

AgreeInv == /\ StoresAgree
            /\ OneMaker
            /\ \A c \in Conns : Handling(c)

\* What is known of a token in hand and of a token presented.
LEMMA HandFacts ==
    ASSUME IInv, AgreeInv, NEW c \in Conns
    PROVE  /\ pc[c] \in Writing => /\ job[c].made \in Generated
                                   /\ job[c].made \in keys \cup overdue
                                   /\ job[c].made \notin told \cup {NoToken}
           /\ job[c].token \in Generated \cup {NoToken}
           /\ job[c].token \in told \cup {NoToken}
           /\ pc[c] = "delRow" => job[c].token \notin keys
           /\ job[c].made # NoToken => pc[c] \in Writing
BY NoTokenAssumption
   DEF IInv, JobsSound, JobOK, AgreeInv, Handling, InHand, Writing, Generated

\* A step of c leaves what the other goroutines rely on.
LEMMA OthersHandle ==
    ASSUME IInv, AgreeInv, NEW c \in Conns, StoreStep(c), Sound(c),
           NEW d \in Conns \ {c}
    PROVE  Handling(d)'
<1>1. pc'[d] = pc[d] /\ job'[d] = job[d] /\ overdue \subseteq overdue'
  BY DEF Sound, Aging
<1>2. told \subseteq told'
  BY DEF StoreStep, Quiet, Sets, Indexes, Inserts, Drops, Unlists
<1>3. InHand(d)' /\ job'[d].token \in told' \cup {NoToken}
  BY <1>1, <1>2, HandFacts DEF InHand
<1>4. ASSUME pc[d] \in Writing
      PROVE  job[d].made \in (keys' \cup overdue') \ told'
  <2>1. job[d].made \in keys' \cup overdue'
    BY <1>1, <1>4, HandFacts
       DEF StoreStep, Quiet, Sets, Indexes, Inserts, Drops, Unlists
  <2>2. pc[c] \in Writing => job[c].made # job[d].made
    BY <1>4 DEF AgreeInv, OneMaker
  <2>3. job[d].made \notin told'
    BY <1>4, <2>2, HandFacts
       DEF StoreStep, Quiet, Sets, Indexes, Inserts, Drops, Unlists, Writing
  <2> QED BY <2>1, <2>3
<1>5. ASSUME pc[d] = "delRow" PROVE job[d].token \notin keys'
  BY <1>5, HandFacts, NoTokenAssumption
     DEF StoreStep, Quiet, Sets, Indexes, Inserts, Drops, Unlists, Generated,
         Unused
<1> QED BY <1>1, <1>3, <1>4, <1>5 DEF Handling

\* So does c itself.
LEMMA SelfHandles ==
    ASSUME IInv, AgreeInv, NEW c \in Conns, StoreStep(c), Sound(c)
    PROVE  Handling(c)'
<1>1. overdue \subseteq overdue' /\ told \subseteq Generated
  BY DEF Sound, Aging, IInv, TypeOK, Generated
<1>2. CASE Quiet(c)
  BY <1>2, HandFacts DEF Quiet, Handling, InHand, Writing
<1>3. CASE Sets(c)
  BY <1>1, <1>3, HandFacts
     DEF Sets, Handling, InHand, Writing, Generated, Unused
<1>4. CASE Indexes(c)
  BY <1>1, <1>4, HandFacts DEF Indexes, Handling, InHand, Writing
<1>5. CASE Inserts(c)
  BY <1>5 DEF Inserts, Handling, InHand, Writing, NoJob
<1>6. CASE Drops(c)
  BY <1>6, HandFacts DEF Drops, Handling, InHand, Writing
<1>7. CASE Unlists(c)
  BY <1>7, HandFacts DEF Unlists, Handling, InHand, Writing
<1> QED BY <1>2, <1>3, <1>4, <1>5, <1>6, <1>7 DEF StoreStep

\* Two goroutines still create different sessions.
LEMMA MakersDiffer ==
    ASSUME IInv, AgreeInv, NEW c \in Conns, StoreStep(c), Sound(c)
    PROVE  OneMaker'
<1> SUFFICES ASSUME NEW d \in Conns, NEW e \in Conns, d # e,
                    pc'[d] \in Writing, job'[d].made = job'[e].made
             PROVE  FALSE
  BY DEF OneMaker
<1>1. \A f \in Conns \ {c} : pc'[f] = pc[f] /\ job'[f] = job[f]
  BY DEF Sound
<1>2. \A f \in Conns : job[f].made \in Generated \cup {NoToken}
  BY HandFacts
<1>3. CASE Sets(c)
  <2>1. job'[c].made \notin Generated \cup {NoToken}
    BY <1>3, NoTokenAssumption DEF Sets, Generated, Unused
  <2>2. d # c /\ e # c
    BY <1>1, <1>2, <2>1
  <2> QED BY <1>1, <2>2 DEF AgreeInv, OneMaker
<1>4. CASE ~Sets(c)
  <2>1. /\ pc'[c] \in Writing => pc[c] \in Writing
        /\ pc'[c] \in Writing => job'[c] = job[c]
        /\ job'[c].made \in {NoToken, job[c].made}
    BY <1>4 DEF StoreStep, Quiet, Indexes, Inserts, Drops, Unlists, Writing,
                NoJob
  <2>2. pc[d] \in Writing /\ job'[d].made = job[d].made
    BY <1>1, <2>1
  <2>3. job'[e].made \in {NoToken, job[e].made}
    BY <1>1, <2>1
  <2> QED BY <2>2, <2>3, HandFacts DEF AgreeInv, OneMaker
<1> QED BY <1>3, <1>4

\* The stores still agree.
LEMMA StoresFollow ==
    ASSUME IInv, AgreeInv, NEW c \in Conns, StoreStep(c), Sound(c),
           "postgres" \notin Faults
    PROVE  StoresAgree'
<1> SUFFICES ASSUME NEW t \in Tokens, t \notin overdue',
                    ~((t \in keys') <=> (t \in rows'))
             PROVE  \E d \in Conns : Between(d, t)'
  BY DEF StoresAgree
<1>1. \A d \in Conns \ {c} : pc'[d] = pc[d] /\ job'[d] = job[d]
  BY DEF Sound
<1>2. t \notin overdue
  BY DEF Sound, Aging
<1>3. CASE Between(c, t)'
  BY <1>3
<1>4. CASE ~Between(c, t)'
  <2>1. /\ ~((t \in keys) <=> (t \in rows))
        /\ ~Between(c, t)
    <3>1. CASE Quiet(c)
      BY <1>4, <3>1 DEF Quiet, Between, Writing
    <3>2. CASE Sets(c)
      BY <1>4, <3>2 DEF Sets, Between
    <3>3. CASE Indexes(c)
      BY <1>4, <3>3 DEF Indexes, Between
    <3>4. CASE Inserts(c)
      BY <1>2, <1>4, <3>4, HandFacts DEF Inserts, Between, Writing
    <3>5. CASE Drops(c)
      BY <1>4, <3>5 DEF Drops, Between
    <3>6. CASE Unlists(c)
      BY <1>4, <3>6, HandFacts DEF Unlists, Between
    <3> QED BY <3>1, <3>2, <3>3, <3>4, <3>5, <3>6 DEF StoreStep
  <2>2. PICK d \in Conns : Between(d, t)
    BY <1>2, <2>1 DEF AgreeInv, StoresAgree
  <2> QED BY <1>1, <2>1, <2>2 DEF Between
<1> QED BY <1>3, <1>4

\* Every step keeps the stores together.
LEMMA AgreeStep ==
    ASSUME Faults \subseteq {"hangup"}, IInv, AgreeInv, [Next]_vars
    PROVE  AgreeInv'
<1>0. "redis" \notin Faults /\ "crash" \notin Faults /\ "postgres" \notin Faults
  OBVIOUS
<1>1. ASSUME NEW c \in Conns, Arrive(c) \/ Handle(c) \/ Fail(c)
      PROVE  AgreeInv'
  <2>1. StoreStep(c) /\ Sound(c)
    BY <1>0, <1>1, ConnStores
  <2>2. ASSUME NEW d \in Conns PROVE Handling(d)'
    BY <2>1, OthersHandle, SelfHandles
  <2> QED BY <1>0, <2>1, <2>2, MakersDiffer, StoresFollow DEF AgreeInv
<1>2. ASSUME NEW t \in Tokens, Lapse(t) \/ RedisExpires(t)
      PROVE  AgreeInv'
  <2>1. /\ UNCHANGED <<rows, told, pc, job>>
        /\ keys' \subseteq keys /\ overdue \subseteq overdue'
        /\ keys \subseteq keys' \cup overdue
    BY <1>2 DEF Lapse, RedisExpires
  <2>2. StoresAgree'
    BY <2>1 DEF AgreeInv, StoresAgree, Between
  <2>3. OneMaker' /\ \A c \in Conns : Handling(c)'
    BY <2>1 DEF AgreeInv, OneMaker, Handling, InHand
  <2> QED BY <2>2, <2>3 DEF AgreeInv
<1>3. CASE UNCHANGED vars
  BY <1>3 DEF vars, AgreeInv, StoresAgree, Between, OneMaker, Handling, InHand
<1> QED BY <1>1, <1>2, <1>3 DEF Next

\* As long as both stores answer and the process runs, the backup has a row for
\* each session that has not expired and no other, but while one of the two is
\* being written (session_service.go:65-81, 125-138).
THEOREM BackupFollows ==
    Faults \subseteq {"hangup"} => (Spec => []StoresAgree)
<1> SUFFICES ASSUME Faults \subseteq {"hangup"} PROVE Spec => []StoresAgree
  OBVIOUS
<1>1. Init => AgreeInv
  BY DEF Init, AgreeInv, StoresAgree, OneMaker, Handling, InHand, NoJob, Writing
<1>2. IInv /\ AgreeInv /\ [Next]_vars => AgreeInv'
  BY AgreeStep
<1>3. AgreeInv => StoresAgree
  BY DEF AgreeInv
<1> QED BY <1>1, <1>2, <1>3, SessionInvariant, PTL DEF Spec

-----------------------------------------------------------------------------
(* Live sessions are left alone and vouched for.                           *)

\* DeleteSession runs for a client that asked for it, or for a session that
\* has expired.
Deleting(c) ==
    job[c].frames > 0 =>
        job[c].op \in {"logout", "refresh"} \/ job[c].token \in overdue

\* A request keeps what it asks for.
SameRequest(c) == job'[c].op = job[c].op /\ job'[c].token = job[c].token

\* A connection enters DeleteSession with reason.
LEMMA DeletingStep ==
    ASSUME IInv, "redis" \notin Faults, NEW c \in Conns,
           Arrive(c) \/ Handle(c) \/ Fail(c), Sound(c), Deleting(c)
    PROVE  Deleting(c)'
<1>0. TypeOK /\ job[c] \in Jobs /\ overdue \subseteq overdue'
  BY DEF IInv, TypeOK, Sound, Aging
<1>1. CASE job'[c] = NoJob
  BY <1>1 DEF Deleting, NoJob
<1>2. CASE SameRequest(c) /\ (job'[c].frames = 0 \/ job'[c].frames = job[c].frames)
  BY <1>0, <1>2 DEF Deleting, SameRequest
<1>3. ASSUME NEW w, NEW G, Respond(c, w, G) PROVE job'[c] = NoJob
  BY <1>0, <1>3 DEF Respond, TypeOK
<1>4. Reject(c) => job'[c] = NoJob
  BY <1>3 DEF Reject
<1>5. CASE Arrive(c)
  <2>1. ASSUME NEW op, NEW t, NEW first, NEW stage, NEW frames,
               Receive(c, op, t, first, stage, frames)
        PROVE  job'[c].op = op /\ job'[c].frames = frames
    BY <1>0, <2>1, NewJobFields DEF Receive, TypeOK
  <2> QED BY <1>5, <2>1 DEF Arrive, ReceiveLogin, ReceiveValidate,
                            ReceiveRefresh, ReceiveLogout, Deleting
<1>6. CASE UNCHANGED job
  BY <1>2, <1>6 DEF SameRequest
<1>7. CASE GetExpired(c)
  <2>1. SameRequest(c) /\ job[c].token \in overdue
    BY <1>0, <1>7 DEF GetExpired, Expired, SameRequest, TypeOK, Jobs
  <2> QED BY <1>0, <2>1 DEF SameRequest, Deleting
<1>8. CASE SetKey(c)
  <2>1. PICK t \in Tokens : job' = [job EXCEPT ![c].made = t]
    BY <1>8 DEF SetKey
  <2>2. SameRequest(c) /\ job'[c].frames = job[c].frames
    BY <1>0, <2>1 DEF SameRequest, TypeOK, Jobs
  <2> QED BY <1>2, <2>2
<1>9. CASE Return(c)
  <2>1. CASE job' = [job EXCEPT ![c].frames = @ - 1] /\ job[c].frames > 1
    <3>1. SameRequest(c)
      BY <1>0, <2>1 DEF SameRequest, TypeOK, Jobs
    <3> QED BY <1>0, <2>1, <3>1, MaxFramesAssumption
            DEF SameRequest, Deleting, Jobs
  <2>2. CASE job' = [job EXCEPT ![c] = At(c, "create", 0)]
    <3>1. job'[c] = At(c, "create", 0)
      BY <1>0, <2>2 DEF TypeOK
    <3> QED BY <1>0, <3>1, AtFields DEF Stages, Deleting
  <2> QED BY <1>1, <1>3, <1>4, <1>9, <2>1, <2>2 DEF Return
<1>10. CASE LoadUser(c)
  <2>1. CASE job' = [job EXCEPT ![c] = At(c, "renew", 0)]
    <3>1. job'[c] = At(c, "renew", 0)
      BY <1>0, <2>1 DEF TypeOK
    <3> QED BY <1>0, <3>1, AtFields DEF Stages, Deleting
  <2>2. CASE job' = [job EXCEPT ![c] = At(c, "drop", 1)] /\ job[c].op = "refresh"
    <3>1. job'[c] = At(c, "drop", 1)
      BY <1>0, <2>2 DEF TypeOK
    <3> QED BY <1>0, <2>2, <3>1, AtFields DEF Stages, Deleting
  <2> QED BY <1>1, <1>3, <1>10, <2>1, <2>2 DEF LoadUser
<1>11. CASE Handle(c)
  BY <1>1, <1>3, <1>4, <1>6, <1>7, <1>8, <1>9, <1>10, <1>11
     DEF Handle, FindUser, AddIndex, InsertRow, GetMissing, NotFound, GetFound,
         DelKey, DelRow
<1>12. CASE Fail(c)
  <2>1. ProcessDies(c) => job'[c] = NoJob
    BY <1>0 DEF ProcessDies, TypeOK
  <2> QED BY <1>1, <1>3, <1>4, <1>9, <1>12, <2>1
          DEF Fail, RedisFails, PostgresFails, LookupFails, InsertRowFails,
              DelRowFails
<1> QED BY <1>5, <1>11, <1>12

\* A validate is refused when the key has not been found, or after it has been
\* deleted.
LEMMA RefusedWithoutKey ==
    ASSUME IInv, AgreeInv, Faults \subseteq {"hangup"}, NEW c \in Conns,
           Arrive(c) \/ Handle(c) \/ Fail(c),
           Finishes(c), answer'[c] = "invalid"
    PROVE  job[c].token \notin keys
<1>1. ~Arrive(c) /\ ~Fail(c)
  BY DEF Arrive, Receive, ReceiveLogin, ReceiveValidate, ReceiveRefresh,
         ReceiveLogout, Finishes, Fail, RedisFails, PostgresFails, ProcessDies
<1>2. ~Goto(c, "get") /\ ~Goto(c, "delKey") /\ ~Goto(c, "delRow")
      /\ ~Goto(c, "setKey") /\ ~Goto(c, "addIndex") /\ ~Goto(c, "insertRow")
      /\ ~Goto(c, "loadUser")
  BY GotoGoesOn DEF Labels, Finishes
<1>3. \A G : ~Respond(c, "ok", G) /\ ~Respond(c, "error", G)
               /\ ~Respond(c, "valid", G)
  BY ResponseSeen DEF Answers
<1>4. GetMissing(c) \/ DelRow(c)
  BY <1>1, <1>2, <1>3
     DEF Handle, FindUser, SetKey, AddIndex, InsertRow, GetFound, GetExpired,
         DelKey, LoadUser
<1> QED BY <1>4, HandFacts DEF GetMissing, DelRow

\* As long as both stores answer and the process runs, a session that has not
\* expired ends only by a logout or refresh of its own token, and until then no
\* validate is refused (session_service.go:112-138, auth_handler.go:106-112).
THEOREM LiveSessionsAccepted ==
    Faults \subseteq {"hangup"} => (Spec => LiveNeverRefused)
<1> SUFFICES ASSUME Faults \subseteq {"hangup"} PROVE Spec => LiveNeverRefused
  OBVIOUS
<1> DEFINE Inv == IInv /\ AgreeInv /\ \A c \in Conns : Deleting(c)
           Ends == \A t \in keys \ keys' :
                       t \in overdue
                       \/ \E c \in Conns : /\ job[c].op \in {"logout", "refresh"}
                                          /\ job[c].token = t
           Refuses == \A c \in Conns :
                          Finishes(c) /\ answer'[c] = "invalid"
                              => ~Live(job[c].token)
<1>0. "redis" \notin Faults /\ "crash" \notin Faults
  OBVIOUS
<1>1. Init => Inv
  BY InitIInv
     DEF Init, AgreeInv, StoresAgree, OneMaker, Handling, InHand, NoJob,
         Writing, Deleting
<1>2. ASSUME Inv, [Next]_vars PROVE Inv'
  <2>1. IInv' /\ AgreeInv'
    BY <1>2, NextIInv, AgreeStep
  <2>2. ASSUME NEW c \in Conns, Arrive(c) \/ Handle(c) \/ Fail(c),
               NEW d \in Conns
        PROVE  Deleting(d)'
    <3>1. Sound(c) /\ overdue \subseteq overdue'
      BY <1>2, <2>2, ConnSound DEF Sound, Aging
    <3>2. CASE d = c
      BY <1>0, <1>2, <2>2, <3>1, <3>2, DeletingStep
    <3>3. CASE d # c
      BY <1>2, <3>1, <3>3 DEF Sound, Deleting
    <3> QED BY <3>2, <3>3
  <2>3. ASSUME NEW t \in Tokens, Lapse(t) \/ RedisExpires(t), NEW d \in Conns
        PROVE  Deleting(d)'
    BY <1>2, <2>3 DEF Lapse, RedisExpires, Deleting
  <2>4. UNCHANGED vars => \A d \in Conns : Deleting(d)'
    BY <1>2 DEF vars, Deleting
  <2> QED BY <1>2, <2>1, <2>2, <2>3, <2>4 DEF Next
<1>3. ASSUME Inv, Next PROVE Ends /\ Refuses
  <2>1. ASSUME NEW c \in Conns, Arrive(c) \/ Handle(c) \/ Fail(c)
        PROVE  Ends /\ Refuses
    <3>1. StoreStep(c) /\ Sound(c)
      BY <1>0, <1>3, <2>1, ConnStores
    <3>2. Ends
      <4> SUFFICES ASSUME NEW t \in keys \ keys'
                   PROVE  \/ t \in overdue
                          \/ /\ job[c].op \in {"logout", "refresh"}
                             /\ job[c].token = t
        OBVIOUS
      <4>1. pc[c] = "delKey" /\ job[c].token = t
        BY <3>1 DEF StoreStep, Quiet, Sets, Indexes, Inserts, Drops, Unlists
      <4>2. job[c].frames > 0
        BY <1>3, <4>1 DEF IInv, JobsSound, JobOK
      <4> QED BY <1>3, <4>1, <4>2 DEF Deleting
    <3>3. ASSUME NEW d \in Conns, Finishes(d), answer'[d] = "invalid"
          PROVE  ~Live(job[d].token)
      <4>1. d = c
        BY <3>1, <3>3 DEF Sound, Finishes
      <4> QED BY <1>3, <2>1, <3>3, <4>1, RefusedWithoutKey DEF Live
    <3> QED BY <3>2, <3>3
  <2>2. ASSUME NEW t \in Tokens, Lapse(t) \/ RedisExpires(t)
        PROVE  Ends /\ Refuses
    BY <2>2 DEF Lapse, RedisExpires, Finishes
  <2> QED BY <1>3, <2>1, <2>2 DEF Next
<1>4. Inv /\ [Next]_vars => [Ends /\ Refuses]_vars
  BY <1>3
<1> HIDE DEF Inv
<1> QED BY <1>1, <1>2, <1>4, PTL DEF Spec, LiveNeverRefused
=============================================================================
