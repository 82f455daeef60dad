----------------------------- MODULE AuthProofs -----------------------------
(***************************************************************************)
(* Theorems about the sessions of the authentication server, for any       *)
(* number of connections and tokens.                                       *)
(***************************************************************************)
EXTENDS AuthProperties, TLAPS

-----------------------------------------------------------------------------
(* The inductive invariant.  TypeOK is not inductive alone: that a stored  *)
(* token was generated needs the login a refreshed token descends from,    *)
(* which JobsSound says of a goroutine that is about to create one.        *)

IInv == TypeOK /\ JobsSound

StoresOK == /\ keys \subseteq Generated
            /\ rows \subseteq Generated
            /\ overdue \subseteq Generated
            /\ root \in [Tokens -> Tokens \cup {NoToken}]

ControlOK == /\ told \subseteq Generated
             /\ revoked \subseteq Tokens \cup {NoToken}
             /\ pc \in [Conns -> Labels]
             /\ job \in [Conns -> Jobs]
             /\ answer \in [Conns -> Answers]

\* What every step does to the stores, as seen by a goroutine at rest: tokens
\* that were generated stay so, and none of them comes back or gets younger.
Aging == /\ Generated \subseteq Generated'
         /\ keys' \cap Generated \subseteq keys
         /\ overdue \subseteq overdue'

\* A step of connection c that leaves the others alone and c in order.
Sound(c) == /\ StoresOK'
            /\ ControlOK'
            /\ Aging
            /\ JobOK(c)'
            /\ \A d \in Conns \ {c} : pc'[d] = pc[d] /\ job'[d] = job[d]

\* Nothing is stored at the start and nobody works.
LEMMA InitIInv == Init => IInv
BY NoTokenAssumption, MaxFramesAssumption
   DEF Init, IInv, TypeOK, JobsSound, JobOK, Unused, Generated, NoJob, Jobs,
       Types, Stages, Labels, Answers

\* TypeOK, by its two halves.
LEMMA Halves == TypeOK <=> StoresOK /\ ControlOK
BY DEF TypeOK, StoresOK, ControlOK, Generated

\* What a resting goroutine relies on survives when the stores age.
LEMMA RestingOK ==
    ASSUME IInv, Aging, StoresOK', NEW d \in Conns,
           pc'[d] = pc[d], job'[d] = job[d]
    PROVE  JobOK(d)'
<1>1. JobOK(d)
  BY DEF IInv, JobsSound
<1>2. ~Live(job[d].token) => ~Live(job[d].token)'
  BY <1>1, NoTokenAssumption DEF JobOK, Live, Aging, StoresOK, Generated
<1>3. Generated \subseteq Generated'
  BY DEF Aging
<1> QED BY <1>1, <1>2, <1>3 DEF JobOK, Live

\* A sound step of a connection preserves the invariant.
LEMMA SoundStep ==
    ASSUME IInv, NEW c \in Conns, Sound(c)
    PROVE  IInv'
<1>1. TypeOK'
  BY Halves, PTL DEF Sound
<1>2. ASSUME NEW d \in Conns PROVE JobOK(d)'
  <2>1. CASE d = c
    BY <2>1 DEF Sound
  <2>2. CASE d # c
    BY <2>2, RestingOK DEF Sound
  <2> QED BY <2>1, <2>2
<1> QED BY <1>1, <1>2 DEF IInv, JobsSound

-----------------------------------------------------------------------------
(* Pieces of steps.                                                        *)

\* A command that generates no token leaves root and the tokens alone.
LEMMA SameTokens == root' = root => Generated' = Generated
BY DEF Generated, Unused

\* A response leaves the control state typed and its connection idle.
LEMMA RespondOK ==
    ASSUME IInv, NEW c \in Conns, NEW w \in Answers, NEW G,
           Respond(c, w, G), G \subseteq Generated', Generated \subseteq Generated'
    PROVE  /\ ControlOK'
           /\ JobOK(c)'
           /\ \A d \in Conns \ {c} : pc'[d] = pc[d] /\ job'[d] = job[d]
<1>0. TypeOK /\ JobOK(c)
  BY DEF IInv, JobsSound
<1>1. pc' = [pc EXCEPT ![c] = "idle"] /\ job' = [job EXCEPT ![c] = NoJob]
  BY DEF Respond
<1>2. pc' \in [Conns -> Labels] /\ job' \in [Conns -> Jobs]
  BY <1>0, <1>1, MaxFramesAssumption
     DEF TypeOK, NoJob, Jobs, Types, Stages, Labels
<1>3. answer' \in [Conns -> Answers]
  BY <1>0 DEF Respond, TypeOK, Answers
<1>4. told' \subseteq Generated'
  BY <1>0 DEF Respond, TypeOK, Generated
<1>5. revoked' \subseteq Tokens \cup {NoToken}
  BY <1>0 DEF Respond, TypeOK, JobOK, Generated
<1>6. pc'[c] = "idle" /\ job'[c] = NoJob
  BY <1>0, <1>1 DEF TypeOK
<1>7. JobOK(c)'
  BY <1>6 DEF JobOK, NoJob
<1>8. \A d \in Conns \ {c} : pc'[d] = pc[d] /\ job'[d] = job[d]
  BY <1>0, <1>1 DEF TypeOK
<1> QED BY <1>2, <1>3, <1>4, <1>5, <1>7, <1>8 DEF ControlOK

\* Going on to the next command leaves the control state typed.
LEMMA GotoOK ==
    ASSUME IInv, NEW c \in Conns, NEW label \in Labels, Goto(c, label),
           NEW j \in Jobs, job' = [job EXCEPT ![c] = j],
           Generated \subseteq Generated'
    PROVE  /\ ControlOK'
           /\ pc'[c] = label
           /\ job'[c] = j
           /\ \A d \in Conns \ {c} : pc'[d] = pc[d] /\ job'[d] = job[d]
BY DEF IInv, TypeOK, Goto, ControlOK, Generated

\* The same for a command that leaves the locals alone.
LEMMA MoveOK ==
    ASSUME IInv, NEW c \in Conns, NEW label \in Labels, Goto(c, label),
           UNCHANGED job, Generated \subseteq Generated'
    PROVE  /\ ControlOK'
           /\ pc'[c] = label
           /\ job'[c] = job[c]
           /\ \A d \in Conns \ {c} : pc'[d] = pc[d] /\ job'[d] = job[d]
BY DEF IInv, TypeOK, Goto, ControlOK, Generated

\* A command that only takes from the stores: they stay typed, and age.
LEMMA Shrinks ==
    ASSUME IInv, keys' \subseteq keys, rows' \subseteq rows,
           UNCHANGED <<overdue, root>>
    PROVE  StoresOK' /\ Aging /\ Generated' = Generated
<1>1. Generated' = Generated
  BY SameTokens
<1>2. StoresOK'
  BY <1>1, Halves DEF IInv, StoresOK
<1> QED BY <1>1, <1>2 DEF Aging

-----------------------------------------------------------------------------
(* Each action is sound.                                                   *)

\* The fields of the locals of a request that arrives.
LEMMA NewJobFields ==
    ASSUME NEW op, NEW t, NEW stage, NEW frames
    PROVE  LET j == NewJob(op, t, stage, frames)
           IN  /\ j.op = op /\ j.token = t /\ j.stage = stage
               /\ j.frames = frames /\ (j.dead <=> ~Live(t))
BY DEF NewJob

\* A request arrives on an idle connection.
LEMMA ReceiveSound ==
    ASSUME IInv, NEW c \in Conns, Arrive(c)
    PROVE  Sound(c)
<1>0. TypeOK /\ Generated' = Generated
  BY SameTokens DEF IInv, Arrive, Receive, ReceiveLogin, ReceiveValidate,
                    ReceiveRefresh, ReceiveLogout
<1>1. UNCHANGED <<keys, rows, overdue, root, told, revoked>>
  BY DEF Arrive, Receive, ReceiveLogin, ReceiveValidate, ReceiveRefresh,
         ReceiveLogout
<1>2. StoresOK' /\ Aging
  BY <1>1, Shrinks
<1>3. \/ Receive(c, "login", NoToken, "findUser", "create", 0)
      \/ \E t \in told \cup {NoToken} :
            \/ Receive(c, "validate", t, "get", "check", 0)
            \/ Receive(c, "refresh", t, "get", "check", 0)
            \/ Receive(c, "logout", t, "get", "drop", 1)
  BY DEF Arrive, ReceiveLogin, ReceiveValidate, ReceiveRefresh, ReceiveLogout
<1>4. ASSUME NEW op, NEW t \in Generated \cup {NoToken}, NEW first, NEW stage,
             NEW frames, Receive(c, op, t, first, stage, frames),
             \/ op = "login" /\ first = "findUser" /\ stage = "create" /\ frames = 0
             \/ op \in {"validate", "refresh"} /\ first = "get" /\ stage = "check" /\ frames = 0
             \/ op = "logout" /\ first = "get" /\ stage = "drop" /\ frames = 1
      PROVE  Sound(c)
  <2>1. NewJob(op, t, stage, frames) \in Jobs
    BY <1>4, MaxFramesAssumption DEF NewJob, Jobs, Types, Stages, Generated
  <2>2. /\ pc' = [pc EXCEPT ![c] = first]
        /\ job' = [job EXCEPT ![c] = NewJob(op, t, stage, frames)]
        /\ answer' = [answer EXCEPT ![c] = "none"]
    BY <1>4 DEF Receive
  <2>3. ControlOK'
    BY <1>0, <1>1, <1>4, <2>1, <2>2 DEF TypeOK, ControlOK, Labels, Answers, Generated
  <2>4. pc'[c] = first /\ job'[c] = NewJob(op, t, stage, frames)
    BY <1>0, <2>2 DEF TypeOK
  <2>5. /\ job'[c].op = op /\ job'[c].token = t /\ job'[c].stage = stage
        /\ job'[c].frames = frames /\ (job'[c].dead => ~Live(t))
    BY <2>4, NewJobFields
  <2>6. Live(t)' = Live(t)
    BY <1>1 DEF Live
  <2>7. JobOK(c)'
    BY <1>0, <1>4, <2>4, <2>5, <2>6 DEF JobOK, Live
  <2>8. \A d \in Conns \ {c} : pc'[d] = pc[d] /\ job'[d] = job[d]
    BY <1>0, <2>2 DEF TypeOK
  <2> QED BY <1>2, <2>3, <2>7, <2>8 DEF Sound
<1>5. told \subseteq Generated
  BY <1>0 DEF TypeOK, Generated
<1> QED BY <1>3, <1>4, <1>5

\* A command that only responds, after taking from the stores.
LEMMA EndSound ==
    ASSUME IInv, NEW c \in Conns, NEW w \in Answers, Respond(c, w, {}),
           keys' \subseteq keys, rows' \subseteq rows,
           UNCHANGED <<overdue, root>>
    PROVE  Sound(c)
<1>1. StoresOK' /\ Aging /\ Generated' = Generated
  BY Shrinks
<1>2. /\ ControlOK' /\ JobOK(c)'
      /\ \A d \in Conns \ {c} : pc'[d] = pc[d] /\ job'[d] = job[d]
  BY <1>1, RespondOK
<1> QED BY <1>1, <1>2 DEF Sound

\* The same for a request whose session is not found.
LEMMA RejectSound ==
    ASSUME IInv, NEW c \in Conns, Reject(c),
           keys' \subseteq keys, rows' \subseteq rows,
           UNCHANGED <<overdue, root>>
    PROVE  Sound(c)
BY EndSound DEF Reject, Answers

\* A command that takes from the stores and goes on with the same locals.
LEMMA MoveSound ==
    ASSUME IInv, NEW c \in Conns, NEW label \in Labels, Goto(c, label),
           UNCHANGED <<job, overdue, root>>,
           keys' \subseteq keys, rows' \subseteq rows,
           \/ label \in {"delKey", "delRow"} /\ job[c].frames > 0
           \/ label \in {"setKey"} /\ job[c].stage = "create"
           \/ /\ label = "loadUser"
              /\ job[c].token \in Generated
              /\ job[c].op \in {"validate", "refresh"}
              /\ ~job[c].dead
    PROVE  Sound(c)
<1>1. StoresOK' /\ Aging /\ Generated' = Generated
  BY Shrinks
<1>2. /\ ControlOK' /\ pc'[c] = label /\ job'[c] = job[c]
      /\ \A d \in Conns \ {c} : pc'[d] = pc[d] /\ job'[d] = job[d]
  BY <1>1, MoveOK
<1>3. JobOK(c)
  BY DEF IInv, JobsSound
<1>4. ~Live(job[c].token) => ~Live(job[c].token)'
  BY <1>2 DEF Live
<1>5. JobOK(c)'
  BY <1>1, <1>2, <1>3, <1>4 DEF JobOK, Live
<1> QED BY <1>1, <1>2, <1>5 DEF Sound

\* A command that changes the locals only, and the next command.
LEMMA TurnSound ==
    ASSUME IInv, NEW c \in Conns, NEW label \in Labels, Goto(c, label),
           NEW j \in Jobs, job' = [job EXCEPT ![c] = j],
           UNCHANGED <<keys, overdue, root>>, rows' \subseteq rows,
           j.op = job[c].op, j.token = job[c].token, j.dead = job[c].dead,
           \/ label = "get" /\ j.stage = job[c].stage /\ j.frames > 0
           \/ label = "get" /\ j.stage # "create" /\ job[c].op = "refresh"
                            /\ job[c].token \in Generated
           \/ label = "delKey" /\ j.frames > 0 /\ j.stage = job[c].stage
           \/ label = "setKey" /\ j.stage = "create" /\ job[c].op = "refresh"
                               /\ job[c].token \in Generated
    PROVE  Sound(c)
<1>1. StoresOK' /\ Aging /\ Generated' = Generated
  BY Shrinks
<1>2. /\ ControlOK' /\ pc'[c] = label /\ job'[c] = j
      /\ \A d \in Conns \ {c} : pc'[d] = pc[d] /\ job'[d] = job[d]
  BY <1>1, GotoOK
<1>3. JobOK(c)
  BY DEF IInv, JobsSound
<1>4. Live(job[c].token)' = (j.token \in keys \ overdue)
  BY <1>2 DEF Live
<1>5. JobOK(c)'
  BY <1>1, <1>2, <1>3, <1>4 DEF JobOK, Live
<1> QED BY <1>1, <1>2, <1>5 DEF Sound

\* A found session, an expired one, and one that is not found.
LEMMA GetSound ==
    ASSUME IInv, NEW c \in Conns,
           GetMissing(c) \/ GetFound(c) \/ GetExpired(c) \/ GetFails(c)
    PROVE  Sound(c)
<1>0. TypeOK /\ JobOK(c) /\ job[c] \in Jobs
  BY DEF IInv, JobsSound, TypeOK
<1>1. CASE GetMissing(c) \/ GetFails(c)
  <2>1. NotFound(c) /\ UNCHANGED <<keys, rows, overdue, root>>
    BY <1>1 DEF GetMissing, GetFails
  <2>2. CASE Reject(c)
    BY <2>1, <2>2, RejectSound
  <2>3. CASE job[c].frames > 0 /\ Goto(c, "delKey") /\ UNCHANGED job
    BY <2>1, <2>3, MoveSound DEF Labels
  <2> QED BY <2>1, <2>2, <2>3 DEF NotFound
<1>2. CASE GetFound(c)
  <2>1. UNCHANGED <<keys, rows, overdue, root, job>> /\ pc[c] = "get"
    BY <1>2 DEF GetFound
  <2>2. CASE job[c].frames > 0
    <3>1. Goto(c, "delKey")
      BY <1>2, <2>2 DEF GetFound
    <3> QED BY <2>1, <2>2, <3>1, MoveSound DEF Labels
  <2>3. CASE ~(job[c].frames > 0)
    <3>1. Goto(c, "loadUser") /\ Live(job[c].token)
      BY <1>2, <2>3 DEF GetFound, Expired, Live
    <3>2. job[c].token \in Generated /\ ~job[c].dead
      BY <1>0, <3>1 DEF JobOK, Live, TypeOK, Generated
    <3>3. job[c].op \in {"validate", "refresh"}
      BY <1>0, <2>1, <2>3 DEF JobOK, Jobs
    <3> QED BY <2>1, <3>1, <3>2, <3>3, MoveSound DEF Labels
  <2> QED BY <2>2, <2>3
<1>3. CASE GetExpired(c)
  <2> DEFINE j == [job[c] EXCEPT !.frames = @ + 1]
  <2>1. j \in Jobs /\ job' = [job EXCEPT ![c] = j]
    BY <1>0, <1>3, MaxFramesAssumption DEF GetExpired, Jobs, TypeOK
  <2>2. /\ j.op = job[c].op /\ j.token = job[c].token
        /\ j.dead = job[c].dead /\ j.stage = job[c].stage
        /\ j.frames > 0
    BY <1>0 DEF Jobs
  <2>3. Goto(c, "get") /\ UNCHANGED <<keys, rows, overdue, root>>
    BY <1>3 DEF GetExpired
  <2> HIDE DEF j
  <2> QED BY <2>1, <2>2, <2>3, TurnSound DEF Labels
<1> QED BY <1>1, <1>2, <1>3

\* The fields of the locals of a request that goes on to another stage.
LEMMA AtFields ==
    ASSUME NEW c \in Conns, job[c] \in Jobs,
           NEW stage \in Stages, NEW frames \in {0, 1}
    PROVE  LET j == At(c, stage, frames)
           IN  /\ j \in Jobs /\ j.stage = stage /\ j.frames = frames
               /\ j.op = job[c].op /\ j.token = job[c].token
               /\ j.dead = job[c].dead
<1>1. frames \in 0..MaxFrames
  BY MaxFramesAssumption
<1> QED BY <1>1 DEF At, Jobs

\* DeleteSession is entered, its DEL sent, and it returns.
LEMMA DeleteSound ==
    ASSUME IInv, NEW c \in Conns,
           \/ DelKey(c) \/ DelKeyFails(c) \/ DelRow(c) \/ DelRowFails(c)
    PROVE  Sound(c)
<1>0. TypeOK /\ JobOK(c) /\ job[c] \in Jobs
  BY DEF IInv, JobsSound, TypeOK
<1>1. CASE DelKey(c) \/ DelKeyFails(c)
  <2>1. /\ Goto(c, "delRow") /\ UNCHANGED <<rows, job, overdue, root>>
        /\ keys' \subseteq keys /\ pc[c] = "delKey"
    BY <1>1 DEF DelKey, DelKeyFails
  <2> QED BY <1>0, <2>1, MoveSound DEF JobOK, Labels
<1>2. CASE DelRow(c) \/ DelRowFails(c)
  <2>1. /\ Return(c) /\ UNCHANGED <<keys, overdue, root>>
        /\ rows' \subseteq rows
    BY <1>2 DEF DelRow, DelRowFails
  <2>2. CASE Reject(c)
    BY <2>1, <2>2, RejectSound
  <2>3. CASE Respond(c, "ok", {})
    BY <2>1, <2>3, EndSound DEF Answers
  <2>4. CASE /\ job[c].frames > 1 /\ Goto(c, "delKey")
             /\ job' = [job EXCEPT ![c].frames = @ - 1]
    <3> DEFINE j == [job[c] EXCEPT !.frames = @ - 1]
    <3>1. /\ j \in Jobs /\ job' = [job EXCEPT ![c] = j]
          /\ j.op = job[c].op /\ j.token = job[c].token
          /\ j.dead = job[c].dead /\ j.stage = job[c].stage
          /\ j.frames > 0
      BY <1>0, <2>4, MaxFramesAssumption DEF Jobs, TypeOK
    <3> HIDE DEF j
    <3> QED BY <2>1, <2>4, <3>1, TurnSound DEF Labels
  <2>5. CASE /\ job[c].stage = "drop" /\ job[c].op = "refresh"
             /\ Goto(c, "setKey")
             /\ job' = [job EXCEPT ![c] = At(c, "create", 0)]
    <3>1. job[c].token \in Generated
      BY <1>0, <2>5 DEF JobOK
    <3> DEFINE j == At(c, "create", 0)
    <3>2. /\ j \in Jobs /\ j.stage = "create"
          /\ j.op = job[c].op /\ j.token = job[c].token
          /\ j.dead = job[c].dead
      BY <1>0, AtFields DEF Stages
    <3> HIDE DEF j
    <3>3. job' = [job EXCEPT ![c] = j]
      BY <2>5 DEF j
    <3> QED BY <2>1, <2>5, <3>1, <3>2, <3>3, TurnSound DEF Labels
  <2> QED BY <2>1, <2>2, <2>3, <2>4, <2>5 DEF Return
<1> QED BY <1>1, <1>2

\* The user of a login, or of a session.
LEMMA LookupSound ==
    ASSUME IInv, NEW c \in Conns,
           FindUser(c) \/ LoadUser(c) \/ LookupFails(c)
    PROVE  Sound(c)
<1>0. TypeOK /\ JobOK(c) /\ job[c] \in Jobs
  BY DEF IInv, JobsSound, TypeOK
<1>1. UNCHANGED <<keys, rows, overdue, root>>
  BY DEF FindUser, LoadUser, LookupFails
<1>2. CASE Reject(c)
  BY <1>1, <1>2, RejectSound
<1>3. CASE \E w \in Answers : Respond(c, w, {})
  BY <1>1, <1>3, EndSound
<1>4. CASE FindUser(c) /\ Goto(c, "setKey") /\ UNCHANGED job
  <2>1. job[c].stage = "create"
    BY <1>0, <1>4 DEF FindUser, JobOK
  <2> QED BY <1>1, <1>4, <2>1, MoveSound DEF Labels
<1>5. CASE /\ LoadUser(c) /\ job[c].op = "refresh" /\ Goto(c, "get")
           /\ \/ job' = [job EXCEPT ![c] = At(c, "renew", 0)]
              \/ job' = [job EXCEPT ![c] = At(c, "drop", 1)]
  <2>1. job[c].token \in Generated
    BY <1>0, <1>5 DEF LoadUser, JobOK
  <2>2. PICK stage \in {"renew", "drop"}, frames \in {0, 1} :
            job' = [job EXCEPT ![c] = At(c, stage, frames)]
    BY <1>5
  <2> DEFINE j == At(c, stage, frames)
  <2>3. /\ j \in Jobs /\ j.stage # "create"
        /\ j.op = job[c].op /\ j.token = job[c].token
        /\ j.dead = job[c].dead
    <3>1. stage \in Stages /\ stage # "create"
      BY DEF Stages
    <3> QED BY <1>0, <3>1, AtFields
  <2> HIDE DEF j
  <2>4. job' = [job EXCEPT ![c] = j]
    BY <2>2 DEF j
  <2> QED BY <1>1, <1>5, <2>1, <2>3, <2>4, TurnSound DEF Labels
<1> QED BY <1>2, <1>3, <1>4, <1>5 DEF FindUser, LoadUser, LookupFails, Answers

\* A generated token is new, and of a known login.
LEMMA GenerateOK ==
    ASSUME IInv, NEW c \in Conns, pc[c] = "setKey", NEW t \in Tokens,
           Generate(c, t)
    PROVE  /\ root' \in [Tokens -> Tokens \cup {NoToken}]
           /\ t \notin Generated
           /\ Generated' = Generated \cup {t}
<1>0. TypeOK /\ JobOK(c)
  BY DEF IInv, JobsSound
<1>1. t \in Unused
  BY DEF Generate, Fresh
<1> DEFINE login == IF job[c].op = "login" THEN t ELSE root[job[c].token]
<1>2. login \in Tokens
  <2>1. CASE job[c].op = "login"
    BY <2>1
  <2>2. CASE job[c].op # "login"
    <3>1. job[c].token \in Generated
      BY <1>0, <2>2 DEF JobOK
    <3> QED BY <1>0, <2>2, <3>1 DEF TypeOK, Generated, Unused
  <2> QED BY <2>1, <2>2
<1>3. root' = [root EXCEPT ![t] = login]
  BY DEF Generate
<1> HIDE DEF login
<1>4. root' \in [Tokens -> Tokens \cup {NoToken}]
  BY <1>0, <1>2, <1>3 DEF TypeOK
<1>5. Generated' = Generated \cup {t}
  BY <1>0, <1>2, <1>3, NoTokenAssumption DEF TypeOK, Generated, Unused
<1> QED BY <1>1, <1>4, <1>5 DEF Generated

\* Storing a new token.
LEMMA SetKeySound ==
    ASSUME IInv, NEW c \in Conns, SetKey(c) \/ SetKeyFails(c)
    PROVE  Sound(c)
<1>0. TypeOK /\ JobOK(c) /\ job[c] \in Jobs
  BY DEF IInv, JobsSound, TypeOK
<1>1. /\ pc[c] = "setKey" /\ UNCHANGED <<rows, overdue>>
  BY DEF SetKey, SetKeyFails
<1>2. PICK t \in Tokens : /\ Generate(c, t)
                          /\ keys' \in {keys, keys \cup {t}}
                          /\ SetKey(c) => job' = [job EXCEPT ![c].made = t]
  BY DEF SetKey, SetKeyFails
<1>3. /\ root' \in [Tokens -> Tokens \cup {NoToken}]
      /\ t \notin Generated
      /\ Generated' = Generated \cup {t}
  BY <1>1, <1>2, GenerateOK
<1>4. StoresOK' /\ Aging
  BY <1>0, <1>1, <1>2, <1>3, Halves DEF StoresOK, Aging
<1>5. CASE SetKey(c)
  <2> DEFINE j == [job[c] EXCEPT !.made = t]
  <2>1. j \in Jobs
    BY <1>0 DEF Jobs
  <2>2. job' = [job EXCEPT ![c] = j]
    BY <1>0, <1>2, <1>5 DEF TypeOK
  <2>3. /\ j.op = job[c].op /\ j.token = job[c].token /\ j.made = t
        /\ j.dead = job[c].dead /\ j.stage = job[c].stage
    BY <1>0 DEF Jobs
  <2> HIDE DEF j
  <2>4. Goto(c, "addIndex")
    BY <1>5 DEF SetKey
  <2>5. /\ ControlOK' /\ pc'[c] = "addIndex" /\ job'[c] = j
        /\ \A d \in Conns \ {c} : pc'[d] = pc[d] /\ job'[d] = job[d]
    BY <1>3, <2>1, <2>2, <2>4, GotoOK DEF Labels
  <2>6. job[c].stage = "create"
    BY <1>0, <1>1 DEF JobOK
  <2>7. ~Live(job[c].token) => ~Live(job[c].token)'
    <3>1. job'[c].token = job[c].token /\ job[c].token # t
      BY <1>0, <1>2, <1>3, <2>3, <2>5, NoTokenAssumption DEF JobOK
    <3> QED BY <1>1, <1>2, <3>1 DEF Live
  <2>8. JobOK(c)'
    BY <1>0, <1>3, <2>3, <2>5, <2>6, <2>7 DEF JobOK, Live
  <2> QED BY <1>4, <2>5, <2>8 DEF Sound
<1>6. CASE SetKeyFails(c)
  <2>1. Respond(c, "error", {})
    BY <1>6 DEF SetKeyFails
  <2>2. /\ ControlOK' /\ JobOK(c)'
        /\ \A d \in Conns \ {c} : pc'[d] = pc[d] /\ job'[d] = job[d]
    BY <1>3, <2>1, RespondOK DEF Answers
  <2> QED BY <1>4, <2>2 DEF Sound
<1> QED BY <1>5, <1>6

\* Indexing a new token.
LEMMA AddIndexSound ==
    ASSUME IInv, NEW c \in Conns, AddIndex(c) \/ AddIndexFails(c)
    PROVE  Sound(c)
<1>0. JobOK(c) /\ UNCHANGED <<keys, rows, overdue, root>>
  BY DEF IInv, JobsSound, AddIndex, AddIndexFails
<1>1. CASE AddIndex(c)
  <2>1. StoresOK' /\ Aging /\ Generated' = Generated
    BY <1>0, Shrinks
  <2>2. pc[c] = "addIndex" /\ Goto(c, "insertRow") /\ UNCHANGED job
    BY <1>1 DEF AddIndex
  <2>3. /\ ControlOK' /\ pc'[c] = "insertRow" /\ job'[c] = job[c]
        /\ \A d \in Conns \ {c} : pc'[d] = pc[d] /\ job'[d] = job[d]
    BY <2>1, <2>2, MoveOK DEF Labels
  <2>4. JobOK(c)'
    BY <1>0, <2>1, <2>2, <2>3 DEF JobOK, Live
  <2> QED BY <2>1, <2>3, <2>4 DEF Sound
<1>2. CASE AddIndexFails(c)
  BY <1>0, <1>2, EndSound DEF AddIndexFails, Answers
<1> QED BY <1>1, <1>2

\* Writing the backup row of a new token and sending it.
LEMMA InsertRowSound ==
    ASSUME IInv, NEW c \in Conns, InsertRow(c) \/ InsertRowFails(c)
    PROVE  Sound(c)
<1>0. /\ pc[c] = "insertRow" /\ UNCHANGED <<keys, overdue, root>>
      /\ rows' \in {rows, rows \cup {job[c].made}}
      /\ Respond(c, "ok", {job[c].made})
  BY DEF InsertRow, InsertRowFails
<1>1. TypeOK /\ job[c].made \in Generated
  BY <1>0 DEF IInv, JobsSound, JobOK
<1>2. Generated' = Generated
  BY <1>0, SameTokens
<1>3. StoresOK' /\ Aging
  BY <1>0, <1>1, <1>2, Halves DEF StoresOK, Aging
<1>4. /\ ControlOK' /\ JobOK(c)'
      /\ \A d \in Conns \ {c} : pc'[d] = pc[d] /\ job'[d] = job[d]
  BY <1>0, <1>1, <1>2, RespondOK DEF Answers
<1> QED BY <1>3, <1>4 DEF Sound

\* The process ends under a request.
LEMMA DiesSound ==
    ASSUME IInv, NEW c \in Conns, ProcessDies(c)
    PROVE  Sound(c)
<1>0. TypeOK
  BY DEF IInv
<1>1. StoresOK' /\ Aging /\ Generated' = Generated
  BY Shrinks DEF ProcessDies
<1>2. pc' = [pc EXCEPT ![c] = "idle"] /\ job' = [job EXCEPT ![c] = NoJob]
  BY DEF ProcessDies
<1>3. ControlOK'
  BY <1>0, <1>1, <1>2, MaxFramesAssumption
     DEF ProcessDies, TypeOK, ControlOK, NoJob, Jobs, Types, Stages, Labels,
         Answers, Generated
<1>4. pc'[c] = "idle" /\ job'[c] = NoJob
  BY <1>0, <1>2 DEF TypeOK
<1>5. JobOK(c)'
  BY <1>4 DEF JobOK, NoJob
<1>6. \A d \in Conns \ {c} : pc'[d] = pc[d] /\ job'[d] = job[d]
  BY <1>0, <1>2 DEF TypeOK
<1> QED BY <1>1, <1>3, <1>5, <1>6 DEF Sound

-----------------------------------------------------------------------------
(* The invariant.                                                          *)

\* Whatever a connection does is sound.
LEMMA ConnSound ==
    ASSUME IInv, NEW c \in Conns, Arrive(c) \/ Handle(c) \/ Fail(c)
    PROVE  Sound(c)
<1>1. CASE Arrive(c)
  BY <1>1, ReceiveSound
<1>2. CASE Handle(c)
  BY <1>2, GetSound, DeleteSound, LookupSound, SetKeySound, AddIndexSound,
     InsertRowSound DEF Handle
<1>3. CASE Fail(c)
  BY <1>3, GetSound, DeleteSound, LookupSound, SetKeySound, AddIndexSound,
     InsertRowSound, DiesSound DEF Fail, RedisFails, PostgresFails
<1> QED BY <1>1, <1>2, <1>3

\* Time only ages the stores.
LEMMA TimeOK ==
    ASSUME IInv, NEW t \in Tokens, Lapse(t) \/ RedisExpires(t)
    PROVE  IInv' /\ Aging
<1>0. TypeOK /\ UNCHANGED <<rows, root, told, revoked, pc, job, answer>>
  BY DEF IInv, Lapse, RedisExpires
<1>1. Generated' = Generated
  BY <1>0, SameTokens
<1>2. StoresOK' /\ ControlOK' /\ Aging
  BY <1>0, <1>1, Halves
     DEF Lapse, RedisExpires, StoresOK, ControlOK, Aging, Generated, Unused
<1>3. TypeOK'
  BY <1>2, Halves, PTL
<1>4. JobsSound'
  <2> SUFFICES ASSUME NEW d \in Conns PROVE JobOK(d)'
    BY DEF JobsSound
  <2> QED BY <1>0, <1>2, RestingOK
<1> QED BY <1>2, <1>3, <1>4 DEF IInv

\* Every step preserves the invariant and only ages what was generated.
LEMMA NextIInv == IInv /\ [Next]_vars => IInv' /\ (Aging \/ UNCHANGED vars)
<1> SUFFICES ASSUME IInv, [Next]_vars PROVE IInv' /\ (Aging \/ UNCHANGED vars)
  OBVIOUS
<1>1. ASSUME NEW c \in Conns, Arrive(c) \/ Handle(c) \/ Fail(c)
      PROVE  IInv' /\ Aging
  BY <1>1, ConnSound, SoundStep DEF Sound
<1>2. ASSUME NEW t \in Tokens, Lapse(t) \/ RedisExpires(t)
      PROVE  IInv' /\ Aging
  BY <1>2, TimeOK
<1>3. CASE UNCHANGED vars
  BY <1>3 DEF vars, IInv, TypeOK, JobsSound, JobOK, Live, Generated, Unused
<1> QED BY <1>1, <1>2, <1>3 DEF Next

\* The invariant holds of every behaviour, whatever fails.
THEOREM SessionInvariant == Spec => []IInv
<1>1. IInv /\ [Next]_vars => IInv'
  BY NextIInv
<1> QED BY InitIInv, <1>1, PTL DEF Spec

\* The stores hold generated tokens only, whatever fails between a key and its
\* row (session_service.go:64-86).
THEOREM StoresTyped == Spec => []TypeOK
BY SessionInvariant, PTL DEF IInv

-----------------------------------------------------------------------------
(* Tokens live once.                                                       *)

\* What a step does to the sessions in Redis: nothing, it removes one, or it
\* makes use of a token never used before.
KeyStep == \/ UNCHANGED <<keys, root>>
           \/ \E t \in keys : keys' = keys \ {t} /\ root' = root
           \/ \E t \in Unused :
                 /\ keys' \in {keys, keys \cup {t}}
                 /\ root' \in [Tokens -> Tokens \cup {NoToken}]
                 /\ root'[t] # NoToken
                 /\ \A u \in Tokens \ {t} : root'[u] = root[u]

\* Deleting a key that may be gone.
LEMMA DropStep == \A t : keys' = keys \ {t} /\ root' = root => KeyStep
BY DEF KeyStep

\* Every step is such a step.
LEMMA NextKeyStep == IInv /\ [Next]_vars => KeyStep
<1> SUFFICES ASSUME IInv, [Next]_vars PROVE KeyStep
  OBVIOUS
<1>0. TypeOK
  BY DEF IInv
<1>1. ASSUME NEW c \in Conns, SetKey(c) \/ SetKeyFails(c)
      PROVE  KeyStep
  <2>1. PICK t \in Tokens : Generate(c, t) /\ keys' \in {keys, keys \cup {t}}
    BY <1>1 DEF SetKey, SetKeyFails
  <2>2. pc[c] = "setKey"
    BY <1>1 DEF SetKey, SetKeyFails
  <2>3. root' \in [Tokens -> Tokens \cup {NoToken}] /\ t \in Unused
    BY <2>1, <2>2, GenerateOK DEF Generate, Fresh
  <2>4. root'[t] # NoToken
    BY <2>1, <2>2, GenerateOK DEF Generated, Unused
  <2>5. \A u \in Tokens \ {t} : root'[u] = root[u]
    BY <1>0, <2>1 DEF Generate, TypeOK
  <2> QED BY <2>1, <2>3, <2>4, <2>5 DEF KeyStep
<1>2. ASSUME NEW c \in Conns, DelKey(c) \/ DelKeyFails(c)
      PROVE  KeyStep
  BY <1>2, DropStep DEF DelKey, DelKeyFails, KeyStep
<1>3. ASSUME NEW c \in Conns, Arrive(c) \/ Handle(c) \/ Fail(c)
      PROVE  KeyStep
  <2>1. CASE UNCHANGED <<keys, root>>
    BY <2>1 DEF KeyStep
  <2> QED BY <1>1, <1>2, <1>3, <2>1
          DEF Arrive, Receive, ReceiveLogin, ReceiveValidate, ReceiveRefresh,
              ReceiveLogout, Handle, Fail, RedisFails, PostgresFails,
              FindUser, AddIndex, InsertRow, GetMissing, GetFound, GetExpired,
              DelRow, LoadUser, GetFails, AddIndexFails, LookupFails,
              InsertRowFails, DelRowFails, ProcessDies
<1>4. ASSUME NEW t \in Tokens, Lapse(t) \/ RedisExpires(t)
      PROVE  KeyStep
  BY <1>4, DropStep DEF Lapse, RedisExpires, KeyStep
<1>5. CASE UNCHANGED vars
  BY <1>5 DEF vars, KeyStep
<1> QED BY <1>3, <1>4, <1>5 DEF Next

Life == [t \in Tokens |-> IF root[t] = NoToken THEN "unborn"
                          ELSE IF t \in keys THEN "live" ELSE "dead"]

\* A step is at most one event in the life of one token.
LEMMA LifeStep == IInv /\ KeyStep => [Lives!Next]_Life
<1> SUFFICES ASSUME IInv, KeyStep PROVE [Lives!Next]_Life
  OBVIOUS
<1>0. TypeOK
  BY DEF IInv
<1>1. CASE UNCHANGED <<keys, root>>
  BY <1>1 DEF Life
<1>2. ASSUME NEW t \in keys, keys' = keys \ {t}, root' = root
      PROVE  [Lives!Next]_Life
  <2>1. t \in Tokens /\ root[t] # NoToken
    BY <1>0 DEF TypeOK, Unused
  <2>2. Life[t] = "live"
    BY <2>1 DEF Life
  <2>3. Life' = [Life EXCEPT ![t] = "dead"]
    BY <1>2, <2>1 DEF Life
  <2> QED BY <2>1, <2>2, <2>3 DEF Lives!Next, Lives!End, Life
<1>3. ASSUME NEW t \in Unused, keys' \in {keys, keys \cup {t}},
             root'[t] # NoToken, \A u \in Tokens \ {t} : root'[u] = root[u]
      PROVE  [Lives!Next]_Life
  <2>1. t \in Tokens /\ root[t] = NoToken /\ t \notin keys
    BY <1>0 DEF TypeOK, Unused
  <2>2. Life[t] = "unborn"
    BY <2>1 DEF Life
  <2>3. CASE keys' = keys
    <3>1. Life' = [Life EXCEPT ![t] = "dead"]
      BY <1>3, <2>1, <2>3 DEF Life
    <3> QED BY <2>1, <2>2, <3>1 DEF Lives!Next, Lives!Waste, Life
  <2>4. CASE keys' = keys \cup {t}
    <3>1. Life' = [Life EXCEPT ![t] = "live"]
      BY <1>3, <2>1, <2>4 DEF Life
    <3> QED BY <2>1, <2>2, <3>1 DEF Lives!Next, Lives!Issue, Life
  <2> QED BY <1>3, <2>3, <2>4
<1> QED BY <1>1, <1>2, <1>3 DEF KeyStep

\* Whatever fails, a token is a session at most once: deleted, refreshed away
\* or expired, it never names one again (session_service.go:39-45, 64-67).
THEOREM TokensLiveOnce == Spec => LivesSpec
<1>1. Init => Lives!Init
  BY DEF Init, Lives!Init
<1>2. IInv /\ [Next]_vars => [Lives!Next]_Life
  BY NextKeyStep, LifeStep
<1> QED BY <1>1, <1>2, SessionInvariant, PTL
       DEF Spec, LivesSpec, Lives!Spec, Life

-----------------------------------------------------------------------------
(* Who is vouched for.                                                     *)

\* What a client sees when its request ends in a response.
LEMMA ResponseSeen ==
    ASSUME IInv, NEW c \in Conns, NEW w \in Answers, NEW G, Respond(c, w, G)
    PROVE  answer'[c] \in {w, "lost"}
BY DEF IInv, TypeOK, Respond

\* A goroutine that goes on does not end its request.
LEMMA GotoGoesOn ==
    ASSUME IInv, NEW c \in Conns, NEW label \in Labels \ {"idle"},
           Goto(c, label)
    PROVE  pc'[c] # "idle"
BY DEF IInv, TypeOK, Goto

\* A connection answers "valid" from the user lookup of a validate only.
LEMMA ValidFromLookup ==
    ASSUME IInv, NEW c \in Conns, Arrive(c) \/ Handle(c) \/ Fail(c),
           Finishes(c), answer'[c] = "valid"
    PROVE  pc[c] = "loadUser"
<1>1. ~Arrive(c)
  BY DEF Arrive, Receive, ReceiveLogin, ReceiveValidate, ReceiveRefresh,
         ReceiveLogout, Finishes
<1>2. ~Goto(c, "get") /\ ~Goto(c, "delKey") /\ ~Goto(c, "delRow")
      /\ ~Goto(c, "setKey") /\ ~Goto(c, "addIndex") /\ ~Goto(c, "insertRow")
      /\ ~Goto(c, "loadUser")
  BY GotoGoesOn DEF Labels, Finishes
<1>3. ~Reject(c) /\ \A G : ~Respond(c, "ok", G) /\ ~Respond(c, "error", G)
  BY ResponseSeen DEF Reject, Answers
<1>4. ~NotFound(c) /\ ~Return(c)
  BY <1>2, <1>3 DEF NotFound, Return
<1>5. ~ProcessDies(c)
  BY DEF ProcessDies, IInv, TypeOK
<1>6. Handle(c) => LoadUser(c)
  BY <1>2, <1>3, <1>4
     DEF Handle, FindUser, SetKey, AddIndex, InsertRow, GetMissing, GetFound,
         GetExpired, DelKey, DelRow
<1>7. ~Fail(c)
  BY <1>2, <1>3, <1>4, <1>5
     DEF Fail, RedisFails, PostgresFails, GetFails, DelKeyFails, SetKeyFails,
         AddIndexFails, LookupFails, InsertRowFails, DelRowFails
<1> QED BY <1>1, <1>6, <1>7 DEF LoadUser

\* Whatever fails, nobody is vouched for by a token that had expired or been
\* revoked before the question was asked (session_service.go:98-102).
THEOREM DeadTokensRefused == Spec => DeadNeverValid
<1>1. IInv /\ [Next]_vars =>
        [\A c \in Conns :
            Finishes(c) /\ answer'[c] = "valid" => ~job[c].dead]_vars
  <2> SUFFICES ASSUME IInv, Next, NEW c \in Conns,
                      Finishes(c), answer'[c] = "valid"
               PROVE  ~job[c].dead
    OBVIOUS
  <2>1. ASSUME NEW d \in Conns, Arrive(d) \/ Handle(d) \/ Fail(d)
        PROVE  ~job[c].dead
    <3>1. CASE d = c
      <4>1. pc[c] = "loadUser" /\ JobOK(c)
        BY <2>1, <3>1, ValidFromLookup DEF IInv, JobsSound
      <4> QED BY <4>1 DEF JobOK
    <3>2. CASE d # c
      <4>1. pc'[c] = pc[c]
        BY <2>1, <3>2, ConnSound DEF Sound
      <4> QED BY <4>1 DEF Finishes
    <3> QED BY <3>1, <3>2
  <2>2. ~ \E t \in Tokens : Lapse(t) \/ RedisExpires(t)
    BY DEF Lapse, RedisExpires, Finishes
  <2> QED BY <2>1, <2>2 DEF Next
<1> QED BY <1>1, SessionInvariant, PTL DEF Spec, DeadNeverValid

-----------------------------------------------------------------------------
(* A revoked session stays revoked, as long as Redis answers.  That no     *)
(* revoked token is in Redis is not inductive alone: a goroutine past its  *)
(* DEL relies on the key being gone, which RevokedInv says.                *)

\* The goroutine of c has deleted the key of its token.
Past(c) == \/ pc[c] = "delRow"
           \/ job[c].op = "refresh" /\ job[c].stage = "create"

\* Only a goroutine past its DEL answers that a token was revoked.
LEMMA RevokedGrows ==
    ASSUME IInv, NEW c \in Conns, Arrive(c) \/ Handle(c) \/ Fail(c)
    PROVE  \/ revoked' = revoked
           \/ revoked' = revoked \cup {job[c].token} /\ Past(c)
<1>0. JobOK(c)
  BY DEF IInv, JobsSound
<1>1. ASSUME NEW label, Goto(c, label) PROVE revoked' = revoked
  BY <1>1 DEF Goto
<1>2. ASSUME NEW w, NEW G, Respond(c, w, G), w # "ok"
      PROVE  revoked' = revoked
  BY <1>2 DEF Respond
<1>3. ASSUME Reject(c) PROVE revoked' = revoked
  BY <1>2, <1>3 DEF Reject
<1>4. ASSUME Return(c), pc[c] = "delRow"
      PROVE  \/ revoked' = revoked
             \/ revoked' = revoked \cup {job[c].token} /\ Past(c)
  BY <1>1, <1>3, <1>4 DEF Return, Respond, Past
<1>5. ASSUME InsertRow(c) \/ InsertRowFails(c)
      PROVE  \/ revoked' = revoked
             \/ revoked' = revoked \cup {job[c].token} /\ Past(c)
  <2>1. job[c].op # "logout"
    BY <1>0, <1>5 DEF InsertRow, InsertRowFails, JobOK
  <2>2. job[c].op = "refresh" => Past(c)
    BY <1>0, <1>5 DEF InsertRow, InsertRowFails, JobOK, Past
  <2> QED BY <1>5, <2>1, <2>2 DEF InsertRow, InsertRowFails, Respond
<1>6. CASE Arrive(c)
  BY <1>6 DEF Arrive, Receive, ReceiveLogin, ReceiveValidate, ReceiveRefresh,
              ReceiveLogout
<1>7. CASE Handle(c)
  BY <1>1, <1>2, <1>3, <1>4, <1>5, <1>7
     DEF Handle, FindUser, SetKey, AddIndex, GetMissing, GetFound, GetExpired,
         DelKey, DelRow, LoadUser, NotFound
<1>8. CASE Fail(c)
  BY <1>1, <1>2, <1>3, <1>4, <1>5, <1>8
     DEF Fail, RedisFails, PostgresFails, GetFails, DelKeyFails, SetKeyFails,
         AddIndexFails, LookupFails, DelRowFails, NotFound, ProcessDies
<1> QED BY <1>6, <1>7, <1>8

\* A goroutine gets past its DEL by sending it; if Redis fails it may not have
\* deleted anything.
LEMMA PastStep ==
    ASSUME IInv, "redis" \notin Faults,
           NEW c \in Conns, Arrive(c) \/ Handle(c) \/ Fail(c), Past(c)'
    PROVE  /\ job'[c].token = job[c].token
           /\ Past(c) \/ job[c].token \notin keys'
<1>0. TypeOK /\ JobOK(c) /\ job[c] \in Jobs
  BY DEF IInv, JobsSound, TypeOK
<1>1. ~(pc'[c] = "idle" /\ job'[c] = NoJob)
  BY DEF Past, NoJob
<1>2. ~Reject(c) /\ \A w, G : ~Respond(c, w, G)
  BY <1>0, <1>1 DEF Reject, Respond, TypeOK
<1>3. ~Fail(c) \/ DelRowFails(c)
  BY <1>0, <1>1, <1>2
     DEF Fail, RedisFails, PostgresFails, LookupFails, InsertRowFails,
         ProcessDies, TypeOK
<1>4. ~Arrive(c)
  <2>1. ASSUME NEW op, NEW t, NEW first, NEW stage, NEW frames,
               Receive(c, op, t, first, stage, frames)
        PROVE  /\ pc'[c] = first /\ job'[c].op = op /\ job'[c].stage = stage
    BY <1>0, <2>1, NewJobFields DEF Receive, TypeOK
  <2> QED BY <2>1 DEF Arrive, ReceiveLogin, ReceiveValidate, ReceiveRefresh,
                      ReceiveLogout, Past
<1>5. CASE UNCHANGED job
  <2>1. pc[c] = "delRow" \/ pc'[c] = "delRow" => Past(c) \/ DelKey(c)
    BY <1>0, <1>2, <1>3, <1>4, <1>5
       DEF Handle, FindUser, SetKey, AddIndex, InsertRow, GetMissing, GetFound,
           GetExpired, DelRow, LoadUser, NotFound, Return, Goto, Past, TypeOK,
           DelRowFails
  <2> QED BY <1>5, <2>1 DEF DelKey, Past
<1>7. CASE DelRow(c) \/ DelRowFails(c)
  <2>1. pc[c] = "delRow" /\ Return(c)
    BY <1>7 DEF DelRow, DelRowFails
  <2>2. job'[c].token = job[c].token
    BY <1>0, <1>2, <2>1, AtFields DEF Return, TypeOK, Jobs, Stages
  <2> QED BY <2>1, <2>2 DEF Past
<1>8. CASE GetExpired(c)
  <2>1. job'[c].token = job[c].token /\ job'[c].op = job[c].op
        /\ job'[c].stage = job[c].stage
    BY <1>0, <1>8 DEF GetExpired, TypeOK, Jobs
  <2>2. pc'[c] = "get"
    BY <1>0, <1>8 DEF GetExpired, Goto, TypeOK
  <2> QED BY <2>1, <2>2 DEF Past
<1>9. CASE SetKey(c)
  <2>1. PICK t \in Tokens : job' = [job EXCEPT ![c].made = t]
    BY <1>9 DEF SetKey
  <2>2. job'[c].token = job[c].token /\ job'[c].op = job[c].op
        /\ job'[c].stage = job[c].stage
    BY <1>0, <2>1 DEF TypeOK, Jobs
  <2>3. pc'[c] = "addIndex"
    BY <1>0, <1>9 DEF SetKey, Goto, TypeOK
  <2> QED BY <2>2, <2>3 DEF Past
<1>10. CASE LoadUser(c)
  <2>1. PICK stage \in {"renew", "drop"}, frames \in {0, 1} :
            job' = [job EXCEPT ![c] = At(c, stage, frames)]
    BY <1>2, <1>10 DEF LoadUser
  <2>2. job'[c].stage # "create" /\ pc'[c] = "get"
    <3>1. stage \in Stages /\ stage # "create"
      BY DEF Stages
    <3>2. pc'[c] = "get"
      BY <1>0, <1>2, <1>10 DEF LoadUser, Goto, TypeOK
    <3>3. job'[c] = At(c, stage, frames)
      BY <1>0, <2>1 DEF TypeOK
    <3> QED BY <1>0, <3>1, <3>2, <3>3, AtFields
  <2> QED BY <2>2 DEF Past
<1>11. CASE UNCHANGED job \/ DelRow(c) \/ DelRowFails(c) \/ GetExpired(c)
            \/ SetKey(c) \/ LoadUser(c)
  BY <1>5, <1>7, <1>8, <1>9, <1>10, <1>11
<1> QED BY <1>2, <1>3, <1>4, <1>11
       DEF Handle, FindUser, AddIndex, InsertRow, GetMissing, GetFound, DelKey,
           NotFound

\* RevokedInv, with Past.
LEMMA RevokedInvPast ==
    RevokedInv <=> /\ RevokedIsGone
                   /\ revoked \subseteq Generated \cup {NoToken}
                   /\ \A c \in Conns : Past(c) => job[c].token \notin keys
BY DEF RevokedInv, Past

\* As long as Redis answers, a step keeps revoked tokens out of it.
LEMMA RevokedStep ==
    ASSUME "redis" \notin Faults, IInv, RevokedInv, [Next]_vars
    PROVE  RevokedInv'
<1>0. TypeOK /\ TypeOK' /\ (Aging \/ UNCHANGED vars)
  BY NextIInv DEF IInv
<1>1. /\ RevokedIsGone /\ revoked \subseteq Generated \cup {NoToken}
      /\ \A c \in Conns : Past(c) => job[c].token \notin keys
  BY RevokedInvPast
<1>2. ASSUME NEW t \in Generated \cup {NoToken}, t \notin keys, Aging
      PROVE  t \notin keys'
  BY <1>0, <1>2, NoTokenAssumption DEF Aging, TypeOK
<1>3. ASSUME NEW c \in Conns PROVE job[c].token \in Generated \cup {NoToken}
  BY DEF IInv, JobsSound, JobOK
<1>4. ASSUME NEW c \in Conns, Arrive(c) \/ Handle(c) \/ Fail(c)
      PROVE  RevokedInv'
  <2>1. Sound(c) /\ Aging
    BY <1>4, ConnSound DEF Sound
  <2>2. revoked' \subseteq Generated \cup {NoToken} /\ revoked' \cap keys = {}
    BY <1>1, <1>3, <1>4, RevokedGrows DEF RevokedIsGone
  <2>3. revoked' \cap keys' = {}
    BY <1>2, <2>1, <2>2
  <2>4. revoked' \subseteq Generated' \cup {NoToken}
    BY <2>1, <2>2 DEF Aging
  <2>5. ASSUME NEW d \in Conns, Past(d)' PROVE job'[d].token \notin keys'
    <3>1. CASE d = c
      <4>1. /\ job'[d].token = job[d].token
            /\ Past(d) \/ job[d].token \notin keys'
        BY <1>4, <2>5, <3>1, PastStep
      <4> QED BY <1>1, <1>2, <1>3, <2>1, <4>1
    <3>2. CASE d # c
      <4>1. pc'[d] = pc[d] /\ job'[d] = job[d]
        BY <2>1, <3>2 DEF Sound
      <4>2. Past(d)
        BY <2>5, <4>1 DEF Past
      <4> QED BY <1>1, <1>2, <1>3, <2>1, <4>1, <4>2
    <3> QED BY <3>1, <3>2
  <2> QED BY <2>3, <2>4, <2>5 DEF RevokedInv, RevokedIsGone, Past
<1>5. ASSUME NEW t \in Tokens, Lapse(t) \/ RedisExpires(t)
      PROVE  RevokedInv'
  <2>1. UNCHANGED <<root, revoked, pc, job>> /\ keys' \subseteq keys
    BY <1>5 DEF Lapse, RedisExpires
  <2> QED BY <1>1, <2>1
          DEF RevokedInv, RevokedIsGone, Past, Generated, Unused
<1>6. CASE UNCHANGED vars
  BY <1>6 DEF vars, RevokedInv, RevokedIsGone, Generated, Unused
<1> QED BY <1>4, <1>5, <1>6 DEF Next

\* As long as Redis answers, the token of a logout or of a refresh answered
\* success is no session, then or ever, whatever PostgreSQL, the process and
\* the other connections do (session_service.go:112-141).
THEOREM LogoutRevokes ==
    "redis" \notin Faults => (Spec => [](RevokedIsGone /\ RevokedInv))
<1> SUFFICES ASSUME "redis" \notin Faults
             PROVE  Spec => [](RevokedIsGone /\ RevokedInv)
  OBVIOUS
<1>1. Init => RevokedInv
  BY DEF Init, RevokedInv, RevokedIsGone, NoJob
<1>2. IInv /\ RevokedInv /\ [Next]_vars => RevokedInv'
  BY RevokedStep
<1>3. RevokedInv => RevokedIsGone
  BY DEF RevokedInv
<1> QED BY <1>1, <1>2, <1>3, SessionInvariant, PTL DEF Spec
=============================================================================
