-------------------------- MODULE ConnectionProofs --------------------------
(***************************************************************************)
(* Proofs about AuthConnections, for any set of connections.               *)
(***************************************************************************)
EXTENDS AuthConnections, TLAPS

\* Registering keeps NoneClosed only because the socket is still open, which
\* Opened adds; Tracked and NoneClosed need no more.
IInv == TypeOK /\ Tracked /\ NoneClosed /\ Opened

LEMMA InitialConnections == Init => IInv
<1> SUFFICES ASSUME Init
             PROVE  IInv
    OBVIOUS
<1>1. TypeOK
  <2>1. lines \in [Conns -> 0..MaxLines]
    <3>1. 0 \in 0..MaxLines
          BY MaxLinesAssumption DEF MaxLinesAssumption
    <3> QED
        BY <3>1 DEF Init
  <2> QED
      BY <2>1 DEF Init, TypeOK, Labels, Phases
<1>2. Tracked /\ NoneClosed /\ Opened
      BY DEF Init, Tracked, NoneClosed, Opened
<1> QED
    BY <1>1, <1>2 DEF IInv

\* The goroutine of one connection takes a step.
LEMMA GoroutineSteps ==
    ASSUME IInv, NEW c \in Conns, Goroutine(c)
    PROVE  IInv'
<1> USE MaxLinesAssumption
        DEF MaxLinesAssumption, IInv, TypeOK, Tracked, NoneClosed, Opened,
            Goto, Labels, Phases
<1>1. CASE Register(c)
      BY <1>1 DEF Register
<1>2. CASE Scan(c)
      BY <1>2 DEF Scan
<1>3. CASE ScanEnds(c)
      BY <1>3 DEF ScanEnds
<1>4. CASE Touch(c)
      BY <1>4 DEF Touch
<1>5. CASE Respond(c)
      BY <1>5 DEF Respond
<1>6. CASE Deregister(c)
      BY <1>6 DEF Deregister
<1>7. CASE CloseConn(c)
      BY <1>7 DEF CloseConn
<1> QED
    BY <1>1, <1>2, <1>3, <1>4, <1>5, <1>6, <1>7 DEF Goroutine

\* A connection is accepted, or its client or the clock takes a step.
LEMMA ClientSteps ==
    ASSUME IInv, NEW c \in Conns, Accept(c) \/ Client(c)
    PROVE  IInv'
<1> USE MaxLinesAssumption
        DEF MaxLinesAssumption, IInv, TypeOK, Tracked, NoneClosed, Opened,
            Goto, Labels, Phases
<1>1. CASE Accept(c)
      BY <1>1 DEF Accept
<1>2. CASE SendLine(c)
      BY <1>2 DEF SendLine
<1>3. CASE HangUp(c)
      BY <1>3 DEF HangUp
<1>4. CASE GrowStale(c)
      BY <1>4 DEF GrowStale
<1> QED
    BY <1>1, <1>2, <1>3, <1>4 DEF Client

\* The cleanup goroutine or main takes a step.
LEMMA ServerSteps ==
    ASSUME IInv, Cleanup \/ Signal \/ Main
    PROVE  IInv'
<1> USE DEF IInv, TypeOK, Tracked, NoneClosed, Opened, Labels, Phases
<1>1. CASE Cleanup
      BY <1>1 DEF Cleanup
<1>2. CASE Signal
      BY <1>2 DEF Signal
<1>3. CASE CloseListener
      BY <1>3 DEF CloseListener
<1>4. CASE Close
      BY <1>4 DEF Close
<1>5. CASE Exit
      BY <1>5 DEF Exit
<1> QED
    BY <1>1, <1>2, <1>3, <1>4, <1>5 DEF Main

\* However the goroutines, the cleanup and the shutdown interleave, every socket
\* that is still served is in the map, and the map holds no closed one
\* (main.go:157-180, 250-274).
THEOREM SocketsTracked == Spec => [](TypeOK /\ Tracked /\ NoneClosed)
<1>1. Init => IInv
      BY InitialConnections
<1>2. IInv /\ [Next]_vars => IInv'
  <2> SUFFICES ASSUME IInv, [Next]_vars
               PROVE  IInv'
      OBVIOUS
  <2>1. CASE Next
        BY <2>1, GoroutineSteps, ClientSteps, ServerSteps DEF Next
  <2>2. CASE UNCHANGED vars
        BY <2>2 DEF vars, IInv, TypeOK, Tracked, NoneClosed, Opened
  <2> QED
      BY <2>1, <2>2
<1>3. IInv => TypeOK /\ Tracked /\ NoneClosed
      BY DEF IInv
<1> QED
    BY <1>1, <1>2, <1>3, PTL DEF Spec

\* The map and the sockets keep their types; LastSeen is only known of
\* connections that are open (main.go:157-180).
THEOREM ConnectionsTyped == Spec => []TypeOK
BY SocketsTracked, PTL

\* No entry of the map is a closed socket: the cleanup and Close close no socket
\* twice and leave none behind (main.go:250-274).
THEOREM NoClosedEntries == Spec => []NoneClosed
BY SocketsTracked, PTL
=============================================================================
