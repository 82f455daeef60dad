-------------------------- MODULE AuthConnections ---------------------------
(***************************************************************************)
(* The connections of the TCP authentication server (main.go): the accept  *)
(* loop, a goroutine per connection, the goroutine that closes stale       *)
(* connections every five minutes, and the shutdown.  The map              *)
(* Server.connections is shared under Server.mu: what is done with the     *)
(* mutex held is one step.  What a request does is in AuthSessions.        *)
(***************************************************************************)
EXTENDS Integers, FiniteSets

CONSTANTS Conns,     \* the connections clients may open, each once
          MaxLines   \* bound: lines sent on a connection and not yet read

ASSUME MaxLinesAssumption == MaxLines \in Nat

VARIABLES
    connections,  \* Server.connections: the registered ones
    isNil,        \* Close has set it to nil
    open,         \* the connections whose socket the server has not closed
    gone,         \* those whose client has closed its end
    stale,        \* those whose LastSeen is more than 30 minutes ago
    lines,        \* the lines a client has sent that are not yet read
    pc,           \* where the goroutine of a connection is
    server        \* where main is

vars == <<connections, isNil, open, gone, stale, lines, pc, server>>

\* none: not accepted; started: before it registers; scan: waiting for a line;
\* read: has one, LastSeen is still the last one's; handle: in HandleRequest;
\* leave, close: in the deferred function.
Labels == {"none", "started", "scan", "read", "handle", "leave", "close", "done"}

\* serving; cancelled: the context is done, the listener open; closed: the
\* listener too; swept: Close has released the map; ended: main has returned;
\* panicked: the process has died.
Phases == {"serving", "cancelled", "closed", "swept", "ended", "panicked"}

Up == server \notin {"ended", "panicked"}

Init == /\ connections = {}
        /\ isNil = FALSE
        /\ open = {}
        /\ gone = {}
        /\ stale = {}
        /\ lines = [c \in Conns |-> 0]
        /\ pc = [c \in Conns |-> "none"]
        /\ server = "serving"

Goto(c, label) == pc' = [pc EXCEPT ![c] = label]

-----------------------------------------------------------------------------
(* The accept loop and a connection's goroutine.                           *)

\* The listener still accepts between cancel() and listener.Close().
Accept(c) ==
    /\ server \in {"serving", "cancelled"}
    /\ pc[c] = "none"
    /\ open' = open \cup {c}
    /\ Goto(c, "started")
    /\ UNCHANGED <<connections, isNil, gone, stale, lines, server>>

\* Assigning to an entry of a nil map panics, and takes the process along.
Register(c) ==
    /\ pc[c] = "started"
    /\ \/ /\ ~isNil
          /\ connections' = connections \cup {c}
          /\ Goto(c, "scan")
          /\ UNCHANGED server
       \/ /\ isNil
          /\ server' = "panicked"
          /\ UNCHANGED <<connections, pc>>
    /\ UNCHANGED <<isNil, open, gone, stale, lines>>

\* A fault: the end of the input is taken for one more line.
ScanPastEnd(c) ==
    /\ pc[c] = "scan"
    /\ lines' = [lines EXCEPT ![c] = @ - 1]
    /\ Goto(c, "read")
    /\ UNCHANGED <<connections, isNil, open, gone, stale, server>>

\* scanner.Scan() returns a line.  Lines already in its buffer are returned
\* even when the client is gone or the cleanup has closed the socket.
Scan(c) ==
    /\ pc[c] = "scan"
    /\ lines[c] > 0
    /\ lines' = [lines EXCEPT ![c] = @ - 1]
    /\ Goto(c, "read")
    /\ UNCHANGED <<connections, isNil, open, gone, stale, server>>

\* End of file, a reset, a socket closed by the server, or a line longer than
\* the scanner takes.
ScanEnds(c) ==
    /\ pc[c] = "scan"
    /\ c \notin open \ gone \/ lines[c] > 0
    /\ Goto(c, "leave")
    /\ UNCHANGED <<connections, isNil, open, gone, stale, lines, server>>

\* LastSeen is now.  An empty line, or one that is not JSON, starts no request,
\* and whether its answer could be sent is not looked at.
Touch(c) ==
    /\ pc[c] = "read"
    /\ stale' = stale \ {c}
    /\ \/ Goto(c, "handle")
       \/ Goto(c, "scan")
    /\ UNCHANGED <<connections, isNil, open, gone, lines, server>>

\* sendResponse fails on a closed socket, and may on a client that is gone.
Respond(c) ==
    /\ pc[c] = "handle"
    /\ \/ c \in open /\ Goto(c, "scan")
       \/ c \notin open \ gone /\ Goto(c, "leave")
    /\ UNCHANGED <<connections, isNil, open, gone, stale, lines, server>>

\* A fault: the deferred function only closes the socket.
DeregisterSkipped(c) ==
    /\ pc[c] = "leave"
    /\ Goto(c, "close")
    /\ UNCHANGED <<connections, isNil, open, gone, stale, lines, server>>

\* The deferred function: delete from the map (a nil map allows it) ...
Deregister(c) ==
    /\ pc[c] = "leave"
    /\ connections' = connections \ {c}
    /\ Goto(c, "close")
    /\ UNCHANGED <<isNil, open, gone, stale, lines, server>>

\* ... and close the socket, which may be closed already.
CloseConn(c) ==
    /\ pc[c] = "close"
    /\ open' = open \ {c}
    /\ Goto(c, "done")
    /\ UNCHANGED <<connections, isNil, gone, stale, lines, server>>

-----------------------------------------------------------------------------
(* The clients, and time.                                                  *)

SendLine(c) ==
    /\ c \in open \ gone
    /\ lines[c] < MaxLines
    /\ lines' = [lines EXCEPT ![c] = @ + 1]
    /\ UNCHANGED <<connections, isNil, open, gone, stale, pc, server>>

HangUp(c) ==
    /\ c \in open \ gone
    /\ gone' = gone \cup {c}
    /\ UNCHANGED <<connections, isNil, open, stale, lines, pc, server>>

\* Half an hour passes without LastSeen being set: no line came, or the
\* request it brought is still being handled.
GrowStale(c) ==
    /\ c \in connections \ stale
    /\ stale' = stale \cup {c}
    /\ UNCHANGED <<connections, isNil, open, gone, lines, pc, server>>

-----------------------------------------------------------------------------
(* The cleanup goroutine, and the shutdown.                                *)

\* A fault: a stale connection is forgotten, its socket left open.
CleanupForgets ==
    /\ connections \cap stale # {}
    /\ connections' = connections \ stale
    /\ UNCHANGED <<isNil, open, gone, stale, lines, pc, server>>

\* One tick of the ticker that finds something to do.  Once the context is
\* done the goroutine may still choose a tick that is ready as well.
Cleanup ==
    /\ connections \cap stale # {}
    /\ open' = open \ (connections \cap stale)
    /\ connections' = connections \ stale
    /\ UNCHANGED <<isNil, gone, stale, lines, pc, server>>

\* SIGINT or SIGTERM: cancel(), then listener.Close().
Signal ==
    /\ server = "serving"
    /\ server' = "cancelled"
    /\ UNCHANGED <<connections, isNil, open, gone, stale, lines, pc>>

CloseListener ==
    /\ server = "cancelled"
    /\ server' = "closed"
    /\ UNCHANGED <<connections, isNil, open, gone, stale, lines, pc>>

\* Server.Close(), in main, after the accept loop has returned.
Close ==
    /\ server = "closed"
    /\ open' = open \ connections
    /\ connections' = {}
    /\ isNil' = TRUE
    /\ server' = "swept"
    /\ UNCHANGED <<gone, stale, lines, pc>>

\* The database clients are closed, and main returns.
Exit ==
    /\ server = "swept"
    /\ server' = "ended"
    /\ UNCHANGED <<connections, isNil, open, gone, stale, lines, pc>>

-----------------------------------------------------------------------------
Goroutine(c) ==
    \/ Register(c) \/ Scan(c) \/ ScanEnds(c) \/ Touch(c)
    \/ Respond(c) \/ Deregister(c) \/ CloseConn(c)

Client(c) == SendLine(c) \/ HangUp(c) \/ GrowStale(c)

Main == CloseListener \/ Close \/ Exit

Next == /\ Up
        /\ \/ \E c \in Conns : Accept(c) \/ Goroutine(c) \/ Client(c)
           \/ Cleanup
           \/ Signal
           \/ Main

Spec == Init /\ [][Next]_vars

\* The Go scheduler runs every goroutine that can run, and the ticker ticks.
FairSpec == /\ Spec
            /\ \A c \in Conns : WF_vars(Up /\ Goroutine(c))
            /\ WF_vars(Up /\ Cleanup)

-----------------------------------------------------------------------------
TypeOK ==
    /\ connections \subseteq Conns
    /\ isNil \in BOOLEAN
    /\ open \subseteq Conns
    /\ gone \subseteq Conns
    /\ stale \subseteq Conns
    /\ lines \in [Conns -> 0..MaxLines]
    /\ pc \in [Conns -> Labels]
    /\ server \in Phases

\* A goroutine that still serves an open socket has it in the map: nothing that
\* takes an entry out of the map, the cleanup every five minutes and Close among
\* them, leaves a socket that no one will ever close.
Tracked ==
    \A c \in open : pc[c] \in {"scan", "read", "handle"} => c \in connections

\* The map holds no entry of a goroutine that has left: an entry is taken out
\* before its socket is closed, so neither the cleanup nor Close is ever given a
\* connection that was closed behind its back.
NoneClosed ==
    \A c \in connections : c \in open /\ pc[c] \notin {"none", "started", "close", "done"}

\* A goroutine that has not registered yet has its socket open: nothing closes
\* what is not in the map.
Opened == \A c \in Conns : pc[c] = "started" => c \in open

\* While the server serves, a connection whose client has gone or has been
\* silent for half an hour is released: its goroutine ends, and with it its
\* entry and its socket; unless a line of the client came in between.
Released ==
    \A c \in Conns :
        (pc[c] # "none" /\ c \in gone \cup stale)
            ~> (pc[c] = "done" \/ c \notin gone \cup stale \/ server # "serving")

\* The comment of the shutdown (main.go:127) calls it graceful: the process ends
\* by returning from main, and no goroutine panics on the way.
NoPanic == server # "panicked"
=============================================================================
