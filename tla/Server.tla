------------------------------- MODULE Server -------------------------------
(***************************************************************************)
(* net::Server: Start and Stop by a controlling thread, one accept loop    *)
(* per listener and one session per connection, the latter coroutines that *)
(* the network workers resume while io_context_ runs.  A coroutine runs    *)
(* from one co_await to the next in one step, except where the controlling *)
(* thread can see it halfway: the first statements of a session.           *)
(*                                                                         *)
(* External: the kernel's listen queue, and that Asio completes pending    *)
(* operations of a closed socket or acceptor with an error and resumes     *)
(* nothing after io_context_.stop().  What a session is answered with is   *)
(* the router's affair; here only whether the connection stays open is.    *)
(***************************************************************************)
EXTENDS Integers, FiniteSets

CONSTANTS Conns,        \* client connections
          TlsConns,     \* those made to the HTTPS port
          Enabled,      \* the listeners the configuration enables
          MaxStarts,    \* bound on the number of calls of Start
          AcceptErrors, \* whether async_accept may fail on an open acceptor
          NoConn        \* no connection

Protocols == {"http", "https"}

ASSUME ServerAssumption ==
    /\ TlsConns \subseteq Conns
    /\ Enabled \subseteq Protocols
    /\ MaxStarts \in Nat
    /\ AcceptErrors \in BOOLEAN
    /\ NoConn \notin Conns

\* A restart spawns new accept loops while those of the previous start may
\* still be suspended: a loop is known by its protocol and its start.
Loops == Protocols \X (1 .. MaxStarts)

Protocol(c) == IF c \in TlsConns THEN "https" ELSE "http"

VARIABLES
    control,   \* where Start or Stop stands
    starts,    \* how often Start has launched the coroutines
    started,   \* started_
    listening, \* the acceptors that are open
    running,   \* the workers run io_context_
    loop,      \* loop[l]: where an accept loop stands
    accepted,  \* accepted[l]: the connection async_accept has completed with
    session,   \* session[c]: where a connection and its session stand
    open,      \* the connections whose socket the server holds open
    sessions   \* sessions_

vars == <<control, starts, started, listening, running, loop, accepted, session, open, sessions>>

\* A session's life between RegisterSession and UnregisterSession.
Live == {"spawned", "moved", "handshake", "reading", "handling", "writing", "limit"}

ControlTypeOK ==
    /\ control \in {"stopped", "listenHttp", "configureTls", "listenHttps", "launch", "running",
                    "closeHttp", "closeHttps", "closeSessions", "wait", "stopContext"}
    /\ starts \in 0 .. MaxStarts
    /\ started \in BOOLEAN
    /\ listening \subseteq Protocols
    /\ running \in BOOLEAN

LoopTypeOK ==
    /\ loop \in [Loops -> {"none", "spawned", "accepting", "completed", "failed", "ended"}]
    /\ accepted \in [Loops -> Conns \cup {NoConn}]

SessionTypeOK ==
    /\ session \in [Conns -> {"none", "backlog", "accepted", "ended"} \cup Live]
    /\ open \subseteq Conns
    /\ sessions \subseteq Conns

\* Type invariant.  Nothing but an accepted connection is ever registered.
TypeOK == ControlTypeOK /\ LoopTypeOK /\ SessionTypeOK

Init ==
    /\ control = "stopped"
    /\ starts = 0
    /\ started = FALSE
    /\ listening = {}
    /\ running = FALSE
    /\ loop = [l \in Loops |-> "none"]
    /\ accepted = [l \in Loops |-> NoConn]
    /\ session = [c \in Conns |-> "none"]
    /\ open = {}
    /\ sessions = {}

controlVars == <<control, starts, started, running>>
loopVars == <<loop, accepted>>
sessionVars == <<session, open, sessions>>
-----------------------------------------------------------------------------
(* Start.                                                                  *)

Goto(next) == control' = next

\* The next configured step after the HTTP listener.
AfterHttp == IF "https" \in Enabled THEN "configureTls" ELSE "launch"

BeginStart ==
    /\ control = "stopped"
    /\ starts < MaxStarts
    /\ Enabled # {}
    /\ Goto(IF "http" \in Enabled THEN "listenHttp" ELSE AfterHttp)
    /\ UNCHANGED <<starts, started, listening, running, loopVars, sessionVars>>

\* ConfigureListener opens, binds and listens, or closes what it opened.
ListenHttp ==
    /\ control = "listenHttp"
    /\ \/ Goto(AfterHttp) /\ listening' = listening \cup {"http"}
       \/ Goto("stopped") /\ listening' = listening \ {"http"}
    /\ UNCHANGED <<starts, started, running, loopVars, sessionVars>>

\* close() on an acceptor: connections in its queue are reset, and a pending
\* async_accept completes with an error.
CloseAcceptors(ps) ==
    /\ listening' = listening \ ps
    /\ session' = [c \in Conns |->
           IF session[c] = "backlog" /\ Protocol(c) \in ps THEN "ended" ELSE session[c]]
    /\ loop' = [l \in Loops |->
           IF loop[l] = "accepting" /\ l[1] \in ps THEN "failed" ELSE loop[l]]

\* The HTTP listener stays open although Start fails.
ConfigureTls_LeavesHttp ==
    /\ control = "configureTls"
    /\ Goto("listenHttps") \/ Goto("stopped")
    /\ UNCHANGED <<starts, started, listening, running, loopVars, sessionVars>>

ConfigureTls ==
    /\ control = "configureTls"
    /\ \/ Goto("listenHttps") /\ UNCHANGED <<listening, session, loop>>
       \/ Goto("stopped") /\ CloseAcceptors({"http"})
    /\ UNCHANGED <<starts, started, running, accepted, open, sessions>>

ListenHttps ==
    /\ control = "listenHttps"
    /\ \/ Goto("launch") /\ listening' = listening \cup {"https"} /\ UNCHANGED <<session, loop>>
       \/ Goto("stopped") /\ CloseAcceptors(Protocols)
    /\ UNCHANGED <<starts, started, running, accepted, open, sessions>>

\* restart(), started_, the accept loops and the workers.
Launch ==
    /\ control = "launch"
    /\ Goto("running")
    /\ starts' = starts + 1
    /\ started' = TRUE
    /\ running' = TRUE
    /\ loop' = [l \in Loops |->
           IF l[1] \in Enabled /\ l[2] = starts + 1 THEN "spawned" ELSE loop[l]]
    /\ UNCHANGED <<listening, accepted, sessionVars>>

Start == BeginStart \/ ListenHttp \/ ConfigureTls \/ ListenHttps \/ Launch
-----------------------------------------------------------------------------
(* Stop.                                                                   *)

BeginStop ==
    /\ control = "running"
    /\ started' = FALSE
    /\ Goto("closeHttp")
    /\ UNCHANGED <<starts, listening, running, loopVars, sessionVars>>

CloseHttp ==
    /\ control = "closeHttp"
    /\ CloseAcceptors({"http"})
    /\ Goto("closeHttps")
    /\ UNCHANGED <<starts, started, running, accepted, open, sessions>>

\* The second acceptor is forgotten.
CloseHttps_LeavesOpen ==
    /\ control = "closeHttps"
    /\ Goto("closeSessions")
    /\ UNCHANGED <<starts, started, listening, running, loopVars, sessionVars>>

CloseHttps ==
    /\ control = "closeHttps"
    /\ CloseAcceptors({"https"})
    /\ Goto("closeSessions")
    /\ UNCHANGED <<starts, started, running, accepted, open, sessions>>

\* control->close of a session.  It reaches the socket except in two places:
\* "moved", where it still closes the socket object the session has already
\* moved from, and "limit", where the stream it closes was moved on.
CloseReaches(c) == session[c] \notin {"moved", "limit"}

CloseSessions ==
    /\ control = "closeSessions"
    /\ open' = open \ {c \in sessions : CloseReaches(c)}
    /\ Goto("wait")
    /\ UNCHANGED <<starts, started, listening, running, loopVars, session, sessions>>

\* sessions_condition_.wait_for: its predicate, or shutdown_timeout_seconds.
WaitForSessions_NoTimeout ==
    /\ control = "wait"
    /\ sessions = {}
    /\ Goto("stopContext")
    /\ UNCHANGED <<starts, started, listening, running, loopVars, sessionVars>>

WaitForSessions ==
    /\ control = "wait"
    /\ \/ sessions = {}
       \/ sessions # {}   \* the timeout
    /\ Goto("stopContext")
    /\ UNCHANGED <<starts, started, listening, running, loopVars, sessionVars>>

\* io_context_.stop() and workers_.clear(), which waits for the coroutines that
\* a worker is resuming just now.
StopContext ==
    /\ control = "stopContext"
    /\ \A c \in Conns : session[c] # "moved"
    /\ running' = FALSE
    /\ Goto("stopped")
    /\ UNCHANGED <<starts, started, listening, loopVars, sessionVars>>

Stop == CloseHttp \/ CloseHttps \/ CloseSessions \/ WaitForSessions \/ StopContext
-----------------------------------------------------------------------------
(* AcceptLoop and AcceptHttpsLoop.                                         *)

\* while (started_), and async_accept is initiated.
LoopHead(l) ==
    IF ~started THEN "ended" ELSE IF l[1] \in listening THEN "accepting" ELSE "failed"

LoopBegins ==
    /\ running
    /\ \E l \in Loops :
        /\ loop[l] = "spawned"
        /\ loop' = [loop EXCEPT ![l] = LoopHead(l)]
    /\ UNCHANGED <<controlVars, listening, accepted, sessionVars>>

\* async_accept completes; its coroutine is resumed later.
AcceptCompletes ==
    /\ running
    /\ \E l \in Loops, c \in Conns :
        /\ loop[l] = "accepting"
        /\ session[c] = "backlog" /\ Protocol(c) = l[1]
        /\ loop' = [loop EXCEPT ![l] = "completed"]
        /\ accepted' = [accepted EXCEPT ![l] = c]
        /\ session' = [session EXCEPT ![c] = "accepted"]
        /\ open' = open \cup {c}
    /\ UNCHANGED <<controlVars, listening, sessions>>

\* The error of async_accept is not looked at.
AcceptFails_Ignored ==
    /\ AcceptErrors
    /\ running
    /\ \E l \in Loops :
        /\ loop[l] = "accepting"
        /\ loop' = [loop EXCEPT ![l] = "completed"]
    /\ UNCHANGED <<controlVars, listening, accepted, sessionVars>>

\* For instance because the process is out of file descriptors.
AcceptFails ==
    /\ AcceptErrors
    /\ running
    /\ \E l \in Loops :
        /\ loop[l] = "accepting"
        /\ loop' = [loop EXCEPT ![l] = "failed"]
    /\ UNCHANGED <<controlVars, listening, accepted, sessionVars>>

\* The loop goes round only once.
RegisterAndSpawn_Once ==
    /\ running
    /\ \E l \in Loops :
        /\ loop[l] = "completed"
        /\ session' = [session EXCEPT ![accepted[l]] = "spawned"]
        /\ sessions' = sessions \cup {accepted[l]}
        /\ accepted' = [accepted EXCEPT ![l] = NoConn]
        /\ loop' = [loop EXCEPT ![l] = "ended"]
    /\ UNCHANGED <<controlVars, listening, open>>

\* RegisterSession and cobalt::spawn, back to the head of the loop.
RegisterAndSpawn ==
    /\ running
    /\ \E l \in Loops :
        /\ loop[l] = "completed"
        /\ session' = [session EXCEPT ![accepted[l]] = "spawned"]
        /\ sessions' = sessions \cup {accepted[l]}
        /\ accepted' = [accepted EXCEPT ![l] = NoConn]
        /\ loop' = [loop EXCEPT ![l] = LoopHead(l)]
    /\ UNCHANGED <<controlVars, listening, open>>

\* Any exception ends the loop.
LoopEnds ==
    /\ running
    /\ \E l \in Loops :
        /\ loop[l] = "failed"
        /\ loop' = [loop EXCEPT ![l] = "ended"]
    /\ UNCHANGED <<controlVars, listening, accepted, sessionVars>>

AcceptLoop == LoopBegins \/ AcceptCompletes \/ RegisterAndSpawn \/ LoopEnds
-----------------------------------------------------------------------------
(* Session and TlsSession.                                                 *)

Becomes(c, next) ==
    /\ session' = [session EXCEPT ![c] = next]
    /\ UNCHANGED <<controlVars, listening, loopVars, open, sessions>>

\* Something else still refers to the stream.
UnregisterAndEnd_KeepsStream(c) ==
    /\ session' = [session EXCEPT ![c] = "ended"]
    /\ sessions' = sessions \ {c}
    /\ UNCHANGED <<controlVars, listening, loopVars, open>>

\* UnregisterSession and the end of the coroutine, which drops the last
\* reference to the stream and so closes its socket.
UnregisterAndEnd(c) ==
    /\ session' = [session EXCEPT ![c] = "ended"]
    /\ sessions' = sessions \ {c}
    /\ open' = open \ {c}
    /\ UNCHANGED <<controlVars, listening, loopVars>>

\* UnregisterSession is missing on the path of the payload limit.
EndLimit_NoUnregister(c) ==
    /\ session[c] = "limit"
    /\ session' = [session EXCEPT ![c] = "ended"]
    /\ open' = open \ {c}
    /\ UNCHANGED <<controlVars, listening, loopVars, sessions>>

\* The socket moves into the stream ...
MoveSocket(c) == session[c] = "spawned" /\ Becomes(c, "moved")

\* ... and control->close is replaced; then the handshake or the first read.
\* while (socket().is_open()) ends a session that was closed before.
InstallClose(c) ==
    /\ session[c] = "moved"
    /\ \/ c \in TlsConns /\ Becomes(c, "handshake")
       \/ c \notin TlsConns /\ c \in open /\ Becomes(c, "reading")
       \/ c \notin TlsConns /\ c \notin open /\ UnregisterAndEnd(c)

\* A failed handshake throws, a wrong server name closes the socket.
Handshake(c) ==
    /\ session[c] = "handshake"
    /\ \/ c \in open /\ Becomes(c, "reading")
       \/ UnregisterAndEnd(c)

\* A request arrived, or the read failed in any other way than on a limit:
\* then the request is what the parser holds, and the session goes on.
ReadDone(c) ==
    /\ session[c] = "reading"
    /\ Becomes(c, "handling")

\* The timeout of the stream closes the socket, and the read fails.
ReadTimesOut(c) ==
    /\ session[c] = "reading"
    /\ session' = [session EXCEPT ![c] = "handling"]
    /\ open' = open \ {c}
    /\ UNCHANGED <<controlVars, listening, loopVars, sessions>>

LimitExceeded(c) == session[c] = "reading" /\ Becomes(c, "limit")

\* router_.HandleAsync returned, perhaps after a turn through the database.
Handled(c) == session[c] = "handling" /\ Becomes(c, "writing")

\* A failed write is swallowed like a failed read, and nobody looks whether
\* the socket is still open.
WriteDone_Swallows(c) == session[c] = "writing" /\ Becomes(c, "reading")

\* The write fails and throws, or the response does not keep the connection
\* alive, or the socket is found closed; else the next request is read.
WriteDone(c) ==
    /\ session[c] = "writing"
    /\ \/ c \in open /\ Becomes(c, "reading")
       \/ UnregisterAndEnd(c)

\* SendPayloadLimitResponse returned, the write done or failed.
EndLimit(c) == session[c] = "limit" /\ UnregisterAndEnd(c)

SessionStep(c) ==
    \/ MoveSocket(c)
    \/ InstallClose(c)
    \/ Handshake(c)
    \/ ReadDone(c)
    \/ ReadTimesOut(c)
    \/ LimitExceeded(c)
    \/ Handled(c)
    \/ WriteDone(c)
    \/ EndLimit(c)

Session(c) == running /\ SessionStep(c)
-----------------------------------------------------------------------------
\* A client's connection enters the kernel's queue of an open acceptor.
Connect(c) ==
    /\ session[c] = "none"
    /\ Protocol(c) \in listening
    /\ session' = [session EXCEPT ![c] = "backlog"]
    /\ UNCHANGED <<controlVars, listening, loopVars, open, sessions>>

Next ==
    \/ Start
    \/ BeginStop
    \/ Stop
    \/ AcceptLoop
    \/ AcceptFails
    \/ \E c \in Conns : Session(c) \/ Connect(c)

\* A thread that is inside Start or Stop goes on, and so do the workers: a
\* completed operation is resumed, and every read, write and handshake is
\* over when its timeout is.  Nobody needs to start or stop the server or to
\* connect, and a limit need not be exceeded.
Fairness ==
    /\ WF_vars(ListenHttp \/ ConfigureTls \/ ListenHttps \/ Launch)
    /\ WF_vars(Stop)
    /\ WF_vars(LoopBegins) /\ WF_vars(AcceptCompletes) /\ WF_vars(RegisterAndSpawn) /\ WF_vars(LoopEnds)
    /\ \A c \in Conns : WF_vars(Session(c))

SafeSpec == Init /\ [][Next]_vars

Spec == SafeSpec /\ Fairness
-----------------------------------------------------------------------------
(* Safety.                                                                 *)

\* sessions_ holds the controls of exactly the sessions between their
\* registration and their end, on every way out of Session and TlsSession.
\* One left behind costs every Stop the whole shutdown timeout; one missing
\* is a connection Stop cannot close.
RegistryExact == sessions = {c \in Conns : session[c] \in Live}

\* Whoever holds a socket will let go of it: a registered session, or the one
\* accept loop that has received it.
SocketsOwned ==
    /\ \A c \in open : c \in sessions \/ \E l \in Loops : accepted[l] = c
    /\ \A l \in Loops : loop[l] = "completed" <=> accepted[l] # NoConn
    /\ \A l, m \in Loops : accepted[l] = accepted[m] /\ l # m => accepted[l] = NoConn

\* While the server is stopped, after Stop as after a Start that failed, no
\* acceptor is open, so that Start can open it again, no worker runs, and no
\* loop of an earlier start waits for a connection.
QuietWhenStopped ==
    control = "stopped" =>
        /\ listening = {} /\ ~running /\ ~started
        /\ \A l \in Loops : loop[l] # "accepting"
        /\ \A c \in Conns : session[c] # "backlog"

\* From CloseSessions on until the next Start, Stop lets no further connection
\* in: the sockets the server holds can only become fewer.
NothingOpensAfterStop ==
    [][(control \in {"closeSessions", "wait", "stopContext", "stopped"} => open' \subseteq open)]_vars

\* What the test Stop_ActiveKeepAliveConnection_ClosesSocket asserts of a
\* client that has connected: when Stop has returned its socket is closed.
StopClosesSockets == control = "stopped" => open = {}

\* A connection between accept loop and session: whoever has it knows it.
HoldersKnown ==
    /\ \A l \in Loops : accepted[l] # NoConn => session[accepted[l]] = "accepted"
    /\ \A c \in open : session[c] \in Live \cup {"accepted"}

\* What the step Start or Stop has reached says of started_ and the workers ...
FlagsKnown ==
    /\ started <=> control = "running"
    /\ running <=> control \in {"running", "closeHttp", "closeHttps", "closeSessions", "wait", "stopContext"}

\* ... of the acceptors, and what an open acceptor is needed for ...
ListenersKnown ==
    /\ control \in {"stopped", "listenHttp", "closeSessions", "wait", "stopContext"} => listening = {}
    /\ control \in {"configureTls", "listenHttps"} => listening \subseteq {"http"}
    /\ control = "closeHttps" => listening \subseteq {"https"}
    /\ \A l \in Loops : loop[l] = "accepting" => l[1] \in listening
    /\ \A c \in Conns : session[c] = "backlog" => Protocol(c) \in listening

\* ... and of the loops launched so far.
StartsKnown ==
    /\ control \in {"listenHttp", "configureTls", "listenHttps", "launch"} => starts < MaxStarts
    /\ \A l \in Loops : l[2] > starts => loop[l] = "none"

\* The parts above are inductive together; each alone is not.
IndInv ==
    TypeOK /\ RegistryExact /\ SocketsOwned /\ HoldersKnown /\ FlagsKnown /\ ListenersKnown /\ StartsKnown
-----------------------------------------------------------------------------
(* Liveness.                                                               *)

\* Stop, which is noexcept and which main waits for, returns.
StopReturns == control = "closeHttp" ~> control = "stopped"

\* async_accept of a loop of this start has failed on an open acceptor.
AcceptFailed ==
    running /\ \E l \in Loops : l[2] = starts /\ l[1] \in listening /\ loop[l] = "failed"

\* Unless an accept fails, which ends its loop for good, a connection in the
\* listen queue is taken by an accept loop, or reset because the server stops;
\* with no loop left it would stay there.
BacklogServed == <>AcceptFailed \/ \A c \in Conns : session[c] = "backlog" ~> session[c] # "backlog"

\* A session whose socket was closed under it, by Stop or by a timeout, comes
\* to its end and unregisters, unless the workers are stopped first.
ClosedSessionsEnd ==
    \A c \in Conns : (c \in sessions /\ c \notin open) ~> (c \notin sessions \/ ~running)
=============================================================================
