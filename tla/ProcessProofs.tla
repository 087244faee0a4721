---------------------------- MODULE ProcessProofs ----------------------------
(***************************************************************************)
(* The way down of the process for any connections, any listeners, any     *)
(* queue capacity, any command lines and files, and signals at any time:   *)
(* the executor outlives the server and is drained, and no completion      *)
(* meets a destroyed io_context unless Stop gave up or came too early.     *)
(* And the way up: ParseArgs reads a command line as its reference         *)
(* definition does, whatever its length, and the exit status tells why.    *)
(* And the whole: server and executor keep inside the process what their   *)
(* modules promise of them alone.                                          *)
(***************************************************************************)
EXTENDS Process, Induction, SequenceTheorems

\* A step after which every connection and every accept loop is where it was,
\* but for those in the queue and those that wait for one.
LEMMA SessionsSame ==
    ASSUME SessionsKnown, UNCHANGED <<accepted, sessions>>,
           loop' \in [Server!Loops -> {"none", "spawned", "accepting", "completed", "failed", "ended"}],
           \A l \in Server!Loops : loop'[l] = "completed" => loop[l] = "completed",
           session' \in [Conns -> {"none", "backlog", "accepted", "ended"} \cup Server!Live],
           \A c \in Conns : \/ session'[c] = session[c]
                             \/ (session[c] \in {"none", "backlog"} /\ session'[c] \in {"backlog", "ended"})
    PROVE  SessionsKnown'
  BY DEF SessionsKnown, Server!Live

\* The special case of a step that leaves the server alone.
LEMMA ServerSame ==
    ASSUME AcceptorsKnown, SessionsKnown, UNCHANGED serverVars
    PROVE  AcceptorsKnown' /\ SessionsKnown'
  BY DEF AcceptorsKnown, SessionsKnown, serverVars

\* A step after which every job is where it was.
LEMMA JobsSame ==
    ASSUME JobsKnown, UNCHANGED <<pending, working, outcome, submitted, awaiting, posted>>,
           \A c \in awaiting : session[c] = "handling" => session'[c] = "handling"
    PROVE  JobsKnown'
  <1>1. \A c \in awaiting : session'[c] = "handling"
    BY DEF JobsKnown
  <1>2. QED
    BY <1>1 DEF JobsKnown, OnItsWay

\* Nothing is there when main begins.
LEMMA InitIndInv == Init => IndInv
  <1> SUFFICES ASSUME Init PROVE IndInv
    OBVIOUS
  <1> USE ProcessAssumption DEF Init, Server!Init, Executor!Init
  <1>1. TypeOK
    BY DEF TypeOK, MainTypeOK, JobTypeOK, ContextDestroyed
  <1>2. MainKnown
    BY DEF MainKnown, AfterServer, BeforeServer
  <1>3. AcceptorsKnown /\ SessionsKnown
    BY DEF AcceptorsKnown, SessionsKnown, Server!Live
  <1>4. JobsKnown
    BY DEF JobsKnown, OnItsWay
  <1>5. LateKnown
    BY DEF LateKnown, AfterServer
  <1>6. QED
    BY <1>1, <1>2, <1>3, <1>4, <1>5 DEF IndInv
-----------------------------------------------------------------------------
(* main.                                                                   *)

\* A step of main, or of a handler, that touches neither server nor executor
\* and does not lead further down.
LEMMA MainOnly ==
    ASSUME IndInv, UNCHANGED <<jobVars, history, serverVars, executorVars>>,
           main' # main => ~AfterServer', MainTypeOK', MainKnown'
    PROVE  IndInv'
  <1> USE DEF IndInv, jobVars, history, serverVars, executorVars
  <1>1. TypeOK'
    BY DEF TypeOK, JobTypeOK, ContextDestroyed, AfterServer
  <1>2. AcceptorsKnown' /\ SessionsKnown'
    BY ServerSame
  <1>3. JobsKnown'
    BY JobsSame
  <1>4. LateKnown'
    BY DEF LateKnown, AfterServer
  <1>5. QED
    BY <1>1, <1>2, <1>3, <1>4

\* Up to the constructors.
LEMMA EarlyStep ==
    ASSUME IndInv, ReadArguments \/ LoadConfiguration \/ Construct
    PROVE  IndInv'
  <1> USE ProcessAssumption DEF IndInv, From, Exit
  <1> USE DEF signalVars, jobVars, history, serverVars, executorVars
  <1>1. UNCHANGED <<signalVars, jobVars, history, serverVars, executorVars>>
    BY DEF ReadArguments, LoadConfiguration, Construct
  <1>2. main \in {"parse", "load", "construct"} /\ main' \in {"load", "construct", "serve", "exited"}
    BY DEF ReadArguments, LoadConfiguration, Construct
  <1>3. MainTypeOK'
    <2>1. CASE ReadArguments
      BY <2>1 DEF ReadArguments, TypeOK, MainTypeOK
    <2>2. CASE LoadConfiguration
      <3>1. ParseArgs(argv).server_config_path \in Paths
        BY <2>2 DEF LoadConfiguration, MainKnown
      <3>2. QED
        BY <2>2, <3>1 DEF LoadConfiguration, TypeOK, MainTypeOK, Configurations
    <2>3. CASE Construct
      BY <2>3 DEF Construct, TypeOK, MainTypeOK
    <2>4. QED
      BY <2>1, <2>2, <2>3
  <1>4. main' = "load" =>
          argv' \in ArgLists /\ ParseArgs(argv') # Rejected /\ ParseArgs(argv').server_config_path # Empty
    BY DEF ReadArguments, LoadConfiguration, Construct, MainKnown
  <1>5. MainKnown'
    <2>1. control = "stopped" /\ ~closed /\ BeforeServer
      BY <1>2 DEF MainKnown, BeforeServer
    <2>2. QED
      BY <1>1, <1>2, <1>4, <2>1 DEF MainKnown, AfterServer, BeforeServer
  <1>6. QED
    BY <1>1, <1>2, <1>3, <1>5, MainOnly DEF AfterServer

\* close() on an acceptor.
LEMMA AcceptorsClosed ==
    ASSUME SessionsKnown, NEW ps, Server!CloseAcceptors(ps), UNCHANGED <<accepted, sessions>>
    PROVE  /\ SessionsKnown'
           /\ listening' = listening \ ps
           /\ \A c \in Conns : session[c] = "handling" => session'[c] = "handling"
  <1> USE DEF Server!CloseAcceptors
  <1>1. loop' \in [Server!Loops -> {"none", "spawned", "accepting", "completed", "failed", "ended"}]
    BY DEF SessionsKnown
  <1>2. session' \in [Conns -> {"none", "backlog", "accepted", "ended"} \cup Server!Live]
    BY DEF SessionsKnown
  <1>3. \A l \in Server!Loops : loop'[l] = "completed" => loop[l] = "completed"
    OBVIOUS
  <1>4. \A c \in Conns : session'[c] = session[c] \/ (session[c] = "backlog" /\ session'[c] = "ended")
    OBVIOUS
  <1>5. SessionsKnown'
    BY <1>1, <1>2, <1>3, <1>4, SessionsSame
  <1>6. QED
    BY <1>4, <1>5

\* Start, wherever it stands and whichever listener fails.
LEMMA StartStep ==
    ASSUME IndInv, StartServer
    PROVE  IndInv'
  <1> USE ProcessAssumption DEF IndInv, StartServer, From
  <1> USE DEF signalVars, jobVars, history, executorVars
  <1> USE DEF Server!Start, Server!BeginStart, Server!ListenHttp, Server!ConfigureTls, Server!ListenHttps,
              Server!Launch, Server!Goto, Server!AfterHttp, Server!loopVars, Server!sessionVars
  <1>1. /\ main = "serve" /\ control \in {"stopped", "listenHttp", "configureTls", "listenHttps", "launch"}
        /\ sessions = {} /\ submitted = {} /\ pending = <<>> /\ working = None /\ ~closed /\ ~running
    BY DEF MainKnown, BeforeServer, AcceptorsKnown
  <1>2. /\ control' \in {"stopped", "listenHttp", "configureTls", "listenHttps", "launch", "running"}
        /\ \/ main' = "serve" /\ control' \notin {"stopped", "running"}
           \/ main' = "signalInt" /\ control' = "running"
           \/ main' = "destroyServer" /\ control' = "stopped"
        /\ UNCHANGED <<sessions, accepted>>
    <2>1. control' \in {"stopped", "listenHttp", "configureTls", "listenHttps", "launch", "running"}
      BY <1>1
    <2>2. UNCHANGED <<sessions, accepted>>
      BY <1>1
    <2>3. main' = IF control' = "running" THEN "signalInt" ELSE IF control' = "stopped" THEN "destroyServer" ELSE "serve"
      BY <1>1, <2>1
    <2>4. QED
      BY <2>1, <2>2, <2>3
  <1>3. AcceptorsKnown'
    <2>1. running' <=> control' = "running"
      BY <1>1
    <2>2. CASE Server!BeginStart
      BY <1>1, <2>1, <2>2 DEF AcceptorsKnown
    <2>3. CASE Server!ListenHttp
      BY <1>1, <2>1, <2>3 DEF AcceptorsKnown
    <2>4. CASE Server!ConfigureTls
      BY <1>1, <2>1, <2>4 DEF AcceptorsKnown, Server!CloseAcceptors
    <2>5. CASE Server!ListenHttps
      BY <1>1, <2>1, <2>5 DEF AcceptorsKnown, Server!CloseAcceptors, Server!Protocols
    <2>6. CASE Server!Launch
      BY <1>1, <2>1, <2>6 DEF AcceptorsKnown
    <2>7. QED
      BY <2>2, <2>3, <2>4, <2>5, <2>6
  <1>4. SessionsKnown' /\ \A c \in Conns : session[c] = "handling" => session'[c] = "handling"
    <2>1. CASE \E ps \in {{"http"}, Server!Protocols} : Server!CloseAcceptors(ps)
      BY <1>2, <2>1, AcceptorsClosed
    <2>2. CASE UNCHANGED <<session, loop>>
      BY <1>2, <2>2, SessionsSame DEF SessionsKnown
    <2>3. CASE Server!Launch
      <3>1. loop' \in [Server!Loops -> {"none", "spawned", "accepting", "completed", "failed", "ended"}]
        BY <2>3 DEF SessionsKnown
      <3>2. QED
        BY <1>2, <2>3, <3>1, SessionsSame DEF SessionsKnown
    <2>4. QED
      BY <2>1, <2>2, <2>3
  <1>5. JobsKnown'
    BY <1>4, JobsSame DEF TypeOK, JobTypeOK
  <1>6. TypeOK'
    BY <1>2 DEF TypeOK, MainTypeOK, JobTypeOK, ContextDestroyed
  <1>7. MainKnown'
    BY <1>1, <1>2 DEF MainKnown, AfterServer, BeforeServer
  <1>8. LateKnown'
    BY <1>1, <1>2 DEF LateKnown
  <1>9. QED
    BY <1>3, <1>4, <1>5, <1>6, <1>7, <1>8

\* The handlers, the wait with its predicate, and the signals.
LEMMA WaitStep ==
    ASSUME IndInv,
           Wait \/ SpuriousWakeup \/ SignalKills \/ \E t \in Threads : SignalHandled(t) \/ RequestStop(t)
    PROVE  IndInv'
  <1> USE DEF IndInv, From, Exit, mainVars, signalVars, Wait, SpuriousWakeup, MainGoes, SignalKills,
              SignalHandled, RequestStop, StoreRequested, Notify
  <1>1. UNCHANGED <<argv, config, jobVars, history, serverVars, executorVars>>
    OBVIOUS
  <1>2. \/ UNCHANGED <<main, status>>
        \/ /\ main \in {"signalInt", "signalTerm", "predicate", "block", "asleep"}
           /\ main' \in {"signalTerm", "predicate", "block", "asleep", "stop"}
           /\ UNCHANGED status
        \/ main' = "exited" /\ status' = Killed
    OBVIOUS
  <1>3. requested' \in BOOLEAN /\ handler' \in [Threads -> {"none", "store", "notify"}]
    BY DEF TypeOK, MainTypeOK
  <1>4. MainTypeOK'
    BY <1>1, <1>2, <1>3 DEF TypeOK, MainTypeOK
  <1>5. MainKnown'
    <2>1. UNCHANGED <<argv, control, closed, sessions, submitted, pending, working>>
      BY <1>1 DEF serverVars, executorVars
    <2>2. closed => main \in {"join", "exited"}
      BY DEF MainKnown
    <2>3. QED
      BY <1>2, <2>1, <2>2 DEF MainKnown, AfterServer, BeforeServer, Killed
  <1>6. main' # main => ~AfterServer'
    BY <1>2 DEF AfterServer
  <1>7. QED
    BY <1>1, <1>4, <1>5, <1>6, MainOnly
-----------------------------------------------------------------------------
(* The way down.                                                           *)

\* Stop: it gives up or leaves no session behind that it has closed.
LEMMA StopStep ==
    ASSUME IndInv, StopServer
    PROVE  IndInv'
  <1> USE DEF IndInv, StopServer, From, signalVars, jobVars, executorVars
  <1> USE DEF Server!Stop, Server!BeginStop, Server!CloseHttp, Server!CloseHttps, Server!CloseSessions,
              Server!WaitForSessions, Server!StopContext, Server!Goto, Server!loopVars, Server!sessionVars
  <1>1. /\ main = "stop" /\ ~closed
        /\ control \in {"running", "closeHttp", "closeHttps", "closeSessions", "wait", "stopContext"}
    BY DEF MainKnown
  <1>2. UNCHANGED <<accepted, sessions, argv, config, late, requested, handler, awaiting, posted, lost,
                    pending, working, outcome, submitted, closed>>
    BY <1>1
  <1>3. \/ /\ main' = "stop" /\ status' = status /\ running' = running
           /\ control' \in {"closeHttp", "closeHttps", "closeSessions", "wait", "stopContext"}
        \/ main' = "destroyServer" /\ status' = 0 /\ control' = "stopped" /\ ~running'
    <2>1. \/ control' \in {"closeHttp", "closeHttps", "closeSessions", "wait", "stopContext"} /\ running' = running
          \/ control' = "stopped" /\ ~running'
      BY <1>1
    <2>2. main' = IF control' = "stopped" THEN "destroyServer" ELSE main
      BY <1>1
    <2>3. status' = IF control' = "stopped" THEN 0 ELSE status
      BY <1>1
    <2>4. QED
      BY <1>1, <2>1, <2>2, <2>3
  <1>4. AcceptorsKnown'
    <2>1. running
      BY <1>1 DEF AcceptorsKnown
    <2>2. listening' \subseteq listening
      BY <1>1 DEF Server!CloseAcceptors
    <2>3. control' \in {"closeSessions", "wait", "stopContext", "stopped"} => listening' = {}
      BY <1>1 DEF AcceptorsKnown, Server!CloseAcceptors
    <2>4. control' = "closeHttps" => listening' \subseteq {"https"}
      BY <1>1 DEF AcceptorsKnown, Server!CloseAcceptors
    <2>5. QED
      BY <1>3, <2>1, <2>2, <2>3, <2>4 DEF AcceptorsKnown
  <1>5. SessionsKnown' /\ \A c \in Conns : session[c] = "handling" => session'[c] = "handling"
    <2>1. CASE \E ps \in {{"http"}, {"https"}} : Server!CloseAcceptors(ps)
      BY <1>2, <2>1, AcceptorsClosed
    <2>2. CASE UNCHANGED <<session, loop>>
      BY <1>2, <2>2, SessionsSame DEF SessionsKnown
    <2>3. QED
      BY <2>1, <2>2
  <1>6. JobsKnown'
    BY <1>2, <1>5, JobsSame DEF TypeOK, JobTypeOK
  <1>7. gaveUp' \in BOOLEAN
    BY DEF TypeOK, JobTypeOK
  <1>8. TypeOK'
    BY <1>2, <1>3, <1>7 DEF TypeOK, MainTypeOK, JobTypeOK, ContextDestroyed
  <1>9. MainKnown'
    BY <1>1, <1>2, <1>3 DEF MainKnown, AfterServer, BeforeServer
  <1>10. LateKnown'
    <2>1. ~gaveUp' => ~gaveUp /\ (control = "wait" => sessions = {})
      OBVIOUS
    <2>2. control' \in {"stopContext", "stopped"} => control \in {"wait", "stopContext"}
      BY <1>1
    <2>3. QED
      BY <1>1, <1>2, <1>3, <2>1, <2>2 DEF LateKnown, AfterServer
  <1>11. QED
    BY <1>4, <1>5, <1>6, <1>8, <1>9, <1>10

\* ~io_context: the completions go, and with them the sessions they were for;
\* a session whose job is on its way stays.
LEMMA DestroyStep ==
    ASSUME IndInv, DestroyServer
    PROVE  IndInv'
  <1> USE DEF IndInv, DestroyServer, From, signalVars, history, executorVars
  <1>1. main = "destroyServer" /\ main' = "closeExecutor" /\ control = "stopped" /\ ~closed
    BY DEF MainKnown, AfterServer
  <1>2. TypeOK'
    BY <1>1 DEF TypeOK, MainTypeOK, JobTypeOK
  <1>3. MainKnown'
    BY <1>1 DEF MainKnown, AfterServer, BeforeServer
  <1>4. AcceptorsKnown' /\ SessionsKnown'
    BY DEF AcceptorsKnown, SessionsKnown
  <1>5. JobsKnown'
    BY DEF JobsKnown, OnItsWay
  <1>6. LateKnown'
    BY <1>1 DEF LateKnown, AfterServer
  <1>7. QED
    BY <1>2, <1>3, <1>4, <1>5, <1>6

\* ~DatabaseExecutor: closed, and joined when it is drained.
LEMMA ExecutorStep ==
    ASSUME IndInv, CloseExecutor \/ JoinExecutor
    PROVE  IndInv'
  <1> USE DEF IndInv, From, Exit, signalVars, jobVars, history, serverVars, executorVars
  <1>1. CASE CloseExecutor
    <2> USE <1>1 DEF CloseExecutor, Executor!Close
    <2>1. main = "closeExecutor" /\ main' = "join" /\ control = "stopped"
      BY DEF MainKnown, AfterServer
    <2>2. TypeOK'
      BY <2>1 DEF TypeOK, MainTypeOK, JobTypeOK, ContextDestroyed
    <2>3. MainKnown'
      BY <2>1 DEF MainKnown, AfterServer, BeforeServer
    <2>4. AcceptorsKnown' /\ SessionsKnown'
      BY ServerSame
    <2>5. JobsKnown'
      BY JobsSame
    <2>6. LateKnown'
      BY <2>1 DEF LateKnown, AfterServer
    <2>7. QED
      BY <2>2, <2>3, <2>4, <2>5, <2>6
  <1>2. CASE JoinExecutor
    <2> USE <1>2 DEF JoinExecutor
    <2>1. MainTypeOK'
      BY DEF TypeOK, MainTypeOK
    <2>2. MainKnown'
      BY DEF MainKnown, AfterServer, BeforeServer
    <2>3. QED
      BY <2>1, <2>2, MainOnly DEF AfterServer
  <1>3. QED
    BY <1>1, <1>2
-----------------------------------------------------------------------------
(* The workers.                                                            *)

\* While the network workers run, main is neither before the server nor after it.
LEMMA WorkersRun ==
    ASSUME IndInv, main # "exited", running
    PROVE  ~BeforeServer /\ ~AfterServer /\ ~closed /\ control # "stopped"
  BY DEF IndInv, MainKnown, AcceptorsKnown, BeforeServer, AfterServer

\* A network step registers only connections that count as late by then.
LEMMA NetworkLate ==
    ASSUME IndInv, Network(TRUE), UNCHANGED control, sessions' \subseteq Conns,
           running \/ UNCHANGED sessions
    PROVE  LateKnown' /\ late' \subseteq Conns
  <1> USE DEF IndInv, Network, mainVars
  <1>1. late' = late \cup IF control \in {"wait", "stopContext"} THEN sessions' \ sessions ELSE {}
    OBVIOUS
  <1>2. late' \subseteq Conns /\ late \subseteq late'
    BY <1>1 DEF TypeOK, JobTypeOK
  <1>3. control = "stopContext" => sessions' \subseteq sessions \cup late'
    BY <1>1
  <1>4. AfterServer => UNCHANGED sessions
    BY WorkersRun
  <1>5. LateKnown'
    <2>1. AfterServer' <=> AfterServer
      BY DEF AfterServer
    <2>2. QED
      BY <1>2, <1>3, <1>4, <2>1 DEF LateKnown
  <1>6. QED
    BY <1>2, <1>5

\* What every network step leaves known, whatever it does to the jobs.
LEMMA NetworkRest ==
    ASSUME IndInv, Network(TRUE), UNCHANGED <<control, running, listening>>,
           running \/ UNCHANGED <<sessions, submitted, pending>>,
           awaiting' \subseteq Conns, posted' \subseteq awaiting',
           running \/ UNCHANGED posted, UNCHANGED <<working, closed>>,
           SessionsKnown', JobsKnown'
    PROVE  IndInv'
  <1> USE DEF IndInv, Network, mainVars, signalVars
  <1>1. LateKnown' /\ late' \subseteq Conns
    BY NetworkLate DEF SessionsKnown
  <1>2. main # "exited" /\ (running => ~BeforeServer /\ ~AfterServer)
    BY WorkersRun
  <1>3. TypeOK'
    BY <1>1, <1>2 DEF TypeOK, MainTypeOK, JobTypeOK, ContextDestroyed, AfterServer
  <1>4. MainKnown'
    BY <1>2 DEF MainKnown, AfterServer, BeforeServer
  <1>5. AcceptorsKnown'
    BY DEF AcceptorsKnown
  <1>6. QED
    BY <1>1, <1>3, <1>4, <1>5

\* The accept loops and the kernel's queue.
LEMMA AcceptStep ==
    ASSUME IndInv, Accepts \/ \E c \in Conns : Connects(c)
    PROVE  IndInv'
  <1> USE DEF IndInv, executorVars
  <1> USE DEF Server!AcceptLoop, Server!LoopBegins, Server!AcceptCompletes, Server!RegisterAndSpawn, Server!LoopEnds,
              Server!LoopHead, Server!Connect, Server!controlVars, Server!loopVars, Server!sessionVars
  <1>1. Network(TRUE)
    BY DEF Accepts, Connects, Network
  <1>2. /\ Server!AcceptLoop \/ \E c \in Conns : Server!Connect(c)
        /\ UNCHANGED <<awaiting, posted, pending, working, outcome, submitted, closed>>
    BY DEF Accepts, Connects, Network
  <1>3. UNCHANGED <<control, running, listening>> /\ (running \/ UNCHANGED sessions)
    BY <1>2
  <1>4. SessionsKnown' /\ \A c \in Conns : session[c] = "handling" => session'[c] = "handling"
    <2>1. CASE \E c \in Conns : Server!Connect(c)
      <3>1. session' \in [Conns -> {"none", "backlog", "accepted", "ended"} \cup Server!Live]
        BY <2>1 DEF SessionsKnown
      <3>2. \A c \in Conns : session'[c] = session[c] \/ (session[c] = "none" /\ session'[c] = "backlog")
        BY <2>1 DEF SessionsKnown
      <3>3. UNCHANGED <<loop, accepted, sessions>>
        BY <2>1
      <3>4. QED
        BY <3>1, <3>2, <3>3, SessionsSame DEF SessionsKnown
    <2>2. CASE Server!LoopBegins \/ Server!LoopEnds
      <3>1. loop' \in [Server!Loops -> {"none", "spawned", "accepting", "completed", "failed", "ended"}]
        BY <2>2 DEF SessionsKnown
      <3>2. \A l \in Server!Loops : loop'[l] = "completed" => loop[l] = "completed"
        BY <2>2 DEF SessionsKnown
      <3>3. UNCHANGED <<session, accepted, sessions>>
        BY <2>2
      <3>4. QED
        BY <3>1, <3>2, <3>3, SessionsSame DEF SessionsKnown
    <2>3. CASE Server!AcceptCompletes
      BY <2>3 DEF SessionsKnown, Server!Live
    <2>4. CASE Server!RegisterAndSpawn
      BY <2>4 DEF SessionsKnown, Server!Live
    <2>5. QED
      BY <1>2, <2>1, <2>2, <2>3, <2>4
  <1>5. JobsKnown'
    BY <1>2, <1>4, JobsSame DEF TypeOK, JobTypeOK
  <1>6. QED
    BY <1>1, <1>2, <1>3, <1>4, <1>5, NetworkRest DEF TypeOK, JobTypeOK

\* A session moves on; the others do not.
LEMMA SessionMoves ==
    ASSUME IndInv, NEW c \in Conns, Server!Session(c)
    PROVE  /\ running /\ UNCHANGED <<control, running, listening>>
           /\ session' = [session EXCEPT ![c] = session'[c]]
           /\ session[c] = "handling" => session'[c] # "handling"
           /\ session'[c] = "handling" => session[c] = "reading"
           /\ SessionsKnown'
  <1> USE DEF IndInv, Server!Session, Server!SessionStep, Server!MoveSocket, Server!InstallClose, Server!Handshake,
              Server!ReadDone, Server!ReadTimesOut, Server!LimitExceeded, Server!Handled, Server!WriteDone,
              Server!EndLimit, Server!Becomes, Server!UnregisterAndEnd, Server!controlVars, Server!loopVars
  <1>1. running /\ UNCHANGED <<control, running, listening, loop, accepted>>
    OBVIOUS
  <1>2. session[c] \in Server!Live
    BY DEF Server!Live
  <1>3. PICK next \in Server!Live \cup {"ended"} :
          /\ session' = [session EXCEPT ![c] = next]
          /\ session[c] = "handling" => next # "handling"
          /\ next = "handling" => session[c] = "reading"
          /\ sessions' = sessions \/ (sessions' = sessions \ {c} /\ next = "ended")
    BY DEF Server!Live
  <1>4. session'[c] = next
    BY <1>3 DEF SessionsKnown
  <1>5. SessionsKnown'
    BY <1>1, <1>2, <1>3 DEF SessionsKnown, Server!Live
  <1>6. QED
    BY <1>1, <1>3, <1>4, <1>5

\* HandleAsync: a job is accepted or refused, a completion resumes its session.
LEMMA SessionStep ==
    ASSUME IndInv, NEW c \in Conns, Session(c)
    PROVE  IndInv'
  <1> USE ProcessAssumption DEF IndInv, executorVars
  <1>1. Network(TRUE) /\ Server!Session(c)
    BY DEF Session, Network
  <1>2. /\ running /\ UNCHANGED <<control, running, listening>>
        /\ session' = [session EXCEPT ![c] = session'[c]]
        /\ session[c] = "handling" => session'[c] # "handling"
        /\ session'[c] = "handling" => session[c] = "reading"
        /\ SessionsKnown'
    BY <1>1, SessionMoves
  <1>3. \A d \in Conns \ {c} : session'[d] = session[d]
    BY <1>2 DEF SessionsKnown
  <1>4. /\ awaiting \subseteq Conns /\ posted \subseteq awaiting
        /\ \A d \in awaiting : session[d] = "handling"
    BY DEF TypeOK, JobTypeOK, JobsKnown
  <1>5. CASE session'[c] = "handling" /\ Submit(c)
    <2>1. c \notin awaiting /\ ~OnItsWay(c) /\ \A d \in awaiting : session'[d] = "handling"
      BY <1>2, <1>3, <1>4, <1>5 DEF JobsKnown
    <2>2. CASE UNCHANGED <<awaiting, posted, executorVars>>
      <3>1. JobsKnown'
        BY <2>1, <2>2, JobsSame
      <3>2. QED
        BY <1>1, <1>2, <1>4, <2>2, <3>1, NetworkRest
    <2>3. CASE Executor!Accept(c) /\ awaiting' = awaiting \cup {c} /\ UNCHANGED posted
      <3> USE <2>3 DEF Executor!Accept
      <3>1. /\ pending' \in Seq(Conns)
            /\ DOMAIN pending = 1 .. Len(pending) /\ Len(pending) \in Nat
            /\ DOMAIN pending' = 1 .. (Len(pending) + 1)
            /\ \A i \in 1 .. Len(pending) : pending'[i] = pending[i]
            /\ pending'[Len(pending) + 1] = c
        BY AppendProperties DEF JobsKnown
      <3>2. UNCHANGED <<working, outcome, closed>> /\ submitted' = submitted \cup {c}
        OBVIOUS
      <3>3. \A d \in Conns : OnItsWay(d)' <=> OnItsWay(d) \/ d = c
        BY <3>1, <3>2 DEF OnItsWay
      <3>4. \A i, j \in DOMAIN pending' : pending'[i] = pending'[j] => i = j
        BY <2>1, <3>1 DEF OnItsWay, JobsKnown
      <3>5. \A i \in DOMAIN pending' : pending'[i] # working'
        BY <2>1, <3>1, <3>2 DEF OnItsWay, JobsKnown
      <3>6. \A d \in awaiting' : session'[d] = "handling"
        BY <1>5, <2>1
      <3>7. \A d \in Conns : OnItsWay(d)' => d \in submitted' /\ d \in awaiting' /\ d \notin posted'
        BY <1>4, <2>1, <3>2, <3>3 DEF JobsKnown
      <3>8. \A d \in submitted' : OnItsWay(d)' \/ outcome'[d] # None
        BY <3>2, <3>3 DEF JobsKnown
      <3>9. JobsKnown'
        BY <3>1, <3>2, <3>4, <3>5, <3>6, <3>7, <3>8 DEF JobsKnown
      <3>10. QED
        BY <1>1, <1>2, <1>4, <3>2, <3>9, NetworkRest
    <2>4. CASE /\ Executor!RefuseFull(c) \/ Executor!RefuseClosed(c)
               /\ awaiting' = awaiting \cup {c} /\ posted' = posted \cup {c}
      <3>1. /\ UNCHANGED <<pending, working, closed>> /\ submitted' = submitted \cup {c}
            /\ \E result \in {"Overloaded", "Storage"} : outcome' = [outcome EXCEPT ![c] = result]
        BY <2>4 DEF Executor!RefuseFull, Executor!RefuseClosed, Executor!Refuse
      <3>2. \A d \in awaiting' : session'[d] = "handling"
        BY <1>5, <2>1, <2>4
      <3>3. outcome' \in [Conns -> {None, "Value", "Storage", "Overloaded"}] /\ outcome'[c] # None
        BY <3>1 DEF JobsKnown
      <3>4. \A d \in Conns \ {c} : outcome'[d] = outcome[d]
        BY <3>1 DEF JobsKnown
      <3>5. JobsKnown'
        BY <2>1, <2>4, <3>1, <3>2, <3>3, <3>4 DEF JobsKnown, OnItsWay
      <3>6. QED
        BY <1>1, <1>2, <1>4, <2>4, <3>1, <3>5, NetworkRest
    <2>5. QED
      BY <1>5, <2>2, <2>3, <2>4 DEF Submit
  <1>6. CASE session[c] = "handling" /\ Resume(c)
    <2>1. /\ awaiting' = awaiting \ {c} /\ posted' = posted \ {c} /\ UNCHANGED executorVars
          /\ ~OnItsWay(c)
      BY <1>6 DEF Resume, JobsKnown
    <2>2. \A d \in awaiting' : session'[d] = "handling"
      BY <1>3, <1>4, <2>1
    <2>3. JobsKnown'
      BY <2>1, <2>2 DEF JobsKnown, OnItsWay
    <2>4. QED
      BY <1>1, <1>2, <1>4, <2>1, <2>3, NetworkRest
  <1>7. CASE "handling" \notin {session[c], session'[c]} /\ UNCHANGED <<awaiting, posted, executorVars>>
    <2>1. JobsKnown'
      BY <1>3, <1>4, <1>7, JobsSame
    <2>2. QED
      BY <1>1, <1>2, <1>4, <1>7, <2>1, NetworkRest
  <1>8. QED
    BY <1>5, <1>6, <1>7 DEF Session

\* The database worker takes the oldest job.
LEMMA JobStep ==
    ASSUME IndInv, StartJob
    PROVE  IndInv'
  <1> USE ProcessAssumption DEF IndInv, StartJob, Executor!Start, mainVars, signalVars, jobVars, history, serverVars
  <1>1. /\ Len(pending) \in Nat \ {0} /\ DOMAIN pending = 1 .. Len(pending)
        /\ pending' \in Seq(Conns) /\ DOMAIN pending' = 1 .. (Len(pending) - 1)
        /\ \A i \in 1 .. (Len(pending) - 1) : pending'[i] = pending[i + 1]
        /\ working' = pending[1] /\ working' \in Conns
    BY HeadTailProperties, EmptySeq, LenProperties DEF JobsKnown
  <1>2. UNCHANGED <<outcome, submitted, closed, awaiting, posted, session>> /\ working = None
    OBVIOUS
  <1>3. TypeOK'
    BY DEF TypeOK, MainTypeOK, JobTypeOK, ContextDestroyed
  <1>4. MainKnown'
    BY <1>2 DEF MainKnown, AfterServer, BeforeServer
  <1>5. AcceptorsKnown' /\ SessionsKnown'
    BY ServerSame
  <1>6. \A c \in Conns : OnItsWay(c)' <=> OnItsWay(c)
    <2>1. \A i \in DOMAIN pending : i = 1 \/ (i - 1 \in DOMAIN pending' /\ pending'[i - 1] = pending[i])
      BY <1>1
    <2>2. \A i \in DOMAIN pending' : i + 1 \in DOMAIN pending
      BY <1>1
    <2>3. None \notin Conns /\ 1 \in DOMAIN pending
      BY <1>1
    <2>4. \A i \in DOMAIN pending' : pending'[i] = pending[i + 1]
      BY <1>1
    <2> HIDE ProcessAssumption DEF IndInv, StartJob, Executor!Start
    <2>5. QED
      BY <1>1, <1>2, <2>1, <2>2, <2>3, <2>4 DEF OnItsWay
  <1>7. JobsKnown'
    <2>1. \A i, j \in DOMAIN pending' : pending'[i] = pending'[j] => i = j
      BY <1>1 DEF JobsKnown
    <2>2. \A i \in DOMAIN pending' : pending'[i] # working'
      BY <1>1 DEF JobsKnown
    <2>3. \A c \in Conns : OnItsWay(c)' => c \in submitted' /\ c \in awaiting' /\ c \notin posted'
      BY <1>2, <1>6 DEF JobsKnown
    <2>4. \A c \in submitted' : OnItsWay(c)' \/ outcome'[c] # None
      BY <1>2, <1>6 DEF JobsKnown
    <2>5. QED
      BY <1>1, <1>2, <2>1, <2>2, <2>3, <2>4 DEF JobsKnown
  <1>8. LateKnown'
    BY DEF LateKnown, AfterServer
  <1>9. QED
    BY <1>3, <1>4, <1>5, <1>7, <1>8

\* ... and posts its completion, if there is an io_context to post it to.
LEMMA CompletionStep ==
    ASSUME IndInv, FinishJob
    PROVE  IndInv'
  <1> USE ProcessAssumption DEF IndInv, FinishJob, Executor!Finish, mainVars, signalVars, history, serverVars
  <1>1. working \in Conns /\ OnItsWay(working) /\ working \in awaiting /\ working \in submitted
    BY DEF JobsKnown, OnItsWay
  <1>2. ContextDestroyed => working \in sessions
    BY <1>1 DEF JobsKnown, SessionsKnown, Server!Live
  <1>3. TypeOK'
    BY <1>1 DEF TypeOK, MainTypeOK, JobTypeOK, ContextDestroyed
  <1>4. MainKnown'
    BY DEF MainKnown, AfterServer, BeforeServer
  <1>5. AcceptorsKnown' /\ SessionsKnown'
    BY ServerSame
  <1>6. JobsKnown'
    <2>1. outcome' \in [Conns -> {None, "Value", "Storage", "Overloaded"}] /\ outcome'[working] # None
      BY <1>1 DEF JobsKnown
    <2>2. \A c \in Conns \ {working} : outcome'[c] = outcome[c]
      BY <1>1 DEF JobsKnown
    <2>3. UNCHANGED <<pending, submitted, awaiting, session>> /\ working' = None
      OBVIOUS
    <2>4. posted' \subseteq posted \cup {working}
      OBVIOUS
    <2>5. \A c \in Conns : OnItsWay(c)' <=> OnItsWay(c) /\ c # working
      BY <2>3 DEF OnItsWay, JobsKnown
    <2>6. \A c \in Conns : OnItsWay(c)' => c \in submitted' /\ c \in awaiting' /\ c \notin posted'
      BY <2>3, <2>4, <2>5 DEF JobsKnown
    <2>7. \A c \in submitted' : OnItsWay(c)' \/ outcome'[c] # None
      BY <2>1, <2>2, <2>3, <2>5 DEF JobsKnown
    <2>8. \A i \in DOMAIN pending' : pending'[i] # working'
      BY <2>3 DEF JobsKnown
    <2>9. QED
      BY <2>1, <2>3, <2>6, <2>7, <2>8 DEF JobsKnown
  <1>7. LateKnown'
    BY <1>2 DEF LateKnown, AfterServer, ContextDestroyed
  <1>8. QED
    BY <1>3, <1>4, <1>5, <1>6, <1>7
-----------------------------------------------------------------------------
(* The theorems.                                                           *)

\* Each step of the process keeps them fitting.
LEMMA StepIndInv == IndInv /\ [Next]_vars => IndInv'
  <1> SUFFICES ASSUME IndInv, [Next]_vars PROVE IndInv'
    OBVIOUS
  <1>1. CASE ReadArguments \/ LoadConfiguration \/ Construct
    BY <1>1, EarlyStep
  <1>2. CASE StartServer
    BY <1>2, StartStep
  <1>3. CASE Wait \/ SpuriousWakeup \/ SignalKills \/ \E t \in Threads : SignalHandled(t) \/ RequestStop(t)
    BY <1>3, WaitStep
  <1>4. CASE StopServer
    BY <1>4, StopStep
  <1>5. CASE DestroyServer
    BY <1>5, DestroyStep
  <1>6. CASE CloseExecutor \/ JoinExecutor
    BY <1>6, ExecutorStep
  <1>7. CASE Accepts \/ \E c \in Conns : Connects(c)
    BY <1>7, AcceptStep
  <1>8. CASE \E c \in Conns : Session(c)
    BY <1>8, SessionStep
  <1>9. CASE StartJob
    BY <1>9, JobStep
  <1>10. CASE FinishJob
    BY <1>10, CompletionStep
  <1>11. CASE UNCHANGED vars
    <2> USE <1>11 DEF vars, mainVars, signalVars, jobVars, history, serverVars, executorVars
    <2>1. main' = main /\ UNCHANGED <<argv, control, status, closed, sessions, submitted, pending, working>>
      OBVIOUS
    <2>2. MainKnown'
      BY <2>1 DEF IndInv, MainKnown, AfterServer, BeforeServer
    <2>3. MainTypeOK'
      BY DEF IndInv, TypeOK, MainTypeOK
    <2>4. QED
      BY <2>1, <2>2, <2>3, MainOnly
  <1>12. QED
    BY <1>1, <1>2, <1>3, <1>4, <1>5, <1>6, <1>7, <1>8, <1>9, <1>10, <1>11 DEF Next, MainStep

\* The strengthening of all that follows: main's place, the server's and every
\* job's fit together in every state of the process.
THEOREM IndInvAlways == SafeSpec => []IndInv
  BY InitIndInv, StepIndInv, PTL DEF SafeSpec

\* main, its handlers, the sessions that wait for the database and their
\* completions stay within their types; no completion waits in an io_context
\* that is gone, or for a session that does not await it.
THEOREM TypeCorrect == SafeSpec => []TypeOK
  <1>1. IndInv => TypeOK
    BY DEF IndInv
  <1>2. QED
    BY <1>1, IndInvAlways, PTL

\* Server.hpp:47: the executor outlives the server, and an orderly exit leaves
\* no accepted job undone.
THEOREM ExitOrderly == SafeSpec => []OrderlyExit
  <1>1. IndInv => OrderlyExit
    <2> SUFFICES ASSUME IndInv PROVE OrderlyExit
      OBVIOUS
    <2>1. closed => ~running /\ listening = {}
      BY DEF IndInv, MainKnown, AcceptorsKnown
    <2>2. main = "exited" /\ status \in {0, 4} => \A c \in submitted : ~OnItsWay(c)
      BY ProcessAssumption DEF IndInv, MainKnown, JobsKnown, OnItsWay
    <2>3. QED
      BY <2>1, <2>2 DEF IndInv, JobsKnown, OrderlyExit
  <1>2. QED
    BY <1>1, IndInvAlways, PTL

\* A completion is posted to a destroyed io_context only if Stop gave up its
\* wait, or its session was registered too late for Stop to see.
THEOREM LateOnly == SafeSpec => []LateOnlyAfterTimeout
  <1>1. IndInv => LateOnlyAfterTimeout
    BY DEF IndInv, LateKnown, LateOnlyAfterTimeout, TypeOK, JobTypeOK
  <1>2. QED
    BY <1>1, IndInvAlways, PTL
-----------------------------------------------------------------------------
(* The command line.                                                       *)

\* The settings after each argument.
Parses(f, list) ==
    f = [n \in 0 .. Len(list) |->
            IF n = 0 THEN Defaults
            ELSE IF f[n - 1] = Rejected THEN Rejected
            ELSE ParseToken(f[n - 1], list[n])]

\* The loop of ParseArgs can make its first m turns, whatever m is.
LEMMA ParsingDefined ==
    ASSUME NEW list, Len(list) \in Nat
    PROVE  \E f : Parses(f, list) /\ ParseArgs(list) = f[Len(list)]
  <1> DEFINE N == Len(list)
             Turn(f, n) == IF n = 0 THEN Defaults
                           ELSE IF f[n - 1] = Rejected THEN Rejected
                           ELSE ParseToken(f[n - 1], list[n])
             Turns(m, f) == f = [n \in 0 .. m |-> Turn(f, n)]
             T == {m \in Nat : ~ \E f : Turns(m, f)}
  <1>1. T = {}
    <2>1. SUFFICES ASSUME T # {} PROVE FALSE
      OBVIOUS
    <2>2. PICK m \in T : \A y \in T : m <= y
      <3> HIDE DEF Turns
      <3>1. T \subseteq Nat
        OBVIOUS
      <3> HIDE DEF T
      <3>2. QED
        BY <2>1, <3>1, Least
    <2>3. m # 0
      <3>1. Turns(0, [n \in 0 .. 0 |-> Defaults])
        OBVIOUS
      <3>2. QED
        BY <3>1
    <2>4. m - 1 \in Nat /\ m - 1 \notin T
      BY <2>2, <2>3
    <2>5. PICK f : Turns(m - 1, f)
      BY <2>4
    <2> DEFINE g == [n \in 0 .. m |-> IF n = m THEN Turn(f, m) ELSE f[n]]
    <2>6. \A n \in 0 .. m - 1 : g[n] = f[n]
      BY <2>4
    <2>7. \A n \in 0 .. m : g[n] = Turn(g, n)
      <3>1. TAKE n \in 0 .. m
      <3>2. CASE n = m
        <4>1. g[m] = Turn(f, m) /\ g[m - 1] = f[m - 1]
          BY <2>4, <2>6
        <4> HIDE DEF g
        <4>2. QED
          BY <2>3, <3>2, <4>1
      <3>3. CASE n # m
        <4>1. n \in 0 .. m - 1 /\ (n # 0 => n - 1 \in 0 .. m - 1)
          BY <2>4, <3>3
        <4>2. f[n] = Turn(f, n)
          <5> HIDE DEF g, Turn
          <5>1. QED
            BY <2>5, <4>1
        <4> HIDE DEF g
        <4>3. QED
          BY <2>6, <4>1, <4>2
      <3>4. QED
        BY <3>2, <3>3
    <2>8. Turns(m, g)
      <3> DEFINE h == [n \in 0 .. m |-> Turn(g, n)]
      <3> HIDE DEF Turn
      <3>1. \A n \in 0 .. m : g[n] = h[n]
        BY <2>7
      <3>2. g = h
        BY <3>1
      <3>3. QED
        BY <3>2
    <2>9. QED
      BY <2>2, <2>8
  <1>2. \E f : Turns(N, f)
    BY <1>1
  <1> DEFINE r == CHOOSE f : Turns(N, f)
  <1>3. Turns(N, r)
    <2> HIDE DEF Turns
    <2>1. QED
      BY <1>2
  <1>4. ParseArgs(list) = r[N]
    BY DEF ParseArgs
  <1>5. Parses(r, list)
    BY <1>3 DEF Parses
  <1>6. QED
    BY <1>4, <1>5

\* The options of the tables.
LEMMA Options ==
    /\ OptionsOf(ValueFlags) = {"--json-out", "--yaml-out", "--db-path", "--server-config"}
    /\ OptionsOf(BoolFlags) = {"-h", "--help", "--full-info", "--short", "--console", "--no-console", "--json",
                               "--no-json", "--yaml", "--no-yaml", "--all-recipes", "--cookable"}
    /\ OptionsOf(ValueFlags) \cap OptionsOf(BoolFlags) = {}
    /\ OptionsOf(ValueFlags) \cap Commands = {} /\ OptionsOf(BoolFlags) \cap Commands = {}
  <1>1. OptionsOf(ValueFlags) = {"--json-out", "--yaml-out", "--db-path", "--server-config"}
    BY DEF OptionsOf, ValueFlags
  <1>2. OptionsOf(BoolFlags) = {"-h", "--help", "--full-info", "--short", "--console", "--no-console", "--json",
                               "--no-json", "--yaml", "--no-yaml", "--all-recipes", "--cookable"}
    BY DEF OptionsOf, BoolFlags
  <1>3. QED
    BY <1>1, <1>2 DEF Commands

\* An option stands in one table, once.
LEMMA OneFlag ==
    /\ \A f, g \in ValueFlags : f.option = g.option => f = g
    /\ \A f, g \in BoolFlags : f.option = g.option => f = g
  <1>1. \A f, g \in ValueFlags : f.option = g.option => f = g
    BY DEF ValueFlags
  <1>2. \A f, g \in BoolFlags : f.option = g.option => f = g
    BY DEF BoolFlags
  <1>3. QED
    BY <1>1, <1>2

\* The fields the options set, and what they set them to.
LEMMA FieldsSet ==
    /\ \A f \in ValueFlags : f.field \in DOMAIN Defaults
    /\ \A f \in BoolFlags : f.field \in DOMAIN Defaults
    /\ \A f \in ValueFlags, g \in BoolFlags : f.field # g.field
    /\ Defaults.json_out_path # Defaults.yaml_out_path
    /\ {"json_out_path", "yaml_out_path"} \subseteq DOMAIN Defaults
    /\ \E f \in ValueFlags : f.field = "json_out_path"
    /\ \E f \in ValueFlags : f.field = "yaml_out_path"
  <1>1. \A f \in ValueFlags : f.field \in {"json_out_path", "yaml_out_path", "db_path", "server_config_path"}
    BY DEF ValueFlags
  <1>2. \A f \in BoolFlags : f.field \in {"show_help", "is_full_info", "write_console", "write_json", "write_yaml",
                                          "recipe_selection"}
    BY DEF BoolFlags
  <1>3. DOMAIN Defaults = {"show_help", "recipe_selection", "db_path", "server_config_path", "is_full_info",
                           "write_console", "write_json", "write_yaml", "json_out_path", "yaml_out_path"}
    BY DEF Defaults
  <1>4. Defaults.json_out_path # Defaults.yaml_out_path
    BY DEF Defaults
  <1>5. (\E f \in ValueFlags : f.field = "json_out_path") /\ (\E f \in ValueFlags : f.field = "yaml_out_path")
    BY DEF ValueFlags
  <1>6. QED
    BY <1>1, <1>2, <1>3, <1>4, <1>5

\* An option of the tables is the one of its flag.
LEMMA FlagFound ==
    ASSUME NEW option
    PROVE  /\ option \in OptionsOf(ValueFlags) =>
                  FlagOf(ValueFlags, option) \in ValueFlags /\ FlagOf(ValueFlags, option).option = option
           /\ option \in OptionsOf(BoolFlags) =>
                  FlagOf(BoolFlags, option) \in BoolFlags /\ FlagOf(BoolFlags, option).option = option
  <1>1. option \in OptionsOf(ValueFlags) => \E f \in ValueFlags : f.option = option
    BY DEF OptionsOf
  <1>2. option \in OptionsOf(BoolFlags) => \E f \in BoolFlags : f.option = option
    BY DEF OptionsOf
  <1>3. QED
    BY <1>1, <1>2 DEF FlagOf

\* The argument sets the field.
Sets(flags, token, field) == \E f \in flags : f.option = token.option /\ f.field = field

\* One more argument gives a field its value, or leaves it.
LEMMA GivenNext ==
    ASSUME NEW list, NEW n \in Nat, NEW flags, NEW field
    PROVE  /\ LastGiven(list, n + 1, flags, field) =
                  IF Sets(flags, list[n + 1], field) THEN n + 1 ELSE LastGiven(list, n, flags, field)
           /\ LastGiven(list, 0, flags, field) = 0
  <1> DEFINE at(k) == {i \in 1 .. k : \E f \in flags : f.option = list[i].option /\ f.field = field}
  <1>1. \A k : LastGiven(list, k, flags, field) =
                   IF at(k) = {} THEN 0 ELSE CHOOSE i \in at(k) : \A j \in at(k) : j <= i
    BY DEF LastGiven
  <1>2. at(0) = {}
    OBVIOUS
  <1>3. \A i \in 1 .. n + 1 : i \in 1 .. n \/ i = n + 1
    OBVIOUS
  <1>4. CASE Sets(flags, list[n + 1], field)
    <2>1. n + 1 \in at(n + 1)
      BY <1>4 DEF Sets
    <2>2. \A j \in at(n + 1) : j \in Int /\ j <= n + 1
      OBVIOUS
    <2> HIDE DEF at
    <2>3. \A i \in at(n + 1) : (\A j \in at(n + 1) : j <= i) => i = n + 1
      BY <2>1, <2>2
    <2> DEFINE last == CHOOSE i \in at(n + 1) : \A j \in at(n + 1) : j <= i
    <2>4. last \in at(n + 1) /\ \A j \in at(n + 1) : j <= last
      BY <2>1, <2>2
    <2>5. last = n + 1
      BY <2>3, <2>4
    <2>6. QED
      BY <1>1, <1>2, <1>4, <2>1, <2>5
  <1>5. CASE ~Sets(flags, list[n + 1], field)
    <2>1. at(n + 1) = at(n)
      BY <1>3, <1>5 DEF Sets
    <2> HIDE DEF at
    <2>2. QED
      BY <1>1, <1>2, <1>5, <2>1
  <1>6. QED
    BY <1>4, <1>5

\* A field of the two kinds.
IsPath(field) == \E f \in ValueFlags : f.field = field

\* What a field is after n arguments.
Given(list, n, field) ==
    IF IsPath(field) THEN PathGiven(list, n, field) ELSE SwitchGiven(list, n, field)

\* Field by field.
LEMMA SettingsAre ==
    ASSUME NEW list, NEW n
    PROVE  /\ DOMAIN SettingsAfter(list, n) = DOMAIN Defaults
           /\ SettingsAfter(list, n) = [field \in DOMAIN Defaults |-> Given(list, n, field)]
           /\ \A field \in DOMAIN Defaults : SettingsAfter(list, n)[field] = Given(list, n, field)
  BY DEF SettingsAfter, Given, IsPath

\* The settings before any argument are the defaults.
LEMMA GivenFirst ==
    ASSUME NEW list
    PROVE  SettingsAfter(list, 0) = Defaults
  <1>1. \A field : LastGiven(list, 0, ValueFlags, field) = 0 /\ LastGiven(list, 0, BoolFlags, field) = 0
    BY GivenNext, 0 \in Nat
  <1>2. \A field \in DOMAIN Defaults : Given(list, 0, field) = Defaults[field]
    BY <1>1 DEF Given, PathGiven, SwitchGiven
  <1>3. SettingsAfter(list, 0) = [field \in DOMAIN Defaults |-> Defaults[field]]
    BY <1>2, SettingsAre
  <1>4. Defaults = [field \in DOMAIN Defaults |-> Defaults[field]]
    BY DEF Defaults
  <1>5. QED
    BY <1>3, <1>4

\* A path: the value of its option.
LEMMA PathNext ==
    ASSUME NEW list, NEW n \in Nat, NEW field
    PROVE  PathGiven(list, n + 1, field) =
               IF Sets(ValueFlags, list[n + 1], field) THEN list[n + 1].value ELSE PathGiven(list, n, field)
  <1>1. LastGiven(list, n + 1, ValueFlags, field) =
            IF Sets(ValueFlags, list[n + 1], field) THEN n + 1 ELSE LastGiven(list, n, ValueFlags, field)
    BY GivenNext
  <1>2. n + 1 # 0
    OBVIOUS
  <1>3. QED
    BY <1>1, <1>2 DEF PathGiven

\* A switch: the value its option stands for.
LEMMA SwitchNext ==
    ASSUME NEW list, NEW n \in Nat, NEW field
    PROVE  SwitchGiven(list, n + 1, field) =
               IF Sets(BoolFlags, list[n + 1], field) THEN FlagOf(BoolFlags, list[n + 1].option).value
                                                      ELSE SwitchGiven(list, n, field)
  <1>1. LastGiven(list, n + 1, BoolFlags, field) =
            IF Sets(BoolFlags, list[n + 1], field) THEN n + 1 ELSE LastGiven(list, n, BoolFlags, field)
    BY GivenNext
  <1>2. n + 1 # 0
    OBVIOUS
  <1>3. QED
    BY <1>1, <1>2 DEF SwitchGiven

\* The output paths after n arguments differ.
Parted(list, n) == PathGiven(list, n, "json_out_path") # PathGiven(list, n, "yaml_out_path")

GoodUpTo(list, n) == \A i \in 1 .. n : IsValidToken(list[i]) /\ Parted(list, i)

\* Which field an option sets, if it sets one.
LEMMA SetsOne ==
    ASSUME NEW token, NEW field
    PROVE  /\ Sets(ValueFlags, token, field) <=>
                  /\ token.option \in OptionsOf(ValueFlags)
                  /\ field = FlagOf(ValueFlags, token.option).field
           /\ Sets(BoolFlags, token, field) <=>
                  /\ token.option \in OptionsOf(BoolFlags)
                  /\ field = FlagOf(BoolFlags, token.option).field
  <1>1. /\ token.option \in OptionsOf(ValueFlags) <=> \E f \in ValueFlags : f.option = token.option
        /\ token.option \in OptionsOf(BoolFlags) <=> \E f \in BoolFlags : f.option = token.option
    BY DEF OptionsOf
  <1>2. PICK option : option = token.option
    OBVIOUS
  <1>3. \A f \in ValueFlags : f.option = option => f = FlagOf(ValueFlags, option)
    BY <1>1, <1>2, FlagFound, OneFlag
  <1>4. \A f \in BoolFlags : f.option = option => f = FlagOf(BoolFlags, option)
    BY <1>1, <1>2, FlagFound, OneFlag
  <1>5. Sets(ValueFlags, token, field) <=>
            token.option \in OptionsOf(ValueFlags) /\ field = FlagOf(ValueFlags, token.option).field
    BY <1>1, <1>2, <1>3 DEF Sets
  <1>6. Sets(BoolFlags, token, field) <=>
            token.option \in OptionsOf(BoolFlags) /\ field = FlagOf(BoolFlags, token.option).field
    BY <1>1, <1>2, <1>4 DEF Sets
  <1>7. QED
    BY <1>5, <1>6

\* The first two paths differ, and only an option for a path changes one.
LEMMA StaysParted ==
    ASSUME NEW list, NEW n \in Nat, GoodUpTo(list, n)
    PROVE  Parted(list, n)
  <1>1. CASE n = 0
    <2>1. \A field : LastGiven(list, 0, ValueFlags, field) = 0
      BY GivenNext, 0 \in Nat
    <2>2. \A field : PathGiven(list, 0, field) = Defaults[field]
      BY <2>1 DEF PathGiven
    <2>3. QED
      BY <1>1, <2>2, FieldsSet DEF Parted
  <1>2. CASE n # 0
    BY <1>2, n \in 1 .. n DEF GoodUpTo
  <1>3. QED
    BY <1>1, <1>2

\* One turn of the loop: the argument is wrong, or it sets what it asks for.
LEMMA TurnSettles ==
    ASSUME NEW list, NEW n \in Nat, GoodUpTo(list, n),
           NEW token, token = list[n + 1], NEW s, s = SettingsAfter(list, n), NEW t, t = SettingsAfter(list, n + 1)
    PROVE  ParseToken(s, token) = IF IsValidToken(token) /\ Parted(list, n + 1) THEN t ELSE Rejected
  <1>1. /\ s = [field \in DOMAIN Defaults |-> Given(list, n, field)]
        /\ t = [field \in DOMAIN Defaults |-> Given(list, n + 1, field)]
    BY SettingsAre
  <1>2. \A field : /\ PathGiven(list, n + 1, field) =
                          IF Sets(ValueFlags, token, field) THEN token.value ELSE PathGiven(list, n, field)
                   /\ SwitchGiven(list, n + 1, field) =
                          IF Sets(BoolFlags, token, field) THEN FlagOf(BoolFlags, token.option).value
                                                           ELSE SwitchGiven(list, n, field)
    BY PathNext, SwitchNext
  <1>3. Parted(list, n)
    BY StaysParted
  <1>4. CASE ~IsValidToken(token)
    BY <1>4 DEF ParseToken
  <1>5. CASE IsValidToken(token) /\ token.option \in OptionsOf(ValueFlags)
    <2>1. PICK flag \in ValueFlags : flag = FlagOf(ValueFlags, token.option)
      BY <1>5, FlagFound
    <2>2. \A field : Sets(ValueFlags, token, field) <=> field = flag.field
      BY <1>5, <2>1, SetsOne
    <2>3. \A field : ~Sets(BoolFlags, token, field)
      BY <1>5, Options, SetsOne
    <2>4. IsPath(flag.field) /\ flag.field \in DOMAIN Defaults
      BY FieldsSet DEF IsPath
    <2>5. \A field : Given(list, n + 1, field) = IF field = flag.field THEN token.value ELSE Given(list, n, field)
      BY <1>2, <2>2, <2>3, <2>4 DEF Given
    <2>6. t = [s EXCEPT ![flag.field] = token.value]
      BY <1>1, <2>4, <2>5
    <2>7. /\ t["json_out_path"] = PathGiven(list, n + 1, "json_out_path")
          /\ t["yaml_out_path"] = PathGiven(list, n + 1, "yaml_out_path")
      BY <1>1, FieldsSet DEF Given, IsPath
    <2>8. ParseToken(s, token) = SetValueFlag(s, token)
      <3>1. token.option \notin OptionsOf(BoolFlags)
        BY <1>5, Options
      <3>2. QED
        BY <1>5, <3>1 DEF ParseToken
    <2>9. SetValueFlag(s, token) = IF t.json_out_path = t.yaml_out_path THEN Rejected ELSE t
      BY <2>1, <2>6 DEF SetValueFlag
    <2>10. QED
      BY <1>5, <2>7, <2>8, <2>9 DEF Parted
  <1>6. CASE IsValidToken(token) /\ token.option \in OptionsOf(BoolFlags)
    <2>1. PICK flag \in BoolFlags : flag = FlagOf(BoolFlags, token.option)
      BY <1>6, FlagFound
    <2>2. \A field : Sets(BoolFlags, token, field) <=> field = flag.field
      BY <1>6, <2>1, SetsOne
    <2>3. \A field : ~Sets(ValueFlags, token, field)
      BY <1>6, Options, SetsOne
    <2>4. ~IsPath(flag.field) /\ flag.field \in DOMAIN Defaults
      BY FieldsSet DEF IsPath
    <2>5. \A field : Given(list, n + 1, field) = IF field = flag.field THEN flag.value ELSE Given(list, n, field)
      BY <1>2, <2>1, <2>2, <2>3, <2>4 DEF Given
    <2>6. t = [s EXCEPT ![flag.field] = flag.value]
      BY <1>1, <2>4, <2>5
    <2>7. Parted(list, n + 1)
      BY <1>2, <1>3, <2>3 DEF Parted
    <2>8. token.option \notin OptionsOf(ValueFlags)
      BY <1>6, Options
    <2>9. ParseToken(s, token) = SetBoolFlag(s, token)
      BY <1>6, <2>8 DEF ParseToken
    <2>10. QED
      BY <1>6, <2>1, <2>6, <2>7, <2>9 DEF SetBoolFlag
  <1>7. CASE IsValidToken(token) /\ token.option \notin OptionsOf(ValueFlags) \cup OptionsOf(BoolFlags)
    <2>1. \A field : ~Sets(ValueFlags, token, field) /\ ~Sets(BoolFlags, token, field)
      BY <1>7, SetsOne
    <2>2. \A field : Given(list, n + 1, field) = Given(list, n, field)
      BY <1>2, <2>1 DEF Given
    <2>3. t = s
      BY <1>1, <2>2
    <2>4. Parted(list, n + 1)
      BY <1>2, <1>3, <2>1 DEF Parted
    <2>5. ParseToken(s, token) = s
      BY <1>7 DEF ParseToken
    <2>6. QED
      BY <1>7, <2>3, <2>4, <2>5
  <1>8. QED
    BY <1>4, <1>5, <1>6, <1>7

\* What it comes to, after every turn.
LEMMA ParsedIs ==
    ASSUME NEW list, Len(list) \in Nat, NEW f, Parses(f, list),
           \A n \in 0 .. Len(list) : SettingsAfter(list, n) # Rejected
    PROVE  \A n \in 0 .. Len(list) : f[n] = IF GoodUpTo(list, n) THEN SettingsAfter(list, n) ELSE Rejected
  <1> DEFINE Right(n) == f[n] = IF GoodUpTo(list, n) THEN SettingsAfter(list, n) ELSE Rejected
             T == {n \in 0 .. Len(list) : ~Right(n)}
  <1>1. SUFFICES ASSUME T # {} PROVE FALSE
    OBVIOUS
  <1>2. PICK m \in T : \A y \in T : m <= y
    <2> HIDE DEF Right
    <2>1. T \subseteq Nat
      OBVIOUS
    <2> HIDE DEF T
    <2>2. QED
      BY <1>1, <2>1, Least
  <1>3. \A n \in 0 .. Len(list) : f[n] = IF n = 0 THEN Defaults
                                         ELSE IF f[n - 1] = Rejected THEN Rejected
                                         ELSE ParseToken(f[n - 1], list[n])
    <2> DEFINE Turn(n) == IF n = 0 THEN Defaults
                          ELSE IF f[n - 1] = Rejected THEN Rejected
                          ELSE ParseToken(f[n - 1], list[n])
    <2>1. f = [n \in 0 .. Len(list) |-> Turn(n)]
      BY DEF Parses
    <2> HIDE DEF Turn
    <2>2. \A n \in 0 .. Len(list) : f[n] = Turn(n)
      BY <2>1
    <2>3. QED
      BY <2>2 DEF Turn
  <1>4. m # 0
    <2>1. 0 \in 0 .. Len(list) /\ GoodUpTo(list, 0)
      BY DEF GoodUpTo
    <2>2. Right(0)
      BY <1>3, <2>1, GivenFirst
    <2>3. QED
      BY <2>2
  <1>5. PICK n \in 0 .. Len(list) : n = m - 1 /\ n + 1 = m /\ n \in Nat /\ n \notin T
    BY <1>2, <1>4
  <1>6. Right(n) /\ m \in 0 .. Len(list) /\ ~Right(m)
    BY <1>5
  <1>7. f[m] = IF f[n] = Rejected THEN Rejected ELSE ParseToken(f[n], list[m])
    BY <1>3, <1>4, <1>5, <1>6
  <1>8. GoodUpTo(list, m) <=> GoodUpTo(list, n) /\ IsValidToken(list[m]) /\ Parted(list, m)
    <2>1. \A i \in 1 .. m : i \in 1 .. n \/ i = m
      BY <1>5
    <2>2. \A i \in 1 .. n : i \in 1 .. m
      BY <1>5
    <2>3. m \in 1 .. m
      BY <1>5
    <2>4. QED
      BY <2>1, <2>2, <2>3 DEF GoodUpTo
  <1>9. CASE GoodUpTo(list, n)
    <2>1. f[n] = SettingsAfter(list, n) /\ f[n] # Rejected
      BY <1>6, <1>9
    <2>2. ParseToken(SettingsAfter(list, n), list[n + 1]) =
              IF IsValidToken(list[n + 1]) /\ Parted(list, n + 1) THEN SettingsAfter(list, n + 1) ELSE Rejected
      BY <1>5, <1>9, TurnSettles
    <2>3. QED
      BY <1>5, <1>6, <1>7, <1>8, <1>9, <2>1, <2>2
  <1>10. CASE ~GoodUpTo(list, n)
    BY <1>6, <1>7, <1>8, <1>10
  <1>11. QED
    BY <1>9, <1>10

\* ParseArgs reads a list as it says: the reference definition.
THEOREM ParseArgsTells ==
    ASSUME NEW list, Len(list) \in Nat, DOMAIN list = 1 .. Len(list),
           \A n \in 0 .. Len(list) : SettingsAfter(list, n) # Rejected
    PROVE  ParseArgs(list) = IF WellFormed(list) THEN Settings(list) ELSE Rejected
  <1>1. PICK f : Parses(f, list) /\ ParseArgs(list) = f[Len(list)]
    BY ParsingDefined
  <1>2. Len(list) \in 0 .. Len(list)
    OBVIOUS
  <1>3. f[Len(list)] = IF GoodUpTo(list, Len(list)) THEN SettingsAfter(list, Len(list)) ELSE Rejected
    BY <1>1, <1>2, ParsedIs
  <1>4. WellFormed(list) = GoodUpTo(list, Len(list))
    BY DEF WellFormed, GoodUpTo, Parted
  <1>5. QED
    BY <1>1, <1>3, <1>4 DEF Settings
-----------------------------------------------------------------------------
(* The exit status.                                                        *)

\* main forgets its arguments with the configuration it loads, and until the
\* server runs it keeps one that was found valid.
ArgumentsKnown ==
    /\ argv # None => argv \in ArgLists
    /\ main \notin {"parse", "load", "exited"} => argv = None
    /\ main \in {"construct", "serve"} => config \in Configurations
    /\ main = "load" => ParseArgs(argv) # Rejected /\ ~ParseArgs(argv).show_help
                        /\ ParseArgs(argv).server_config_path # Empty
    /\ main = "exited" /\ argv # None /\ status # Killed =>
           \/ status = 2 /\ ParseArgs(argv) = Rejected
           \/ /\ status = 0 /\ ParseArgs(argv) # Rejected
              /\ ParseArgs(argv).show_help \/ ParseArgs(argv).server_config_path = Empty
           \/ /\ status = 3 /\ ParseArgs(argv) # Rejected
              /\ ~ParseArgs(argv).show_help /\ ParseArgs(argv).server_config_path \in Paths
              /\ LoadServerConfig(FileAt[ParseArgs(argv).server_config_path]) = Invalid

\* What ParseArgs says of a command line of this process.
LEMMA ParsedArguments ==
    ASSUME NEW list \in ArgLists
    PROVE  /\ ParseArgs(list) = IF WellFormed(list) THEN Settings(list) ELSE Rejected
           /\ Settings(list) # Rejected
           /\ ParseArgs(list) # Rejected => ParseArgs(list).server_config_path \in Paths \cup {Empty}
  <1>1. /\ Len(list) \in Nat /\ DOMAIN list = 1 .. Len(list)
        /\ \A n \in 0 .. Len(list) : SettingsAfter(list, n) # Rejected
        /\ ParseArgs(list) # Rejected => ParseArgs(list).server_config_path \in Paths \cup {Empty}
    BY ProcessAssumption
  <1>2. Settings(list) # Rejected
    BY <1>1, Len(list) \in 0 .. Len(list) DEF Settings
  <1>3. QED
    BY <1>1, <1>2, ParseArgsTells

\* Steps that leave main and what it knows alone.
LEMMA ArgumentsSame ==
    ASSUME ArgumentsKnown, UNCHANGED mainVars
    PROVE  ArgumentsKnown'
  BY DEF ArgumentsKnown, mainVars

\* Only what main does before there is a server bears on it, and its ends.
LEMMA StepArguments ==
    ASSUME IndInv, ArgumentsKnown, [Next]_vars
    PROVE  ArgumentsKnown'
  <1> USE DEF From, Exit
  <1>1. CASE ReadArguments
    <2>1. argv \in ArgLists /\ main = "parse" /\ argv # None /\ argv' = argv
      BY <1>1, ProcessAssumption DEF ReadArguments, IndInv, MainKnown
    <2>2. \/ ParseArgs(argv) = Rejected /\ main' = "exited" /\ status' = 2
          \/ /\ ParseArgs(argv) # Rejected /\ main' = "exited" /\ status' = 0
             /\ ParseArgs(argv).show_help \/ ParseArgs(argv).server_config_path = Empty
          \/ /\ ParseArgs(argv) # Rejected /\ main' = "load"
             /\ ~ParseArgs(argv).show_help /\ ParseArgs(argv).server_config_path # Empty
      BY <1>1 DEF ReadArguments
    <2>3. QED
      BY <2>1, <2>2 DEF ArgumentsKnown
  <1>2. CASE LoadConfiguration
    <2>1. /\ argv \in ArgLists /\ main = "load" /\ argv # None
          /\ ParseArgs(argv) # Rejected /\ ~ParseArgs(argv).show_help
          /\ ParseArgs(argv).server_config_path # Empty
      BY <1>2, ProcessAssumption DEF LoadConfiguration, IndInv, MainKnown, ArgumentsKnown
    <2>2. ParseArgs(argv).server_config_path \in Paths
      BY <2>1, ParsedArguments
    <2>3. CASE LoadServerConfig(FileAt[ParseArgs(argv).server_config_path]) = Invalid
      BY <1>2, <2>1, <2>2, <2>3 DEF LoadConfiguration, ArgumentsKnown
    <2>4. CASE LoadServerConfig(FileAt[ParseArgs(argv).server_config_path]) # Invalid
      <3>1. config' \in Configurations /\ main' = "construct" /\ argv' = None
        BY <1>2, <2>2, <2>4 DEF LoadConfiguration, Configurations
      <3>2. QED
        BY <3>1 DEF ArgumentsKnown
    <2>5. QED
      BY <2>3, <2>4
  <1>3. CASE Construct \/ Wait \/ SpuriousWakeup \/ StopServer \/ DestroyServer \/ CloseExecutor \/ JoinExecutor
    <2>1. /\ main \notin {"parse", "load", "exited"} /\ main' \notin {"parse", "load"}
          /\ UNCHANGED <<argv, config>>
          /\ main' \in {"construct", "serve"} => main = "construct"
      <3>1. CASE Construct
        BY <3>1 DEF Construct
      <3>2. CASE Wait \/ SpuriousWakeup
        BY <3>2 DEF Wait, SpuriousWakeup, MainGoes
      <3>3. CASE StopServer
        BY <3>3 DEF StopServer
      <3>4. CASE DestroyServer \/ CloseExecutor \/ JoinExecutor
        BY <3>4 DEF DestroyServer, CloseExecutor, JoinExecutor
      <3>5. QED
        BY <1>3, <3>1, <3>2, <3>3, <3>4
    <2>2. QED
      BY <2>1 DEF ArgumentsKnown
  <1>4. CASE StartServer
    <2>1. main = "serve" /\ main' \in {"serve", "signalInt", "destroyServer"} /\ argv' = argv
      BY <1>4 DEF StartServer
    <2>2. main' = "serve" => config' = config
      BY <1>4 DEF StartServer
    <2>3. QED
      BY <2>1, <2>2 DEF ArgumentsKnown
  <1>5. CASE SignalKills
    BY <1>5 DEF SignalKills, ArgumentsKnown
  <1>6. CASE \E t \in Threads : SignalHandled(t) \/ RequestStop(t)
    <2>1. main' = main \/ (main = "asleep" /\ main' = "predicate")
      BY <1>6 DEF SignalHandled, RequestStop, StoreRequested, Notify, mainVars
    <2>2. UNCHANGED <<argv, config, status>>
      BY <1>6 DEF SignalHandled, RequestStop, StoreRequested, Notify, mainVars
    <2>3. QED
      BY <2>1, <2>2 DEF ArgumentsKnown
  <1>7. CASE Accepts \/ \E c \in Conns : Connects(c) \/ Session(c)
    BY <1>7, ArgumentsSame DEF Accepts, Connects, Session, Network
  <1>8. CASE StartJob \/ FinishJob
    BY <1>8, ArgumentsSame DEF StartJob, FinishJob
  <1>9. CASE UNCHANGED vars
    BY <1>9, ArgumentsSame DEF vars
  <1>10. QED
    BY <1>1, <1>2, <1>3, <1>4, <1>5, <1>6, <1>7, <1>8, <1>9 DEF Next, MainStep

\* The exit status of main tells why the process has ended, whatever the command
\* line and the files.
THEOREM StatusExplained == SafeSpec => []StatusTellsWhy
  <1>1. Init => ArgumentsKnown
    BY DEF Init, ArgumentsKnown
  <1>2. IndInv /\ ArgumentsKnown /\ [Next]_vars => ArgumentsKnown'
    BY StepArguments
  <1>3. IndInv /\ ArgumentsKnown => StatusTellsWhy
    <2> SUFFICES ASSUME IndInv, ArgumentsKnown PROVE StatusTellsWhy
      OBVIOUS
    <2>1. ASSUME argv # None
          PROVE  /\ argv \in ArgLists
                 /\ ParseArgs(argv) = IF WellFormed(argv) THEN Settings(argv) ELSE Rejected
                 /\ Settings(argv) # Rejected
      BY <2>1, ParsedArguments DEF ArgumentsKnown
    <2>2. (main \in {"load", "exited"} /\ argv # None /\ WellFormed(argv)) => ParseArgs(argv) = Settings(argv)
      BY <2>1
    <2>3. ASSUME main = "exited", argv # None, status # Killed
          PROVE  /\ status = 2 <=> ~WellFormed(argv)
                 /\ status = 0 <=> WellFormed(argv) /\ (Asked("show_help") \/ Asked("server_config_path") = Empty)
                 /\ status = 3 => /\ WellFormed(argv) /\ Asked("server_config_path") \in Paths
                                  /\ LoadServerConfig(FileAt[Asked("server_config_path")]) = Invalid
      <3>1. CASE status = 2
        BY <2>1, <2>3, <3>1 DEF ArgumentsKnown
      <3>2. CASE status = 0
        BY <2>1, <2>3, <3>2 DEF ArgumentsKnown, Asked
      <3>3. CASE status = 3
        <4>1. ParseArgs(argv).server_config_path # Empty
          BY <2>3, <3>3, ProcessAssumption DEF ArgumentsKnown
        <4>2. QED
          BY <2>1, <2>3, <3>3, <4>1 DEF ArgumentsKnown, Asked
      <3>4. QED
        BY <2>3, <3>1, <3>2, <3>3 DEF ArgumentsKnown
    <2>4. QED
      BY <2>2, <2>3 DEF StatusTellsWhy
  <1>4. QED
    BY <1>1, <1>2, <1>3, IndInvAlways, PTL DEF SafeSpec

\* The workers leave control to main.
LEMMA NetworkAlone ==
    ASSUME IndInv, Accepts \/ \E c \in Conns : Connects(c) \/ Session(c)
    PROVE  UNCHANGED <<control, running>>
  <1>1. CASE Accepts \/ \E c \in Conns : Connects(c)
    BY <1>1 DEF Accepts, Connects, Network, Server!AcceptLoop, Server!LoopBegins, Server!AcceptCompletes,
                Server!RegisterAndSpawn, Server!LoopEnds, Server!Connect, Server!controlVars
  <1>2. CASE \E c \in Conns : Session(c)
    BY <1>2, SessionMoves DEF Session, Network
  <1>3. QED
    BY <1>1, <1>2

\* Only Launch starts the workers.
LEMMA OnlyLaunchRuns ==
    ASSUME IndInv, [Next]_vars, ~running, running'
    PROVE  main = "serve" /\ control = "launch"
  <1>1. CASE StartServer
    BY <1>1 DEF StartServer, From, Server!Start, Server!BeginStart, Server!ListenHttp, Server!ConfigureTls,
                Server!ListenHttps, Server!Launch
  <1>2. CASE StopServer
    BY <1>2 DEF StopServer, Server!BeginStop, Server!Stop, Server!CloseHttp, Server!CloseHttps,
                Server!CloseSessions, Server!WaitForSessions, Server!StopContext
  <1>3. CASE \/ ReadArguments \/ LoadConfiguration \/ Construct \/ Wait \/ DestroyServer \/ CloseExecutor
             \/ JoinExecutor \/ SpuriousWakeup \/ SignalKills
    BY <1>3 DEF ReadArguments, LoadConfiguration, Construct, Wait, DestroyServer, CloseExecutor, JoinExecutor,
                SpuriousWakeup, SignalKills, MainGoes, serverVars
  <1>4. CASE \/ \E t \in Threads : SignalHandled(t) \/ RequestStop(t)
             \/ StartJob \/ FinishJob \/ UNCHANGED vars
    BY <1>4 DEF SignalHandled, RequestStop, StoreRequested, Notify, StartJob, FinishJob, vars, serverVars
  <1>5. CASE Accepts \/ \E c \in Conns : Connects(c) \/ Session(c)
    BY <1>5, NetworkAlone
  <1>6. QED
    BY <1>1, <1>2, <1>3, <1>4, <1>5 DEF Next, MainStep

\* How far Start has come says which listeners can listen.
ListenersKnown ==
    main = "serve" =>
        /\ (control \in {"configureTls", "listenHttps", "launch"} /\ "http" \in Enabled) => CanListen(config, "http")
        /\ (control = "launch" /\ "https" \in Enabled) => CanListen(config, "https")

\* Only Start moves the server while main is there.
LEMMA StepListeners ==
    ASSUME IndInv, ListenersKnown, [Next]_vars
    PROVE  ListenersKnown'
  <1>1. CASE StartServer
    <2> USE <1>1 DEF StartServer, From, Server!Start, Server!BeginStart, Server!ListenHttp, Server!ConfigureTls,
                     Server!ListenHttps, Server!Launch, Server!Goto, Server!AfterHttp
    <2>1. main = "serve" /\ (main' = "serve" => control' \notin {"running", "stopped"} /\ config' = config)
      OBVIOUS
    <2>2. CASE Server!BeginStart
      BY <2>1, <2>2 DEF ListenersKnown
    <2>3. CASE Server!ListenHttp
      BY <2>1, <2>3 DEF ListenersKnown
    <2>4. CASE Server!ConfigureTls
      BY <2>1, <2>4 DEF ListenersKnown
    <2>5. CASE Server!ListenHttps
      BY <2>1, <2>5 DEF ListenersKnown
    <2>6. CASE Server!Launch
      BY <2>1, <2>6 DEF ListenersKnown
    <2>7. QED
      BY <2>2, <2>3, <2>4, <2>5, <2>6
  <1>2. CASE Construct
    <2>1. main = "construct" /\ control' = control
      BY <1>2 DEF Construct, From, serverVars
    <2>2. QED
      BY <2>1 DEF ListenersKnown, IndInv, MainKnown
  <1>3. CASE ReadArguments \/ LoadConfiguration \/ Wait \/ SpuriousWakeup \/ StopServer \/ DestroyServer
             \/ CloseExecutor \/ JoinExecutor \/ SignalKills
    <2>1. main' # "serve"
      <3>1. CASE ReadArguments \/ LoadConfiguration
        BY <3>1 DEF ReadArguments, LoadConfiguration, From, Exit
      <3>2. CASE Wait \/ SpuriousWakeup
        BY <3>2 DEF Wait, SpuriousWakeup, MainGoes
      <3>3. CASE StopServer
        BY <3>3 DEF StopServer, From
      <3>4. CASE DestroyServer \/ CloseExecutor \/ JoinExecutor \/ SignalKills
        BY <3>4 DEF DestroyServer, CloseExecutor, JoinExecutor, SignalKills, Exit
      <3>5. QED
        BY <1>3, <3>1, <3>2, <3>3, <3>4
    <2>2. QED
      BY <2>1 DEF ListenersKnown
  <1>4. CASE \E t \in Threads : SignalHandled(t) \/ RequestStop(t)
    <2>1. (main' = main \/ main' = "predicate") /\ UNCHANGED <<config, control>>
      BY <1>4 DEF SignalHandled, RequestStop, StoreRequested, Notify, mainVars, serverVars
    <2>2. QED
      BY <2>1 DEF ListenersKnown
  <1>5. CASE Accepts \/ \E c \in Conns : Connects(c) \/ Session(c)
    <2>1. UNCHANGED mainVars
      BY <1>5 DEF Accepts, Connects, Session, Network
    <2>2. UNCHANGED control
      BY <1>5, NetworkAlone
    <2>3. QED
      BY <2>1, <2>2 DEF ListenersKnown, mainVars
  <1>6. CASE StartJob \/ FinishJob \/ UNCHANGED vars
    BY <1>6 DEF StartJob, FinishJob, vars, mainVars, serverVars, ListenersKnown
  <1>7. QED
    BY <1>1, <1>2, <1>3, <1>4, <1>5, <1>6 DEF Next, MainStep

\* What ValidateServerConfig has seen of a configuration main goes on with, and
\* nobody checks again, and which listeners it enables.
LEMMA Validated ==
    ASSUME NEW loaded \in Configurations
    PROVE  /\ ExecutorAccepts(loaded) /\ SessionsUsable(loaded)
           /\ EnabledIn(loaded) # {} /\ EnabledIn(loaded) = Enabled
           /\ loaded.https.enabled => loaded.certificate /\ loaded.private_key
  <1>1. ValidateServerConfig(loaded)
    BY DEF Configurations, LoadServerConfig
  <1>2. EnabledIn(loaded) = Enabled
    BY ProcessAssumption
  <1>3. QED
    BY <1>1, <1>2 DEF ValidateServerConfig, ExecutorAccepts, SessionsUsable

\* The server comes to run only with a configuration every part can work with,
\* whatever the files say and whichever listeners they enable.
THEOREM ServesUsable == SafeSpec => ServesOnlyUsable
  <1>1. Init => ListenersKnown /\ ArgumentsKnown
    BY DEF Init, ListenersKnown, ArgumentsKnown
  <1>2. IndInv /\ ListenersKnown /\ ArgumentsKnown /\ [Next]_vars => (ListenersKnown /\ ArgumentsKnown)'
    BY StepListeners, StepArguments
  <1>3. ASSUME IndInv, ListenersKnown, ArgumentsKnown, [Next]_vars, ~running, running'
        PROVE  ExecutorAccepts(config) /\ ServerAccepts(config) /\ SessionsUsable(config)
    <2>1. main = "serve" /\ control = "launch"
      BY <1>3, OnlyLaunchRuns
    <2>2. config \in Configurations
      BY <1>3, <2>1 DEF ArgumentsKnown
    <2>3. \A p \in Enabled : CanListen(config, p)
      BY <1>3, <2>1, ProcessAssumption DEF ListenersKnown, Listeners
    <2>4. QED
      BY <2>2, <2>3, Validated DEF ServerAccepts
  <1>4. IndInv /\ ListenersKnown /\ ArgumentsKnown /\ [Next]_vars =>
          (~running /\ running' => ExecutorAccepts(config) /\ ServerAccepts(config) /\ SessionsUsable(config))
    BY <1>3
  <1>5. QED
    BY <1>1, <1>2, <1>4, IndInvAlways, PTL DEF SafeSpec, ServesOnlyUsable
-----------------------------------------------------------------------------
(* The parts of the process are the modules they are made of.              *)

\* What is proved of the server, for the server of this process.
Net == INSTANCE ServerProofs WITH MaxStarts <- 1, AcceptErrors <- FALSE, NoConn <- None

LEMMA NetAssumption == Net!ServerAssumption
  BY ProcessAssumption DEF Net!ServerAssumption, Listeners, Net!Protocols

\* A step the server knows keeps its inductive invariant, here too.  The long
\* list says only that both instances of the module are the same.
LEMMA ServerStep ==
    ASSUME Server!IndInv, [Server!Next]_serverVars
    PROVE  /\ Server!IndInv'
           /\ control \in {"closeSessions", "wait", "stopContext", "stopped"} => open' \subseteq open
  <1>1. /\ Net!IndInv /\ [Net!Next]_(Net!vars) => Net!IndInv'
        /\ Net!IndInv /\ [Net!Next]_(Net!vars)
           /\ control \in {"closeSessions", "wait", "stopContext", "stopped"} => open' \subseteq open
    BY NetAssumption, Net!NextIndInv, Net!OpensNothing
  <1>2. QED
    BY <1>1 DEF Server!Protocols, Net!Protocols, Server!Loops, Net!Loops, Server!Protocol, Net!Protocol,
       Server!vars, Net!vars, Server!Live, Net!Live, Server!ControlTypeOK, Net!ControlTypeOK,
       Server!LoopTypeOK, Net!LoopTypeOK, Server!SessionTypeOK, Net!SessionTypeOK, Server!TypeOK,
       Net!TypeOK, Server!controlVars, Net!controlVars, Server!loopVars, Net!loopVars,
       Server!sessionVars, Net!sessionVars, Server!Goto, Net!Goto, Server!AfterHttp, Net!AfterHttp,
       Server!BeginStart, Net!BeginStart, Server!ListenHttp, Net!ListenHttp, Server!CloseAcceptors,
       Net!CloseAcceptors, Server!ConfigureTls, Net!ConfigureTls, Server!ListenHttps,
       Net!ListenHttps, Server!Launch, Net!Launch, Server!Start, Net!Start, Server!BeginStop,
       Net!BeginStop, Server!CloseHttp, Net!CloseHttp, Server!CloseHttps, Net!CloseHttps,
       Server!CloseReaches, Net!CloseReaches, Server!CloseSessions, Net!CloseSessions,
       Server!WaitForSessions, Net!WaitForSessions, Server!StopContext, Net!StopContext,
       Server!Stop, Net!Stop, Server!LoopHead, Net!LoopHead, Server!LoopBegins, Net!LoopBegins,
       Server!AcceptCompletes, Net!AcceptCompletes, Server!AcceptFails, Net!AcceptFails,
       Server!RegisterAndSpawn, Net!RegisterAndSpawn, Server!LoopEnds, Net!LoopEnds,
       Server!AcceptLoop, Net!AcceptLoop, Server!Becomes, Net!Becomes, Server!UnregisterAndEnd,
       Net!UnregisterAndEnd, Server!MoveSocket, Net!MoveSocket, Server!InstallClose,
       Net!InstallClose, Server!Handshake, Net!Handshake, Server!ReadDone, Net!ReadDone,
       Server!ReadTimesOut, Net!ReadTimesOut, Server!LimitExceeded, Net!LimitExceeded,
       Server!Handled, Net!Handled, Server!WriteDone, Net!WriteDone, Server!EndLimit, Net!EndLimit,
       Server!SessionStep, Net!SessionStep, Server!Session, Net!Session, Server!Connect,
       Net!Connect, Server!Next, Net!Next, Server!RegistryExact, Net!RegistryExact,
       Server!SocketsOwned, Net!SocketsOwned, Server!HoldersKnown, Net!HoldersKnown,
       Server!FlagsKnown, Net!FlagsKnown, Server!ListenersKnown, Net!ListenersKnown,
       Server!StartsKnown, Net!StartsKnown, Server!IndInv, Net!IndInv,
       serverVars

\* The process takes no step in the server but those of Server, until the
\* io_context is destroyed, which closes what is left open.
LEMMA ServerMoves ==
    ASSUME [Next]_vars
    PROVE  [Server!Next]_serverVars \/ DestroyServer
  <1> USE DEF mainVars, signalVars, jobVars, history, Exit, MainGoes
  <1>1. CASE ReadArguments \/ LoadConfiguration \/ Construct \/ Wait \/ CloseExecutor \/ JoinExecutor
    BY <1>1 DEF ReadArguments, LoadConfiguration, Construct, Wait, CloseExecutor, JoinExecutor
  <1>2. CASE SpuriousWakeup \/ SignalKills \/ \E t \in Threads : SignalHandled(t) \/ RequestStop(t)
    BY <1>2 DEF SpuriousWakeup, SignalKills, SignalHandled, RequestStop, StoreRequested, Notify
  <1>3. CASE StartServer \/ StopServer
    BY <1>3 DEF StartServer, StopServer, Server!Next
  <1>4. CASE Accepts
    BY <1>4 DEF Accepts, Network, Server!Next
  <1>5. CASE \E c \in Conns : Connects(c) \/ Session(c)
    BY <1>5 DEF Connects, Session, Network, Server!Next
  <1>6. CASE StartJob \/ FinishJob
    BY <1>6 DEF StartJob, FinishJob
  <1>7. CASE UNCHANGED vars
    BY <1>7 DEF vars, serverVars
  <1>8. QED
    BY <1>1, <1>2, <1>3, <1>4, <1>5, <1>6, <1>7 DEF Next, MainStep

\* ~io_context may close any sockets: nobody is left to use them.
LEMMA DestroyKeeps ==
    ASSUME Server!IndInv, DestroyServer
    PROVE  Server!IndInv' /\ open' \subseteq open
  <1> USE DEF DestroyServer
  <1>1. Server!TypeOK'
    BY DEF Server!IndInv, Server!TypeOK, Server!ControlTypeOK, Server!LoopTypeOK, Server!SessionTypeOK
  <1>2. Server!RegistryExact'
    BY DEF Server!IndInv, Server!RegistryExact
  <1>3. Server!SocketsOwned' /\ Server!HoldersKnown'
    BY DEF Server!IndInv, Server!SocketsOwned, Server!HoldersKnown
  <1>4. Server!FlagsKnown' /\ Server!ListenersKnown' /\ Server!StartsKnown'
    BY DEF Server!IndInv, Server!FlagsKnown, Server!ListenersKnown, Server!StartsKnown
  <1>5. QED
    BY <1>1, <1>2, <1>3, <1>4 DEF Server!IndInv

\* Server's inductive invariant from the start of the process to its end.
THEOREM ServerWithin == SafeSpec => []Server!IndInv
  <1>1. Init => Server!IndInv
    <2>1. Net!Init => Net!IndInv
      BY NetAssumption, Net!InitIndInv
    <2>2. QED
      BY <2>1 DEF Init, Server!Init, Net!Init, Server!IndInv, Net!IndInv, Server!TypeOK, Net!TypeOK, Server!ControlTypeOK,
         Net!ControlTypeOK, Server!LoopTypeOK, Net!LoopTypeOK, Server!SessionTypeOK,
         Net!SessionTypeOK, Server!RegistryExact, Net!RegistryExact, Server!SocketsOwned,
         Net!SocketsOwned, Server!HoldersKnown, Net!HoldersKnown, Server!FlagsKnown, Net!FlagsKnown,
         Server!ListenersKnown, Net!ListenersKnown, Server!StartsKnown, Net!StartsKnown,
         Server!Live, Net!Live, Server!Loops, Net!Loops, Server!Protocols, Net!Protocols,
         Server!Protocol, Net!Protocol
  <1>2. Server!IndInv /\ [Next]_vars => Server!IndInv'
    BY ServerMoves, ServerStep, DestroyKeeps
  <1>3. QED
    BY <1>1, <1>2, PTL DEF SafeSpec

\* With main, its signals and the database around it the server keeps what
\* Server promises: an exact registry, an owner for every socket, nothing open
\* and nothing running once it has stopped.
THEOREM ServerKeepsFaith == SafeSpec => [](Server!RegistryExact /\ Server!SocketsOwned /\ Server!QuietWhenStopped)
  <1>1. Server!IndInv => Server!RegistryExact /\ Server!SocketsOwned
    BY DEF Server!IndInv
  <1>2. Server!IndInv => Server!QuietWhenStopped
    BY DEF Server!IndInv, Server!FlagsKnown, Server!ListenersKnown, Server!QuietWhenStopped
  <1>3. QED
    BY <1>1, <1>2, ServerWithin, PTL

\* From CloseSessions to its exit the process opens no socket.
THEOREM NothingOpensOnTheWayDown == SafeSpec => Server!NothingOpensAfterStop
  <1>1. Server!IndInv /\ [Next]_vars =>
            [(control \in {"closeSessions", "wait", "stopContext", "stopped"} => open' \subseteq open)]_(Server!vars)
    BY ServerMoves, ServerStep, DestroyKeeps
  <1>2. QED
    BY <1>1, ServerWithin, PTL DEF SafeSpec, Server!NothingOpensAfterStop

\* What a step of the process is to the executor.
LEMMA ExecutorMoves == ASSUME [Next]_vars PROVE [Executor!Next]_(Executor!vars)
  <1> USE DEF Executor!vars, executorVars, Exit, MainGoes
  <1>stutter. CASE UNCHANGED vars
    BY <1>stutter DEF vars
  <1>session. CASE \E c \in Conns : Session(c)
    BY <1>session DEF Session, Submit, Resume, Executor!Next
  <1>worker. CASE StartJob \/ FinishJob
    BY <1>worker DEF StartJob, FinishJob, Executor!Next
  <1>close. CASE CloseExecutor
    BY <1>close DEF CloseExecutor, Executor!Next
  <1>up. CASE ReadArguments \/ LoadConfiguration \/ Construct \/ StartServer \/ Wait
    BY <1>up DEF ReadArguments, LoadConfiguration, Construct, StartServer, Wait
  <1>down. CASE StopServer \/ DestroyServer \/ JoinExecutor
    BY <1>down DEF StopServer, DestroyServer, JoinExecutor
  <1>signal. CASE SpuriousWakeup \/ SignalKills \/ \E t \in Threads : SignalHandled(t) \/ RequestStop(t)
    BY <1>signal DEF SpuriousWakeup, SignalKills, SignalHandled, RequestStop, StoreRequested, Notify
  <1>accept. CASE Accepts \/ \E c \in Conns : Connects(c)
    BY <1>accept DEF Accepts, Connects
  <1> QED
    BY <1>stutter, <1>session, <1>worker, <1>close, <1>up, <1>down, <1>signal, <1>accept
    DEF Next, MainStep

\* The executor of the process is a SerialExecutor, which DatabaseExecutor
\* implements: nothing in main, the sessions or the handlers touches it but by
\* Submit, Stop and its own worker, and no call is made twice.
THEOREM ExecutorWithin == SafeSpec => Executor!SafeSpec
  <1> Init => Executor!Init
    BY DEF Init
  <1> QED
    BY ExecutorMoves, PTL DEF SafeSpec, Executor!SafeSpec
=============================================================================
