------------------------------ MODULE Process ------------------------------
(***************************************************************************)
(* main(): arguments, configuration, the database executor, the server,    *)
(* the wait for SIGINT or SIGTERM, and the way down.  The server is Server *)
(* and the executor SerialExecutor; what joins them is a session that      *)
(* submits one job, is suspended, and is resumed by the completion that    *)
(* the database worker posts to the server's io_context.                   *)
(*                                                                         *)
(* External: std::signal keeps the handler installed, a signal runs it on  *)
(* any thread, and by default a signal ends the process.                   *)
(***************************************************************************)
EXTENDS Integers, Sequences, FiniteSets, CommandLine, ServerConfig

CONSTANTS Conns, TlsConns,  \* connections, each with at most one request for the database
          Enabled,          \* the listeners the valid configurations enable
          QueueCapacity,    \* and their database_queue_capacity
          ArgLists,         \* the command lines
          FileAt,           \* FileAt[path]: the file a --server-config names
          None              \* nothing yet, or nothing any more

Paths == DOMAIN FileAt

\* Every configuration main can go on with.
Configurations == {LoadServerConfig(FileAt[path]) : path \in Paths} \ {Invalid}

VARIABLES
    main,      \* where main stands
    status,    \* the exit status, or how else the process has ended
    argv,      \* the arguments, until they are parsed and used
    config,    \* the configuration, until the server runs with it
    requested, \* StopState::requested
    handler,   \* handler[t]: where a signal handler on thread t stands
    awaiting,  \* sessions suspended in AsyncSubmit
    posted,    \* completions in the io_context that have not been resumed
    lost,      \* completions posted when there was no io_context any more
    gaveUp,    \* history: Stop ended its wait because of the timeout
    late,      \* history: sessions registered after Stop had closed them all
    \* the server's
    control, starts, started, listening, running, loop, accepted, session, open, sessions,
    \* the executor's
    pending, working, outcome, submitted, closed

mainVars == <<main, status, argv, config>>
signalVars == <<requested, handler>>
jobVars == <<awaiting, posted, lost>>
history == <<gaveUp, late>>
serverVars == <<control, starts, started, listening, running, loop, accepted, session, open, sessions>>
executorVars == <<pending, working, outcome, submitted, closed>>
vars == <<mainVars, signalVars, jobVars, history, serverVars, executorVars>>

Server == INSTANCE Server WITH MaxStarts <- 1, AcceptErrors <- FALSE, NoConn <- None

Executor == INSTANCE SerialExecutor WITH Jobs <- Conns, running <- working

\* How a process ends that does not exit.
Aborted == -1
Killed == -2

\* "worker" stands for any thread but main's.
Threads == {"main", "worker"}

ASSUME ProcessAssumption ==
    /\ TlsConns \subseteq Conns
    /\ None \notin Conns
    /\ Enabled \subseteq Listeners
    /\ QueueCapacity \in Nat \ {0}
    /\ Empty \notin Paths
    /\ \A list \in ArgLists :
           /\ Len(list) \in Nat /\ DOMAIN list = 1 .. Len(list)
           /\ \A n \in 0 .. Len(list) : SettingsAfter(list, n) # Rejected
           /\ ParseArgs(list) # Rejected =>
                  ParseArgs(list).server_config_path \in Paths \cup {Empty}
    /\ None \notin ArgLists \cup {"Value", "Storage", "Overloaded"}
    /\ \A valid \in Configurations :
           EnabledIn(valid) = Enabled /\ valid.database_queue_capacity = QueueCapacity

Init ==
    /\ main = "parse"
    /\ status = None
    /\ argv \in ArgLists
    /\ config = None
    /\ requested = FALSE
    /\ handler = [t \in Threads |-> "none"]
    /\ awaiting = {} /\ posted = {} /\ lost = {}
    /\ gaveUp = FALSE /\ late = {}
    /\ Server!Init
    /\ Executor!Init
-----------------------------------------------------------------------------
(* main, before there is a server.                                         *)

\* main goes on only while no signal handler interrupts its thread.
From(here) == main = here /\ handler["main"] = "none"

Exit(code) == main' = "exited" /\ status' = code

ReadArguments ==
    /\ From("parse")
    /\ LET args == ParseArgs(argv) IN
       \/ args = Rejected /\ Exit(2)
       \/ args # Rejected /\ (args.show_help \/ args.server_config_path = Empty) /\ Exit(0)
       \/ /\ args # Rejected /\ ~args.show_help /\ args.server_config_path # Empty
          /\ main' = "load" /\ UNCHANGED status
    /\ UNCHANGED <<argv, config, signalVars, jobVars, history, serverVars, executorVars>>

LoadConfiguration ==
    /\ From("load")
    /\ LET loaded == LoadServerConfig(FileAt[ParseArgs(argv).server_config_path]) IN
       \/ loaded = Invalid /\ Exit(3) /\ UNCHANGED <<argv, config>>
       \/ /\ loaded # Invalid
          /\ main' = "construct" /\ config' = loaded /\ argv' = None
          /\ UNCHANGED status
    /\ UNCHANGED <<signalVars, jobVars, history, serverVars, executorVars>>

\* DatabaseExecutor's constructor opens the database or throws, and nobody
\* catches; an invalid capacity throws, too.
Construct ==
    /\ From("construct")
    /\ \/ ExecutorAccepts(config) /\ main' = "serve" /\ UNCHANGED status
       \/ Exit(Aborted)
    /\ UNCHANGED <<argv, config, signalVars, jobVars, history, serverVars, executorVars>>

\* Start.  It fails for any reason, and always where a listener cannot listen.
StartServer ==
    /\ From("serve")
    /\ Server!Start
    /\ (control = "listenHttp" /\ ~CanListen(config, "http")) => control' = "stopped"
    /\ (control = "listenHttps" /\ ~CanListen(config, "https")) => control' = "stopped"
    /\ main' = CASE control' = "running" -> "signalInt"
                 [] control' = "stopped" -> "destroyServer"
                 [] OTHER                -> main
    /\ status' = IF control' = "stopped" THEN 4 ELSE status
    /\ config' = IF control' = "running" THEN None ELSE config
    /\ UNCHANGED <<argv, signalVars, jobVars, history, executorVars>>
-----------------------------------------------------------------------------
(* main, while the server runs: the handlers and the wait.                 *)

MainGoes(here, next) ==
    /\ From(here)
    /\ main' = next
    /\ UNCHANGED <<status, argv, config, signalVars, jobVars, history, serverVars, executorVars>>

Wait ==
    \/ MainGoes("signalInt", "signalTerm")
    \/ MainGoes("signalTerm", "predicate")
    \/ MainGoes("predicate", IF requested THEN "stop" ELSE "block")
    \* blocking and unlocking are one step
    \/ MainGoes("block", "asleep")

SpuriousWakeup == MainGoes("asleep", "predicate")
-----------------------------------------------------------------------------
(* main, on the way down.                                                  *)

\* The executor is told to stop before the server is.
StopServer_ExecutorFirst ==
    /\ From("stop")
    /\ closed' = TRUE
    /\ Server!BeginStop \/ Server!Stop
    /\ main' = IF control' = "stopped" THEN "destroyServer" ELSE main
    /\ status' = IF control' = "stopped" THEN 0 ELSE status
    /\ UNCHANGED <<argv, config, history, signalVars, jobVars, pending, working, outcome, submitted>>

StopServer ==
    /\ From("stop")
    /\ Server!BeginStop \/ Server!Stop
    /\ gaveUp' = (gaveUp \/ (control = "wait" /\ sessions # {}))
    /\ main' = IF control' = "stopped" THEN "destroyServer" ELSE main
    /\ status' = IF control' = "stopped" THEN 0 ELSE status
    /\ UNCHANGED <<argv, config, late, signalVars, jobVars, executorVars>>

\* ~Server finds itself stopped; ~io_context closes what is open and destroys
\* the handlers it holds, and with them the sessions that wait for them.
DestroyServer ==
    /\ From("destroyServer")
    /\ main' = "closeExecutor"
    /\ posted' = {}
    /\ awaiting' = awaiting \ posted
    /\ open' = {}
    /\ UNCHANGED <<status, argv, config, lost, signalVars, history, executorVars>>
    /\ UNCHANGED <<control, starts, started, listening, running, loop, accepted, session, sessions>>

CloseExecutor ==
    /\ From("closeExecutor")
    /\ Executor!Close
    /\ main' = "join"
    /\ UNCHANGED <<status, argv, config, signalVars, jobVars, history, serverVars>>

\* ~jthread: the worker has drained the queue.
JoinExecutor ==
    /\ From("join")
    /\ pending = <<>> /\ working = None
    /\ Exit(status)
    /\ UNCHANGED <<argv, config, signalVars, jobVars, history, serverVars, executorVars>>

MainStep ==
    \/ ReadArguments
    \/ LoadConfiguration
    \/ Construct
    \/ StartServer
    \/ Wait
    \/ StopServer
    \/ DestroyServer
    \/ CloseExecutor
    \/ JoinExecutor
-----------------------------------------------------------------------------
(* Signals.                                                                *)

\* SIGINT until the first call of std::signal, SIGTERM until the second.
SignalKills ==
    /\ main \in {"parse", "load", "construct", "serve", "signalInt", "signalTerm"}
    /\ Exit(Killed)
    /\ UNCHANGED <<argv, config, signalVars, jobVars, history, serverVars, executorVars>>

SignalHandled(t) ==
    /\ main \in {"signalTerm", "predicate", "block", "asleep", "stop", "destroyServer", "closeExecutor", "join"}
    /\ handler[t] = "none"
    /\ handler' = [handler EXCEPT ![t] = "store"]
    /\ UNCHANGED <<requested, mainVars, jobVars, history, serverVars, executorVars>>

StoreRequested(t) ==
    /\ handler[t] = "store"
    /\ requested' = TRUE
    /\ handler' = [handler EXCEPT ![t] = "notify"]
    /\ UNCHANGED <<mainVars, jobVars, history, serverVars, executorVars>>

\* The handler only stores.
Notify_Forgotten(t) ==
    /\ handler[t] = "notify"
    /\ handler' = [handler EXCEPT ![t] = "none"]
    /\ UNCHANGED <<main, status, argv, config, requested, jobVars, history, serverVars, executorVars>>

\* notify_one, without the mutex: it wakes main if main is asleep by now.
Notify(t) ==
    /\ handler[t] = "notify"
    /\ handler' = [handler EXCEPT ![t] = "none"]
    /\ main' = IF main = "asleep" THEN "predicate" ELSE main
    /\ UNCHANGED <<status, argv, config, requested, jobVars, history, serverVars, executorVars>>

RequestStop(t) == main # "exited" /\ (StoreRequested(t) \/ Notify(t))
-----------------------------------------------------------------------------
(* The network workers.                                                    *)

Network(step) ==
    /\ main # "exited"
    /\ step
    /\ late' = late \cup IF control \in {"wait", "stopContext"} THEN sessions' \ sessions ELSE {}
    /\ UNCHANGED <<mainVars, signalVars, lost, gaveUp>>

Accepts == Network(Server!AcceptLoop) /\ UNCHANGED <<awaiting, posted, executorVars>>

Connects(c) == Network(Server!Connect(c)) /\ UNCHANGED <<awaiting, posted, executorVars>>

\* HandleAsync up to its suspension: no job, a job, or the error of a refused one.
Submit(c) ==
    \/ UNCHANGED <<awaiting, posted, executorVars>>
    \/ Executor!Accept(c) /\ awaiting' = awaiting \cup {c} /\ UNCHANGED posted
    \/ /\ Executor!RefuseFull(c) \/ Executor!RefuseClosed(c)
       /\ awaiting' = awaiting \cup {c} /\ posted' = posted \cup {c}

\* The session goes on without its completion.
Resume_Early(c) == awaiting' = awaiting \ {c} /\ posted' = posted \ {c} /\ UNCHANGED executorVars

\* A session that awaits a job goes on when the completion was posted.
Resume(c) ==
    /\ c \in awaiting => c \in posted
    /\ awaiting' = awaiting \ {c}
    /\ posted' = posted \ {c}
    /\ UNCHANGED executorVars

Session(c) ==
    /\ Network(Server!Session(c))
    /\ \/ session'[c] = "handling" /\ Submit(c)
       \/ session[c] = "handling" /\ Resume(c)
       \/ "handling" \notin {session[c], session'[c]} /\ UNCHANGED <<awaiting, posted, executorVars>>
-----------------------------------------------------------------------------
(* The database worker.                                                    *)

StartJob ==
    /\ main # "exited"
    /\ Executor!Start
    /\ UNCHANGED <<mainVars, signalVars, jobVars, history, serverVars>>

ContextDestroyed == main \in {"closeExecutor", "join"}

\* The completion is posted, whether or not there is a context.
FinishJob_ToContext ==
    /\ main # "exited"
    /\ Executor!Finish
    /\ posted' = posted \cup {working}
    /\ UNCHANGED <<lost, awaiting, mainVars, signalVars, history, serverVars>>

\* The completion goes to the executor of the handler, the io_context; what
\* a post does after that was destroyed is undefined, here nothing.
FinishJob ==
    /\ main # "exited"
    /\ Executor!Finish
    /\ posted' = IF ContextDestroyed THEN posted ELSE posted \cup {working}
    /\ lost' = IF ContextDestroyed THEN lost \cup {working} ELSE lost
    /\ UNCHANGED <<awaiting, mainVars, signalVars, history, serverVars>>
-----------------------------------------------------------------------------
Next ==
    \/ MainStep
    \/ SpuriousWakeup
    \/ SignalKills
    \/ \E t \in Threads : SignalHandled(t) \/ RequestStop(t)
    \/ Accepts
    \/ \E c \in Conns : Connects(c) \/ Session(c)
    \/ StartJob
    \/ FinishJob

SafeSpec == Init /\ [][Next]_vars

\* Every thread goes on.  main's fairness is strong because signals may
\* interrupt it again and again; they are handled one at a time, so it still
\* gets to its next instruction.  Nobody has to send a signal, to connect or
\* to wake main for nothing.
Fairness ==
    /\ SF_vars(MainStep)
    /\ \A t \in Threads : WF_vars(RequestStop(t))
    /\ \A c \in Conns : WF_vars(Session(c))
    /\ WF_vars(StartJob)
    /\ WF_vars(FinishJob)

Spec == SafeSpec /\ Fairness
-----------------------------------------------------------------------------
(* Safety.                                                                 *)

MainTypeOK ==
    /\ main \in {"parse", "load", "construct", "serve", "signalInt", "signalTerm", "predicate", "block",
                 "asleep", "stop", "destroyServer", "closeExecutor", "join", "exited"}
    /\ status \in {None, 0, 2, 3, 4, Aborted, Killed}
    /\ argv = None \/ argv \in ArgLists
    /\ config = None \/ config \in Configurations
    /\ requested \in BOOLEAN
    /\ handler \in [Threads -> {"none", "store", "notify"}]

JobTypeOK ==
    /\ awaiting \subseteq Conns
    /\ posted \subseteq awaiting
    /\ lost \subseteq Conns
    /\ gaveUp \in BOOLEAN
    /\ late \subseteq Conns
    /\ ContextDestroyed => posted = {}

\* Type invariant.  A completion is waiting only in an io_context that exists,
\* and for a session that awaits it (boost::asio::post of AsyncSubmit).
TypeOK == MainTypeOK /\ JobTypeOK

\* What the user asked for, in words of CommandLine's reference definitions.
Asked(field) == Settings(argv)[field]

\* The exit status of main: 2 if and only if the arguments are wrong, 0 before
\* there is a server if they ask for the usage or for no server, and 3 only if
\* they name a file that LoadServerConfig refuses.  Every setting is the one
\* given last.  Wrong is what is not of the form BuildUsage documents
\* (Args.cpp:225-249); the repository's README.md:168-206 names an option
\* --full and values after a space, which ParseArgs refuses.
StatusTellsWhy ==
    /\ (main = "exited" /\ argv # None /\ status # Killed) =>
           /\ status = 2 <=> ~WellFormed(argv)
           /\ status = 0 <=> WellFormed(argv) /\ (Asked("show_help") \/ Asked("server_config_path") = Empty)
           /\ status = 3 => /\ WellFormed(argv) /\ Asked("server_config_path") \in Paths
                            /\ LoadServerConfig(FileAt[Asked("server_config_path")]) = Invalid
    /\ (main \in {"load", "exited"} /\ argv # None /\ WellFormed(argv)) => ParseArgs(argv) = Settings(argv)

\* The server comes to run only with a configuration that the executor, Start
\* and the sessions can all work with.  No part checks all of that: the limits
\* and timeouts are seen by ValidateServerConfig and by nobody after it, while
\* addresses that are none, or that overlap, pass it and stop Start (status 4).
ServesOnlyUsable ==
    [][~running /\ running' => ExecutorAccepts(config) /\ ServerAccepts(config) /\ SessionsUsable(config)]_vars

\* The executor outlives the server, as Server.hpp:47 demands: no session ever
\* meets a closed executor, and a process that ends by itself has finished
\* every job it accepted (declaration order in main, ~DatabaseExecutor).
OrderlyExit ==
    /\ closed => ~running /\ listening = {}
    /\ main = "exited" /\ status \in {0, 4} => \A c \in submitted : outcome[c] # None

\* A completion is posted to a destroyed io_context, which is undefined, only
\* if Stop gave up waiting for its session or the session was registered after
\* Stop had closed them all.  Whenever Stop's wait ends because sessions_ is
\* empty, the jobs of the sessions it closed are done.
LateOnlyAfterTimeout == lost # {} => gaveUp \/ lost \subseteq late

BeforeServer == main \in {"parse", "load", "construct", "serve"}

AfterServer == main \in {"destroyServer", "closeExecutor", "join"}

\* What main's place says of the server and the executor ...
MainKnown ==
    /\ main \in {"parse", "load"} => argv \in ArgLists
    /\ main = "load" => ParseArgs(argv) # Rejected /\ ParseArgs(argv).server_config_path # Empty
    /\ main \in {"parse", "load", "construct"} => control = "stopped"
    /\ main = "serve" => control \in {"stopped", "listenHttp", "configureTls", "listenHttps", "launch"}
    /\ main \in {"signalInt", "signalTerm", "predicate", "block", "asleep"} => control = "running"
    /\ main = "stop" =>
           control \in {"running", "closeHttp", "closeHttps", "closeSessions", "wait", "stopContext"}
    /\ AfterServer => control = "stopped"
    /\ closed => main \in {"join", "exited"} /\ control = "stopped"
    /\ BeforeServer => sessions = {} /\ submitted = {} /\ pending = <<>> /\ working = None
    /\ main = "exited" /\ status \in {0, 4} => pending = <<>> /\ working = None

\* ... the server's place of its workers and acceptors ...
AcceptorsKnown ==
    /\ running <=> control \in {"running", "closeHttp", "closeHttps", "closeSessions", "wait", "stopContext"}
    /\ control \in {"stopped", "listenHttp", "closeSessions", "wait", "stopContext"} => listening = {}
    /\ control \in {"configureTls", "listenHttps"} => listening \subseteq {"http"}
    /\ control = "closeHttps" => listening \subseteq {"https"}
    /\ listening \subseteq {"http", "https"}

\* ... and an accept loop of the connection it has, which is no session's yet.
SessionsKnown ==
    /\ loop \in [Server!Loops -> {"none", "spawned", "accepting", "completed", "failed", "ended"}]
    /\ accepted \in [Server!Loops -> Conns \cup {None}]
    /\ session \in [Conns -> {"none", "backlog", "accepted", "ended"} \cup Server!Live]
    /\ sessions \subseteq Conns
    /\ \A l \in Server!Loops :
           loop[l] = "completed" => accepted[l] \in Conns /\ session[accepted[l]] = "accepted"
    /\ \A l, m \in Server!Loops :
           loop[l] = "completed" /\ loop[m] = "completed" /\ accepted[l] = accepted[m] => l = m
    /\ \A c \in Conns : session[c] \in Server!Live => c \in sessions

\* A job on its way is that of a session that awaits it and has not been told.
OnItsWay(c) == c = working \/ \E i \in DOMAIN pending : pending[i] = c

JobsKnown ==
    /\ pending \in Seq(Conns) /\ working \in Conns \cup {None} /\ submitted \subseteq Conns
    /\ outcome \in [Conns -> {None, "Value", "Storage", "Overloaded"}]
    /\ \A c \in Conns : OnItsWay(c) => c \in submitted /\ c \in awaiting /\ c \notin posted
    /\ \A c \in submitted : OnItsWay(c) \/ outcome[c] # None
    /\ \A i, j \in DOMAIN pending : pending[i] = pending[j] => i = j
    /\ \A i \in DOMAIN pending : pending[i] # working
    /\ \A c \in awaiting : session[c] = "handling"

\* Once Stop has stopped waiting for sessions in time, all that are left came
\* after it had closed the others.
LateKnown ==
    ~gaveUp => /\ control = "stopContext" \/ AfterServer => sessions \subseteq late
               /\ lost \subseteq late

\* The inductive invariant.
IndInv == TypeOK /\ MainKnown /\ AcceptorsKnown /\ SessionsKnown /\ JobsKnown /\ LateKnown
-----------------------------------------------------------------------------
(* Liveness.                                                               *)

Waiting == main \in {"predicate", "block", "asleep"}

Signalled == \E t \in Threads : handler[t] = "notify"

\* A signal may go unnoticed, but not for ever: if signals keep coming the
\* process ends by itself, the drain of the executor and the wait of Stop
\* included (RequestStop and the wait of main).
NextSignalStops == []<>Signalled => (Waiting ~> main = "exited")

\* README.md:133: the process stays alive until it receives SIGINT or SIGTERM,
\* so one that has received it ends.
SignalEndsProcess == Signalled ~> main = "exited"
=============================================================================
