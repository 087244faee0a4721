-------------------------- MODULE DatabaseExecutor --------------------------
(***************************************************************************)
(* app::DatabaseExecutor: one jthread runs SQLite work that any number of  *)
(* threads submit through a bounded queue guarded by a mutex and a         *)
(* condition variable.  The actors are                                     *)
(*                                                                         *)
(*   - one caller per job in Jobs, inside Submit or AsyncSubmit;           *)
(*   - the worker, inside Run;                                             *)
(*   - the owner, inside ~DatabaseExecutor;                                *)
(*   - for AsyncSubmit, the handler's executor, which runs what was        *)
(*     posted to it (Boost.Asio, external).                                *)
(*                                                                         *)
(* Every acquisition and release of the mutex, the block inside            *)
(* condition_variable::wait and every notify_one is a step of its own.     *)
(***************************************************************************)
EXTENDS Integers, Sequences

CONSTANTS Jobs,          \* the calls of Submit and AsyncSubmit
          AsyncJobs,     \* those that are calls of AsyncSubmit
          QueueCapacity, \* queue_capacity_
          Worker,        \* the worker thread, as a holder of the mutex
          None           \* no job, no holder, no result yet

\* DatabaseExecutor.cpp:21 rejects a zero capacity.
ASSUME CapacityAssumption == QueueCapacity \in Nat \ {0}
ASSUME ThreadsAssumption ==
    /\ AsyncJobs \subseteq Jobs
    /\ Worker \notin Jobs
    /\ None \notin Jobs \cup {Worker}

\* What a future or a completion handler receives: what the operation
\* returned, or one of the errors of the executor itself.
Results == {"Value", "Storage", "Overloaded"}
ASSUME ResultsAssumption == None \notin Results

VARIABLES
    mutex,    \* mutex_: its holder, or None
    queue,    \* queue_
    stopping, \* stopping_
    caller,   \* caller[j]: where the call of Submit or AsyncSubmit stands
    worker,   \* where Run stands
    running,  \* the operation Run moved out of the queue, or None
    outcome,  \* outcome[j]: the value of j's promise, or None
    posted,   \* completion handlers that wait on their executor
    owner     \* where the destructor stands

vars == <<mutex, queue, stopping, caller, worker, running, outcome, posted, owner>>

\* Type invariant.  Only a call of AsyncSubmit ever has a handler posted.
TypeOK ==
    /\ mutex \in Jobs \cup {Worker, None}
    /\ queue \in Seq(Jobs)
    /\ stopping \in BOOLEAN
    /\ caller \in [Jobs -> {"idle", "lock", "locked", "notify", "returned"}]
    /\ worker \in {"lock", "locked", "block", "blocked", "run", "done"}
    /\ running \in Jobs \cup {None}
    /\ outcome \in [Jobs -> Results \cup {None}]
    /\ posted \in SUBSET AsyncJobs
    /\ owner \in {"alive", "stop", "notify", "join", "destroyed"}

\* The constructor opened the database and started the worker.
Init ==
    /\ mutex = None
    /\ queue = <<>>
    /\ stopping = FALSE
    /\ caller = [j \in Jobs |-> "idle"]
    /\ worker = "lock"
    /\ running = None
    /\ outcome = [j \in Jobs |-> None]
    /\ posted = {}
    /\ owner = "alive"
-----------------------------------------------------------------------------
\* Mutants: definitions named <Definition>_<Slip> are never part of the model;
\* each is a plausible slip in the code that a property has to notice.

\* A handler is posted for the jobs of Submit, too.
Complete_AlwaysPosts(j, result) ==
    /\ outcome' = [outcome EXCEPT ![j] = result]
    /\ posted' = posted \cup {j}

\* promise->set_value for a job of Submit.  A job of AsyncSubmit posts its
\* handler with the result, so the handler never runs under the mutex.
Complete(j, result) ==
    /\ outcome' = [outcome EXCEPT ![j] = result]
    /\ posted' = IF j \in AsyncJobs THEN posted \cup {j} ELSE posted

\* condition_.notify_one(): only the worker ever waits on the condition.
Notify == worker' = IF worker = "blocked" THEN "lock" ELSE worker
-----------------------------------------------------------------------------
(* Submit and AsyncSubmit, from the call to the return.                    *)

\* The caller may not touch an executor that was destroyed.
Call(j) ==
    /\ owner # "destroyed"
    /\ caller[j] = "idle"
    /\ caller' = [caller EXCEPT ![j] = "lock"]
    /\ UNCHANGED <<mutex, queue, stopping, worker, running, outcome, posted, owner>>

Lock(j) ==
    /\ caller[j] = "lock"
    /\ mutex = None
    /\ mutex' = j
    /\ caller' = [caller EXCEPT ![j] = "locked"]
    /\ UNCHANGED <<queue, stopping, worker, running, outcome, posted, owner>>

Refuse(j, result) ==
    /\ Complete(j, result)
    /\ mutex' = None
    /\ caller' = [caller EXCEPT ![j] = "returned"]
    /\ UNCHANGED <<queue, stopping, worker, running, owner>>

\* The early return is missing: the refused job is queued as well.
RefuseStopping_NoReturn(j) ==
    /\ caller[j] = "locked"
    /\ stopping
    /\ Complete(j, "Storage")
    /\ queue' = Append(queue, j)
    /\ caller' = [caller EXCEPT ![j] = "notify"]
    /\ UNCHANGED <<mutex, stopping, worker, running, owner>>

RefuseStopping(j) ==
    /\ caller[j] = "locked"
    /\ stopping
    /\ Refuse(j, "Storage")

RefuseFull(j) ==
    /\ caller[j] = "locked"
    /\ ~stopping
    /\ Len(queue) >= QueueCapacity
    /\ Refuse(j, "Overloaded")

\* stopping_ is not looked at.
Enqueue_IgnoresStopping(j) ==
    /\ caller[j] = "locked"
    /\ Len(queue) < QueueCapacity
    /\ queue' = Append(queue, j)
    /\ caller' = [caller EXCEPT ![j] = "notify"]
    /\ UNCHANGED <<mutex, stopping, worker, running, outcome, posted, owner>>

Enqueue(j) ==
    /\ caller[j] = "locked"
    /\ ~stopping
    /\ Len(queue) < QueueCapacity
    /\ queue' = Append(queue, j)
    /\ caller' = [caller EXCEPT ![j] = "notify"]
    /\ UNCHANGED <<mutex, stopping, worker, running, outcome, posted, owner>>

\* Submit forgets notify_one.
NotifyAndReturn_NoNotify(j) ==
    /\ caller[j] = "notify"
    /\ mutex' = None
    /\ caller' = [caller EXCEPT ![j] = "returned"]
    /\ UNCHANGED <<queue, stopping, worker, running, outcome, posted, owner>>

\* notify_one and the end of the lock_guard's scope.
NotifyAndReturn(j) ==
    /\ caller[j] = "notify"
    /\ Notify
    /\ mutex' = None
    /\ caller' = [caller EXCEPT ![j] = "returned"]
    /\ UNCHANGED <<queue, stopping, running, outcome, posted, owner>>

InCall(j) ==
    \/ Lock(j)
    \/ RefuseStopping(j)
    \/ RefuseFull(j)
    \/ Enqueue(j)
    \/ NotifyAndReturn(j)

Submit(j) == j \notin AsyncJobs /\ (Call(j) \/ InCall(j))

AsyncSubmit(j) == j \in AsyncJobs /\ (Call(j) \/ InCall(j))

\* The handler's executor runs a posted completion handler.
RunHandler(j) ==
    /\ j \in posted
    /\ posted' = posted \ {j}
    /\ UNCHANGED <<mutex, queue, stopping, caller, worker, running, outcome, owner>>
-----------------------------------------------------------------------------
(* Run, the worker thread.                                                 *)

\* The unique_lock at the top of the loop, and the reacquisition in wait.
WorkerLock ==
    /\ worker = "lock"
    /\ mutex = None
    /\ mutex' = Worker
    /\ worker' = "locked"
    /\ UNCHANGED <<queue, stopping, caller, running, outcome, posted, owner>>

\* wait's predicate is false: the worker is about to block, mutex in hand.
WorkerWait ==
    /\ worker = "locked"
    /\ ~stopping
    /\ queue = <<>>
    /\ worker' = "block"
    /\ UNCHANGED <<mutex, queue, stopping, caller, running, outcome, posted, owner>>

\* Blocking and unlocking are one step of condition_variable::wait.
WorkerBlock ==
    /\ worker = "block"
    /\ worker' = "blocked"
    /\ mutex' = None
    /\ UNCHANGED <<queue, stopping, caller, running, outcome, posted, owner>>

SpuriousWakeup ==
    /\ worker = "blocked"
    /\ worker' = "lock"
    /\ UNCHANGED <<mutex, queue, stopping, caller, running, outcome, posted, owner>>

\* Run returns on stopping_ alone.
WorkerExit_NoDrain ==
    /\ worker = "locked"
    /\ stopping
    /\ worker' = "done"
    /\ mutex' = None
    /\ UNCHANGED <<queue, stopping, caller, running, outcome, posted, owner>>

WorkerExit ==
    /\ worker = "locked"
    /\ stopping
    /\ queue = <<>>
    /\ worker' = "done"
    /\ mutex' = None
    /\ UNCHANGED <<queue, stopping, caller, running, outcome, posted, owner>>

\* queue_.pop() is missing.
WorkerTake_NoPop ==
    /\ worker = "locked"
    /\ queue # <<>>
    /\ running' = Head(queue)
    /\ worker' = "run"
    /\ mutex' = None
    /\ UNCHANGED <<queue, stopping, caller, outcome, posted, owner>>

\* The newest job first: a stack where the code has a queue.
WorkerTake_Newest ==
    /\ worker = "locked"
    /\ queue # <<>>
    /\ running' = queue[Len(queue)]
    /\ queue' = SubSeq(queue, 1, Len(queue) - 1)
    /\ worker' = "run"
    /\ mutex' = None
    /\ UNCHANGED <<stopping, caller, outcome, posted, owner>>

WorkerTake ==
    /\ worker = "locked"
    /\ queue # <<>>
    /\ running' = Head(queue)
    /\ queue' = Tail(queue)
    /\ worker' = "run"
    /\ mutex' = None
    /\ UNCHANGED <<stopping, caller, outcome, posted, owner>>

\* operation(): it returns a value, or throws and the wrapper answers Storage.
WorkerRun ==
    /\ worker = "run"
    /\ \E result \in {"Value", "Storage"} : Complete(running, result)
    /\ running' = None
    /\ worker' = "lock"
    /\ UNCHANGED <<mutex, queue, stopping, caller, owner>>

Run ==
    \/ WorkerLock
    \/ WorkerWait
    \/ WorkerBlock
    \/ WorkerExit
    \/ WorkerTake
    \/ WorkerRun
-----------------------------------------------------------------------------
(* The destructor.                                                         *)

Destroy ==
    /\ owner = "alive"
    /\ owner' = "stop"
    /\ UNCHANGED <<mutex, queue, stopping, caller, worker, running, outcome, posted>>

\* stopping_ is set without the mutex.
StopSet_NoLock ==
    /\ owner = "stop"
    /\ stopping' = TRUE
    /\ owner' = "notify"
    /\ UNCHANGED <<mutex, queue, caller, worker, running, outcome, posted>>

\* The scope of Stop's lock holds one assignment: lock, set, unlock.
StopSet ==
    /\ owner = "stop"
    /\ mutex = None
    /\ stopping' = TRUE
    /\ owner' = "notify"
    /\ UNCHANGED <<mutex, queue, caller, worker, running, outcome, posted>>

\* Stop forgets notify_one.
StopNotify_NoNotify ==
    /\ owner = "notify"
    /\ owner' = "join"
    /\ UNCHANGED <<mutex, queue, stopping, caller, worker, running, outcome, posted>>

StopNotify ==
    /\ owner = "notify"
    /\ Notify
    /\ owner' = "join"
    /\ UNCHANGED <<mutex, queue, stopping, caller, running, outcome, posted>>

\* ~jthread joins.  The queue and the mutex are destroyed after it, which
\* requires of the callers that none is still inside Submit.
Join ==
    /\ owner = "join"
    /\ worker = "done"
    /\ \A j \in Jobs : caller[j] \in {"idle", "returned"}
    /\ owner' = "destroyed"
    /\ UNCHANGED <<mutex, queue, stopping, caller, worker, running, outcome, posted>>

Stop == StopSet \/ StopNotify \/ Join
-----------------------------------------------------------------------------
\* Destroyed and every handler run: the end, not a deadlock.
Finished ==
    /\ owner = "destroyed"
    /\ posted = {}
    /\ UNCHANGED vars

Next ==
    \/ \E j \in Jobs : Submit(j) \/ AsyncSubmit(j) \/ RunHandler(j)
    \/ Run
    \/ SpuriousWakeup
    \/ Destroy
    \/ Stop
    \/ Finished

\* Threads that are inside the class keep running, operations terminate and
\* the handler's executor runs what it is given.  Nobody must call Submit or
\* destroy the executor, and a blocked worker is never woken for free.  The
\* lock steps are strongly fair: a mutex that is free again and again is
\* acquired at last.  The number of calls is finite, so all this excludes is
\* an endless storm of spurious wakeups that always wins the mutex.
Fairness ==
    /\ \A j \in Jobs : SF_vars(Lock(j)) /\ WF_vars(InCall(j)) /\ WF_vars(RunHandler(j))
    /\ SF_vars(WorkerLock) /\ WF_vars(Run)
    /\ SF_vars(StopSet) /\ WF_vars(Stop)

SafeSpec == Init /\ [][Next]_vars

Spec == SafeSpec /\ Fairness
-----------------------------------------------------------------------------
(* Properties.                                                             *)

InQueue(j) == \E i \in DOMAIN queue : queue[i] = j

\* Whenever the worker sleeps in wait, any reason to wake it still has its
\* notify_one ahead: work in the queue belongs to a caller that has yet to
\* notify, and stopping_ is set only while Stop has yet to notify.
NoLostWakeup ==
    worker = "blocked" =>
        /\ queue # <<>> => \E j \in Jobs : caller[j] = "notify"
        /\ stopping => owner = "notify"

Accounted(j) ==
    /\ InQueue(j) \/ running = j => outcome[j] = None /\ caller[j] \in {"notify", "returned"}
    /\ ~(InQueue(j) /\ running = j)
    /\ caller[j] \in {"notify", "returned"} => InQueue(j) \/ running = j \/ outcome[j] # None
    /\ outcome[j] # None => caller[j] \in {"notify", "returned"}

\* Every accepted job is waiting, running or answered, and in one of these
\* places only; a refused one is answered at once.
EveryJobAccounted ==
    /\ \A j \in Jobs : Accounted(j)
    /\ \A i, k \in DOMAIN queue : queue[i] = queue[k] => i = k

\* The destructor drains: once it returned, every call that was made has its
\* answer, so no future is left with a broken promise.
NoBrokenPromise ==
    owner = "destroyed" => \A j \in Jobs : caller[j] # "idle" => outcome[j] # None

\* A promise is set once, and a handler is never posted a second time.
AnsweredOnce ==
    [][ \A j \in Jobs :
           /\ outcome[j] # None => outcome'[j] = outcome[j]
           /\ j \in posted' \ posted => outcome[j] = None ]_vars

\* Once Stop has returned to its caller no job is accepted any more.
NothingAcceptedAfterStop ==
    [][(owner \in {"join", "destroyed"}) => Len(queue') <= Len(queue)]_vars

\* Every call gets its answer, and for AsyncSubmit the handler runs.
EveryCallAnswered ==
    \A j \in Jobs : caller[j] = "lock" ~> outcome[j] # None /\ j \notin posted

\* The destructor returns although it waits for the queue to drain.
DestructorReturns == owner = "stop" ~> owner = "destroyed"
-----------------------------------------------------------------------------
(* What the safety properties rest on, inductive together with them.       *)

\* A caller or the worker is inside its critical section exactly while it
\* holds mutex_.
LockHeld ==
    /\ \A j \in Jobs : caller[j] \in {"locked", "notify"} <=> mutex = j
    /\ worker \in {"locked", "block"} <=> mutex = Worker

\* What Run knows at each of its steps.
WorkerKnows ==
    /\ worker = "run" <=> running # None
    /\ worker = "block" => ~stopping /\ queue = <<>>
    /\ worker = "done" => stopping /\ queue = <<>>

\* What the destructor knows at each of its steps.
OwnerKnows ==
    /\ stopping <=> owner \in {"notify", "join", "destroyed"}
    /\ owner = "destroyed" =>
           /\ worker = "done"
           /\ \A j \in Jobs : caller[j] \in {"idle", "returned"}

\* The inductive invariant: the mutex orders the critical sections, no wakeup
\* is lost, the slots are respected and no job is lost or run twice.
IndInv ==
    /\ TypeOK
    /\ LockHeld
    /\ WorkerKnows
    /\ OwnerKnows
    /\ NoLostWakeup
    /\ Len(queue) <= QueueCapacity
    /\ EveryJobAccounted
-----------------------------------------------------------------------------
(* The executor implements the serial, bounded, first-in first-out one.    *)

Serial == INSTANCE SerialExecutor
    WITH pending <- queue,
         submitted <- {j \in Jobs : caller[j] \in {"notify", "returned"}},
         closed <- stopping

\* Every behaviour, fairness included, is one of the serial executor.
ImplementsSerial == Serial!Spec
=============================================================================
