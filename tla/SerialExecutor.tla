--------------------------- MODULE SerialExecutor ---------------------------
(***************************************************************************)
(* What app::DatabaseExecutor promises its callers, with no mutex, no      *)
(* condition variable and no threads: a bounded first-in first-out queue   *)
(* of submitted jobs, executed one at a time, each answered exactly once.  *)
(* A job is refused with Overloaded only if the queue is full, and with    *)
(* Storage only after the executor was closed.                             *)
(***************************************************************************)
EXTENDS Integers, Sequences

CONSTANTS Jobs,            \* the calls of Submit and AsyncSubmit
          QueueCapacity,   \* pending jobs the executor holds at most
          None             \* no job, and no result yet

VARIABLES pending,   \* accepted jobs that have not started, oldest first
          running,   \* the job on the worker, or None
          outcome,   \* outcome[j]: the result of job j, or None
          submitted, \* the jobs that were accepted or refused
          closed     \* TRUE once the executor shuts down

vars == <<pending, running, outcome, submitted, closed>>

Init ==
    /\ pending = <<>>
    /\ running = None
    /\ outcome = [j \in Jobs |-> None]
    /\ submitted = {}
    /\ closed = FALSE

\* DatabaseExecutor.hpp:31-32: the capacity counts pending work only.
Accept(j) ==
    /\ j \notin submitted
    /\ ~closed
    /\ Len(pending) < QueueCapacity
    /\ pending' = Append(pending, j)
    /\ submitted' = submitted \cup {j}
    /\ UNCHANGED <<running, outcome, closed>>

Refuse(j, result) ==
    /\ j \notin submitted
    /\ submitted' = submitted \cup {j}
    /\ outcome' = [outcome EXCEPT ![j] = result]
    /\ UNCHANGED <<pending, running, closed>>

\* DatabaseExecutor.hpp:33: Overloaded when no slot is available.
RefuseFull(j) == ~closed /\ Len(pending) = QueueCapacity /\ Refuse(j, "Overloaded")

\* DatabaseExecutor.hpp:34: Storage after shutdown.
RefuseClosed(j) == closed /\ Refuse(j, "Storage")

Start ==
    /\ running = None
    /\ pending # <<>>
    /\ running' = Head(pending)
    /\ pending' = Tail(pending)
    /\ UNCHANGED <<outcome, submitted, closed>>

\* The result of the operation itself, or Storage if it threw.
Finish ==
    /\ running # None
    /\ outcome[running] = None
    /\ \E result \in {"Value", "Storage"} :
           outcome' = [outcome EXCEPT ![running] = result]
    /\ running' = None
    /\ UNCHANGED <<pending, submitted, closed>>

Close ==
    /\ ~closed
    /\ closed' = TRUE
    /\ UNCHANGED <<pending, running, outcome, submitted>>

Next ==
    \/ \E j \in Jobs : Accept(j) \/ RefuseFull(j) \/ RefuseClosed(j)
    \/ Start
    \/ Finish
    \/ Close

\* Accepted work is done, also after Close.
Spec == Init /\ [][Next]_vars /\ WF_vars(Start) /\ WF_vars(Finish)

\* The safety half, the one that is proved.
SafeSpec == Init /\ [][Next]_vars
=============================================================================
