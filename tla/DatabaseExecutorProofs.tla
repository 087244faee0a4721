----------------------- MODULE DatabaseExecutorProofs -----------------------
(***************************************************************************)
(* The safety of DatabaseExecutor for any set of jobs and any capacity:    *)
(* IndInv is inductive, and what callers rely on follows from it.          *)
(***************************************************************************)
EXTENDS DatabaseExecutor, TLAPS

-----------------------------------------------------------------------------
(* Sequences used as a queue.                                              *)

\* queue_.emplace: the new element is the last, the others keep their place.
LEMMA AppendProperties ==
    ASSUME NEW S, NEW q \in Seq(S), NEW x \in S
    PROVE  /\ Append(q, x) \in Seq(S)
           /\ Len(Append(q, x)) = Len(q) + 1
           /\ DOMAIN Append(q, x) = 1 .. (Len(q) + 1)
           /\ \A i \in 1 .. Len(q) : Append(q, x)[i] = q[i]
           /\ Append(q, x)[Len(q) + 1] = x
    OBVIOUS

\* queue_.front and queue_.pop: the others move up by one place.
LEMMA TailProperties ==
    ASSUME NEW S, NEW q \in Seq(S), q # <<>>
    PROVE  /\ Head(q) \in S
           /\ Head(q) = q[1]
           /\ Len(q) \in Nat \ {0}
           /\ Tail(q) \in Seq(S)
           /\ Len(Tail(q)) = Len(q) - 1
           /\ DOMAIN Tail(q) = 1 .. (Len(q) - 1)
           /\ \A i \in 1 .. (Len(q) - 1) : Tail(q)[i] = q[i + 1]
    OBVIOUS
-----------------------------------------------------------------------------
(* The inductive invariant.                                                *)

\* The constructor establishes the invariant.
LEMMA InitIndInv == Init => IndInv
  <1> SUFFICES ASSUME Init PROVE IndInv
    OBVIOUS
  <1> USE CapacityAssumption, ThreadsAssumption, ResultsAssumption DEF Init
  <1>1. TypeOK
    <2>1. <<>> \in Seq(Jobs)
      OBVIOUS
    <2>2. QED
      BY <2>1 DEF TypeOK, Results
  <1>2. LockHeld /\ WorkerKnows /\ OwnerKnows /\ NoLostWakeup
    BY DEF LockHeld, WorkerKnows, OwnerKnows, NoLostWakeup
  <1>3. Len(queue) <= QueueCapacity
    OBVIOUS
  <1>4. EveryJobAccounted
    BY DEF EveryJobAccounted, Accounted, InQueue
  <1>5. QED
    BY <1>1, <1>2, <1>3, <1>4 DEF IndInv

\* A step of Submit or AsyncSubmit outside the queue: the call, the lock, a
\* refusal, the notification.
LEMMA CallerStep ==
    ASSUME IndInv, NEW j \in Jobs,
           Call(j) \/ Lock(j) \/ RefuseStopping(j) \/ RefuseFull(j) \/ NotifyAndReturn(j)
    PROVE  IndInv'
  <1> USE ThreadsAssumption, ResultsAssumption, CapacityAssumption
          DEF Call, Lock, RefuseStopping, RefuseFull, NotifyAndReturn, Refuse, Complete, Notify
  <1>1. TypeOK'
    BY DEF IndInv, TypeOK, Results
  <1>2. LockHeld'
    BY DEF IndInv, TypeOK, LockHeld
  <1>3. WorkerKnows'
    BY DEF IndInv, TypeOK, WorkerKnows
  <1>4. OwnerKnows'
    BY DEF IndInv, TypeOK, OwnerKnows
  <1>5. NoLostWakeup'
    BY DEF IndInv, TypeOK, NoLostWakeup, LockHeld
  <1>6. (Len(queue) <= QueueCapacity)'
    BY DEF IndInv, TypeOK
  <1>7. EveryJobAccounted'
    BY DEF IndInv, TypeOK, EveryJobAccounted, Accounted, InQueue, LockHeld, Results
  <1>8. QED
    BY <1>1, <1>2, <1>3, <1>4, <1>5, <1>6, <1>7 DEF IndInv

\* emplace: the job joins the queue behind the others.
LEMMA EnqueueStep ==
    ASSUME IndInv, NEW j \in Jobs, Enqueue(j)
    PROVE  IndInv'
  <1> USE ThreadsAssumption, ResultsAssumption, CapacityAssumption DEF Enqueue
  <1>1. /\ queue \in Seq(Jobs)
        /\ queue' \in Seq(Jobs)
        /\ Len(queue) \in Nat
        /\ Len(queue') = Len(queue) + 1
        /\ DOMAIN queue = 1 .. Len(queue)
        /\ DOMAIN queue' = 1 .. (Len(queue) + 1)
        /\ \A i \in 1 .. Len(queue) : queue'[i] = queue[i]
        /\ queue'[Len(queue) + 1] = j
    BY AppendProperties DEF IndInv, TypeOK
  <1>2. TypeOK'
    BY <1>1 DEF IndInv, TypeOK
  <1>3. LockHeld'
    BY DEF IndInv, TypeOK, LockHeld
  <1>4. WorkerKnows'
    BY DEF IndInv, TypeOK, WorkerKnows, LockHeld
  <1>5. OwnerKnows'
    BY DEF IndInv, TypeOK, OwnerKnows
  <1>6. NoLostWakeup'
    BY DEF IndInv, TypeOK, NoLostWakeup
  <1>7. (Len(queue) <= QueueCapacity)'
    BY <1>1
  <1>8. ~InQueue(j) /\ running # j /\ outcome[j] = None
    BY DEF IndInv, EveryJobAccounted, Accounted
  <1>9. \A k \in Jobs : InQueue(k)' <=> InQueue(k) \/ k = j
    BY <1>1 DEF InQueue
  <1>10. \A k \in Jobs : Accounted(k)'
    BY <1>8, <1>9 DEF IndInv, TypeOK, EveryJobAccounted, Accounted
  <1>11. \A i \in DOMAIN queue : queue[i] # j
    BY <1>8 DEF InQueue
  <1>12. (\A i, k \in DOMAIN queue : queue[i] = queue[k] => i = k)'
    BY <1>1, <1>11 DEF IndInv, EveryJobAccounted
  <1>13. EveryJobAccounted'
    BY <1>10, <1>12 DEF EveryJobAccounted
  <1>14. QED
    BY <1>2, <1>3, <1>4, <1>5, <1>6, <1>7, <1>13 DEF IndInv

\* pop: the oldest job moves from the queue to the worker.
LEMMA TakeStep ==
    ASSUME IndInv, WorkerTake
    PROVE  IndInv'
  <1> USE ThreadsAssumption, ResultsAssumption, CapacityAssumption DEF WorkerTake
  <1>1. PICK head \in Jobs :
        /\ queue \in Seq(Jobs)
        /\ queue' \in Seq(Jobs)
        /\ head = queue[1]
        /\ Len(queue) \in Nat \ {0}
        /\ Len(queue') = Len(queue) - 1
        /\ DOMAIN queue = 1 .. Len(queue)
        /\ DOMAIN queue' = 1 .. (Len(queue) - 1)
        /\ \A i \in 1 .. (Len(queue) - 1) : queue'[i] = queue[i + 1]
        /\ running' = head
    BY TailProperties DEF IndInv, TypeOK
  <1>2. TypeOK'
    BY <1>1 DEF IndInv, TypeOK
  <1>3. LockHeld'
    BY DEF IndInv, TypeOK, LockHeld
  <1>4. WorkerKnows'
    BY <1>1 DEF IndInv, TypeOK, WorkerKnows
  <1>5. OwnerKnows'
    BY DEF IndInv, TypeOK, OwnerKnows
  <1>6. NoLostWakeup'
    BY DEF IndInv, TypeOK, NoLostWakeup
  <1>7. (Len(queue) <= QueueCapacity)'
    BY <1>1 DEF IndInv
  <1>8. InQueue(head) /\ running = None
    BY <1>1 DEF InQueue, IndInv, TypeOK, WorkerKnows
  <1>9. \A i \in 2 .. Len(queue) : queue[i] # head
    BY <1>1 DEF IndInv, EveryJobAccounted
  <1>10. \A k \in Jobs : InQueue(k) <=> InQueue(k)' \/ k = head
    <2> SUFFICES ASSUME NEW k \in Jobs PROVE InQueue(k) <=> InQueue(k)' \/ k = head
      OBVIOUS
    <2>1. ASSUME InQueue(k), k # head PROVE InQueue(k)'
      <3>1. PICK i \in 1 .. Len(queue) : queue[i] = k
        BY <1>1, <2>1 DEF InQueue
      <3>2. i - 1 \in 1 .. (Len(queue) - 1) /\ queue'[i - 1] = k
        BY <1>1, <2>1, <3>1
      <3>3. QED
        BY <1>1, <3>2 DEF InQueue
    <2>2. ASSUME InQueue(k)' PROVE InQueue(k)
      <3>1. PICK i \in 1 .. (Len(queue) - 1) : queue'[i] = k
        BY <1>1, <2>2 DEF InQueue
      <3>2. QED
        BY <1>1, <3>1 DEF InQueue
    <2>3. QED
      BY <1>8, <2>1, <2>2
  <1>11. ~InQueue(head)'
    <2> SUFFICES ASSUME NEW i \in 1 .. (Len(queue) - 1) PROVE queue'[i] # head
      BY <1>1 DEF InQueue
    <2>1. i + 1 \in 2 .. Len(queue) /\ queue'[i] = queue[i + 1]
      BY <1>1
    <2> QED
      BY <1>9, <2>1
  <1>12. \A k \in Jobs : Accounted(k)'
    <2>1. caller' = caller /\ outcome' = outcome /\ running' = head /\ head # None
      BY <1>1
    <2>2. \A k \in Jobs : Accounted(k)
      BY DEF IndInv, EveryJobAccounted
    <2> QED
      BY ONLY ThreadsAssumption, <1>1, <1>8, <1>10, <1>11, <2>1, <2>2 DEF Accounted
  <1>13. (\A i, k \in DOMAIN queue : queue[i] = queue[k] => i = k)'
    BY <1>1 DEF IndInv, EveryJobAccounted
  <1>14. EveryJobAccounted'
    BY <1>12, <1>13 DEF EveryJobAccounted
  <1>15. QED
    BY <1>2, <1>3, <1>4, <1>5, <1>6, <1>7, <1>14 DEF IndInv

\* The steps of Run that leave the queue alone and complete nothing.
LEMMA WorkerStep ==
    ASSUME IndInv,
           WorkerLock \/ WorkerWait \/ WorkerBlock \/ SpuriousWakeup \/ WorkerExit
    PROVE  IndInv'
  <1> USE ThreadsAssumption DEF WorkerLock, WorkerWait, WorkerBlock, SpuriousWakeup, WorkerExit
  <1>1. TypeOK'
    BY DEF IndInv, TypeOK
  <1>2. LockHeld'
    BY DEF IndInv, TypeOK, LockHeld
  <1>3. WorkerKnows'
    BY DEF IndInv, TypeOK, WorkerKnows
  <1>4. OwnerKnows'
    BY DEF IndInv, TypeOK, OwnerKnows, WorkerKnows
  <1>5. NoLostWakeup'
    BY DEF IndInv, TypeOK, NoLostWakeup, WorkerKnows
  <1>6. (Len(queue) <= QueueCapacity)' /\ EveryJobAccounted'
    BY DEF IndInv, EveryJobAccounted, Accounted, InQueue
  <1>7. QED
    BY <1>1, <1>2, <1>3, <1>4, <1>5, <1>6 DEF IndInv

\* operation(): the running job gets its answer.
LEMMA RunStep ==
    ASSUME IndInv, WorkerRun
    PROVE  IndInv'
  <1> USE ThreadsAssumption, ResultsAssumption DEF WorkerRun, Complete
  <1>1. running \in Jobs
    BY DEF IndInv, TypeOK, WorkerKnows
  <1>2. TypeOK'
    BY <1>1 DEF IndInv, TypeOK, Results
  <1>3. LockHeld' /\ WorkerKnows' /\ OwnerKnows' /\ NoLostWakeup'
    BY DEF IndInv, TypeOK, LockHeld, WorkerKnows, OwnerKnows, NoLostWakeup
  <1>4. (Len(queue) <= QueueCapacity)'
    BY DEF IndInv
  <1>5. EveryJobAccounted'
    BY <1>1 DEF IndInv, TypeOK, EveryJobAccounted, Accounted, InQueue, Results
  <1>6. QED
    BY <1>2, <1>3, <1>4, <1>5 DEF IndInv

\* The destructor, and the handler's executor.
LEMMA OwnerStep ==
    ASSUME IndInv,
           \/ Destroy \/ StopSet \/ StopNotify \/ Join
           \/ \E j \in Jobs : RunHandler(j)
    PROVE  IndInv'
  <1> USE ThreadsAssumption DEF Destroy, StopSet, StopNotify, Join, RunHandler, Notify
  <1>1. TypeOK'
    BY DEF IndInv, TypeOK
  <1>2. LockHeld' /\ WorkerKnows'
    BY DEF IndInv, TypeOK, LockHeld, WorkerKnows
  <1>3. OwnerKnows'
    BY DEF IndInv, TypeOK, OwnerKnows
  <1>4. NoLostWakeup'
    BY DEF IndInv, TypeOK, NoLostWakeup, OwnerKnows
  <1>5. (Len(queue) <= QueueCapacity)' /\ EveryJobAccounted'
    BY DEF IndInv, EveryJobAccounted, Accounted, InQueue
  <1>6. QED
    BY <1>1, <1>2, <1>3, <1>4, <1>5 DEF IndInv

\* Every step of the executor preserves the invariant.
LEMMA NextIndInv == IndInv /\ [Next]_vars => IndInv'
  <1> SUFFICES ASSUME IndInv, [Next]_vars PROVE IndInv'
    OBVIOUS
  <1>1. CASE \E j \in Jobs : Submit(j) \/ AsyncSubmit(j) \/ RunHandler(j)
    <2>1. PICK j \in Jobs : Submit(j) \/ AsyncSubmit(j) \/ RunHandler(j)
      BY <1>1
    <2>2. CASE Enqueue(j)
      BY <2>2, EnqueueStep
    <2>3. CASE Call(j) \/ Lock(j) \/ RefuseStopping(j) \/ RefuseFull(j) \/ NotifyAndReturn(j)
      BY <2>3, CallerStep
    <2>4. CASE RunHandler(j)
      BY <2>4, OwnerStep
    <2>5. QED
      BY <2>1, <2>2, <2>3, <2>4 DEF Submit, AsyncSubmit, InCall
  <1>2. CASE Run \/ SpuriousWakeup
    BY <1>2, WorkerStep, TakeStep, RunStep DEF Run
  <1>3. CASE Destroy \/ Stop
    BY <1>3, OwnerStep DEF Stop
  <1>4. CASE Finished \/ UNCHANGED vars
    <2>1. UNCHANGED vars
      BY <1>4 DEF Finished
    <2>2. QED
      BY <2>1 DEF vars, IndInv, TypeOK, LockHeld, WorkerKnows, OwnerKnows, NoLostWakeup,
                  EveryJobAccounted, Accounted, InQueue
  <1>5. QED
    BY <1>1, <1>2, <1>3, <1>4 DEF Next

\* The strengthening holds in every reachable state, whatever the number of
\* callers and the capacity.
THEOREM IndInvAlways == SafeSpec => []IndInv
  BY InitIndInv, NextIndInv, PTL DEF SafeSpec
-----------------------------------------------------------------------------
(* What callers rely on.                                                   *)

\* Every field keeps its type; in particular handlers are posted for calls of
\* AsyncSubmit only.
THEOREM TypeCorrect == SafeSpec => []TypeOK
  <1>1. IndInv => TypeOK
    BY DEF IndInv
  <1>2. QED
    BY <1>1, IndInvAlways, PTL

\* The worker never sleeps through a submission or through Stop.
THEOREM WakeupsNotLost == SafeSpec => []NoLostWakeup
  <1>1. IndInv => NoLostWakeup
    BY DEF IndInv
  <1>2. QED
    BY <1>1, IndInvAlways, PTL

\* No job is lost, and none is queued or run twice.
THEOREM JobsAccounted == SafeSpec => []EveryJobAccounted
  <1>1. IndInv => EveryJobAccounted
    BY DEF IndInv
  <1>2. QED
    BY <1>1, IndInvAlways, PTL

\* The destructor leaves no future behind without a value.
THEOREM DrainedWhenDestroyed == SafeSpec => []NoBrokenPromise
  <1>1. IndInv => NoBrokenPromise
    <2> SUFFICES ASSUME IndInv, owner = "destroyed", NEW j \in Jobs, caller[j] # "idle"
                 PROVE  outcome[j] # None
      BY DEF NoBrokenPromise
    <2>1. queue = <<>> /\ running = None
      BY DEF IndInv, OwnerKnows, WorkerKnows
    <2>2. caller[j] = "returned"
      BY DEF IndInv, OwnerKnows
    <2>3. ~InQueue(j)
      BY <2>1 DEF InQueue
    <2>4. running # j
      BY <2>1, ThreadsAssumption
    <2>5. QED
      BY <2>2, <2>3, <2>4 DEF IndInv, EveryJobAccounted, Accounted
  <1>2. QED
    BY <1>1, IndInvAlways, PTL

\* A promise is set once and a handler posted once: only a caller that has yet
\* to return refuses, and only the running job is completed.
THEOREM AnswersFinal == SafeSpec => AnsweredOnce
  <1> DEFINE Once ==
        \A j \in Jobs :
           /\ outcome[j] # None => outcome'[j] = outcome[j]
           /\ j \in posted' \ posted => outcome[j] = None
  <1>1. ASSUME IndInv, [Next]_vars PROVE [Once]_vars
    <2>1. ASSUME NEW k \in Jobs, outcome[k] = None,
                 NEW result, Complete(k, result)
          PROVE  Once
      BY <1>1, <2>1 DEF Complete, IndInv, TypeOK
    <2>2. ASSUME outcome' = outcome, posted' \subseteq posted PROVE Once
      BY <2>2
    <2>3. ASSUME NEW j \in Jobs, RefuseStopping(j) \/ RefuseFull(j) PROVE Once
      <3>1. outcome[j] = None
        BY <1>1, <2>3 DEF RefuseStopping, RefuseFull, IndInv, EveryJobAccounted, Accounted
      <3>2. Complete(j, "Storage") \/ Complete(j, "Overloaded")
        BY <2>3 DEF RefuseStopping, RefuseFull, Refuse
      <3>3. QED
        BY <2>1, <3>1, <3>2
    <2>4. ASSUME WorkerRun PROVE Once
      <3>1. running \in Jobs /\ outcome[running] = None
        BY <1>1, <2>4 DEF WorkerRun, IndInv, TypeOK, WorkerKnows, EveryJobAccounted, Accounted
      <3>2. QED
        BY <2>1, <2>4, <3>1 DEF WorkerRun
    <2>5. ASSUME NEW j \in Jobs,
                 Call(j) \/ Lock(j) \/ Enqueue(j) \/ NotifyAndReturn(j) \/ RunHandler(j)
          PROVE  Once
      BY <2>2, <2>5 DEF Call, Lock, Enqueue, NotifyAndReturn, RunHandler
    <2>6. ASSUME WorkerLock \/ WorkerWait \/ WorkerBlock \/ WorkerExit \/ WorkerTake \/ SpuriousWakeup
          PROVE  Once
      BY <2>2, <2>6 DEF WorkerLock, WorkerWait, WorkerBlock, WorkerExit, WorkerTake, SpuriousWakeup
    <2>7. ASSUME Destroy \/ Stop PROVE Once
      BY <2>2, <2>7 DEF Destroy, Stop, StopSet, StopNotify, Join
    <2>8. QED
      BY <1>1, <2>3, <2>4, <2>5, <2>6, <2>7
      DEF Next, Submit, AsyncSubmit, InCall, Run, Finished
  <1>2. QED
    BY <1>1, IndInvAlways, PTL DEF SafeSpec, AnsweredOnce

\* The queue only shrinks once Stop has set stopping_.
THEOREM NothingAccepted == SafeSpec => NothingAcceptedAfterStop
  <1>1. ASSUME IndInv, [Next]_vars
        PROVE  [(owner \in {"join", "destroyed"}) => Len(queue') <= Len(queue)]_vars
    <2> SUFFICES ASSUME Next, owner \in {"join", "destroyed"}
                 PROVE  Len(queue') <= Len(queue)
      BY <1>1
    <2>1. stopping /\ queue \in Seq(Jobs) /\ Len(queue) \in Nat
      BY <1>1 DEF IndInv, TypeOK, OwnerKnows
    <2>2. CASE WorkerTake
      <3>1. queue # <<>> /\ queue' = Tail(queue)
        BY <2>2 DEF WorkerTake
      <3>2. QED
        BY <2>1, <3>1, TailProperties
    <2>3. CASE UNCHANGED queue
      BY <2>1, <2>3
    <2>4. QED
      BY <2>1, <2>2, <2>3
      DEF Next, Submit, AsyncSubmit, Call, InCall, Lock, RefuseStopping, RefuseFull, Refuse,
          Enqueue, NotifyAndReturn, RunHandler, Run, WorkerLock, WorkerWait, WorkerBlock,
          WorkerExit, WorkerRun, SpuriousWakeup, Destroy, Stop, StopSet, StopNotify, Join,
          Finished, vars
  <1>2. QED
    BY <1>1, IndInvAlways, PTL DEF SafeSpec, NothingAcceptedAfterStop
-----------------------------------------------------------------------------
(* The executor implements the serial one, liveness apart.                 *)

\* The calls that SerialExecutor counts as submitted.
LEMMA SubmittedGrows ==
    ASSUME TypeOK, NEW j \in Jobs, NEW pc \in {"notify", "returned"},
           caller' = [caller EXCEPT ![j] = pc]
    PROVE  {k \in Jobs : caller'[k] \in {"notify", "returned"}} =
               {k \in Jobs : caller[k] \in {"notify", "returned"}} \cup {j}
    BY DEF TypeOK

\* ... and a step that does not move a call across that line leaves them alone.
LEMMA SubmittedStays ==
    ASSUME TypeOK, NEW j \in Jobs, NEW pc,
           caller' = [caller EXCEPT ![j] = pc],
           caller[j] \in {"notify", "returned"} <=> pc \in {"notify", "returned"}
    PROVE  {k \in Jobs : caller'[k] \in {"notify", "returned"}} =
               {k \in Jobs : caller[k] \in {"notify", "returned"}}
    BY DEF TypeOK

\* Each step maps to the step of the same meaning or changes nothing a caller
\* of the serial executor could see.
THEOREM SerialSafety == SafeSpec => Serial!SafeSpec
  <1>1. Init => Serial!Init
    BY DEF Init, Serial!Init
  <1>2. ASSUME IndInv, [Next]_vars PROVE [Serial!Next]_(Serial!vars)
    <2>1. TypeOK
      BY <1>2 DEF IndInv
    <2>2. ASSUME NEW j \in Jobs, RefuseStopping(j) PROVE Serial!RefuseClosed(j)
      BY <2>1, <2>2, SubmittedGrows
      DEF RefuseStopping, Refuse, Complete, Serial!RefuseClosed, Serial!Refuse
    <2>3. ASSUME NEW j \in Jobs, RefuseFull(j) PROVE Serial!RefuseFull(j)
      <3>1. Len(queue) = QueueCapacity
        BY <1>2, <2>1, <2>3, CapacityAssumption DEF RefuseFull, IndInv, TypeOK
      <3>2. QED
        BY <2>1, <2>3, <3>1, SubmittedGrows
        DEF RefuseFull, Refuse, Complete, Serial!RefuseFull, Serial!Refuse
    <2>4. ASSUME NEW j \in Jobs, Enqueue(j) PROVE Serial!Accept(j)
      BY <2>1, <2>4, SubmittedGrows DEF Enqueue, Serial!Accept
    <2>5. ASSUME WorkerTake PROVE Serial!Start
      BY <1>2, <2>5, <2>1 DEF WorkerTake, Serial!Start, IndInv, TypeOK, WorkerKnows
    <2>6. ASSUME WorkerRun PROVE Serial!Finish
      <3>1. running \in Jobs /\ running # None /\ outcome[running] = None
        BY <1>2, <2>6, ThreadsAssumption
        DEF WorkerRun, IndInv, TypeOK, WorkerKnows, EveryJobAccounted, Accounted
      <3>2. QED
        BY <2>6, <3>1 DEF WorkerRun, Complete, Serial!Finish
    <2>7. ASSUME StopSet PROVE Serial!Close
      BY <1>2, <2>7 DEF StopSet, Serial!Close, IndInv, OwnerKnows
    <2>8. ASSUME NEW j \in Jobs, Call(j) \/ Lock(j) \/ NotifyAndReturn(j)
          PROVE  UNCHANGED Serial!vars
      BY <2>1, <2>8, SubmittedStays DEF Call, Lock, NotifyAndReturn, Serial!vars
    <2>9. ASSUME \/ \E j \in Jobs : RunHandler(j)
                 \/ WorkerLock \/ WorkerWait \/ WorkerBlock \/ WorkerExit \/ SpuriousWakeup
                 \/ Destroy \/ StopNotify \/ Join \/ Finished \/ UNCHANGED vars
          PROVE  UNCHANGED Serial!vars
      BY <2>9
      DEF RunHandler, WorkerLock, WorkerWait, WorkerBlock, WorkerExit, SpuriousWakeup, Destroy,
          StopNotify, Join, Finished, vars, Serial!vars
    <2>10. QED
      BY <1>2, <2>2, <2>3, <2>4, <2>5, <2>6, <2>7, <2>8, <2>9
      DEF Next, Submit, AsyncSubmit, InCall, Run, Stop, Serial!Next
  <1>3. QED
    BY <1>1, <1>2, IndInvAlways, PTL DEF SafeSpec, Serial!SafeSpec
=============================================================================
