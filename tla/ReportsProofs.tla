---------------------------- MODULE ReportsProofs ----------------------------
(***************************************************************************)
(* Both report functions for any settings and any file system: what the    *)
(* result says of the files, and what a failure leaves behind.             *)
(***************************************************************************)
EXTENDS Reports, TLAPS

\* The outputs and their places in the order.
LEMMA Places ==
    /\ Order[1] = "console" /\ Order[2] = "json" /\ Order[3] = "yaml"
    /\ \A i \in 1 .. 3 : Order[i] \in Outputs
    /\ \A k \in Outputs : \E i \in 1 .. 3 : Order[i] = k
    /\ \A i, j \in 1 .. 3 : Order[i] = Order[j] => i = j
  BY DEF Order, Outputs, Writers

\* What comes before an output is what has a smaller place.
LEMMA Earlier == \A i \in 1 .. 3, k \in Outputs : k \in Before(Order[i]) <=> \E j \in 1 .. 3 : j < i /\ k = Order[j]
  <1> TAKE i \in 1 .. 3, k \in Outputs
  <1>1. \A j \in 1 .. 3 : (\E n \in j + 1 .. 3 : Order[n] = Order[i]) <=> j < i
    BY Places
  <1>2. QED
    BY <1>1 DEF Before

\* A path of a writer that is not empty names a file.
LEMMA Targets ==
    ASSUME TypeOK, NEW w \in Writers, args.path[w] # Empty
    PROVE  Target(w) \in Files
  BY ReportsAssumption DEF TypeOK, Target, Files

\* Nothing is written before the call.
LEMMA InitIndInv == Init => IndInv
  <1> SUFFICES ASSUME Init PROVE IndInv
    OBVIOUS
  <1> USE ReportsAssumption, Places DEF Init
  <1>1. TypeOK
    BY DEF TypeOK
  <1>2. CallerKnown
    BY DEF CallerKnown
  <1>3. ReasonKnown
    BY DEF ReasonKnown
  <1>4. FileKnown
    <2> SUFFICES ASSUME NEW w \in Writers, Apart, args.path[w] # Empty
                 PROVE  file[Target(w)] = "old"
      BY DEF FileKnown, Outputs
    <2>1. Target(w) \in Files
      BY Targets, <1>1
    <2>2. QED
      BY <2>1
  <1>5. QED
    BY <1>1, <1>2, <1>3, <1>4 DEF IndInv
-----------------------------------------------------------------------------
(* The caller.                                                             *)

\* No step of the caller touches a file.
LEMMA CallerStep ==
    ASSUME IndInv, Caller
    PROVE  IndInv'
  <1> USE ReportsAssumption, Places DEF IndInv
  <1>1. ASSUME Begin PROVE IndInv'
    <2> USE <1>1 DEF Begin, Leave, Go
    <2>1. TypeOK'
      BY DEF TypeOK, Target
    <2>2. CallerKnown'
      BY DEF TypeOK, CallerKnown, SequentialKnown, Over
    <2>3. ReasonKnown'
      BY DEF TypeOK, CallerKnown, ReasonKnown, Over
    <2>4. FileKnown'
      BY DEF TypeOK, FileKnown, OwnFileTold, Target, Apart
    <2>5. QED
      BY <2>1, <2>2, <2>3, <2>4
  <1>2. ASSUME Skip PROVE IndInv'
    <2> USE <1>2 DEF Skip, Leave, Go, Launches
    <2>1. TypeOK'
      BY DEF TypeOK, Target
    <2>2. CallerKnown'
      BY DEF TypeOK, CallerKnown, SequentialKnown, Over
    <2>3. ReasonKnown'
      BY DEF TypeOK, ReasonKnown, Over
    <2>4. FileKnown'
      BY DEF TypeOK, FileKnown, OwnFileTold, Target, Apart
    <2>5. QED
      BY <2>1, <2>2, <2>3, <2>4
  <1>3. ASSUME Launch PROVE IndInv'
    <2> USE <1>3 DEF Launch, Leave, Go, Launches
    <2>0. at \in 1 .. 3 /\ Order[at] \in Outputs /\ task[Order[at]] = "idle"
      BY DEF TypeOK, CallerKnown
    <2>1. TypeOK'
      <3>1. CASE UNCHANGED task
        BY <3>1 DEF TypeOK, Target
      <3>2. CASE task' = [task EXCEPT ![Order[at]] = "begin"]
        <4>1. \A w \in Writers : task[w] \in {"write", "close"} => task'[w] = task[w]
          BY <2>0, <3>2 DEF TypeOK
        <4>2. \A k \in Outputs : task'[k] = "done" <=> task[k] = "done"
          BY <2>0, <3>2 DEF TypeOK
        <4>3. QED
          BY <2>0, <3>2, <4>1, <4>2 DEF TypeOK, Target
      <3>3. QED
        BY <3>1, <3>2
    <2>2. CallerKnown'
      BY DEF TypeOK, CallerKnown, SequentialKnown, Over
    <2>3. ReasonKnown'
      BY DEF TypeOK, CallerKnown, ReasonKnown, Over
    <2>4. FileKnown'
      <3>1. \A k \in Outputs : task'[k] # task[k] => task[k] = "idle" /\ task'[k] = "begin"
        BY <2>0 DEF TypeOK
      <3>2. UNCHANGED <<args, result, file>>
        OBVIOUS
      <3>3. QED
        BY <3>1, <3>2 DEF TypeOK, FileKnown, OwnFileTold, Target, Apart, Outputs, Writers
    <2>5. QED
      BY <2>1, <2>2, <2>3, <2>4
  <1>4. ASSUME Launched PROVE IndInv'
    <2> USE <1>4 DEF Launched, Leave, Go, Launches
    <2>1. TypeOK'
      BY DEF TypeOK, Target
    <2>2. CallerKnown'
      BY DEF TypeOK, CallerKnown, SequentialKnown, Over
    <2>3. ReasonKnown'
      BY DEF TypeOK, CallerKnown, SequentialKnown, ReasonKnown, Over
    <2>4. FileKnown'
      BY DEF TypeOK, FileKnown, OwnFileTold, Target, Apart
    <2>5. QED
      BY <2>1, <2>2, <2>3, <2>4
  <1>5. ASSUME Await PROVE IndInv'
    <2> USE <1>5 DEF Await, Leave, Go, Launches
    <2>1. TypeOK'
      BY DEF TypeOK, Target
    <2>2. CallerKnown'
      BY DEF TypeOK, CallerKnown, SequentialKnown, Over
    <2>3. ReasonKnown'
      BY DEF TypeOK, CallerKnown, SequentialKnown, ReasonKnown, Over
    <2>4. FileKnown'
      BY DEF TypeOK, FileKnown, OwnFileTold, Target, Apart
    <2>5. QED
      BY <2>1, <2>2, <2>3, <2>4
  <1>6. ASSUME Awaited PROVE IndInv'
    <2> USE <1>6 DEF Awaited, Leave, Go, Launches
    <2>1. TypeOK'
      BY DEF TypeOK, Target
    <2>2. CallerKnown'
      BY DEF TypeOK, CallerKnown, SequentialKnown, Over
    <2>3. ReasonKnown'
      BY DEF TypeOK, CallerKnown, SequentialKnown, ReasonKnown, Over
    <2>4. FileKnown'
      BY DEF TypeOK, FileKnown, OwnFileTold, Target, Apart
    <2>5. QED
      BY <2>1, <2>2, <2>3, <2>4
  <1>7. ASSUME Return PROVE IndInv'
    <2> USE <1>7 DEF Return
    <2>1. TypeOK'
      BY DEF TypeOK, Target
    <2>2. CallerKnown'
      BY DEF TypeOK, CallerKnown
    <2>3. ReasonKnown'
      BY DEF TypeOK, ReasonKnown, Over, Launches
    <2>4. FileKnown'
      BY DEF TypeOK, FileKnown, OwnFileTold, Target, Apart
    <2>5. QED
      BY <2>1, <2>2, <2>3, <2>4
  <1>8. QED
    BY <1>1, <1>2, <1>3, <1>4, <1>5, <1>6, <1>7 DEF Caller
-----------------------------------------------------------------------------
(* The outputs.                                                            *)

\* What the caller knows outlives a step of an output that is under way.
LEMMA OutputStep ==
    ASSUME IndInv, NEW k \in Outputs, task[k] \notin {"idle", "done"},
           UNCHANGED <<mode, args, lateErrors, phase, at, answer>>,
           task' \in [Outputs -> {"idle", "begin", "open", "write", "close", "done"}],
           \A o \in Outputs \ {k} : task'[o] = task[o] /\ result'[o] = result[o],
           task'[k] # "idle", result[k] = None
    PROVE  CallerKnown' /\ ReasonKnown'
  <1> USE Places DEF IndInv
  <1>1. \A i \in 1 .. 3 : Over(i) => Over(i)' /\ UNCHANGED <<task[Order[i]], result[Order[i]]>>
    BY DEF Over, TypeOK
  <1>2. \A o \in Outputs : task'[o] = "idle" <=> task[o] = "idle"
    OBVIOUS
  <1>3. \A n : SequentialKnown(n) => SequentialKnown(n)'
    BY <1>1, <1>2 DEF SequentialKnown
  <1>4. CallerKnown'
    <2>1. (phase = "begin" => \A o \in Outputs : task[o] = "idle")'
      BY DEF CallerKnown
    <2>2. (mode = "sequential" /\ phase = "launch" =>
              SequentialKnown(at) /\ (at < 4 => task[Order[at]] = "idle"))'
      <3>1. SequentialKnown(at) => SequentialKnown(at)'
        BY <1>3
      <3>2. at < 4 => Order[at] \in Outputs
        BY DEF TypeOK
      <3>3. QED
        BY <3>1, <3>2, <1>2 DEF CallerKnown
    <2>3. (mode = "sequential" /\ phase = "await" =>
              at < 4 /\ SequentialKnown(at) /\ task[Order[at]] # "idle")'
      <3>1. SequentialKnown(at) => SequentialKnown(at)'
        BY <1>3
      <3>2. at < 4 => Order[at] \in Outputs
        BY DEF TypeOK
      <3>3. QED
        BY <3>1, <3>2, <1>2 DEF CallerKnown
    <2>4. (mode = "parallel" /\ phase = "launch" =>
              \A i \in 1 .. 3 : task[Order[i]] # "idle" <=> i < at /\ Launches(Order[i]))'
      BY <1>2 DEF CallerKnown, Launches
    <2>5. (mode = "parallel" /\ phase = "await" =>
              \A i \in 1 .. 3 : (task[Order[i]] # "idle" <=> Launches(Order[i])) /\ (i < at => Over(i)))'
      BY <1>1, <1>2 DEF CallerKnown, Launches
    <2>6. QED
      BY <2>1, <2>2, <2>3, <2>4, <2>5 DEF CallerKnown
  <1>5. ReasonKnown'
    <2> SUFFICES ASSUME phase \in {"leave", "returned"} PROVE ReasonKnown'
      BY DEF ReasonKnown
    <2>1. CASE answer = "ok" /\ \A i \in 1 .. 3 : Over(i) /\ (Launches(Order[i]) => result[Order[i]] = "ok")
      BY <2>1, <1>1 DEF ReasonKnown, Launches
    <2>2. CASE /\ answer = "invalid_argument" /\ mode = "sequential" /\ args.write = {}
               /\ \A o \in Outputs : task[o] = "idle"
      BY <2>2
    <2>3. CASE answer = "thrown" /\ mode = "parallel" /\ task["yaml"] = "idle"
      BY <2>3, <1>2 DEF ReasonKnown, Outputs, Writers
    <2>4. ASSUME NEW i \in 1 .. 3, result[Order[i]] = answer, answer \notin {None, "ok"},
                 \A j \in 1 .. 3 : j < i => Over(j),
                 mode = "sequential" => \A j \in 1 .. 3 : j > i => task[Order[j]] = "idle"
          PROVE  ReasonKnown'
      <3>1. Order[i] # k
        BY <2>4
      <3>2. result'[Order[i]] = answer'
        BY <3>1, <2>4
      <3>3. QED
        BY <2>4, <3>2, <1>1, <1>2 DEF ReasonKnown
    <2>5. QED
      BY <2>1, <2>2, <2>3, <2>4 DEF ReasonKnown
  <1>6. QED
    BY <1>4, <1>5

\* The console's output has no file.
LEMMA PrintStep ==
    ASSUME IndInv, PrintItems
    PROVE  IndInv'
  <1> USE ReportsAssumption DEF IndInv, PrintItems, Finish
  <1>1. "console" \in Outputs \ Writers
    BY DEF Outputs, Writers
  <1>2. TypeOK'
    <2>1. \A w \in Writers : task'[w] = task[w]
      BY <1>1 DEF TypeOK
    <2>2. QED
      BY <1>1, <2>1 DEF TypeOK, Target
  <1>3. CallerKnown' /\ ReasonKnown'
    <2>1. result["console"] = None
      BY <1>1 DEF TypeOK
    <2>2. task' \in [Outputs -> {"idle", "begin", "open", "write", "close", "done"}]
      BY <1>2 DEF TypeOK
    <2>3. \A o \in Outputs \ {"console"} : task'[o] = task[o] /\ result'[o] = result[o]
      BY DEF TypeOK
    <2>4. task'["console"] # "idle"
      BY <1>1 DEF TypeOK
    <2>5. QED
      BY <1>1, <2>1, <2>2, <2>3, <2>4, OutputStep
  <1>4. FileKnown'
    <2>1. \A w \in Writers : UNCHANGED <<task[w], result[w], Target(w), args.path[w], lateErrors>>
      BY <1>1 DEF TypeOK, Target
    <2>2. UNCHANGED <<Apart, file>>
      BY DEF Apart, Target
    <2>3. QED
      BY <2>1, <2>2 DEF FileKnown, OwnFileTold
  <1>5. QED
    BY <1>2, <1>3, <1>4

\* A writer touches its target only, and leaves it in the state its own step
\* says if the other one has another target.
LEMMA WriterStep ==
    ASSUME IndInv, NEW w \in Writers, Prepare(w) \/ Open(w) \/ Write(w) \/ Close(w)
    PROVE  IndInv'
  <1> USE ReportsAssumption DEF IndInv
  <1> USE DEF Prepare, Open, Write, Close, Finish, Becomes
  <1>1. w \in Outputs /\ task[w] \notin {"idle", "done"} /\ result[w] = None
    BY DEF TypeOK, Outputs
  <1>2. task[w] # "begin" => args.path[w] # Empty /\ Target(w) \in Files
    BY Targets DEF TypeOK, FileKnown
  <1>3. \A o \in Outputs \ {w} : task'[o] = task[o] /\ result'[o] = result[o]
    BY DEF TypeOK
  <1>4. \A v \in Writers : Target(v)' = Target(v)
    BY DEF Target
  <1>5. UNCHANGED <<mode, args, lateErrors, phase, at, answer>>
    OBVIOUS
  <1>6. /\ task' \in [Outputs -> {"idle", "begin", "open", "write", "close", "done"}]
        /\ result' \in [Outputs -> {None, "ok", "failed", "invalid_argument", "thrown"}]
    BY <1>1 DEF TypeOK
  <1>7. task'[w] # "idle" /\ (result'[w] # None <=> task'[w] = "done")
    BY <1>1 DEF TypeOK
  <1>8. file' \in [Files -> {"old", "empty", "partial", "cut", "mixed"} \cup Writers]
    BY <1>2 DEF TypeOK
  <1>9. \A f \in Files : file'[f] = "empty" => \E v \in Writers : task'[v] \in {"write", "close"} /\ Target(v) = f
    <2> SUFFICES ASSUME NEW f \in Files, file'[f] = "empty"
                 PROVE  \E v \in Writers : task'[v] \in {"write", "close"} /\ Target(v) = f
      OBVIOUS
    <2>1. CASE file'[f] = file[f]
      <3>1. PICK v \in Writers : task[v] \in {"write", "close"} /\ Target(v) = f
        BY <2>1 DEF TypeOK
      <3>2. CASE v = w
        BY <3>1, <3>2, <2>1, <1>1 DEF TypeOK, Writers
      <3>3. CASE v # w
        BY <3>1, <3>3, <1>3 DEF Outputs
      <3>4. QED
        BY <3>2, <3>3
    <2>2. CASE file'[f] # file[f]
      BY <2>2, <1>1, <1>2 DEF TypeOK, Writers
    <2>3. QED
      BY <2>1, <2>2
  <1>10. TypeOK'
    BY <1>3, <1>4, <1>5, <1>6, <1>7, <1>8, <1>9 DEF TypeOK
  <1>11. CallerKnown' /\ ReasonKnown'
    BY <1>1, <1>3, <1>5, <1>6, <1>7, OutputStep
  <1>12. FileKnown'
    <2>0. Apart' = Apart
      BY <1>4, <1>5 DEF Apart, Writers
    <2> SUFFICES ASSUME NEW v \in Writers
                 PROVE  /\ task'[v] \in {"open", "write", "close"} \/ result'[v] = "ok" => args.path[v] # Empty
                        /\ Apart /\ args.path[v] # Empty =>
                               /\ task'[v] \in {"idle", "begin", "open"} => file'[Target(v)] = "old"
                               /\ task'[v] \in {"write", "close"} => file'[Target(v)] = "empty"
                               /\ task'[v] = "done" => OwnFileTold(v)'
      BY <2>0, <1>4, <1>5 DEF FileKnown
    <2>1. CASE v # w
      <3>1. UNCHANGED <<task[v], result[v]>>
        BY <2>1, <1>3 DEF Outputs
      <3>2. Apart /\ args.path[v] # Empty => file'[Target(v)] = file[Target(v)]
        BY <2>1, <1>2, Targets DEF Apart, Writers, TypeOK
      <3>3. QED
        BY <3>1, <3>2, <1>4, <1>5 DEF FileKnown, OwnFileTold
    <2>2. CASE v = w
      <3>1. Apart /\ args.path[w] # Empty => Target(w) \in Files
        BY Targets
      <3>2. Apart /\ task[w] = "close" => file[Target(w)] = "empty"
        BY <1>2 DEF FileKnown
      <3>3. QED
        BY <2>2, <3>1, <3>2, <1>1, <1>2, <1>4, <1>5 DEF FileKnown, TypeOK, OwnFileTold
    <2>3. QED
      BY <2>1, <2>2
  <1>13. QED
    BY <1>10, <1>11, <1>12
-----------------------------------------------------------------------------
(* What follows.                                                           *)

\* Every step, of the caller or of an output, keeps the inductive invariant.
LEMMA StepIndInv == IndInv /\ [Next]_vars => IndInv'
  <1> SUFFICES ASSUME IndInv, [Next]_vars PROVE IndInv'
    OBVIOUS
  <1>1. CASE Caller
    BY <1>1, CallerStep
  <1>2. CASE PrintItems
    BY <1>2, PrintStep
  <1>3. ASSUME NEW w \in Writers, Prepare(w) \/ Open(w) \/ Write(w) \/ Close(w) PROVE IndInv'
    BY <1>3, WriterStep
  <1>4. CASE UNCHANGED vars
    BY <1>4 DEF vars, IndInv, TypeOK, CallerKnown, SequentialKnown, ReasonKnown, FileKnown, OwnFileTold, Over, Launches, Apart, Target
  <1>5. QED
    BY <1>1, <1>2, <1>3, <1>4 DEF Next, Task

\* The inductive invariant holds of both functions, whatever fails.
THEOREM IndInvAlways == Spec => []IndInv
  <1>1. QED
    BY InitIndInv, StepIndInv, PTL DEF Spec

\* The type invariant: a task is done exactly when it has a result, and a file
\* is empty only while somebody writes it.
THEOREM TypeCorrect == Spec => []TypeOK
  <1>1. IndInv => TypeOK
    BY DEF IndInv
  <1>2. QED
    BY <1>1, IndInvAlways, PTL

\* All is over when a call returns: the destructors of the futures.
LEMMA OverWhenReturned == Spec => [](Returned => \A k \in Outputs : task[k] \in {"idle", "done"})
  <1> DEFINE Quiet == Returned => \A k \in Outputs : task[k] \in {"idle", "done"}
  <1>1. Init => Quiet
    BY DEF Init, Returned
  <1>2. IndInv /\ Quiet /\ [Next]_vars => Quiet'
    <2> SUFFICES ASSUME IndInv, Quiet, [Next]_vars PROVE Quiet'
      OBVIOUS
    <2>1. CASE Caller
      BY <2>1 DEF Caller, Begin, Skip, Launch, Launched, Await, Awaited, Return, Leave, Go, Returned
    <2>2. CASE Task
      <3>1. phase' = phase
        BY <2>2 DEF Task, PrintItems, Prepare, Open, Write, Close, Finish, Becomes
      <3>2. \E k \in Outputs : task[k] \notin {"idle", "done"}
        BY <2>2 DEF Task, PrintItems, Prepare, Open, Write, Close, Outputs
      <3>3. QED
        BY <3>1, <3>2 DEF Returned
    <2>3. CASE UNCHANGED vars
      BY <2>3 DEF vars, Returned
    <2>4. QED
      BY <2>1, <2>2, <2>3 DEF Next
  <1>3. QED
    BY <1>1, <1>2, IndInvAlways, PTL DEF Spec

\* What the result says of the files, for any settings: where nothing is refused
\* at the close, "ok" means whole reports; an error is the first, in order; and a
\* report that failed is not taken for one that did not.
THEOREM ReportsTell == Spec => []ReportTells
  <1>1. IndInv /\ (Returned => \A k \in Outputs : task[k] \in {"idle", "done"}) => ReportTells
    <2> SUFFICES ASSUME IndInv, Returned, \A k \in Outputs : task[k] \in {"idle", "done"}
                 PROVE  ReportTells
      BY DEF ReportTells
    <2> USE Places DEF IndInv, Returned
    <2>1. ASSUME answer = "ok", ~lateErrors, NEW w \in args.write \ {"console"}
          PROVE  args.path[w] # Empty /\ (Apart => file[Target(w)] = w)
      <3>1. w \in Writers
        BY ReportsAssumption DEF TypeOK, Outputs
      <3>2. result[w] = "ok"
        <4>1. answer \notin {"invalid_argument", "thrown"} /\ ~(answer \notin {None, "ok"})
          BY <2>1
        <4>2. \A i \in 1 .. 3 : Launches(Order[i]) => result[Order[i]] = "ok"
          BY <4>1, <2>1 DEF ReasonKnown
        <4>3. PICK i \in 1 .. 3 : Order[i] = w
          BY <3>1 DEF Outputs
        <4>4. QED
          BY <4>2, <4>3 DEF Launches
      <3>3. task[w] = "done"
        BY <3>1, <3>2, ReportsAssumption DEF TypeOK, Outputs
      <3>4. QED
        BY <2>1, <3>1, <3>2, <3>3 DEF FileKnown, OwnFileTold
    <2>2. ASSUME answer # "ok"
          PROVE  \/ \E k \in Outputs : result[k] = answer /\ \A j \in Before(k) : result[j] \in {None, "ok"}
                 \/ mode = "sequential" /\ args.write = {}
                 \/ mode = "parallel" /\ \E w \in Writers : task[w] = "idle"
      <3>1. CASE \E i \in 1 .. 3 : result[Order[i]] = answer /\ \A j \in 1 .. 3 : j < i => Over(j)
        <4>1. PICK i \in 1 .. 3 : result[Order[i]] = answer /\ \A j \in 1 .. 3 : j < i => Over(j)
          BY <3>1
        <4>2. \A k \in Before(Order[i]) : result[k] \in {None, "ok"}
          <5> TAKE k \in Before(Order[i])
          <5>1. k \in Outputs
            BY DEF Before
          <5>2. PICK j \in 1 .. 3 : j < i /\ k = Order[j]
            BY <5>1, Earlier
          <5>3. QED
            BY <5>2, <4>1 DEF Over
        <4>3. QED
          BY <4>1, <4>2
      <3>2. CASE ~\E i \in 1 .. 3 : result[Order[i]] = answer /\ \A j \in 1 .. 3 : j < i => Over(j)
        BY <3>2, <2>2 DEF ReasonKnown, Writers
      <3>3. QED
        BY <3>1, <3>2
    <2>3. ASSUME NEW w \in Writers, Apart, args.path[w] # Empty PROVE OwnFileTold(w)
      <3>1. w \in Outputs
        BY DEF Outputs
      <3>2. CASE task[w] = "idle"
        BY <2>3, <3>1, <3>2, ReportsAssumption DEF TypeOK, FileKnown, OwnFileTold
      <3>3. CASE task[w] = "done"
        BY <2>3, <3>3 DEF FileKnown
      <3>4. QED
        BY <3>1, <3>2, <3>3
    <2>4. QED
      BY <2>1, <2>2, <2>3 DEF ReportTells, WholeIfOk
  <1>2. QED
    BY <1>1, IndInvAlways, OverWhenReturned, PTL

\* What a failure leaves behind: nothing runs on after the call, and one after
\* the other nothing behind the failure was touched (WriteReports).
THEOREM FailuresConfined == Spec => []FailureConfined
  <1>1. IndInv /\ (Returned => \A k \in Outputs : task[k] \in {"idle", "done"}) => FailureConfined
    <2> SUFFICES ASSUME IndInv, Returned, \A k \in Outputs : task[k] \in {"idle", "done"}
                 PROVE  FailureConfined
      BY DEF FailureConfined
    <2> USE Places DEF IndInv, Returned
    <2>1. ASSUME mode = "sequential", NEW k \in Outputs, NEW w \in Writers,
                 k \in Before(w), result[k] \notin {None, "ok"}, Apart, args.path[w] # Empty
          PROVE  file[Target(w)] = "old"
      <3>1. PICK m \in 1 .. 3 : Order[m] = k
        OBVIOUS
      <3>2. PICK n \in 1 .. 3 : Order[n] = w
        BY DEF Outputs
      <3>3. m < n
        BY <2>1, <3>1, <3>2, Earlier
      <3>4. ~Over(m) /\ task[Order[m]] # "idle"
        BY <2>1, <3>1 DEF Over, TypeOK
      <3>5. PICK i \in 1 .. 3 : /\ \A j \in 1 .. 3 : j < i => Over(j)
                                /\ \A j \in 1 .. 3 : j > i => task[Order[j]] = "idle"
        BY <2>1, <3>1, <3>4 DEF ReasonKnown
      <3>6. task[w] = "idle"
        BY <3>2, <3>3, <3>4, <3>5
      <3>7. QED
        BY <2>1, <3>6 DEF FileKnown
    <2>2. QED
      BY <2>1 DEF FailureConfined, Outputs
  <1>2. QED
    BY <1>1, IndInvAlways, OverWhenReturned, PTL
=============================================================================
