---------------------------- MODULE RouterProofs ----------------------------
(***************************************************************************)
(* The router for any sessions and requests, any contents and any capacity *)
(* of the executor's queue: its tables agree, a status tells what became   *)
(* of the write, an answer is no older than its request, and nothing is    *)
(* left behind.                                                            *)
(***************************************************************************)
EXTENDS Router, SequenceTheorems, TLAPS

-----------------------------------------------------------------------------
(* The two tables.                                                         *)

\* The use case a verb on a target leads to.
LEMMA Handlers ==
    ASSUME NEW r
    PROVE  /\ HandlerOf(r) = "Create" => r.verb = "post" /\ r.target.path \in Kinds
           /\ HandlerOf(r) = "Update" => r.verb = "put" /\ IsItem(r.target)
           /\ HandlerOf(r) = "Delete" => r.verb = "delete" /\ IsItem(r.target)
           /\ HandlerOf(r) = "Get" => r.verb = "get" /\ IsItem(r.target)
           /\ HandlerOf(r) \in {"List", "Cookable"} => r.verb = "get"
           /\ HandlerOf(r) \in {"Create", "Update", "Delete", "Get", "List", "Cookable", "Handle"}
  BY DEF HandlerOf, IsCollection

\* HandleAsync serves no more than Handle allows ...
LEMMA ServedAllowed ==
    ASSUME NEW r, r.target.id \in Int, HandlerOf(r) # "Handle"
    PROVE  r.verb \in Allowed(r.target)
  BY DEF HandlerOf, Allowed, IsCollection, IsItem, Kinds

\* ... and no less.
LEMMA AllowedServed ==
    ASSUME NEW r, r.target.id \in Int, HandlerOf(r) = "Handle", r.verb \in Allowed(r.target)
    PROVE  r.target.path = "healthz" /\ r.verb = "get"
  BY DEF HandlerOf, Allowed, IsCollection, IsItem, Kinds

\* What Handle itself answers.
LEMMA HandleAnswers ==
    ASSUME NEW r, r.target.id \in Int, HandlerOf(r) = "Handle"
    PROVE  /\ HandleStatus(r) \in {200, 404, 405}
           /\ HandleStatus(r) = 200 => r.verb = "get"
           /\ HandleStatus(r) = 405 <=> (Allowed(r.target) # {} /\ r.verb \notin Allowed(r.target))
           /\ HandleStatus(r) = 404 <=> Allowed(r.target) = {}
  <1>1. r.target.path = "healthz" => Allowed(r.target) = {"get"}
    BY DEF Allowed, IsCollection, IsItem, Kinds
  <1>2. QED
    BY <1>1, AllowedServed DEF HandleStatus

\* What is answered without the database.
LEMMA EarlyAnswers ==
    ASSUME NEW r, r.target.id \in Int, EarlyStatus(r) # 0
    PROVE  /\ EarlyStatus(r) \in {200, 400, 404, 405, 415, 422, 503}
           /\ EarlyStatus(r) = 200 => r.verb = "get"
           /\ EarlyStatus(r) \in {200, 404} => HandlerOf(r) = "Handle"
           /\ database =>
                  /\ EarlyStatus(r) = 405 <=> (Allowed(r.target) # {} /\ r.verb \notin Allowed(r.target))
                  /\ EarlyStatus(r) = 404 <=> Allowed(r.target) = {}
  <1>1. BodyStatus(r) \in {0, 400, 415, 422}
    BY DEF BodyStatus
  <1>2. database => ~Unavailable(r)
    BY DEF Unavailable
  <1>3. HandlerOf(r) # "Handle" => EarlyStatus(r) \in {400, 415, 422, 503} /\ r.verb \in Allowed(r.target)
    BY <1>1, ServedAllowed DEF EarlyStatus
  <1>4. HandlerOf(r) = "Handle" => EarlyStatus(r) = IF Unavailable(r) THEN 503 ELSE HandleStatus(r)
    BY DEF EarlyStatus
  <1>5. CASE HandlerOf(r) # "Handle"
    BY <1>3, <1>5
  <1>6. CASE HandlerOf(r) = "Handle"
    BY <1>2, <1>4, <1>6, HandleAnswers
  <1>7. QED
    BY <1>5, <1>6

\* What is not answered at once goes to the database.
LEMMA LateHandled ==
    ASSUME NEW r, r.target.id \in Int, EarlyStatus(r) = 0
    PROVE  HandlerOf(r) # "Handle"
  BY HandleAnswers DEF EarlyStatus
-----------------------------------------------------------------------------
(* The executor.                                                           *)

\* Nothing is there in the beginning.
LEMMA InitIndInv == Init => IndInv
  <1> SUFFICES ASSUME Init PROVE IndInv
    OBVIOUS
  <1> USE RouterAssumption DEF Init, Executor!Init
  <1>1. ExecutorKnown
    BY DEF ExecutorKnown, Queued, Jobs
  <1>2. StoreKnown
    BY DEF StoreKnown, Kinds
  <1>3. \A s \in Sessions : SessionKnown(s) /\ EffectKnown(s) /\ WindowKnown(s) /\ ReplyKnown(s)
    BY DEF SessionKnown, EffectKnown, WindowKnown, ReplyKnown, Jobs
  <1>4. QED
    BY <1>1, <1>2, <1>3 DEF IndInv

\* AsyncSubmit queues one job, or answers it with an error.
LEMMA Submission ==
    ASSUME ExecutorKnown, NEW j \in Jobs, AsyncSubmit(j)
    PROVE  /\ ExecutorKnown'
           /\ j \notin submitted /\ submitted' = submitted \cup {j}
           /\ outcome'[j] \in {None, "Overloaded", "Storage"}
           /\ outcome' = [outcome EXCEPT ![j] = outcome'[j]]
  <1> USE RouterAssumption DEF Jobs
  <1>1. j \notin submitted /\ ~Queued(j) /\ outcome[j] = None
    BY DEF ExecutorKnown, AsyncSubmit, Executor!Accept, Executor!RefuseFull, Executor!RefuseClosed, Executor!Refuse
  <1>2. CASE Executor!Accept(j)
    <2> USE <1>2 DEF Executor!Accept
    <2>1. /\ pending' \in Seq(Jobs)
          /\ DOMAIN pending = 1 .. Len(pending) /\ Len(pending) \in Nat
          /\ DOMAIN pending' = 1 .. (Len(pending) + 1)
          /\ \A i \in 1 .. Len(pending) : pending'[i] = pending[i]
          /\ pending'[Len(pending) + 1] = j
      BY AppendProperties DEF ExecutorKnown
    <2>2. UNCHANGED <<running, outcome>> /\ submitted' = submitted \cup {j}
      OBVIOUS
    <2>3. \A k \in Jobs : Queued(k)' <=> Queued(k) \/ k = j
      BY <2>1, <2>2 DEF Queued
    <2>4. \A i, k \in DOMAIN pending' : pending'[i] = pending'[k] => i = k
      BY <1>1, <2>1 DEF Queued, ExecutorKnown
    <2>5. \A i \in DOMAIN pending' : pending'[i] # running'
      BY <1>1, <2>1, <2>2 DEF Queued, ExecutorKnown
    <2>6. \A k \in Jobs : Queued(k)' => k \in submitted' /\ outcome'[k] = None
      BY <1>1, <2>2, <2>3 DEF ExecutorKnown
    <2>7. ExecutorKnown'
      BY <2>1, <2>2, <2>4, <2>5, <2>6 DEF ExecutorKnown
    <2>8. QED
      BY <1>1, <2>2, <2>7 DEF ExecutorKnown
  <1>3. CASE Executor!RefuseFull(j) \/ Executor!RefuseClosed(j)
    <2>1. PICK result \in {"Overloaded", "Storage"} :
            /\ UNCHANGED <<pending, running>> /\ submitted' = submitted \cup {j}
            /\ outcome' = [outcome EXCEPT ![j] = result]
      BY <1>3 DEF Executor!RefuseFull, Executor!RefuseClosed, Executor!Refuse
    <2>2. outcome' \in [Jobs -> {None, "Value", "Storage", "Overloaded"}] /\ outcome'[j] = result
      BY <2>1 DEF ExecutorKnown
    <2>3. \A k \in Jobs \ {j} : outcome'[k] = outcome[k]
      BY <2>1 DEF ExecutorKnown
    <2>4. ExecutorKnown'
      BY <1>1, <2>1, <2>2, <2>3 DEF ExecutorKnown, Queued
    <2>5. QED
      BY <1>1, <2>1, <2>2, <2>4
  <1>4. QED
    BY <1>2, <1>3 DEF AsyncSubmit
-----------------------------------------------------------------------------
(* Sessions.                                                               *)

\* What is known of a session stays true while neither it nor one of its jobs
\* makes a step, whatever is written meanwhile.
LEMMA Untouched ==
    ASSUME NEW t \in Sessions, SessionKnown(t), EffectKnown(t), ReplyKnown(t), UNCHANGED database,
           request'[t] = request[t], step'[t] = step[t], reply'[t] = reply[t], wrote'[t] = wrote[t],
           \A j \in {<<t, 1>>, <<t, 2>>} : /\ outcome'[j] = outcome[j] /\ answer'[j] = answer[j]
                                           /\ j \in submitted' <=> j \in submitted,
           window[t] \subseteq window'[t]
    PROVE  SessionKnown(t)' /\ EffectKnown(t)' /\ ReplyKnown(t)'
  <1>1. SessionKnown(t)'
    BY DEF SessionKnown
  <1>2. EffectKnown(t)'
    BY DEF EffectKnown
  <1>3. ReplyKnown(t)'
    BY DEF ReplyKnown
  <1>4. QED
    BY <1>1, <1>2, <1>3

\* The window stays true while nothing is written.
LEMMA WindowSame ==
    ASSUME NEW t \in Sessions, WindowKnown(t), UNCHANGED book,
           request'[t] = request[t], window'[t] = window[t]
    PROVE  WindowKnown(t)'
  BY DEF WindowKnown, Current, Stored

\* HandleAsync up to the first suspension.
LEMMA HandleStep ==
    ASSUME IndInv, NEW s \in Sessions, NEW r \in Requests[s], HandleAsync(s, r)
    PROVE  IndInv'
  <1> USE DEF executorVars
  <1>0. /\ ExecutorKnown /\ StoreKnown
        /\ \A t \in Sessions : SessionKnown(t) /\ EffectKnown(t) /\ WindowKnown(t) /\ ReplyKnown(t)
    BY DEF IndInv
  <1>1. /\ request[s] = None /\ r # None /\ r.target.id \in Int /\ request' = [request EXCEPT ![s] = r]
        /\ window' = [window EXCEPT ![s] = {Current(r)}]
        /\ UNCHANGED <<database, answer, book, next, wrote>>
    BY RouterAssumption DEF HandleAsync
  <1>2. /\ step[s] = 0 /\ reply[s] = None /\ <<s, 1>> \notin submitted /\ <<s, 2>> \notin submitted
        /\ outcome[<<s, 1>>] = None /\ outcome[<<s, 2>>] = None /\ wrote[s] = 0
    BY <1>0, <1>1 DEF SessionKnown, EffectKnown, ExecutorKnown, Jobs
  <1>3. Current(r) \in Values \cup {None}
    BY <1>0 DEF Current, Stored, StoreKnown, IsItem
  <1>4. \A t \in Sessions \ {s} : request'[t] = request[t] /\ window'[t] = window[t]
    BY <1>0, <1>1 DEF StoreKnown
  <1>5. request'[s] = r /\ window'[s] = {Current(r)}
    BY <1>0, <1>1 DEF StoreKnown
  <1>6. \A t \in Sessions : WindowKnown(t)'
    <2>1. WindowKnown(s)'
      BY <1>1, <1>5 DEF WindowKnown, Current, Stored
    <2>2. \A t \in Sessions \ {s} : WindowKnown(t)'
      BY <1>0, <1>1, <1>4, WindowSame
    <2>3. QED
      BY <2>1, <2>2
  <1>7. CASE EarlyStatus(r) # 0 /\ reply' = [reply EXCEPT ![s] = Response(EarlyStatus(r), None)]
             /\ UNCHANGED <<step, executorVars>>
    <2>1. reply'[s] = Response(EarlyStatus(r), None) /\ \A t \in Sessions \ {s} : reply'[t] = reply[t]
      BY <1>0, <1>7 DEF StoreKnown
    <2>2. EarlyStatus(r) \in Nat /\ reply'[s] # None
      BY RouterAssumption, <1>1, <1>7, <2>1, EarlyAnswers DEF Response
    <2>3. ReplyKnown(s)'
      <3>1. reply'[s].status = EarlyStatus(r) /\ reply'[s].value = None
        BY <2>1 DEF Response
      <3>2. /\ EarlyStatus(r) \in {200, 400, 404, 405, 415, 422, 503}
            /\ EarlyStatus(r) = 200 => r.verb = "get"
            /\ EarlyStatus(r) \in {200, 404} => HandlerOf(r) = "Handle"
            /\ database =>
                   /\ EarlyStatus(r) = 405 <=> (Allowed(r.target) # {} /\ r.verb \notin Allowed(r.target))
                   /\ EarlyStatus(r) = 404 <=> Allowed(r.target) = {}
        <4>1. r.target.id \in Int /\ EarlyStatus(r) # 0
          BY <1>1, <1>7
        <4>2. QED
          BY <4>1, EarlyAnswers
      <3>3. request'[s] = r /\ database' = database /\ wrote'[s] = 0 /\ submitted' = submitted
        BY <1>1, <1>2, <1>5, <1>7
      <3>4. QED
        BY <1>2, <3>1, <3>2, <3>3 DEF ReplyKnown
    <2>4. SessionKnown(s)' /\ EffectKnown(s)'
      BY RouterAssumption, <1>1, <1>2, <1>5, <1>7, <2>2 DEF SessionKnown, EffectKnown
    <2>5. \A t \in Sessions \ {s} : SessionKnown(t)' /\ EffectKnown(t)' /\ ReplyKnown(t)'
      BY <1>0, <1>1, <1>4, <1>7, <2>1, Untouched
    <2>6. ExecutorKnown'
      BY <1>0, <1>7 DEF ExecutorKnown, Queued
    <2>7. StoreKnown'
      BY <1>0, <1>1, <1>3, <1>7 DEF StoreKnown
    <2>8. QED
      BY <1>6, <2>3, <2>4, <2>5, <2>6, <2>7 DEF IndInv
  <1>8. CASE EarlyStatus(r) = 0 /\ AsyncSubmit(<<s, 1>>) /\ step' = [step EXCEPT ![s] = 1] /\ UNCHANGED reply
    <2>1. <<s, 1>> \in Jobs
      BY DEF Jobs
    <2>2. /\ ExecutorKnown' /\ submitted' = submitted \cup {<<s, 1>>}
          /\ outcome'[<<s, 1>>] \in {None, "Overloaded", "Storage"}
          /\ outcome' = [outcome EXCEPT ![<<s, 1>>] = outcome'[<<s, 1>>]]
      BY <1>0, <1>8, <2>1, Submission
    <2>3. \A j \in Jobs \ {<<s, 1>>} : outcome'[j] = outcome[j]
      BY <1>0, <2>2 DEF ExecutorKnown
    <2>4. HandlerOf(r) # "Handle"
      BY <1>1, <1>8, LateHandled
    <2>5. step'[s] = 1 /\ \A t \in Sessions \ {s} : step'[t] = step[t]
      BY <1>0, <1>8 DEF StoreKnown
    <2>6. SessionKnown(s)' /\ ReplyKnown(s)'
      BY <1>1, <1>2, <1>5, <1>8, <2>2, <2>4, <2>5 DEF SessionKnown, ReplyKnown
    <2>7. EffectKnown(s)'
      BY RouterAssumption, <1>1, <1>2, <1>5, <2>2, <2>3 DEF EffectKnown, Jobs
    <2>8. \A t \in Sessions \ {s} : SessionKnown(t)' /\ EffectKnown(t)' /\ ReplyKnown(t)'
      <3> SUFFICES ASSUME NEW t \in Sessions \ {s} PROVE SessionKnown(t)' /\ EffectKnown(t)' /\ ReplyKnown(t)'
        OBVIOUS
      <3>1. \A j \in {<<t, 1>>, <<t, 2>>} : j \in Jobs \ {<<s, 1>>}
        BY DEF Jobs
      <3>2. \A j \in {<<t, 1>>, <<t, 2>>} : /\ outcome'[j] = outcome[j] /\ answer'[j] = answer[j]
                                            /\ j \in submitted' <=> j \in submitted
        BY <1>1, <2>2, <2>3, <3>1
      <3>3. QED
        BY <1>0, <1>1, <1>4, <1>8, <2>5, <3>2, Untouched
    <2>9. StoreKnown'
      BY <1>0, <1>1, <1>3, <1>8 DEF StoreKnown
    <2>10. QED
      BY <1>6, <2>2, <2>6, <2>7, <2>8, <2>9 DEF IndInv
  <1>9. QED
    BY <1>7, <1>8 DEF HandleAsync
-----------------------------------------------------------------------------
(* What is known when an awaited job has been answered, and the response.  *)

\* A session that awaits a job handles a request, has not answered it, and has
\* no other job under way.
LEMMA Awaiting ==
    ASSUME IndInv, NEW s \in Sessions, Completed(s)
    PROVE  /\ step[s] \in {1, 2} /\ request[s] \in Requests[s] /\ request[s] # None /\ reply[s] = None
           /\ <<s, 1>> \in submitted /\ HandlerOf(request[s]) # "Handle"
           /\ \A n \in {1, 2} : <<s, n>> \in submitted => outcome[<<s, n>>] # None
           /\ outcome[Awaited(s)] \in {"Value", "Storage", "Overloaded"}
           /\ step[s] = 2 => HandlerOf(request[s]) = "Update" /\ outcome[<<s, 1>>] = "Value" /\ wrote[s] = 1
           /\ wrote[s] \in {0, 1}
           /\ SessionKnown(s) /\ EffectKnown(s)
  <1>1. ExecutorKnown /\ StoreKnown /\ SessionKnown(s) /\ EffectKnown(s)
    BY DEF IndInv
  <1>2. step[s] \in {1, 2} /\ Awaited(s) \in {<<s, 1>>, <<s, 2>>} /\ Awaited(s) \in Jobs /\ outcome[Awaited(s)] # None
    BY <1>1 DEF Completed, Awaited, StoreKnown, Jobs
  <1>3. request[s] # None /\ reply[s] = None /\ <<s, 1>> \in submitted /\ HandlerOf(request[s]) # "Handle"
    BY <1>1, <1>2 DEF SessionKnown
  <1>4. step[s] = 2 => HandlerOf(request[s]) = "Update" /\ outcome[<<s, 1>>] = "Value" /\ answer[<<s, 1>>].error = None
    BY <1>1, <1>2 DEF SessionKnown
  <1>5. step[s] = 2 => wrote[s] = 1
    BY <1>1, <1>4 DEF EffectKnown
  <1>6. \A n \in {1, 2} : <<s, n>> \in submitted => outcome[<<s, n>>] # None
    BY RouterAssumption, <1>1, <1>2, <1>4 DEF SessionKnown, Awaited
  <1>7. outcome[Awaited(s)] \in {"Value", "Storage", "Overloaded"}
    BY <1>1, <1>2 DEF ExecutorKnown
  <1>8. QED
    BY <1>1, <1>2, <1>3, <1>4, <1>5, <1>6, <1>7 DEF StoreKnown

\* Once its response is known to be truthful, the session has come to its end.
LEMMA Responding ==
    ASSUME IndInv, NEW s \in Sessions, Completed(s), NEW status, NEW value, Respond(s, Response(status, value)),
           status \in {200, 201, 204, 404, 422, 500, 503}, value \in Values \cup {None},
           status = 404 => IsItem(request[s].target),
           (request[s].verb \in {"post", "put", "delete"} /\ status \in 200 .. 299) => wrote[s] = 1,
           status = 422 => wrote[s] = 0,
           (request[s].verb # "put" /\ status \in {404, 503}) => wrote[s] = 0,
           HandlerOf(request[s]) \in {"Get", "Update"} =>
               /\ status = 200 => value \in window[s]
               /\ status = 404 => None \in window[s]
    PROVE  IndInv'
  <1>1. /\ ExecutorKnown /\ StoreKnown
        /\ \A t \in Sessions : SessionKnown(t) /\ EffectKnown(t) /\ WindowKnown(t) /\ ReplyKnown(t)
    BY DEF IndInv
  <1>2. /\ reply' = [reply EXCEPT ![s] = Response(status, value)] /\ step' = [step EXCEPT ![s] = 0]
        /\ UNCHANGED <<database, request, answer, book, next, wrote, window, pending, running, outcome, submitted, closed>>
    BY DEF Respond, storeVars, executorVars
  <1>3. /\ reply'[s] = Response(status, value) /\ step'[s] = 0
        /\ \A t \in Sessions \ {s} : reply'[t] = reply[t] /\ step'[t] = step[t]
    BY <1>1, <1>2 DEF StoreKnown
  <1>4. reply'[s].status = status /\ reply'[s].value = value /\ reply'[s] # None
    BY RouterAssumption, <1>3 DEF Response
  <1>5. /\ request[s] # None /\ <<s, 1>> \in submitted
        /\ \A n \in {1, 2} : <<s, n>> \in submitted => outcome[<<s, n>>] # None
    BY Awaiting
  <1>6. ExecutorKnown'
    BY <1>1, <1>2 DEF ExecutorKnown, Queued
  <1>7. StoreKnown'
    BY <1>1, <1>2 DEF StoreKnown
  <1>8. \A t \in Sessions : WindowKnown(t)'
    BY <1>1, <1>2, WindowSame
  <1>9. SessionKnown(s)'
    BY <1>1, <1>2, <1>3, <1>4, <1>5 DEF SessionKnown
  <1>10. EffectKnown(s)'
    BY <1>1, <1>2 DEF EffectKnown
  <1>11. ReplyKnown(s)'
    BY <1>2, <1>4, <1>5 DEF ReplyKnown
  <1>12. \A t \in Sessions \ {s} : SessionKnown(t)' /\ EffectKnown(t)' /\ ReplyKnown(t)'
    BY <1>1, <1>2, <1>3, Untouched
  <1>13. QED
    BY <1>6, <1>7, <1>8, <1>9, <1>10, <1>11, <1>12 DEF IndInv

\* MakeAppErrorResponse.
LEMMA ErrorStep ==
    ASSUME IndInv, NEW s \in Sessions, RespondWithError(s)
    PROVE  IndInv'
  <1>1. Completed(s) /\ Error(s) # None /\ Respond(s, Response(StatusOf(Error(s)), None))
    BY DEF RespondWithError
  <1>2. /\ step[s] \in {1, 2} /\ HandlerOf(request[s]) # "Handle"
        /\ outcome[Awaited(s)] \in {"Value", "Storage", "Overloaded"}
        /\ step[s] = 2 => HandlerOf(request[s]) = "Update"
        /\ SessionKnown(s) /\ EffectKnown(s)
    BY <1>1, Awaiting
  <1>3. step[s] = 2 => outcome[Awaited(s)] # "Value" /\ request[s].verb = "put"
    BY <1>1, <1>2, Handlers DEF EffectKnown, Error, Awaited
  <1>4. step[s] = 1 /\ outcome[Awaited(s)] = "Value" => Error(s) = answer[<<s, 1>>].error /\ outcome[<<s, 1>>] = "Value"
    BY DEF Error, Awaited
  <1>5. Error(s) \in {"Validation", "NotFound", "Storage", "Overloaded"}
    BY <1>1, <1>2, <1>3, <1>4 DEF EffectKnown, Error
  <1>6. Error(s) = "Validation" => StatusOf(Error(s)) = 422 /\ wrote[s] = 0
    BY <1>1, <1>2, <1>3, <1>4 DEF EffectKnown, StatusOf, Error
  <1>7. Error(s) = "NotFound" =>
          /\ StatusOf(Error(s)) = 404 /\ wrote[s] = 0 /\ IsItem(request[s].target) /\ None \in window[s]
    BY <1>1, <1>2, <1>3, <1>4, Handlers DEF EffectKnown, StatusOf, Error
  <1>8. Error(s) = "Storage" => StatusOf(Error(s)) = 500
    BY DEF StatusOf
  <1>9. Error(s) = "Overloaded" => StatusOf(Error(s)) = 503 /\ (request[s].verb # "put" => wrote[s] = 0)
    <2>1. Error(s) = "Overloaded" => StatusOf(Error(s)) = 503
      BY DEF StatusOf
    <2>2. Error(s) = "Overloaded" /\ request[s].verb # "put" => outcome[<<s, 1>>] = "Overloaded"
      <3>1. Error(s) = "Overloaded" /\ request[s].verb # "put" => Awaited(s) = <<s, 1>>
        BY <1>2, <1>3 DEF Awaited
      <3>2. Awaited(s) = <<s, 1>> /\ outcome[<<s, 1>>] = "Value" /\ step[s] = 1 => Error(s) # "Overloaded"
        BY RouterAssumption, <1>2, <1>4 DEF EffectKnown
      <3>3. Awaited(s) = <<s, 1>> /\ outcome[<<s, 1>>] # "Value" => Error(s) = outcome[<<s, 1>>]
        BY DEF Error
      <3>4. QED
        BY <1>2, <1>3, <3>1, <3>2, <3>3
    <2>3. QED
      BY <1>2, <2>1, <2>2 DEF EffectKnown
  <1>10. StatusOf(Error(s)) \in {422, 404, 500, 503}
    BY <1>5, <1>6, <1>7, <1>8, <1>9
  <1>11. QED
    BY <1>1, <1>5, <1>6, <1>7, <1>8, <1>9, <1>10, Responding

\* The answer of the service as a response.
LEMMA ValueStep ==
    ASSUME IndInv, NEW s \in Sessions, RespondWithValue(s)
    PROVE  IndInv'
  <1> DEFINE r == request[s]
             value == answer[Awaited(s)].value
             get == HandlerOf(r) \in {"Get", "Update"}
  <1>1. Completed(s) /\ Error(s) = None /\ (HandlerOf(r) = "Update" => step[s] = 2)
    BY DEF RespondWithValue
  <1>2. /\ step[s] \in {1, 2} /\ HandlerOf(r) # "Handle"
        /\ outcome[Awaited(s)] \in {"Value", "Storage", "Overloaded"}
        /\ step[s] = 2 => HandlerOf(r) = "Update" /\ wrote[s] = 1
        /\ EffectKnown(s)
    BY <1>1, Awaiting
  <1>3. outcome[Awaited(s)] = "Value" /\ answer[Awaited(s)].error = None
    BY RouterAssumption, <1>1, <1>2 DEF Error
  <1>4. CASE step[s] = 2
    <2>1. HandlerOf(r) = "Update" /\ wrote[s] = 1 /\ r.verb = "put" /\ IsItem(r.target) /\ value \in window[s]
      BY <1>2, <1>3, <1>4, Handlers DEF EffectKnown, Awaited
    <2>2. value \in Values \cup {None}
      BY <2>1 DEF IndInv, StoreKnown
    <2>3. SuccessStatus(r) = 200
      BY <2>1 DEF SuccessStatus
    <2>4. PICK status \in {200, 404, 500} :
            /\ status = 404 => value = None
            /\ Respond(s, Response(status, value)) \/ (status # 200 /\ Respond(s, Response(status, None)))
      BY <2>3 DEF RespondWithValue
    <2>5. QED
      BY <1>1, <2>1, <2>2, <2>4, Responding
  <1>5. CASE step[s] = 1
    <2>1. Awaited(s) = <<s, 1>> /\ HandlerOf(r) # "Update"
      BY <1>1, <1>5 DEF Awaited
    <2>2. /\ value \in Values \cup {None}
          /\ HandlerOf(r) \in {"Create", "Delete"} => wrote[s] = 1
          /\ HandlerOf(r) \notin {"Create", "Delete"} => wrote[s] = 0
          /\ HandlerOf(r) = "Get" => value \in window[s]
      BY <1>2, <1>3, <2>1 DEF EffectKnown
    <2>3. /\ HandlerOf(r) \in {"Create", "Delete", "Get", "List", "Cookable"}
          /\ HandlerOf(r) = "Get" => r.verb = "get" /\ IsItem(r.target)
          /\ HandlerOf(r) \in {"List", "Cookable"} => r.verb = "get"
      BY <1>2, <2>1, Handlers
    <2>4. SuccessStatus(r) \in {200, 201, 204}
      BY DEF SuccessStatus
    <2>5. CASE HandlerOf(r) = "Get"
      <3>1. SuccessStatus(r) = 200
        BY <2>3, <2>5 DEF SuccessStatus
      <3>2. PICK status \in {200, 404, 500} :
              /\ status = 404 => value = None
              /\ Respond(s, Response(status, value)) \/ (status # 200 /\ Respond(s, Response(status, None)))
        BY <3>1 DEF RespondWithValue
      <3>3. QED
        BY <1>1, <2>2, <2>3, <2>5, <3>2, Responding
    <2>6. CASE HandlerOf(r) # "Get"
      <3>1. PICK status \in {SuccessStatus(r), 500} :
              Respond(s, Response(status, value)) \/ (status = 500 /\ Respond(s, Response(status, None)))
        BY <2>1, <2>6 DEF RespondWithValue
      <3>2. (r.verb \in {"post", "put", "delete"} => wrote[s] = 1) /\ HandlerOf(r) \notin {"Get", "Update"}
        BY <2>2, <2>3, <2>6
      <3>3. QED
        BY <1>1, <2>2, <2>4, <3>1, <3>2, Responding
    <2>7. QED
      BY <2>5, <2>6
  <1>6. QED
    BY <1>2, <1>4, <1>5

\* The second job of an update.
LEMMA ReadBackStep ==
    ASSUME IndInv, NEW s \in Sessions, ReadBack(s)
    PROVE  IndInv'
  <1>1. /\ ExecutorKnown /\ StoreKnown
        /\ \A t \in Sessions : SessionKnown(t) /\ EffectKnown(t) /\ WindowKnown(t) /\ ReplyKnown(t)
    BY DEF IndInv
  <1>2. /\ Completed(s) /\ Error(s) = None /\ HandlerOf(request[s]) = "Update" /\ step[s] = 1
        /\ step' = [step EXCEPT ![s] = 2] /\ AsyncSubmit(<<s, 2>>)
        /\ UNCHANGED <<database, request, reply, answer, book, next, wrote, window>>
    BY DEF ReadBack, storeVars
  <1>3. /\ <<s, 1>> \in Jobs /\ <<s, 2>> \in Jobs /\ <<s, 1>> # <<s, 2>>
        /\ \A t \in Sessions \ {s} : \A j \in {<<t, 1>>, <<t, 2>>} : j \in Jobs \ {<<s, 2>>}
    BY DEF Jobs
  <1>4. /\ ExecutorKnown' /\ submitted' = submitted \cup {<<s, 2>>}
        /\ outcome'[<<s, 2>>] \in {None, "Overloaded", "Storage"}
        /\ outcome' = [outcome EXCEPT ![<<s, 2>>] = outcome'[<<s, 2>>]]
    BY <1>1, <1>2, <1>3, Submission
  <1>5. \A j \in Jobs \ {<<s, 2>>} : outcome'[j] = outcome[j]
    BY <1>1, <1>4 DEF ExecutorKnown
  <1>6. step'[s] = 2 /\ \A t \in Sessions \ {s} : step'[t] = step[t]
    BY <1>1, <1>2 DEF StoreKnown
  <1>7. /\ <<s, 1>> \in submitted /\ reply[s] = None /\ request[s] # None
        /\ outcome[Awaited(s)] \in {"Value", "Storage", "Overloaded"}
    BY <1>2, Awaiting
  <1>8. outcome[<<s, 1>>] = "Value" /\ answer[<<s, 1>>].error = None
    BY RouterAssumption, <1>2, <1>7 DEF Error, Awaited
  <1>9. SessionKnown(s)' /\ ReplyKnown(s)'
    BY <1>2, <1>3, <1>4, <1>5, <1>6, <1>7, <1>8 DEF SessionKnown, ReplyKnown
  <1>10. EffectKnown(s)'
    BY RouterAssumption, <1>1, <1>2, <1>3, <1>4, <1>5, <1>8 DEF EffectKnown
  <1>11. \A t \in Sessions \ {s} : SessionKnown(t)' /\ EffectKnown(t)' /\ ReplyKnown(t)'
    <2> SUFFICES ASSUME NEW t \in Sessions \ {s} PROVE SessionKnown(t)' /\ EffectKnown(t)' /\ ReplyKnown(t)'
      OBVIOUS
    <2>1. \A j \in {<<t, 1>>, <<t, 2>>} : /\ outcome'[j] = outcome[j] /\ answer'[j] = answer[j]
                                          /\ j \in submitted' <=> j \in submitted
      BY <1>2, <1>3, <1>4, <1>5
    <2>2. QED
      BY <1>1, <1>2, <1>6, <2>1, Untouched
  <1>12. \A t \in Sessions : WindowKnown(t)'
    BY <1>1, <1>2, WindowSame
  <1>13. StoreKnown'
    BY <1>1, <1>2 DEF StoreKnown
  <1>14. QED
    BY <1>4, <1>9, <1>10, <1>11, <1>12, <1>13 DEF IndInv
-----------------------------------------------------------------------------
(* The database worker.                                                    *)

\* A step of the executor that answers nothing leaves all else as it was.
LEMMA ExecutorOnly ==
    ASSUME IndInv, ExecutorKnown',
           UNCHANGED <<database, request, step, reply, answer, storeVars, outcome, submitted>>
    PROVE  IndInv'
  <1> USE DEF storeVars
  <1>1. StoreKnown'
    BY DEF IndInv, StoreKnown
  <1>2. \A t \in Sessions : WindowKnown(t)'
    BY WindowSame DEF IndInv
  <1>3. \A t \in Sessions : SessionKnown(t)' /\ EffectKnown(t)' /\ ReplyKnown(t)'
    BY Untouched DEF IndInv
  <1>4. QED
    BY <1>1, <1>2, <1>3 DEF IndInv

\* The worker takes a job from the queue; the executor closes.
LEMMA StartStep ==
    ASSUME IndInv, Start \/ Close
    PROVE  IndInv'
  <1>1. ExecutorKnown
    BY DEF IndInv
  <1>2. UNCHANGED <<database, request, step, reply, answer, storeVars, outcome, submitted>>
    BY DEF Start, Close, Executor!Start, Executor!Close
  <1>3. CASE Start
    <2> USE <1>3 DEF Start, Executor!Start
    <2>1. /\ Len(pending) \in Nat \ {0} /\ DOMAIN pending = 1 .. Len(pending)
          /\ pending' \in Seq(Jobs) /\ DOMAIN pending' = 1 .. (Len(pending) - 1)
          /\ \A i \in 1 .. (Len(pending) - 1) : pending'[i] = pending[i + 1]
          /\ running' = pending[1] /\ running' \in Jobs
      BY <1>1, HeadTailProperties, EmptySeq, LenProperties DEF ExecutorKnown
    <2>2. \A j \in Jobs : Queued(j)' => Queued(j)
      BY <2>1 DEF Queued
    <2>3. \A i, k \in DOMAIN pending' : pending'[i] = pending'[k] => i = k
      BY <1>1, <2>1 DEF ExecutorKnown
    <2>4. \A i \in DOMAIN pending' : pending'[i] # running'
      BY <1>1, <2>1 DEF ExecutorKnown
    <2>5. \A j \in Jobs : Queued(j)' => j \in submitted' /\ outcome'[j] = None
      BY <1>1, <1>2, <2>2 DEF ExecutorKnown
    <2>6. ExecutorKnown'
      BY <1>1, <1>2, <2>1, <2>3, <2>4, <2>5 DEF ExecutorKnown
    <2>7. QED
      BY <1>2, <2>6, ExecutorOnly
  <1>4. CASE Close
    <2>1. ExecutorKnown'
      BY <1>1, <1>4 DEF Close, Executor!Close, ExecutorKnown, Queued
    <2>2. QED
      BY <1>2, <2>1, ExecutorOnly
  <1>5. QED
    BY <1>3, <1>4

\* The job on the worker is one whose session awaits it.
LEMMA Worked ==
    ASSUME IndInv, running # None
    PROVE  \E s \in Sessions, n \in {1, 2} :
               /\ running = <<s, n>> /\ running \in Jobs /\ running \in submitted /\ outcome[running] = None
               /\ request[s] \in Requests[s] /\ request[s] # None /\ HandlerOf(request[s]) # "Handle" /\ reply[s] = None
               /\ n = 1 => wrote[s] = 0 /\ <<s, 2>> \notin submitted
               /\ n = 2 => HandlerOf(request[s]) = "Update"
  <1>1. /\ ExecutorKnown /\ StoreKnown
        /\ \A t \in Sessions : SessionKnown(t) /\ EffectKnown(t) /\ WindowKnown(t) /\ ReplyKnown(t)
    BY DEF IndInv
  <1>2. running \in Jobs /\ running \in submitted /\ outcome[running] = None
    BY <1>1 DEF ExecutorKnown, Queued
  <1>3. PICK s \in Sessions, n \in {1, 2} : running = <<s, n>>
    BY <1>2 DEF Jobs
  <1>4. <<s, 1>> \in submitted /\ (n = 2 => HandlerOf(request[s]) = "Update")
    BY <1>1, <1>2, <1>3 DEF SessionKnown
  <1>5. request[s] # None /\ request[s] \in Requests[s] /\ HandlerOf(request[s]) # "Handle"
    BY <1>1, <1>4 DEF SessionKnown, StoreKnown
  <1>6. reply[s] = None
    <2>1. reply[s] # None => \A m \in {1, 2} : <<s, m>> \in submitted => outcome[<<s, m>>] # None
      BY <1>1 DEF ReplyKnown
    <2>2. QED
      BY <1>2, <1>3, <2>1
  <1>7. n = 1 => wrote[s] = 0 /\ <<s, 2>> \notin submitted
    BY RouterAssumption, <1>1, <1>2, <1>3 DEF SessionKnown, EffectKnown
  <1>8. QED
    BY <1>2, <1>3, <1>4, <1>5, <1>6, <1>7

\* Whatever is written, every window holds what the target of its session now
\* stands for, and only the writer's forgets what it stood for before.
LEMMA Observed ==
    ASSUME StoreKnown, NEW s \in Sessions, UNCHANGED request, Observe(s),
           DOMAIN book' = Kinds, \A k \in Kinds : \A id \in DOMAIN book'[k] : book'[k][id] \in Values
    PROVE  /\ window' \in [Sessions -> SUBSET (Values \cup {None})]
           /\ \A t \in Sessions : WindowKnown(t)'
           /\ \A t \in Sessions \ {s} : window[t] \subseteq window'[t]
  <1> DEFINE Now(t) == Current(request[t])'
  <1>1. \A t \in Sessions : IsItem(request[t].target) =>
          /\ Now(t) \in Values \cup {None}
          /\ Now(t) = IF request[t].target.id \in DOMAIN book'[request[t].target.path]
                     THEN book'[request[t].target.path][request[t].target.id] ELSE None
    BY DEF Current, Stored, IsItem
  <1> HIDE DEF Now
  <1>2. window' = [t \in Sessions |->
            IF request[t] = None \/ ~IsItem(request[t].target) THEN window[t]
            ELSE IF t = s THEN {Now(t)} ELSE window[t] \cup {Now(t)}]
    BY <1>1 DEF Observe
  <1>3. window' \in [Sessions -> SUBSET (Values \cup {None})]
    BY <1>1, <1>2 DEF StoreKnown
  <1>4. \A t \in Sessions : (request[t] # None /\ IsItem(request[t].target)) => Now(t) \in window'[t]
    BY <1>2
  <1>5. \A t \in Sessions : WindowKnown(t)'
    BY <1>4 DEF WindowKnown, Now
  <1>6. \A t \in Sessions \ {s} : window[t] \subseteq window'[t]
    BY <1>2
  <1>7. QED
    BY <1>3, <1>5, <1>6

\* A create, an update or a delete that is not refused takes effect once.
LEMMA Written ==
    ASSUME IndInv, NEW s \in Sessions, request[s] \in Requests[s], wrote[s] = 0,
           HandlerOf(request[s]) \in {"Create", "Update", "Delete"},
           Refusal(<<s, 1>>) = None, Effect(<<s, 1>>),
           UNCHANGED <<database, request, step, reply>>, DOMAIN answer' = Jobs
    PROVE  /\ StoreKnown' /\ wrote'[s] = 1
           /\ \A t \in Sessions : WindowKnown(t)'
           /\ \A t \in Sessions \ {s} : wrote'[t] = wrote[t] /\ window[t] \subseteq window'[t]
  <1> DEFINE r == request[s]
             k == Kind(<<s, 1>>)
  <1>1. StoreKnown
    BY DEF IndInv
  <1>2. UseCase(<<s, 1>>) = HandlerOf(r) /\ r.value \in Values /\ r.target.id \in Int
    BY RouterAssumption DEF UseCase
  <1>3. k \in Kinds /\ k = r.target.path
    BY <1>2, Handlers DEF Kind, Kinds, IsItem
  <1> HIDE DEF k
  <1>4. PICK contents :
          /\ Writes(<<s, 1>>, contents)
          /\ \A id \in DOMAIN contents : contents[id] \in Values
          /\ DOMAIN contents \subseteq 1 .. next'[k] - 1
          /\ next' \in [Kinds -> Nat \ {0}] /\ \A m \in Kinds : next'[m] >= next[m]
    <2>1. CASE HandlerOf(r) = "Create"
      <3> DEFINE new == [i \in DOMAIN book[k] \cup {next[k]} |-> IF i = next[k] THEN r.value ELSE book[k][i]]
      <3>1. Writes(<<s, 1>>, new) /\ next' = [next EXCEPT ![k] = next[k] + 1]
        BY <1>2, <2>1 DEF Effect, CreateEffect, k
      <3>2. next[k] \in Nat \ {0} /\ next'[k] = next[k] + 1 /\ next' \in [Kinds -> Nat \ {0}]
        BY <1>1, <1>3, <3>1 DEF StoreKnown
      <3>3. \A m \in Kinds : next'[m] >= next[m]
        BY <1>1, <1>3, <3>1 DEF StoreKnown
      <3>4. DOMAIN new \subseteq 1 .. next'[k] - 1 /\ \A id \in DOMAIN new : new[id] \in Values
        BY <1>1, <1>2, <1>3, <3>2 DEF StoreKnown
      <3>5. QED
        BY <3>1, <3>2, <3>3, <3>4
    <2>2. CASE HandlerOf(r) = "Update"
      <3> DEFINE new == [book[k] EXCEPT ![r.target.id] = r.value]
      <3>1. Writes(<<s, 1>>, new) /\ next' = next
        BY <1>2, <2>2 DEF Effect, UpdateEffect, k
      <3>2. DOMAIN new \subseteq 1 .. next[k] - 1 /\ \A id \in DOMAIN new : new[id] \in Values
        BY <1>1, <1>2, <1>3 DEF StoreKnown
      <3>3. next \in [Kinds -> Nat \ {0}] /\ \A m \in Kinds : next[m] >= next[m]
        BY <1>1 DEF StoreKnown
      <3> HIDE DEF new
      <3>4. QED
        BY <3>1, <3>2, <3>3
    <2>3. CASE HandlerOf(r) = "Delete"
      <3> DEFINE new == [i \in DOMAIN book[k] \ {r.target.id} |-> book[k][i]]
      <3>1. Writes(<<s, 1>>, new) /\ next' = next
        BY <1>2, <2>3 DEF Effect, DeleteEffect, k
      <3>2. DOMAIN new \subseteq 1 .. next[k] - 1 /\ \A id \in DOMAIN new : new[id] \in Values
        BY <1>1, <1>3 DEF StoreKnown
      <3>3. next \in [Kinds -> Nat \ {0}] /\ \A m \in Kinds : next[m] >= next[m]
        BY <1>1 DEF StoreKnown
      <3> HIDE DEF new
      <3>4. QED
        BY <3>1, <3>2, <3>3
    <2>4. QED
      BY <2>1, <2>2, <2>3
  <1>5. /\ book' = [book EXCEPT ![k] = contents] /\ wrote' = [wrote EXCEPT ![s] = wrote[s] + 1] /\ Observe(s)
    BY <1>4 DEF Writes, k
  <1>6. /\ DOMAIN book' = Kinds
        /\ \A m \in Kinds : DOMAIN book'[m] \subseteq 1 .. next'[m] - 1 /\ \A id \in DOMAIN book'[m] : book'[m][id] \in Values
    <2>1. DOMAIN book' = Kinds /\ book'[k] = contents /\ \A m \in Kinds \ {k} : book'[m] = book[m]
      BY <1>1, <1>3, <1>5 DEF StoreKnown
    <2>2. \A m \in Kinds : next[m] \in Nat /\ next'[m] \in Nat /\ next[m] <= next'[m]
      BY <1>1, <1>4 DEF StoreKnown
    <2>3. QED
      BY <1>1, <1>4, <2>1, <2>2 DEF StoreKnown
  <1>7. wrote'[s] = 1 /\ wrote' \in [Sessions -> 0 .. 1] /\ \A t \in Sessions \ {s} : wrote'[t] = wrote[t]
    BY <1>1, <1>5 DEF StoreKnown
  <1>8. /\ window' \in [Sessions -> SUBSET (Values \cup {None})]
        /\ \A t \in Sessions : WindowKnown(t)'
        /\ \A t \in Sessions \ {s} : window[t] \subseteq window'[t]
    BY <1>1, <1>5, <1>6, Observed
  <1>9. StoreKnown'
    BY <1>1, <1>4, <1>6, <1>7, <1>8 DEF StoreKnown
  <1>10. QED
    BY <1>7, <1>8, <1>9

\* The use case, when the worker has executed it.
LEMMA ExecuteStep ==
    ASSUME IndInv, Execute
    PROVE  IndInv'
  <1>1. /\ ExecutorKnown /\ StoreKnown
        /\ \A t \in Sessions : SessionKnown(t) /\ EffectKnown(t) /\ WindowKnown(t) /\ ReplyKnown(t)
    BY DEF IndInv
  <1>2. running # None
    BY DEF Execute, Executor!Finish
  <1>3. PICK s \in Sessions, n \in {1, 2} :
          /\ running = <<s, n>> /\ running \in Jobs /\ running \in submitted /\ outcome[running] = None
          /\ request[s] \in Requests[s] /\ request[s] # None /\ HandlerOf(request[s]) # "Handle" /\ reply[s] = None
          /\ n = 1 => wrote[s] = 0 /\ <<s, 2>> \notin submitted
          /\ n = 2 => HandlerOf(request[s]) = "Update"
    BY <1>2, Worked
  <1> DEFINE j == <<s, n>>
             r == request[s]
  <1>4. PICK result \in {"Value", "Storage"} : outcome' = [outcome EXCEPT ![j] = result]
    BY <1>3 DEF Execute, Executor!Finish
  <1>5. /\ running' = None /\ UNCHANGED <<pending, submitted, closed, database, request, step, reply>>
    BY DEF Execute, Executor!Finish
  <1>6. outcome'[j] = result /\ \A i \in Jobs \ {j} : outcome'[i] = outcome[i]
    BY <1>1, <1>3, <1>4 DEF ExecutorKnown
  <1>7. ExecutorKnown'
    <2>1. outcome' \in [Jobs -> {None, "Value", "Storage", "Overloaded"}]
      BY <1>1, <1>4 DEF ExecutorKnown
    <2>2. \A i \in Jobs : Queued(i)' => Queued(i) /\ i # j
      BY RouterAssumption, <1>1, <1>3, <1>5 DEF Queued, ExecutorKnown, Jobs
    <2>3. \A i \in DOMAIN pending' : pending'[i] # running'
      BY RouterAssumption, <1>1, <1>5 DEF ExecutorKnown, Jobs
    <2>4. \A i \in Jobs : Queued(i)' => i \in submitted' /\ outcome'[i] = None
      BY <1>1, <1>5, <1>6, <2>2 DEF ExecutorKnown
    <2>5. \A i \in Jobs : outcome'[i] # None => i \in submitted'
      BY <1>1, <1>3, <1>5, <1>6 DEF ExecutorKnown
    <2>6. QED
      BY <1>1, <1>5, <2>1, <2>3, <2>4, <2>5 DEF ExecutorKnown
  <1>8. /\ \/ /\ result = "Storage" /\ UNCHANGED answer
              /\ NothingWritten \/ (Refusal(j) = None /\ Effect(j))
           \/ /\ result = "Value" /\ Refusal(j) # None /\ NothingWritten
              /\ answer' = [answer EXCEPT ![j] = [error |-> Refusal(j), value |-> None]]
           \/ /\ result = "Value" /\ Refusal(j) = None /\ Effect(j)
              /\ answer' = [answer EXCEPT ![j] = [error |-> None, value |-> ReturnedValue(j)]]
        /\ DOMAIN answer' = Jobs
        /\ \A i \in Jobs \ {j} : answer'[i] = answer[i]
    <2>1. outcome'[running] = result /\ running = j
      BY <1>3, <1>6
    <2>2. CASE Refusal(j) # None /\ Answered(j, Refusal(j), None) /\ NothingWritten
      BY <1>1, <2>1, <2>2 DEF Answered, StoreKnown
    <2>3. CASE Refusal(j) = None /\ Answered(j, None, ReturnedValue(j)) /\ Effect(j)
      BY <1>1, <2>1, <2>3 DEF Answered, StoreKnown
    <2>4. CASE outcome'[j] = "Storage" /\ (NothingWritten \/ (Refusal(j) = None /\ Effect(j))) /\ UNCHANGED answer
      BY <1>1, <2>1, <2>4 DEF StoreKnown
    <2>5. QED
      BY <2>1, <2>2, <2>3, <2>4 DEF Execute
  <1>9. \A t \in Sessions \ {s} : \A i \in {<<t, 1>>, <<t, 2>>} :
          outcome'[i] = outcome[i] /\ answer'[i] = answer[i] /\ (i \in submitted' <=> i \in submitted)
    BY <1>5, <1>6, <1>8 DEF Jobs
  <1>10. ReplyKnown(s)' /\ SessionKnown(s)'
    <2>1. ReplyKnown(s)'
      BY <1>3, <1>5 DEF ReplyKnown
    <2>2. n = 2 => outcome'[<<s, 1>>] = outcome[<<s, 1>>] /\ answer'[<<s, 1>>] = answer[<<s, 1>>]
      BY <1>6, <1>8 DEF Jobs
    <2>3. SessionKnown(s)'
      BY <1>1, <1>3, <1>5, <2>2 DEF SessionKnown
    <2>4. QED
      BY <2>1, <2>3
  <1>11. Refusal(j) \in {None, "Validation", "NotFound"}
    BY DEF Refusal
  \* nothing was written
  <1>12. CASE NothingWritten
    <2>1. UNCHANGED <<book, next, wrote, window>>
      BY <1>12 DEF NothingWritten, storeVars
    <2>2. StoreKnown' /\ \A t \in Sessions : WindowKnown(t)'
      BY <1>1, <1>5, <1>8, <2>1, WindowSame DEF StoreKnown
    <2>3. EffectKnown(s)'
      <3>1. wrote'[s] = wrote[s] /\ window'[s] = window[s] /\ request'[s] = r
        BY <1>5, <2>1
      <3>2. UseCase(j) \in {"Create", "Update", "Delete"} => ~Effect(j)
        BY <1>1, <2>1 DEF Effect, CreateEffect, UpdateEffect, DeleteEffect, Writes, StoreKnown
      <3>3. IsItem(r.target) => Current(r) \in window[s]
        BY <1>1, <1>3 DEF WindowKnown
      <3>4. CASE n = 1
        <4>1. outcome'[<<s, 2>>] = None /\ outcome'[<<s, 1>>] = result /\ wrote[s] = 0 /\ UseCase(j) = HandlerOf(r)
          BY <1>1, <1>3, <1>6, <3>4 DEF ExecutorKnown, Jobs, UseCase
        <4>2. Refusal(j) = "NotFound" => HandlerOf(r) \in {"Update", "Delete"} /\ None \in window[s]
          <5>1. Refusal(j) = "NotFound" => HandlerOf(r) \in {"Update", "Delete"} /\ r.target.id \notin DOMAIN book[Kind(j)]
            BY RouterAssumption, <4>1 DEF Refusal
          <5>2. HandlerOf(r) \in {"Update", "Delete"} => IsItem(r.target) /\ Kind(j) = r.target.path
            BY <3>4, Handlers DEF Kind, IsItem, Kinds
          <5>3. QED
            BY <3>3, <5>1, <5>2 DEF Current, Stored
        <4>3. result = "Value" /\ Refusal(j) = None => HandlerOf(r) \notin {"Create", "Update", "Delete"}
          BY <1>8, <3>2, <4>1
        <4>4. result = "Value" /\ Refusal(j) = None =>
                /\ answer'[<<s, 1>>].error = None /\ answer'[<<s, 1>>].value \in Values \cup {None}
                /\ HandlerOf(r) = "Get" => answer'[<<s, 1>>].value \in window[s]
          <5>1. HandlerOf(r) = "Get" => Current(r) \in window[s]
            BY <3>3, Handlers
          <5>2. HandlerOf(r) = "Get" => ReturnedValue(j) = Current(r)
            BY <3>4, <4>1 DEF ReturnedValue
          <5>3. HandlerOf(r) \notin {"Get", "Create"} => ReturnedValue(j) = None
            BY <4>1 DEF ReturnedValue
          <5>4. window[s] \subseteq Values \cup {None}
            BY <1>1 DEF StoreKnown
          <5>5. result = "Value" /\ Refusal(j) = None =>
                  answer'[<<s, 1>>].error = None /\ answer'[<<s, 1>>].value = ReturnedValue(j)
            BY <1>1, <1>3, <1>8, <3>4 DEF StoreKnown
          <5>6. QED
            BY <4>3, <5>1, <5>2, <5>3, <5>4, <5>5
        <4>5. result = "Value" /\ Refusal(j) # None =>
                answer'[<<s, 1>>].error = Refusal(j) /\ answer'[<<s, 1>>].value = None
          BY <1>1, <1>3, <1>8, <3>4 DEF StoreKnown
        <4>6. HandlerOf(r) = "Get" => Refusal(j) = None
          BY <4>1 DEF Refusal
        <4>7. QED
          BY RouterAssumption, <1>11, <3>1, <4>1, <4>2, <4>3, <4>4, <4>5, <4>6 DEF EffectKnown
      <3>5. CASE n = 2
        <4>1. /\ outcome'[<<s, 1>>] = outcome[<<s, 1>>] /\ answer'[<<s, 1>>] = answer[<<s, 1>>]
              /\ outcome'[<<s, 2>>] = result
          BY <1>6, <1>8, <3>5 DEF Jobs
        <4>2. UseCase(j) = "Get" /\ IsItem(r.target)
          BY <1>3, <3>5, Handlers DEF UseCase
        <4>3. Refusal(j) = None /\ ReturnedValue(j) = Current(r)
          BY <4>2 DEF Refusal, ReturnedValue
        <4>4. result = "Value" => answer'[<<s, 2>>].error = None /\ answer'[<<s, 2>>].value \in window[s]
          BY <1>1, <1>3, <1>8, <3>3, <3>5, <4>2, <4>3 DEF StoreKnown
        <4>5. QED
          BY <1>1, <3>1, <4>1, <4>4 DEF EffectKnown
      <3>6. QED
        BY <3>4, <3>5
    <2>4. \A t \in Sessions \ {s} : SessionKnown(t)' /\ EffectKnown(t)' /\ ReplyKnown(t)'
      BY <1>1, <1>5, <1>9, <2>1, Untouched
    <2>5. QED
      BY <1>7, <1>10, <2>2, <2>3, <2>4 DEF IndInv
  \* the first job has written
  <1>13. CASE ~NothingWritten
    <2>1. Refusal(j) = None /\ Effect(j) /\ UseCase(j) \in {"Create", "Update", "Delete"}
      BY <1>8, <1>13 DEF Effect
    <2>2. n = 1 /\ HandlerOf(r) \in {"Create", "Update", "Delete"} /\ wrote[s] = 0
      BY <1>3, <2>1 DEF UseCase
    <2>3. /\ StoreKnown' /\ wrote'[s] = 1
          /\ \A t \in Sessions : WindowKnown(t)'
          /\ \A t \in Sessions \ {s} : wrote'[t] = wrote[t] /\ window[t] \subseteq window'[t]
      BY <1>3, <1>5, <1>8, <2>1, <2>2, Written
    <2>4. EffectKnown(s)'
      <3>1. outcome'[<<s, 2>>] = None /\ outcome'[<<s, 1>>] = result /\ UseCase(j) = HandlerOf(r)
        BY <1>1, <1>3, <1>6, <2>2 DEF ExecutorKnown, Jobs, UseCase
      <3>2. ReturnedValue(j) \in Values \cup {None}
        BY RouterAssumption, <1>3, <2>1 DEF ReturnedValue
      <3>3. result = "Value" => answer'[<<s, 1>>].error = None /\ answer'[<<s, 1>>].value = ReturnedValue(j)
        BY <1>1, <1>3, <1>8, <2>1, <2>2 DEF StoreKnown
      <3>4. QED
        BY RouterAssumption, <1>5, <2>2, <2>3, <3>1, <3>2, <3>3 DEF EffectKnown
    <2>5. \A t \in Sessions \ {s} : SessionKnown(t)' /\ EffectKnown(t)' /\ ReplyKnown(t)'
      BY <1>1, <1>5, <1>9, <2>3, Untouched
    <2>6. QED
      BY <1>7, <1>10, <2>3, <2>4, <2>5 DEF IndInv
  <1>14. QED
    BY <1>12, <1>13
-----------------------------------------------------------------------------
(* Every step, and what follows.                                           *)

\* One case per action.
LEMMA StepIndInv ==
    ASSUME IndInv, [Next]_vars
    PROVE  IndInv'
  <1>1. CASE \E s \in Sessions : \E r \in Requests[s] : HandleAsync(s, r)
    BY <1>1, HandleStep
  <1>2. CASE \E s \in Sessions : RespondWithError(s)
    BY <1>2, ErrorStep
  <1>3. CASE \E s \in Sessions : ReadBack(s)
    BY <1>3, ReadBackStep
  <1>4. CASE \E s \in Sessions : RespondWithValue(s)
    BY <1>4, ValueStep
  <1>5. CASE Start \/ Close
    BY <1>5, StartStep
  <1>6. CASE Execute
    BY <1>6, ExecuteStep
  <1>7. CASE UNCHANGED vars
    <2>1. ExecutorKnown'
      BY <1>7 DEF IndInv, ExecutorKnown, Queued, vars, executorVars
    <2>2. QED
      BY <1>7, <2>1, ExecutorOnly DEF vars, executorVars
  <1>8. QED
    BY <1>1, <1>2, <1>3, <1>4, <1>5, <1>6, <1>7 DEF Next, Resume

\* Whatever the sessions, the worker and the shutdown do in turn, a session, its
\* jobs, what they wrote and what it answers stay in step: the executor holds a
\* job only for a session that awaits it.
THEOREM IndInvAlways == SafeSpec => []IndInv
  BY InitIndInv, StepIndInv, PTL DEF SafeSpec

\* Sessions, responses and stored contents stay within their types, and an id
\* that is stored is one the database has assigned.
THEOREM TypeCorrect == SafeSpec => []TypeOK
  <1>1. IndInv => TypeOK
    <2> SUFFICES ASSUME IndInv PROVE TypeOK
      OBVIOUS
    <2>1. StoreKnown /\ \A s \in Sessions : ReplyKnown(s)
      BY DEF IndInv
    <2>2. \A s \in Sessions : reply[s] # None =>
            /\ reply[s].status \in {200, 201, 204, 400, 404, 405, 415, 422, 500, 503}
            /\ reply[s].value \in Values \cup {None}
      <3> SUFFICES ASSUME NEW s \in Sessions, reply[s] # None
                   PROVE  /\ reply[s].status \in {200, 201, 204, 400, 404, 405, 415, 422, 500, 503}
                          /\ reply[s].value \in Values \cup {None}
        OBVIOUS
      <3>1. ReplyKnown(s)
        BY <2>1
      <3>2. QED
        BY <3>1 DEF ReplyKnown
    <2>3. wrote \in [Sessions -> 0 .. 2]
      BY <2>1 DEF StoreKnown
    <2>4. QED
      BY <2>1, <2>2, <2>3 DEF TypeOK, StoreKnown
  <1>2. QED
    BY <1>1, IndInvAlways, PTL

\* The table of HandleAsync and that of Handle agree on what exists and on the
\* methods it has, whatever the requests.
THEOREM TablesAlways == SafeSpec => []TablesAgree
  <1>1. IndInv => TablesAgree
    <2> SUFFICES ASSUME IndInv, NEW s \in Sessions, database, reply[s] # None
                 PROVE  LET r == request[s] IN
                        /\ reply[s].status = 405 <=> (Allowed(r.target) # {} /\ r.verb \notin Allowed(r.target))
                        /\ Allowed(r.target) = {} => reply[s].status = 404
                        /\ (reply[s].status = 404 /\ Allowed(r.target) # {}) => (IsItem(r.target) /\ submitted # {})
      BY DEF TablesAgree
    <2>1. ReplyKnown(s) /\ SessionKnown(s) /\ request[s] \in Requests[s]
      BY DEF IndInv, StoreKnown, SessionKnown
    <2>2. request[s].target.id \in Int
      BY <2>1, RouterAssumption
    <2>3. CASE <<s, 1>> \in submitted
      <3>1. request[s].verb \in Allowed(request[s].target)
        BY <2>1, <2>2, <2>3, ServedAllowed DEF SessionKnown
      <3>2. QED
        BY <2>1, <2>3, <3>1 DEF ReplyKnown
    <2>4. CASE <<s, 1>> \notin submitted
      BY <2>1, <2>4 DEF ReplyKnown
    <2>5. QED
      BY <2>3, <2>4
  <1>2. QED
    BY <1>1, IndInvAlways, PTL

\* A status tells what became of the write, also when the executor refuses a
\* job, the storage fails before or after its effect, or others write meanwhile.
THEOREM StatusTruthful == SafeSpec => []StatusTellsEffect
  <1>1. IndInv => StatusTellsEffect
    <2> SUFFICES ASSUME IndInv, NEW s \in Sessions, reply[s] # None
                 PROVE  LET status == reply[s].status
                            verb   == request[s].verb
                        IN /\ (verb \in {"post", "put", "delete"} /\ status \in 200 .. 299) => wrote[s] = 1
                           /\ status \in {400, 405, 415, 422} => wrote[s] = 0
                           /\ (verb # "put" /\ status \in {404, 503}) => wrote[s] = 0
                           /\ wrote[s] <= 1
      BY DEF StatusTellsEffect
    <2>1. ReplyKnown(s) /\ wrote[s] \in 0 .. 1
      BY DEF IndInv, StoreKnown
    <2>2. QED
      BY <2>1 DEF ReplyKnown
  <1>2. QED
    BY <1>1, IndInvAlways, PTL

\* A GET answers with what its target stood for since the request came, a PUT
\* with what it stood for since its own update, whatever ran between the two
\* jobs of the update.
THEOREM RepliesCurrent == SafeSpec => []RepliesAreCurrent
  <1>1. IndInv => RepliesAreCurrent
    <2> SUFFICES ASSUME IndInv, NEW s \in Sessions, reply[s] # None, HandlerOf(request[s]) \in {"Get", "Update"}
                 PROVE  /\ reply[s].status = 200 => reply[s].value \in window[s]
                        /\ reply[s].status = 404 => None \in window[s]
      BY DEF RepliesAreCurrent
    <2>1. ReplyKnown(s)
      BY DEF IndInv
    <2>2. QED
      BY <2>1 DEF ReplyKnown
  <1>2. QED
    BY <1>1, IndInvAlways, PTL

\* A session that has responded has left no job in the executor.
THEOREM NothingLeft == SafeSpec => []NothingLeftBehind
  <1>1. IndInv => NothingLeftBehind
    BY DEF IndInv, ReplyKnown, NothingLeftBehind
  <1>2. QED
    BY <1>1, IndInvAlways, PTL

\* What a step of the router is to the executor: an entry, a call of Close, a
\* step of the worker, or nothing.
LEMMA ExecutorMoves == ASSUME [Next]_vars PROVE [Executor!Next]_(Executor!vars)
  <1> USE DEF Executor!vars, executorVars
  <1>stutter. CASE UNCHANGED vars
    BY <1>stutter DEF vars
  <1>worker. CASE Start \/ Execute \/ Close
    BY <1>worker DEF Start, Execute, Close, Executor!Next
  <1>handler. ASSUME NEW s \in Sessions, NEW r \in Requests[s], HandleAsync(s, r)
              PROVE  [Executor!Next]_(Executor!vars)
    <2>1. <<s, 1>> \in Jobs
      BY DEF Jobs
    <2>2. QED
      BY <1>handler, <2>1 DEF HandleAsync, AsyncSubmit, Executor!Next
  <1>readback. ASSUME NEW s \in Sessions, ReadBack(s)
               PROVE  [Executor!Next]_(Executor!vars)
    <2>1. <<s, 2>> \in Jobs
      BY DEF Jobs
    <2>2. QED
      BY <1>readback, <2>1 DEF ReadBack, AsyncSubmit, Executor!Next
  <1>respond. ASSUME NEW s \in Sessions, RespondWithError(s) \/ RespondWithValue(s)
              PROVE  UNCHANGED executorVars
    BY <1>respond DEF RespondWithError, RespondWithValue, Respond
  <1> QED
    BY <1>stutter, <1>worker, <1>handler, <1>readback, <1>respond DEF Next, Resume

\* The executor under the router is a SerialExecutor, which DatabaseExecutor
\* implements: handlers reach it by AsyncSubmit only, and no job is submitted
\* twice, the two jobs of an update included.
THEOREM ExecutorWithin == SafeSpec => Executor!SafeSpec
  <1> Init => Executor!Init
    BY DEF Init
  <1> QED
    BY ExecutorMoves, PTL DEF SafeSpec, Executor!SafeSpec
=============================================================================
