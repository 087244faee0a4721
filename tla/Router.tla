------------------------------- MODULE Router -------------------------------
(***************************************************************************)
(* net::Router: one coroutine per request, which parses the target and the *)
(* body, submits one or two jobs to the database executor, is suspended    *)
(* until each has been answered, and turns the answer into a response.     *)
(*                                                                         *)
(* The executor is used as SerialExecutor describes it.  A job is one call *)
(* of RecipeService, which takes effect as RecipeBook says: at once and as *)
(* a whole, with Storage leaving open whether it did.  Of a product or a   *)
(* recipe the router only looks at whether it is there.                    *)
(***************************************************************************)
EXTENDS Integers, Sequences, FiniteSets

CONSTANTS Sessions,      \* requests under way, each on a connection of its own
          Requests,      \* Requests[s]: what the client of session s may send
          QueueCapacity, \* of the database executor
          Values,        \* contents of a product or a recipe
          Invalid,       \* those RecipeService::Validate* refuses
          First,         \* what the product and the recipe with id 1 start as
          Failures,      \* whether the storage may fail
          None           \* nothing there, nothing yet

ASSUME RouterAssumption ==
    /\ QueueCapacity \in Nat \ {0}
    /\ Invalid \subseteq Values
    /\ First \in Values \ Invalid
    /\ Failures \in BOOLEAN
    /\ \A s \in Sessions : \A r \in Requests[s] :
           r # None /\ r.value \in Values /\ r.target.id \in Int
    /\ None \notin Values \cup {"Value", "Storage", "Overloaded", "Validation", "NotFound"}
    /\ None \notin Sessions \X {1, 2}
    /\ None \notin [status : Nat, value : Values \cup {None}]

Kinds == {"products", "recipes"}

\* A request handler awaits at most two jobs, one after the other.
Jobs == Sessions \X {1, 2}

VARIABLES
    database, \* whether the router was given an executor
    request,  \* request[s]: what session s handles, or None
    step,     \* step[s]: the job its coroutine awaits (1, 2), or 0
    reply,    \* reply[s]: the response, or None
    answer,   \* answer[j]: what the service returned to job j, or None
    book,     \* book[kind]: what is stored, by id
    next,     \* next[kind]: the next id the database assigns
    wrote,    \* history: how often the write of a session has taken effect
    window,   \* history: what the id in the target has stood for meanwhile
    pending, running, outcome, submitted, closed   \* the executor's

executorVars == <<pending, running, outcome, submitted, closed>>
storeVars == <<book, next, wrote, window>>
vars == <<database, request, step, reply, answer, storeVars, executorVars>>

Executor == INSTANCE SerialExecutor
-----------------------------------------------------------------------------
(* Requests.  A target is a path and what follows it: no id (0), a positive*)
(* id, or a text that std::from_chars does not read as one (-1).           *)

IsCollection(t) == t.path \in Kinds /\ t.id = 0

\* ParseProductId, ParseRecipeId.
IsItem(t) == t.path \in Kinds /\ t.id > 0

\* The first table, that of Handle: the resources and their methods.
Allowed(t) ==
    CASE t.path \in {"healthz", "cookable"} -> {"get"}
      [] IsCollection(t)                    -> {"get", "post"}
      [] IsItem(t)                          -> {"get", "put", "delete"}
      [] OTHER                              -> {}

\* Handle does not see what HandleAsync serves; what is left is 200, 404, 405.
HandleStatus(r) ==
    CASE r.target.path = "healthz" /\ r.verb = "get" -> 200
      [] Allowed(r.target) = {} \/ (r.verb \in Allowed(r.target) /\ r.target.path # "healthz") -> 404
      [] OTHER -> 405

\* A POST to an item is taken for one to the collection.
HandlerOf_PostToItem(r) ==
    CASE r.verb = "post" /\ r.target.path \in Kinds           -> "Create"
      [] IsItem(r.target) /\ r.verb = "put"                   -> "Update"
      [] IsItem(r.target) /\ r.verb = "delete"                -> "Delete"
      [] IsItem(r.target) /\ r.verb = "get"                   -> "Get"
      [] IsCollection(r.target) /\ r.verb = "get"             -> "List"
      [] r.target.path = "cookable" /\ r.verb = "get"         -> "Cookable"
      [] OTHER                                                -> "Handle"

\* The second table: HandleAsync, HandleProducts and HandleRecipes.
HandlerOf(r) ==
    CASE IsCollection(r.target) /\ r.verb = "post"            -> "Create"
      [] IsItem(r.target) /\ r.verb = "put"                   -> "Update"
      [] IsItem(r.target) /\ r.verb = "delete"                -> "Delete"
      [] IsItem(r.target) /\ r.verb = "get"                   -> "Get"
      [] IsCollection(r.target) /\ r.verb = "get"             -> "List"
      [] r.target.path = "cookable" /\ r.verb = "get"         -> "Cookable"
      [] OTHER                                                -> "Handle"

\* Without an executor recipe targets answer 503 whatever the verb, product
\* targets only where HandleAsync serves them.
Unavailable(r) ==
    /\ ~database
    /\ \/ HandlerOf(r) # "Handle"
       \/ r.target.path = "cookable"
       \/ r.target.path = "recipes" /\ (IsCollection(r.target) \/ IsItem(r.target))

\* IsJsonContentType, then ParseProduct or ParseRecipe.
BodyStatus(r) ==
    CASE ~r.json                 -> 415
      [] r.json /\ r.body = "malformed"    -> 400
      [] r.json /\ r.body = "badDimension" -> 422
      [] OTHER                   -> 0

\* The status of a request that is answered without the database, or 0.
EarlyStatus(r) ==
    CASE Unavailable(r)                -> 503
      [] ~Unavailable(r) /\ HandlerOf(r) = "Handle" -> HandleStatus(r)
      [] ~Unavailable(r) /\ HandlerOf(r) \in {"Create", "Update"} -> BodyStatus(r)
      [] OTHER                         -> 0

Response(status, value) == [status |-> status, value |-> value]

Stored(kind, id) == IF id \in DOMAIN book[kind] THEN book[kind][id] ELSE None

\* What the item a session addresses stands for now.
Current(r) == IF IsItem(r.target) THEN Stored(r.target.path, r.target.id) ELSE None
-----------------------------------------------------------------------------
Init ==
    /\ database \in BOOLEAN
    /\ request = [s \in Sessions |-> None]
    /\ step = [s \in Sessions |-> 0]
    /\ reply = [s \in Sessions |-> None]
    /\ answer = [j \in Jobs |-> None]
    \* one product and one recipe have been created before
    /\ book = [k \in Kinds |-> [id \in {1} |-> First]]
    /\ next = [k \in Kinds |-> 2]
    /\ wrote = [s \in Sessions |-> 0]
    /\ window = [s \in Sessions |-> {}]
    /\ Executor!Init
-----------------------------------------------------------------------------
(* The coroutines.                                                         *)

\* A full queue is not reported.
AsyncSubmit_Drops(j) ==
    \/ Executor!Accept(j)
    \/ Executor!RefuseClosed(j)
    \/ ~closed /\ Len(pending) = QueueCapacity /\ UNCHANGED executorVars

\* DatabaseExecutor::AsyncSubmit queues the job or answers with an error.
AsyncSubmit(j) == Executor!Accept(j) \/ Executor!RefuseFull(j) \/ Executor!RefuseClosed(j)

\* HandleAsync up to the first suspension.
HandleAsync(s, r) ==
    /\ request[s] = None
    /\ request' = [request EXCEPT ![s] = r]
    /\ window' = [window EXCEPT ![s] = {Current(r)}]
    /\ \/ /\ EarlyStatus(r) # 0
          /\ reply' = [reply EXCEPT ![s] = Response(EarlyStatus(r), None)]
          /\ UNCHANGED <<step, executorVars>>
       \/ /\ EarlyStatus(r) = 0
          /\ AsyncSubmit(<<s, 1>>)
          /\ step' = [step EXCEPT ![s] = 1]
          /\ UNCHANGED reply
    /\ UNCHANGED <<database, answer, book, next, wrote>>

\* MakeAppErrorResponse.
StatusOf(error) ==
    CASE error = "Validation" -> 422
      [] error = "NotFound"   -> 404
      [] error = "Conflict"   -> 409
      [] error = "Overloaded" -> 503
      [] error = "Storage"    -> 500

\* What the awaited job was answered with: an error of the executor or of the
\* service, or what the service returned.
Awaited(s) == <<s, step[s]>>

Completed(s) == step[s] # 0 /\ outcome[Awaited(s)] # None

Error(s) ==
    IF outcome[Awaited(s)] = "Value" THEN answer[Awaited(s)].error ELSE outcome[Awaited(s)]

Respond(s, response) ==
    /\ reply' = [reply EXCEPT ![s] = response]
    /\ step' = [step EXCEPT ![s] = 0]
    /\ UNCHANGED <<database, request, answer, storeVars, executorVars>>

RespondWithError(s) ==
    /\ Completed(s)
    /\ Error(s) # None
    /\ Respond(s, Response(StatusOf(Error(s)), None))

\* SerializeJson may fail; a 204 has no body.
SuccessStatus(r) == IF r.verb = "post" THEN 201 ELSE IF r.verb = "delete" THEN 204 ELSE 200

RespondWithValue(s) ==
    /\ Completed(s)
    /\ Error(s) = None
    /\ HandlerOf(request[s]) = "Update" => step[s] = 2
    /\ LET value == answer[Awaited(s)].value
           get   == HandlerOf(request[s]) \in {"Get", "Update"}
       IN \/ get /\ value = None /\ Respond(s, Response(404, None))
          \/ ~(get /\ value = None) /\ Respond(s, Response(SuccessStatus(request[s]), value))
          \/ /\ ~(get /\ value = None) /\ SuccessStatus(request[s]) # 204
             /\ Failures
             /\ Respond(s, Response(500, None))

\* The response does not wait for the second job.
ReadBack_NoAwait(s) ==
    /\ Completed(s)
    /\ Error(s) = None
    /\ HandlerOf(request[s]) = "Update" /\ step[s] = 1
    /\ step' = [step EXCEPT ![s] = 0]
    /\ reply' = [reply EXCEPT ![s] = Response(200, request[s].value)]
    /\ AsyncSubmit(<<s, 2>>)
    /\ UNCHANGED <<database, request, answer, storeVars>>

\* UpdateProduct and UpdateRecipe end in GetProduct and GetRecipe: a second
\* job, before which others may run, and for which there may be no room.
ReadBack(s) ==
    /\ Completed(s)
    /\ Error(s) = None
    /\ HandlerOf(request[s]) = "Update" /\ step[s] = 1
    /\ step' = [step EXCEPT ![s] = 2]
    /\ AsyncSubmit(<<s, 2>>)
    /\ UNCHANGED <<database, request, reply, answer, storeVars>>

Resume(s) == RespondWithError(s) \/ ReadBack(s) \/ RespondWithValue(s)
-----------------------------------------------------------------------------
(* The database worker.                                                    *)

Start == Executor!Start /\ UNCHANGED <<database, request, step, reply, answer, storeVars>>

\* The second job repeats the first.
UseCase_Repeats(j) == HandlerOf(request[j[1]])

\* An update reads first and writes then.
UseCase_ReadsFirst(j) ==
    IF HandlerOf(request[j[1]]) = "Update" /\ j[2] = 1 THEN "Get" ELSE HandlerOf(request[j[1]])

\* Which use case the job on the worker is.
UseCase(j) == IF j[2] = 2 THEN "Get" ELSE HandlerOf(request[j[1]])

Kind(j) == IF request[j[1]].target.path = "cookable" THEN "recipes" ELSE request[j[1]].target.path

\* Every session sees what its target stands for; an update looks only at
\* what follows it.
Observe(writer) ==
    window' = [s \in Sessions |->
        IF request[s] = None \/ ~IsItem(request[s].target) THEN window[s]
        ELSE LET t   == request[s].target
                 now == IF t.id \in DOMAIN book'[t.path] THEN book'[t.path][t.id] ELSE None
             IN IF s = writer THEN {now} ELSE window[s] \cup {now}]

NothingWritten == UNCHANGED storeVars

Writes(j, contents) ==
    /\ book' = [book EXCEPT ![Kind(j)] = contents]
    /\ wrote' = [wrote EXCEPT ![j[1]] = @ + 1]
    /\ Observe(j[1])

\* The id of a product that was created is not remembered.
CreateEffect_SameId(j) ==
    /\ Writes(j, [i \in DOMAIN book[Kind(j)] \cup {next[Kind(j)]} |->
                      IF i = next[Kind(j)] THEN request[j[1]].value ELSE book[Kind(j)][i]])
    /\ UNCHANGED next

\* RecipeService: validation, then the repository, then NotFound.
CreateEffect(j) ==
    LET id == next[Kind(j)] IN
    /\ Writes(j, [i \in DOMAIN book[Kind(j)] \cup {id} |->
                      IF i = id THEN request[j[1]].value ELSE book[Kind(j)][i]])
    /\ next' = [next EXCEPT ![Kind(j)] = @ + 1]

UpdateEffect(j) ==
    /\ Writes(j, [book[Kind(j)] EXCEPT ![request[j[1]].target.id] = request[j[1]].value])
    /\ UNCHANGED next

DeleteEffect(j) ==
    /\ Writes(j, [i \in DOMAIN book[Kind(j)] \ {request[j[1]].target.id} |-> book[Kind(j)][i]])
    /\ UNCHANGED next

Effect(j) ==
    \/ UseCase(j) = "Create" /\ CreateEffect(j)
    \/ UseCase(j) = "Update" /\ UpdateEffect(j)
    \/ UseCase(j) = "Delete" /\ DeleteEffect(j)
    \/ UseCase(j) \in {"Get", "List", "Cookable"} /\ NothingWritten

\* The error the service returns without writing, or None.
Refusal(j) ==
    LET r == request[j[1]] IN
    CASE UseCase(j) \in {"Create", "Update"} /\ r.value \in Invalid -> "Validation"
      [] UseCase(j) \in {"Update", "Delete"} /\ ~(UseCase(j) = "Update" /\ r.value \in Invalid)
             /\ r.target.id \notin DOMAIN book[Kind(j)] -> "NotFound"
      [] OTHER -> None

\* A value only for the use cases that return one; of lists the router only
\* makes a JSON array.
ReturnedValue(j) ==
    CASE UseCase(j) = "Get"    -> Current(request[j[1]])
      [] UseCase(j) = "Create" -> request[j[1]].value
      [] OTHER                 -> None

Answered(j, error, value) ==
    /\ outcome'[j] = "Value"
    /\ answer' = [answer EXCEPT ![j] = [error |-> error, value |-> value]]

Execute ==
    /\ Executor!Finish
    /\ \/ Refusal(running) # None /\ Answered(running, Refusal(running), None) /\ NothingWritten
       \/ Refusal(running) = None /\ Answered(running, None, ReturnedValue(running)) /\ Effect(running)
       \* Storage, before or after the effect
       \/ /\ Failures
          /\ outcome'[running] = "Storage"
          /\ NothingWritten \/ (Refusal(running) = None /\ Effect(running))
          /\ UNCHANGED answer
    /\ UNCHANGED <<database, request, step, reply>>

Close == Executor!Close /\ UNCHANGED <<database, request, step, reply, answer, storeVars>>

Next ==
    \/ \E s \in Sessions : (\E r \in Requests[s] : HandleAsync(s, r)) \/ Resume(s)
    \/ Start
    \/ Execute
    \/ Close

Fairness == WF_vars(Start) /\ WF_vars(Execute) /\ \A s \in Sessions : WF_vars(Resume(s))

SafeSpec == Init /\ [][Next]_vars

Spec == SafeSpec /\ Fairness
-----------------------------------------------------------------------------
(* Properties.                                                             *)

\* Type invariant.  Stored ids have all been assigned, and no two writes of a
\* session ever come from more than its two jobs.
TypeOK ==
    /\ database \in BOOLEAN
    /\ \A s \in Sessions : request[s] \in Requests[s] \cup {None}
    /\ step \in [Sessions -> 0 .. 2]
    /\ \A s \in Sessions : reply[s] # None =>
           /\ reply[s].status \in {200, 201, 204, 400, 404, 405, 415, 422, 500, 503}
           /\ reply[s].value \in Values \cup {None}
    /\ \A k \in Kinds : DOMAIN book[k] \subseteq 1 .. next[k] - 1
    /\ wrote \in [Sessions -> 0 .. 2]

\* Router.cpp keeps two tables of resources and methods, one in HandleAsync and
\* one in Handle.  They agree: 405 goes to the methods a resource does not have
\* and to no other, and a resource that exists is never an unknown one.
TablesAgree ==
    \A s \in Sessions : (database /\ reply[s] # None) =>
        LET r == request[s] IN
        /\ reply[s].status = 405 <=> (Allowed(r.target) # {} /\ r.verb \notin Allowed(r.target))
        /\ Allowed(r.target) = {} => reply[s].status = 404
        /\ (reply[s].status = 404 /\ Allowed(r.target) # {}) => (IsItem(r.target) /\ submitted # {})

\* What a status tells a client about its write.  2xx: it took effect, once.
\* 4xx: it did not, and neither did one refused with 503, except that a PUT
\* may have, when it found no room to read back what it wrote (503) or read
\* it back too late (404).  Only 500 leaves the other writes open.
StatusTellsEffect ==
    \A s \in Sessions : reply[s] # None =>
        LET status == reply[s].status
            verb   == request[s].verb
        IN /\ (verb \in {"post", "put", "delete"} /\ status \in 200 .. 299) => wrote[s] = 1
           /\ status \in {400, 405, 415, 422} => wrote[s] = 0
           /\ (verb # "put" /\ status \in {404, 503}) => wrote[s] = 0
           /\ wrote[s] <= 1

\* A GET answers with what its target stood for at a moment between request
\* and response, and a PUT with what it stood for after its own update: never
\* with an older state, whatever ran in between.
RepliesAreCurrent ==
    \A s \in Sessions :
        (reply[s] # None /\ HandlerOf(request[s]) \in {"Get", "Update"}) =>
            /\ reply[s].status = 200 => reply[s].value \in window[s]
            /\ reply[s].status = 404 => None \in window[s]

\* A session that has its response has left no job behind in the executor: no
\* handler returns before the completion of every job it has submitted.
NothingLeftBehind ==
    \A s \in Sessions : reply[s] # None =>
        \A n \in {1, 2} : <<s, n>> \in submitted => outcome[<<s, n>>] # None

\* A job that waits or runs is one that was submitted and has no answer.
Queued(j) == j = running \/ \E i \in DOMAIN pending : pending[i] = j

ExecutorKnown ==
    /\ pending \in Seq(Jobs) /\ running \in Jobs \cup {None} /\ submitted \subseteq Jobs
    /\ outcome \in [Jobs -> {None, "Value", "Storage", "Overloaded"}]
    /\ \A j \in Jobs : Queued(j) => j \in submitted /\ outcome[j] = None
    /\ \A j \in Jobs : outcome[j] # None => j \in submitted
    /\ \A i, k \in DOMAIN pending : pending[i] = pending[k] => i = k
    /\ \A i \in DOMAIN pending : pending[i] # running

StoreKnown ==
    /\ database \in BOOLEAN
    /\ DOMAIN request = Sessions /\ \A s \in Sessions : request[s] \in Requests[s] \cup {None}
    /\ step \in [Sessions -> 0 .. 2] /\ DOMAIN reply = Sessions /\ DOMAIN answer = Jobs
    /\ next \in [Kinds -> Nat \ {0}]
    /\ DOMAIN book = Kinds
    /\ \A k \in Kinds :
           /\ DOMAIN book[k] \subseteq 1 .. next[k] - 1
           /\ \A id \in DOMAIN book[k] : book[k][id] \in Values
    /\ window \in [Sessions -> SUBSET (Values \cup {None})]
    /\ wrote \in [Sessions -> 0 .. 1]

\* How far a session has come with its jobs.
SessionKnown(s) ==
    /\ request[s] = None => step[s] = 0 /\ reply[s] = None /\ <<s, 1>> \notin submitted
    /\ request[s] # None => (step[s] = 0 <=> reply[s] # None)
    /\ step[s] = 1 => <<s, 1>> \in submitted /\ <<s, 2>> \notin submitted
    /\ step[s] = 2 => <<s, 2>> \in submitted
    /\ <<s, 1>> \in submitted => HandlerOf(request[s]) # "Handle"
    /\ <<s, 2>> \in submitted =>
           /\ <<s, 1>> \in submitted /\ HandlerOf(request[s]) = "Update"
           /\ outcome[<<s, 1>>] = "Value" /\ answer[<<s, 1>>].error = None

\* What its first job has done, and what either was answered with.
EffectKnown(s) ==
    /\ outcome[<<s, 1>>] \in {None, "Overloaded"} => wrote[s] = 0
    /\ outcome[<<s, 1>>] = "Value" =>
           /\ answer[<<s, 1>>].error \in {None, "Validation", "NotFound"}
           /\ answer[<<s, 1>>].value \in Values \cup {None}
           /\ wrote[s] = IF /\ HandlerOf(request[s]) \in {"Create", "Update", "Delete"}
                            /\ answer[<<s, 1>>].error = None
                         THEN 1 ELSE 0
           /\ answer[<<s, 1>>].error = "NotFound" =>
                  HandlerOf(request[s]) \in {"Update", "Delete"} /\ None \in window[s]
           /\ HandlerOf(request[s]) = "Get" =>
                  answer[<<s, 1>>].error = None /\ answer[<<s, 1>>].value \in window[s]
    /\ outcome[<<s, 2>>] = "Value" =>
           answer[<<s, 2>>].error = None /\ answer[<<s, 2>>].value \in window[s]

\* The window of a session holds what its target stands for now.
WindowKnown(s) ==
    (request[s] # None /\ IsItem(request[s].target)) => Current(request[s]) \in window[s]

\* What its response says, without the executor and with it.
ReplyKnown(s) ==
    LET r      == request[s]
        status == reply[s].status
    IN reply[s] # None =>
        /\ status \in {200, 201, 204, 400, 404, 405, 415, 422, 500, 503}
        /\ reply[s].value \in Values \cup {None}
        /\ <<s, 1>> \notin submitted =>
               /\ wrote[s] = 0
               /\ status \in 200 .. 299 => r.verb = "get"
               /\ status \in {200, 404} => HandlerOf(r) = "Handle"
               /\ database => /\ status = 405 <=> (Allowed(r.target) # {} /\ r.verb \notin Allowed(r.target))
                              /\ status = 404 <=> Allowed(r.target) = {}
        /\ <<s, 1>> \in submitted =>
               /\ status \in {200, 201, 204, 404, 422, 500, 503}
               /\ status = 404 => IsItem(r.target)
               /\ (r.verb \in {"post", "put", "delete"} /\ status \in 200 .. 299) => wrote[s] = 1
               /\ status = 422 => wrote[s] = 0
               /\ (r.verb # "put" /\ status \in {404, 503}) => wrote[s] = 0
               /\ HandlerOf(r) \in {"Get", "Update"} =>
                      /\ status = 200 => reply[s].value \in window[s]
                      /\ status = 404 => None \in window[s]
        /\ \A n \in {1, 2} : <<s, n>> \in submitted => outcome[<<s, n>>] # None

\* The inductive invariant.
IndInv ==
    /\ ExecutorKnown /\ StoreKnown
    /\ \A s \in Sessions : SessionKnown(s) /\ EffectKnown(s) /\ WindowKnown(s) /\ ReplyKnown(s)

\* Every request is answered, also while the executor is full or shut down.
EveryRequestAnswered == \A s \in Sessions : request[s] # None ~> reply[s] # None
=============================================================================
