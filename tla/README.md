# A TLA+ model of recipes-core

recipes-core is a C++23 service that stores products and recipes in SQLite and
serves them over HTTP and HTTPS. This directory holds TLA+ specifications of its
core, TLC configurations that check them on small instances, and TLAPS proofs of
their safety properties for every instance.

## 1. The system

```
 signal ──> main ──Start/Stop──> Server ──accept──> Session / TlsSession   (network workers)
                                                        │ co_await HandleAsync
                                                      Router
                                                        │ co_await AsyncSubmit
                                                   DatabaseExecutor        (one worker thread)
                                                        │ calls
                              RecipeService ─> SqliteRecipeRepository ─> DBManager ─> SQLite
```

| Component | State | Operations | Hard to get right | Correct means |
|---|---|---|---|---|
| `app::DatabaseExecutor` | bounded queue, `stopping_`, mutex, condition variable, worker | `Submit`, `AsyncSubmit`, `Run`, `Stop`, destructor | wakeups, shutdown against submissions, the bound, one answer per job | a bounded FIFO that answers each call once, drains at shutdown, terminates |
| `app::RecipeService`, `SqliteRecipeRepository` | none of their own | create, get, list, update, delete of products and recipes; cookable | read-back after a commit, exceptions turned into `Storage` | a call takes effect as a whole or not at all, and is answered truthfully |
| `db::DBManager` | connection, tables, prepared statements | the statements and transactions behind these calls, batches | failure of one of several statements, early return inside a transaction, statement state that outlives a call, crash | atomic calls, a consistent schema, ids that do not come back |
| `net::Server` | acceptors, accept loops, sessions, session registry, `io_context` with workers | `Start`, `Stop`, accept, handshake, read, write | `Stop` on one thread against coroutines on others, restart, partial start, timeouts | exact registry, no socket without an owner, nothing open after a failed start, `Stop` returns |
| `net::Router` | one coroutine per request | parse and dispatch, one or two database jobs, response | other requests between two jobs, full or closed queue, two routing tables | every request is answered, and the status tells the truth about the write |
| process (`main.cpp`) | `StopState`, the objects on `main`'s stack | start up, wait for a signal, shut down, destroy | a handler that interrupts any thread, a flag set without the mutex of its condition, completions that outlive the `io_context` | ends after a signal, drains what was accepted, says in its status why |
| `config::ServerConfig` | none | load, validate | what is checked here, what only `Start` finds out, and what nobody checks again | the server never runs with a configuration some part cannot work with |
| `io::arg` | none | `ParseArgs` | contradicting options, a check after each of several values | the last option wins, errors are errors |
| `io` report writers | files | three outputs, sequentially or in parallel | one of several fails, two outputs to one file, futures left behind by an exception | an answer that tells what became of the files |
| API JSON | none | (de)serialise | – | – |
| kitchen types, units | value types | – | – | – |

They interact by calls and completions only: a session awaits the router, the
router awaits a job it gave to the executor, and the executor posts the
completion back to the `io_context` of the session. `main` owns executor and
server, in this order, so the server is destroyed first. The report writers are a
library of their own that the server process does not call.

## 2. The modules

| Module | Models | Source |
|---|---|---|
| `SerialExecutor` | abstract: the bounded FIFO the executor promises | `include/app/DatabaseExecutor.hpp` |
| `DatabaseExecutor` | the executor with mutex, condition variable and threads | `DatabaseExecutor.hpp`, `.cpp` |
| `RecipeBook` | abstract: a book of products and recipes with atomic requests | `RecipeService.*`, `RecipeRepository.hpp` |
| `RecipeDatabase` | schema and SQL statements as operators on a database value | `types/SQL/Types.hpp`, `DBManager::FetchRecipes` |
| `RecipeStore` | the calls on the worker, statement by statement, with failures and crashes | `RecipeService.cpp`, `SqliteRecipeRepository.cpp`, `DBManager.cpp` |
| `Server` | start, stop, accept loops, plain and TLS sessions | `Server.cpp` |
| `Router` | request handling; contains `SerialExecutor`, and for each job its effect, refusal and value | `Router.cpp` |
| `RouterJobs` | the calls of `RecipeStore` read as the jobs of `Router` | `Router.cpp`, the tables |
| `CommandLine` | `ParseArgs` as a function, and its reference definition | `io/args/Args.cpp` |
| `ServerConfig` | `LoadServerConfig` and its checks, and what its users presuppose | `config/ServerConfig.cpp` |
| `Process` | `main` and its signal handlers over `Server` and `SerialExecutor` | `main.cpp` |
| `Reports` | one call of the sequential or the parallel report function | `io/IO.hpp`, `IO.cpp`, `json/`, `yaml/`, `console/Report.cpp` |
| `MC*` | model values, request sets and inputs for TLC | – |
| `*Proofs` | theorems about the module of that name; `RecipeBookProofs` that `RecipeStore` implements `RecipeBook` and serves `Router` | – |
| `Induction` | the one fact behind every proof about a loop: a non-empty set of numbers has a least one | – |

```
 Process ──INSTANCE──> Server
    │ ├──INSTANCE──> SerialExecutor <──implements── DatabaseExecutor
    │ └──EXTENDS───> CommandLine, ServerConfig
 Router ──INSTANCE──> SerialExecutor
 RecipeStore ──implements──> RecipeBook        (RecipeStore EXTENDS RecipeDatabase)
 RouterJobs ──INSTANCE──> Router               (RouterJobs EXTENDS RecipeStore)
```

The composition is by contract. `DatabaseExecutor` is shown to implement
`SerialExecutor`, and `Router` and `Process` are built on `SerialExecutor`;
`RecipeStore` is shown to implement `RecipeBook`, and to do with a call what
`Router` takes the worker to do with a job (`ServesRouter`). `Server` treats a request as one stay in state
`handling`; `Process` puts a job of the executor into that stay, and `Router`
what happens around it.

**Definitions named `<Definition>_<Slip>`** are mutants. They are not part of
any specification; each replaces `<Definition>` to show that a property notices
a plausible mistake in that place (`PROJECT.json`, "mutants").

### DatabaseExecutor
Each job is one call. `caller[j]` follows it through `Submit` or `AsyncSubmit`
(`lock`: wants the mutex; `locked`: inside; `notify`: queued, `notify_one` ahead),
`worker` follows `Run`, `owner` the destructor. `condition_.wait` is split into
testing the predicate (`WorkerWait`), blocking while releasing the mutex
(`WorkerBlock`) and the wakeup, spurious ones included. `Complete` is the
difference between the two submissions: `AsyncSubmit` posts a handler, which
`RunHandler` executes later. Where a critical section cannot be observed
half-done (`Stop`: lock, assign, unlock) it is one step.

### RecipeDatabase and RecipeStore
A product's `(name, dimension)` is one key. `RecipeStore` holds the database as
the connection sees it (`db`), the one to roll back to (`saved`), the statements
still to execute (`todo`) and the prepared statements whose last execution
failed (`failed`). A round of the loop of `InsertRecipes` is one element of
`todo` until `NextRecipe` begins it. `Answer` is every way out of a method: it
rolls back an open transaction, as `SQLite::Transaction` does when its scope is
left. A statement may fail because of a constraint (`ConstraintFails`), of the
storage (`StorageFails`), or of the error it still carries (`ResetFails`), and
`Crash` is possible anywhere. SQLite itself is external: rows, constraints,
AUTOINCREMENT and rollback are modelled as documented; whether an INSERT that
ends as an update uses up an id is left open, and so is the order of rows that
tie under ORDER BY: `Ordered` is every order a SELECT may step through its rows
in, and `FetchRecipes` goes through one of them row by row, as the code does.
`Documents` reads the two tables of recipes as a set of recipes with their
ingredients, which is what `RecipeBook` knows. `applied` and `seen` are history.

### Server
`control` is where `Start` or `Stop` stands, with one step per call that another
thread can see between. Coroutines run from one `co_await` to the next in a
step, except at the beginning of a session, where `Stop` can meet the socket
between the move into the stream and the new `control->close` (`MoveSocket`,
`InstallClose`). A loop is named by protocol and start, so that loops of a
previous run may still be there after a restart. A read that fails other than
on a limit continues as in the code: the handler runs and the write fails.
Both ways a close can miss its socket (moved from, or moved on to the 413
response) are in `CloseReaches`.

### Router
One action per stretch between suspensions: `HandleAsync` up to the first job,
`Resume` after a completion (error, read-back of a PUT, or success). A target
is a resource path and an id; a body is well-formed, malformed or of a bad
dimension. `wrote` and `window` are history: how often a session's write took
effect, and what its item has stood for since the request (for a PUT, since its
update).

### RouterJobs
`Router` keeps its own small picture of the database: contents by id (`book`),
the next ids, and for each job an `Effect`, a `Refusal` and a `ReturnedValue`.
`RouterJobs` instantiates it over the tables: one session, whose request is
the call on the worker read backwards (`RequestOf`), `book` and `next` read off the
durable tables and their AUTOINCREMENT counters (`Shelf`, `NextIds`). A call that
no handler makes (an id below 1, the `Insert` methods) is not one of them
(`FromRouter`).

### CommandLine and ServerConfig
Both are pure. A token is an option with or without a value; texts are cut into
tokens by `SplitOption`, and an argument that is none is an option of no table.
`ParseArgs` goes from left to right and compares the two output paths after each
value; `WellFormed` and `Settings` say without a loop what a list of arguments
means (`SettingsAfter`: what its first `n` mean). A configuration file is
readable or not, has an extension (its letters, and which of them are capitals),
and parses or not (Glaze, external). An address is a text together with what
it denotes: a host, the wildcard, or nothing `make_address` takes.
`ValidateServerConfig` compares the texts; `CanListen` is what
`ConfigureListener` makes of what they denote: it fails for a text that is no
address, and for the second of two listeners that `Overlap`. So
`LoadServerConfig` does accept configurations that `Start` cannot use.
`ExecutorAccepts`, `ServerAccepts` and `SessionsUsable` are read off the
constructor of the executor, `Server::Start` and the sessions.

### Process
`main` is where the main thread stands, from `parse` to `exited`; `status` is its
exit status, or `Aborted` or `Killed`. The steps of `Server` and `SerialExecutor`
are those of their modules, restricted to when `main` executes them; `StartServer`
fails besides where a listener of the configuration cannot listen. A signal
runs its handler on any thread (`SignalHandled`), main's included, which it then
interrupts; the handler stores (`StoreRequested`) and notifies (`Notify`) in two
steps. `condition.wait` is predicate, block, sleep. A session that enters
`handling` may submit a job (`awaiting`); `FinishJob` posts its completion
(`posted`), and the session goes on by it (`Resume`). `DestroyServer` is the
destruction of the `io_context` with the handlers it holds; a completion after
that is `lost`. `gaveUp` and `late` are history.

### Reports
`phase` and `at` are the position of the caller in its loops, `task` and `result`
those of each output, `file` what a file holds: the old content, nothing, a part,
a report, a report cut off by a flush that failed in `~ofstream`, or pieces of
two. `lateErrors` is the environment: whether the file system is one that may
still refuse what is written at the close. `Return` waits for what still runs, because the future of `std::async`
blocks in its destructor.

## 3. What is checked

All runs are exhaustive over their instance; the longest, `Process`, takes two to
three minutes.

| Run | Instance | Checks |
|---|---|---|
| `DatabaseExecutor` | 4 calls (2 async), capacity 2, destructor at any time | `NoLostWakeup`, `EveryJobAccounted`, `NoBrokenPromise`, `AnsweredOnce`, `NothingAcceptedAfterStop`, `ImplementsSerial` (refinement, fairness included), `EveryCallAnswered`, `DestructorReturns` |
| `RecipeStoreProducts` | 2 product keys and 2 recipes that need them, 2 ids, single and batch, failures, crashes | `TransactionsEnd`, `IdsNotRecycled`, `ServesRouter`, `ImplementsBook`, which also defines what cookable must return |
| `RecipeStoreRecipes` | 2 recipe names, 0–2 ingredients, 3 ids, failures, crashes | `ConsistentTables`, `ImplementsBook`, `ServesRouter` |
| `RecipeStoreStaleError` | product calls on a reliable storage | **violated:** `FreshProductIsPersisted` |
| `Server` | 2 TLS connections, both listeners, 2 starts, failing accepts | `RegistryExact`, `SocketsOwned`, `QuietWhenStopped`, `NothingOpensAfterStop`, `StopReturns`, `BacklogServed`, `ClosedSessionsEnd` |
| `ServerStopWindow` | 1 connection, 1 start | **violated:** `StopClosesSockets` |
| `Router` | 3 sessions: any method on any target, a GET or DELETE, a PUT; capacity 1 | `TablesAgree`, `StatusTellsEffect`, `RepliesAreCurrent`, `NothingLeftBehind`, `EveryRequestAnswered` |
| `Process` | a plain and a TLS connection, capacity 1; over a thousand command lines, 21 files; signals on two threads | `StatusTellsWhy`, `OrderlyExit`, `LateOnlyAfterTimeout`, `ServesOnlyUsable`, `NextSignalStops` |
| `ProcessLostSignal` | 1 connection | **violated:** `SignalEndsProcess` |
| `Reports` | both functions, any subset of outputs, 2 paths to one file and 1 to another, or none | `ReportTells`, `FailureConfined` |
| `ReportsLostFlush` | the same | **violated:** `FailedWriteReported` |
| `ReportsDisabled` | the same | **violated:** `DisabledUntouched` |

`TypeOK` of each module is checked too. The inductive invariants are theorems,
so no run repeats them.

**Why the bounds are enough.** *Executor:* four calls on two slots reach a full
queue with one job running and one refused, in every order with the destructor.
*Store:* `MaxRows` stops calls that add rows once that many ids are used; two
allow create, delete, create, and an update that collides with another row, and
two ingredients allow a failure between them. `MaxFailed` bounds how many
prepared statements may carry an error before the storage fails at no other:
one where products and recipes are together (constraints add theirs
nevertheless), more than there are statements in `RecipeStoreRecipes`. *Server:* the second start is what
meets leftovers of the first; a TLS session has every state of a plain one and
the handshake. *Router:* the writer, a reader or deleter and any third request
on a queue of one produce every interleaving of two-job and one-job requests
with `Overloaded` in each place. *Process:* all lists of up to two arguments, and
of three output paths, contain every pair of options that contradict each other
and a list whose paths coincide on the way to ones that do not; two connections
on one slot suffice for a refused job and one that finishes after the server is
gone; more threads would only repeat what a handler on a second thread can do.
The files hold every fault `ValidateServerConfig` knows, and those that only
`Start` finds: a wildcard over an address of its family and over one of the
other, two spellings of one address, and a name where an address belongs.
*Reports:* three outputs are all there are. The proofs do without these bounds.
`CHECK_DEADLOCK FALSE` is given where the system may rest: a stopped server,
requests that run out, an exited process, a returned call.

**Fairness.** *Executor:* threads inside the class go on (weak fairness of
`InCall`, `Run`, `Stop`, `RunHandler`), operations terminate. The mutex steps
are strongly fair, that is, a thread that finds the mutex free again and again
acquires it at last. This is needed only against an endless sequence of spurious
wakeups in which the worker always wins the mutex; everything else is finite.
Nobody is obliged to submit or to destroy, and spurious wakeups are not fair.
*Server:* the controlling thread finishes what it began, and while the
`io_context` runs every completed operation is resumed; reads, writes and
handshakes end because each has `expires_after`. Connecting, starting, stopping,
failing accepts and exceeding a limit are not fair. `BacklogServed` speaks of
the time before the first failed accept: after it the loop is gone by design of
the code. *Router:* the worker executes what is queued and completions are
resumed; requests and the shutdown are not fair. *Process:* every thread goes
on; main's fairness is strong, because signals may interrupt it again and again,
each for two steps only. Nobody has to send a signal, to connect, to accept or
to wake main for nothing. `Reports` has no liveness: a call ends because every
task does.

### Findings

1. **A stale error refuses a valid request** (`RecipeStoreStaleError`).
   `ResetStatement` (`src/src/db/DBManager.cpp:34`) calls SQLiteCpp's `reset()`,
   which throws the error of the statement's *previous* execution. After a
   duplicate product was refused, the next create of any other product fails
   with `Storage`, HTTP 500, although nothing is wrong; the one after succeeds.
2. **`Stop` can return with a client's socket open** (`ServerStopWindow`).
   `CloseSessions` (`src/src/server/Server.cpp:173`) reaches registered sessions
   only: a socket accepted but not yet registered is missed, and one whose
   session is between moving it and installing its new `close` is closed in the
   wrong object. `tests/TestServer.cpp:189-208` asserts the opposite.
3. **A signal can be lost** (`ProcessLostSignal`). The handler
   (`src/src/main.cpp:36-42`) stores the flag and notifies without the mutex; if it runs
   after main has found the flag unset and before it sleeps, main sleeps on with
   the flag set. The repository's `README.md:133` says it stays alive *until* it
   receives the signal. `NextSignalStops` is what is true: if signals keep
   coming, it ends.
4. **A disabled report overwrites its file** (`ReportsDisabled`).
   `ParallelReportsItems` (`src/include/io/IO.hpp:96-101`) launches both file
   writers whatever `write_json` and `write_yaml` say; its comments say "if
   enabled", and the sequential function looks.
5. **A failed write is reported as success** (`ReportsLostFlush`).
   `WriteJsonPayload` (`src/src/io/json/Report.cpp:135`) and its YAML twin check
   the stream before its destructor writes what is still buffered. If that
   fails, the report is cut and the result has no error, while `IO.hpp:33`, 44
   and 78 promise an "error code if any write fails". `ReportTells` is what is
   true: success means whole reports on a file system that refuses nothing at
   the close.

Behaviours that the properties state as they are, because nothing documents
otherwise or because no run could tell: a PUT may be answered 404, 500 or 503
although it was made, when its read-back comes too late or finds no room
(`StatusTellsEffect`); a violated UNIQUE constraint is `Storage`, not
`Conflict`; a job whose session `Stop` gave up, or registered too late, posts
its completion to a destroyed `io_context` (`LateOnlyAfterTimeout`); a
configuration whose listeners overlap is accepted and stops `Start`, status 4
(`ServesOnlyUsable`).

Disagreements that are in the model without a run of their own:
`json/Report.hpp:45-46` says "File is created/truncated only on successful
serialization", `json/Report.cpp:123` opens and so truncates it before, and a
report that failed may have left a broken-off file where an old one was
(`ReportTells` allows exactly this); the repository's `README.md:168-206` gives
`--full`, values after a space and the default database `out/data/table.db`, where
`Args.cpp` knows `--full-info`, `--option=value` and `data/table.db`. Wrong
arguments, in `StatusTellsWhy`, are those that `BuildUsage` (`Args.cpp:225-249`)
does not document.

## 4. What is proved

For every value of the constants that meets the named assumptions
(`CapacityAssumption`, `ThreadsAssumption`, `ResultsAssumption`,
`ServerAssumption`, `RouterAssumption`, `StoreAssumption`, `ProcessAssumption`,
`ReportsAssumption`: types of the inputs, positive capacities, distinct model
values; of a request of the store, that its argument is a product, a recipe or a
list of them). `ProcessAssumption` says besides that command lines are sequences and
that no record of settings is the model value `Rejected`, which stands for the
error. TLC evaluates all of them in every run. There are eight modules of
theorems: six about the inductive invariant `IndInv` of a module, one for what
`RecipeStore` is to `RecipeBook` and to `Router`, and `Induction`.

| Module | Theorems |
|---|---|
| `DatabaseExecutorProofs` | `IndInvAlways`, `TypeCorrect`, `WakeupsNotLost`, `JobsAccounted`, `DrainedWhenDestroyed`, `AnswersFinal`, `NothingAccepted`, `SerialSafety` (the refinement of `SerialExecutor` without fairness) |
| `ServerProofs` | `IndInvAlways`, `TypeCorrect`, `RegistryCorrect`, `SocketsHaveOwners`, `Quiet`, `NothingOpens` |
| `RecipeStoreProofs` | `IndInvAlways`, `TypeCorrect`, `TablesConsistent`, `TransactionsAlwaysEnd`, `IdsStayTaken` |
| `RecipeBookProofs` | `AlwaysUnderway` (the inductive invariant of a call), `BookImplemented` (the refinement of `RecipeBook`), `RouterServed` (`ServesRouter`), `StaleErrorsSpare` (how far finding 1 reaches) |
| `RouterProofs` | `IndInvAlways`, `TypeCorrect`, `TablesAlways`, `StatusTruthful`, `RepliesCurrent`, `NothingLeft`, `ExecutorWithin` |
| `ProcessProofs` | `IndInvAlways`, `TypeCorrect`, `ExitOrderly`, `LateOnly`, `ParseArgsTells`, `StatusExplained`, `ServesUsable`, `ServerWithin`, `ServerKeepsFaith`, `NothingOpensOnTheWayDown`, `ExecutorWithin` |
| `ReportsProofs` | `IndInvAlways`, `TypeCorrect`, `ReportsTell`, `FailuresConfined` |

*Executor.* `NoLostWakeup` alone is not inductive: that a caller in `notify` or
`Stop` is the only one to have changed what the worker waits for follows from
who holds the mutex (`LockHeld`), and that the worker blocks with its predicate
false from `WorkerKnows`, which holds at `block` because the worker has the
mutex, and `stopping_` and the queue change only under it. `EveryJobAccounted`
needs `LockHeld` for a caller's position to be its own, and
`DrainedWhenDestroyed` needs that the worker ends on an empty queue after
`stopping_` (`OwnerKnows`). The action properties follow from the invariant
by one look at each action; the refinement maps each action to an action of
`SerialExecutor` or to a stutter.

*Server.* `RegistryExact` is preserved by every session step because those that
leave `Live` are exactly those that unregister. `NothingOpensAfterStop` needs
that no loop is `accepting` once both acceptors are closed
(`ListenersKnown`), which for a loop at its head needs `started_`
(`FlagsKnown`), and `SocketsOwned` needs that a connection a loop holds is in
no other state (`HoldersKnown`). A restart needs `StartsKnown`: the loops about
to be launched are not there yet.

*Store.* Sound tables are not enough to keep the tables sound: an ingredient
may only be inserted for a recipe that is there, and a recipe be looked up only
after it was inserted. `TodoKnown` says so of the statements a call has left
(`Located`, `LookedUp`), together with the fact that a transaction is open
only while its COMMIT is still to come, which is `TransactionsEnd`.
`StatementsPlanned` shows that every method's list begins that way, `TailKnown`
that executing the first statement keeps it, `RoundKnown` that the next round of
a batch does. Ids: `Grown` says that a database has, beside the ids of an earlier
one, only larger ones, and `SeenKnown` that what was ever durable lies below
the durable counters.

*Book.* `BookImplemented` is the refinement without exception: every step of
`RecipeStore`, for lists of any length, is a step of `RecipeBook` under the
mapping `products <- Durable.products, recipes <- Documents(Durable)`, or leaves
the book alone. `IndInv` does not suffice, because a COMMIT is the effect of a
call only if what the transaction holds by then is what the call asked for.
`Underway` says of the call in progress where in its list it stands and what it
has done so far: `Fresh`, nothing is executed; `Answered`, everything is, and
`value` is a true answer; or `Midway`. Midway a create may be reading back
(`ReadingBack`), or a transaction is open and none of it durable: the first `k`
products of a batch are merged (`Inserting`), the recipe is in place with the
ingredients of its first `j` items (`Recording`), or the first `k` recipes of a
batch are merged and the next is under way (`BetweenRounds`, `WithinRound`).
Every statement moves such a place to the next (`StepUnderway`); at the
last place before COMMIT, "the first `k`" are all, which is the book's effect;
every other way out rolls back to `saved`, which is the book as it was.

*The loops.* What a loop over data computes is an induction on its turns. The
library's induction theorems take the statement as an operator, which the
provers cannot instantiate, but that a set of natural numbers has a least
element needs no operator: `Least` follows from the well-foundedness of
inclusion on finite sets. Each loop is then a lemma about the first turn that
would break what is claimed: that a recursive function has a value at all
(`ParsingDefined` and its like), that `FetchRecipes` groups the rows of an
ordered join into one recipe per id with all its ingredients, and that the
turns of `ParseArgs` are `SettingsAfter` (`ParsedIs`). The grouping is where
`ORDER BY r.name` matters: rows of one recipe are adjacent only because names
are unique and compared first.

*Router.* A response depends on what the executor did with one or two jobs.
`ExecutorKnown` ties queue, worker and outcomes to the sessions that submitted
them, `EffectKnown` each outcome to what was written and read, `WindowKnown` the
window to the present content, `ReplyKnown` the response to all of it. The step
that needs them together is another session's write between the update of a PUT
and its read-back.

*Process.* `OrderlyExit` follows from `MainKnown`, what main's place says of
server and executor. `LateOnlyAfterTimeout` needs that a job on its way belongs
to a session that is `handling` and awaits it (`JobsKnown`), that such sessions
are registered (`SessionsKnown`) and that those registered when the wait has
ended in time came late (`LateKnown`). `StatusExplained` needs `ArgumentsKnown`
beside `IndInv`: that a process which has ended before it had a configuration
did so on account of what `ParseArgs` returned, which `ParseArgsTells` reads as
`WellFormed` and `Settings`, or of the file it was told to load. `ServesUsable` puts
together what two parts have found out: the configuration main holds was accepted
by `LoadServerConfig` (`Validated`), and how far `Start` has come says which
listeners could listen (`ListenersKnown`); neither would do alone.

*Composition.* That the parts may be reasoned about one by one is proved too.
`ExecutorWithin`, in `Router` and in `Process`, says that what those modules do to
the executor is a behaviour of `SerialExecutor`: what `DatabaseExecutor` is
shown to implement is all they rely on. `Process` instantiates `ServerProofs`:
each of its steps is a step of `Server` or none (`ServerMoves`), but for the
destruction of the `io_context`, which closes sockets no session will use
again (`DestroyKeeps`). So `Server!IndInv` holds from the start of the
process to its end, and with it the registry, the owners of sockets and the quiet
after `Stop` (`ServerKeepsFaith`); no socket is opened on the way down.

*The jobs.* `Router` believes that a job takes effect in one go, that a create
takes the next id, that a refusal comes before any effect, and that a value is
what the request gave or the table held. `RouterServed` is that belief about
`RecipeStore`: the step that makes a call's change durable is `Effect` of its job,
with the counter of that table moved by one and the other table as it was; and the
step that answers gives `Refusal` and no effect, or `ReturnedValue` after the
effect, or `Storage`, which `Router` leaves open. Effect and answer of a create are
two steps of the store and one of `Router`; nothing comes between them, as the
worker has one call at a time. Beyond `Underway` the proof needs `SequenceKnown`:
inside its transaction a CreateRecipe has used one id or none, an UpdateRecipe
none. From there each table becomes a function by id because ids are unique
(`RowAdded`, `RowReplaced`, `RowRemoved`), and a row's contents are those of the
request because the transaction holds the whole recipe by its COMMIT. That
Router's own properties, `StatusTellsEffect` first, thereby speak of the tables is
the conclusion to draw; it is not a theorem of its own.

*A stale error.* Finding 1 is a counterexample; `StaleErrorsSpare` is its extent.
On a storage without faults only the six statements a constraint can refuse keep an
error (`ErrorsKnown`), so a read or a delete is never answered with `Storage`, and a
call that is refused although its statement breaks no constraint takes the error
with it.

*Reports.* `CallerKnown` and `ReasonKnown` relate the position of the caller to
the results of the outputs before and after it, `FileKnown` a writer's
position to its file. What `ReportTells` says of "ok" is proved for a file system
without `lateErrors`, and what it says of errors and of the files of failed
reports for any; `FailuresConfined` needs no such assumption.

**Model-checked only.** Liveness, as ENABLED and fairness are beyond the prover,
and with it the fairness half of `ImplementsSerial`: `EveryCallAnswered`,
`DestructorReturns`, `StopReturns`, `BacklogServed`, `ClosedSessionsEnd`,
`EveryRequestAnswered`, `NextSignalStops`. The findings are counterexamples,
which only a run can give. Every other property that a passing run checks, its
invariants, its action properties, `ImplementsBook` and `ServesRouter`, is a theorem.

## 5. Not modelled

* **API JSON** (`api/`): Glaze (de)serialisation of plain structs, without state
  or order of events. `Router` keeps that it may fail.
* **Kitchen types and units** (`types/kitchen`, `unites`, `concepts`): value types
  and compile-time arithmetic. The database does not convert units.
* **Tests, benchmark, examples**: read for what they assert; not part of the
  program.
* Formats, layouts and texts of reports and usage; the digits of
  numbers. Dates: no statement reads them. `GetRecipeIngredients`, a read that
  only tests call.
* Undefined behaviour itself: the data race on `SessionControl::close`, the post
  to a destroyed `io_context`, a handler that meets the initialisation of the
  function-local `StopState` (`main.cpp:32-35`) on its own thread. What leads to
  the first two is inside the model.
* A second process on the same file appears only as `StorageFails`, and the read
  transaction an unfinished SELECT keeps open not at all.
* Whether a request asks for keep-alive is a free choice; a half-closed client
  whose request asks for it is one of these choices, and sessions may go on for
  ever in the model.

"components" and "hazards" in `PROJECT.json` have the full list with reasons.

## 6. Plan

Done, in this order: `SerialExecutor`, `DatabaseExecutor` and its proofs;
`RecipeBook`, `RecipeDatabase`, `RecipeStore`; `Server` and its proofs; `Router`;
`CommandLine`, `ServerConfig`, `Process`; `Reports`; the proofs of the last four
and of `RecipeStore`; the refinement of `RecipeBook` and the loops of
`FetchRecipes` and `ParseArgs`; the composition; `RouterJobs`, which ties the effect
of a job in `Router` to the tables.

What could follow: sessions that differ in keep-alive and half-closed clients in
`Server`; a second connection to the database file, for what an unfinished
SELECT blocks; a `Process` whose sessions run `Router`, where they now only
submit a job.
