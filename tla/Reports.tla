------------------------------- MODULE Reports -------------------------------
(***************************************************************************)
(* One call of io::ReportProducts or io::ReportRecipes, which write their  *)
(* outputs one after the other, or of io::ParallelReportsItems, which runs *)
(* each on a thread of its own.  A JSON or YAML report is a file that is   *)
(* truncated, filled through a stream and closed by its destructor.  What  *)
(* is in a report is Glaze's affair; here only whose it is and whether it  *)
(* is whole.                                                               *)
(*                                                                         *)
(* External: std::async, whose future blocks in its destructor until the   *)
(* task is over, the file system, and exceptions of the console's stream.  *)
(***************************************************************************)
EXTENDS Integers, Sequences

CONSTANTS Settings, \* the ArgsOut of the callers: [write, path], the enabled outputs and path[w]
          FileOf,   \* FileOf[path]: the file it names; two paths may name one
          Empty,    \* the empty path
          None      \* no result yet

Writers == {"json", "yaml"}

Outputs == {"console"} \cup Writers

\* The order in which outputs are written, launched and waited for.
Order == <<"console", "json", "yaml">>

Files == {FileOf[path] : path \in DOMAIN FileOf}

ASSUME ReportsAssumption ==
    /\ \A args \in Settings : /\ args.write \subseteq Outputs
                              /\ args.path \in [Writers -> DOMAIN FileOf \cup {Empty}]
    /\ Empty \notin DOMAIN FileOf
    /\ None \notin {"ok", "failed", "invalid_argument", "thrown"}

VARIABLES
    mode,   \* which of the two functions was called
    args,   \* its ArgsOut
    lateErrors, \* whether the file system may refuse what is written at the close
    phase,  \* where the caller stands: in which of its loops ...
    at,     \* ... and at which output, 4 after the last
    task,   \* task[k]: where the output k stands
    result, \* result[k]: what its function returned or threw
    file,   \* what is in each file
    answer  \* what the call returns or throws

vars == <<mode, args, lateErrors, phase, at, task, result, file, answer>>

Init ==
    /\ mode \in {"sequential", "parallel"}
    /\ args \in Settings
    /\ lateErrors \in BOOLEAN
    /\ phase = "begin"
    /\ at = 1
    /\ task = [k \in Outputs |-> "idle"]
    /\ result = [k \in Outputs |-> None]
    /\ file = [f \in Files |-> "old"]
    /\ answer = None

Target(w) == FileOf[args.path[w]]
-----------------------------------------------------------------------------
(* The caller.                                                             *)

Leave(with) == phase' = "leave" /\ answer' = with /\ UNCHANGED at

Go(to, next) == phase' = to /\ at' = next /\ UNCHANGED answer

\* ReportProducts and ReportRecipes refuse a call without outputs.
Begin ==
    /\ phase = "begin"
    /\ IF mode = "sequential" /\ args.write = {} THEN Leave("invalid_argument") ELSE Go("launch", 1)
    /\ UNCHANGED <<mode, args, lateErrors, task, result, file>>

\* ParallelReportsItems looks at write_console only.
Launches(k) == k \in args.write \/ (mode = "parallel" /\ k # "console")

Skip ==
    /\ phase = "launch" /\ at <= 3
    /\ ~Launches(Order[at])
    /\ Go("launch", at + 1)
    /\ UNCHANGED <<mode, args, lateErrors, task, result, file>>

\* A call of the output's function, or std::async, which throws if there is no
\* thread to be had.
Launch ==
    /\ phase = "launch" /\ at <= 3
    /\ Launches(Order[at])
    /\ \/ /\ task' = [task EXCEPT ![Order[at]] = "begin"]
          /\ IF mode = "parallel" THEN Go("launch", at + 1) ELSE Go("await", at)
       \/ mode = "parallel" /\ Leave("thrown") /\ UNCHANGED task
    /\ UNCHANGED <<mode, args, lateErrors, result, file>>

Launched ==
    /\ phase = "launch" /\ at = 4
    /\ IF mode = "parallel" THEN Go("await", 1) ELSE Leave("ok")
    /\ UNCHANGED <<mode, args, lateErrors, task, result, file>>

\* The result of an output is not looked at.
Await_Ignores ==
    /\ phase = "await" /\ at <= 3
    /\ task[Order[at]] \in {"idle", "done"}
    /\ Go(IF mode = "parallel" THEN "await" ELSE "launch", at + 1)
    /\ UNCHANGED <<mode, args, lateErrors, task, result, file>>

\* The first error, in order, is the answer.
Await ==
    /\ phase = "await" /\ at <= 3
    /\ LET k == Order[at] IN
       \/ /\ task[k] = "idle" \/ result[k] = "ok"
          /\ Go(IF mode = "parallel" THEN "await" ELSE "launch", at + 1)
       \/ /\ task[k] = "done" /\ result[k] # "ok"
          /\ Leave(result[k])
    /\ UNCHANGED <<mode, args, lateErrors, task, result, file>>

Awaited ==
    /\ phase = "await" /\ at = 4
    /\ Leave("ok")
    /\ UNCHANGED <<mode, args, lateErrors, task, result, file>>

\* The futures are of a kind that does not wait.
Return_Detached ==
    /\ phase = "leave"
    /\ phase' = "returned"
    /\ UNCHANGED <<mode, args, lateErrors, at, task, result, file, answer>>

\* The futures that nobody has waited for are destroyed, also by an exception.
Return ==
    /\ phase = "leave"
    /\ \A k \in Outputs : task[k] \in {"idle", "done"}
    /\ phase' = "returned"
    /\ UNCHANGED <<mode, args, lateErrors, at, task, result, file, answer>>

Caller == Begin \/ Skip \/ Launch \/ Launched \/ Await \/ Awaited \/ Return
-----------------------------------------------------------------------------
(* PrintItems, and WriteJsonPayload and WriteYamlPayload.                  *)

Finish(k, with) ==
    /\ task' = [task EXCEPT ![k] = "done"]
    /\ result' = [result EXCEPT ![k] = with]
    /\ UNCHANGED <<mode, args, lateErrors, phase, at, answer>>

Becomes(w, next) ==
    /\ task' = [task EXCEPT ![w] = next]
    /\ UNCHANGED <<mode, args, lateErrors, phase, at, result, answer>>

PrintItems ==
    /\ task["console"] = "begin"
    /\ \E with \in {"ok", "thrown"} : Finish("console", with)
    /\ UNCHANGED file

\* The error of create_directories is noted, but there is no return.
Prepare_NoReturn(w) ==
    /\ task[w] = "begin"
    /\ \/ args.path[w] = Empty /\ Finish(w, "invalid_argument")
       \/ args.path[w] # Empty /\ Becomes(w, "open")
       \/ /\ args.path[w] # Empty
          /\ task' = [task EXCEPT ![w] = "open"]
          /\ result' = [result EXCEPT ![w] = "failed"]
          /\ UNCHANGED <<mode, args, lateErrors, phase, at, answer>>
    /\ UNCHANGED file

\* The check of the path and create_directories.
Prepare(w) ==
    /\ task[w] = "begin"
    /\ \/ args.path[w] = Empty /\ Finish(w, "invalid_argument")
       \/ args.path[w] # Empty /\ Becomes(w, "open")
       \/ args.path[w] # Empty /\ Finish(w, "failed")
    /\ UNCHANGED file

\* The std::ofstream: what was in the file is lost before there is a report.
Open(w) ==
    /\ task[w] = "open"
    /\ \/ Becomes(w, "write") /\ file' = [file EXCEPT ![Target(w)] = "empty"]
       \/ Finish(w, "failed") /\ UNCHANGED file

\* glz::write_json or glz::write_yaml, and stream.fail(); on an error the file
\* keeps what had been written.
Write(w) ==
    /\ task[w] = "write"
    /\ \/ Becomes(w, "close") /\ UNCHANGED file
       \/ Finish(w, "failed") /\ file' = [file EXCEPT ![Target(w)] = "partial"]

\* ~ofstream writes what is still buffered, and if that fails the file is cut and
\* nobody learns it.  A file another writer has filled meanwhile holds pieces of
\* both.
Close(w) ==
    /\ task[w] = "close"
    /\ Finish(w, "ok")
    /\ \/ file' = [file EXCEPT ![Target(w)] = IF file[Target(w)] = "empty" THEN w ELSE "mixed"]
       \/ lateErrors /\ file' = [file EXCEPT ![Target(w)] = "cut"]

Task == PrintItems \/ \E w \in Writers : Prepare(w) \/ Open(w) \/ Write(w) \/ Close(w)

Next == Caller \/ Task

Spec == Init /\ [][Next]_vars
-----------------------------------------------------------------------------
\* Type invariant.  A task is done exactly when it has a result, and a file is
\* empty only between a writer's open and close.
TypeOK ==
    /\ mode \in {"sequential", "parallel"}
    /\ args \in Settings
    /\ lateErrors \in BOOLEAN
    /\ phase \in {"begin", "launch", "await", "leave", "returned"}
    /\ at \in 1 .. 4
    /\ task \in [Outputs -> {"idle", "begin", "open", "write", "close", "done"}]
    /\ result \in [Outputs -> {None, "ok", "failed", "invalid_argument", "thrown"}]
    /\ file \in [Files -> {"old", "empty", "partial", "cut", "mixed"} \cup Writers]
    /\ answer \in {None, "ok", "failed", "invalid_argument", "thrown"}
    /\ \A k \in Outputs : result[k] # None <=> task[k] = "done"
    /\ \A f \in Files : file[f] = "empty" =>
           \E w \in Writers : task[w] \in {"write", "close"} /\ Target(w) = f

Returned == phase = "returned"

\* The two reports go to two files; Args.cpp:155 compares the paths, not what
\* they name.
Apart == Empty \in {args.path[w] : w \in Writers} \/ Target("json") # Target("yaml")

Before(k) == {Order[i] : i \in {j \in 1 .. 3 : \E n \in j + 1 .. 3 : Order[n] = k}}

\* An "ok" promises that every enabled report is whole.
WholeIfOk ==
    answer = "ok" => \A w \in args.write \ {"console"} :
                         args.path[w] # Empty /\ (Apart => file[Target(w)] = w)

\* What a writer's result says of the file it was for, if that is its own.
OwnFileTold(w) ==
    /\ result[w] \in {None, "invalid_argument"} => file[Target(w)] = "old"
    /\ result[w] = "failed" => file[Target(w)] \in {"old", "partial"}
    /\ result[w] = "ok" => file[Target(w)] = w \/ lateErrors

\* The result of WriteReports and ParallelReportsItems.  Where the file system
\* refuses nothing at the close, "ok" means that every enabled report is whole
\* (FailedWriteReported is the same without this condition, and is violated).
\* Wherever it is, an error is that of the first output, in order, that has
\* failed; a report that has failed is as it was or broken off, never whole and
\* never of the other kind, and one that was not begun is as it was.
ReportTells ==
    Returned =>
        /\ ~lateErrors => WholeIfOk
        /\ answer # "ok" =>
               \/ \E k \in Outputs : /\ result[k] = answer
                                     /\ \A j \in Before(k) : result[j] \in {None, "ok"}
               \/ mode = "sequential" /\ args.write = {}
               \/ mode = "parallel" /\ \E w \in Writers : task[w] = "idle"
        /\ \A w \in Writers : Apart /\ args.path[w] # Empty => OwnFileTold(w)

\* What a failure leaves behind.  Written one after the other, the outputs
\* after the first that fails are as before; written in parallel, every one
\* that was launched has come to its end, whatever the answer is, and nothing
\* touches the items, the stream or a file after the call.
FailureConfined ==
    Returned =>
        /\ \A w \in Writers : task[w] \in {"idle", "done"}
        /\ mode = "sequential" =>
               \A k \in Outputs : \A w \in Writers :
                   (k \in Before(w) /\ result[k] \notin {None, "ok"} /\ Apart /\ args.path[w] # Empty) =>
                       file[Target(w)] = "old"

\* How far the caller has come: the outputs before "at" are launched, waited
\* for and not failed, those after it are untouched; a call that leaves has a
\* reason ...
Over(i) == task[Order[i]] \in {"idle", "done"} /\ result[Order[i]] \in {None, "ok"}

SequentialKnown(n) ==
    /\ \A i \in 1 .. 3 : i < n => Over(i) /\ (Order[i] \in args.write => result[Order[i]] = "ok")
    /\ \A i \in 1 .. 3 : i > n => task[Order[i]] = "idle"

CallerKnown ==
    /\ phase = "begin" => \A k \in Outputs : task[k] = "idle"
    /\ mode = "sequential" /\ phase = "launch" =>
           SequentialKnown(at) /\ (at < 4 => task[Order[at]] = "idle")
    /\ mode = "sequential" /\ phase = "await" => at < 4 /\ SequentialKnown(at) /\ task[Order[at]] # "idle"
    /\ mode = "parallel" /\ phase = "launch" =>
           \A i \in 1 .. 3 : task[Order[i]] # "idle" <=> i < at /\ Launches(Order[i])
    /\ mode = "parallel" /\ phase = "await" =>
           \A i \in 1 .. 3 : (task[Order[i]] # "idle" <=> Launches(Order[i])) /\ (i < at => Over(i))

\* ... which it keeps while the tasks that still run come to their ends.
ReasonKnown ==
    phase \in {"leave", "returned"} =>
        \/ answer = "ok" /\ \A i \in 1 .. 3 : Over(i) /\ (Launches(Order[i]) => result[Order[i]] = "ok")
        \/ /\ answer = "invalid_argument" /\ mode = "sequential" /\ args.write = {}
           /\ \A k \in Outputs : task[k] = "idle"
        \/ answer = "thrown" /\ mode = "parallel" /\ task["yaml"] = "idle"
        \/ \E i \in 1 .. 3 : /\ result[Order[i]] = answer /\ answer \notin {None, "ok"}
                             /\ \A j \in 1 .. 3 : j < i => Over(j)
                             /\ mode = "sequential" => \A j \in 1 .. 3 : j > i => task[Order[j]] = "idle"

\* What a writer has done so far to a file of its own.
FileKnown ==
    \A w \in Writers :
        /\ task[w] \in {"open", "write", "close"} \/ result[w] = "ok" => args.path[w] # Empty
        /\ Apart /\ args.path[w] # Empty =>
               /\ task[w] \in {"idle", "begin", "open"} => file[Target(w)] = "old"
               /\ task[w] \in {"write", "close"} => file[Target(w)] = "empty"
               /\ task[w] = "done" => OwnFileTold(w)

\* The inductive invariant.
IndInv == TypeOK /\ CallerKnown /\ ReasonKnown /\ FileKnown

\* IO.hpp:33, 44, 56: "Error code if any write fails".
FailedWriteReported == Returned => WholeIfOk

\* IO.hpp:95: a report is launched "if enabled".
DisabledUntouched ==
    \A w \in Writers \ args.write : (Apart /\ args.path[w] # Empty) => file[Target(w)] = "old"
=============================================================================
