------------------------- MODULE MCDatabaseExecutor -------------------------
(* Model values for DatabaseExecutor: two calls of each kind.              *)
EXTENDS DatabaseExecutor

CONSTANTS s1, s2, a1, a2

MCJobs == {s1, s2, a1, a2}
MCAsyncJobs == {a1, a2}
=============================================================================
