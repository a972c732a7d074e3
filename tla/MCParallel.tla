----------------------------- MODULE MCParallel -----------------------------
(* Lists of none to three elements, on pools of one to three threads and on *)
(* the default pool of two; a task ends with a value or with an exception.  *)
EXTENDS Parallel

CONSTANTS ok, exc

MCTaskCounts == 0..3
MCWorkerCounts == 0..3
MCResults == {ok, exc}
=============================================================================
