---------------------------- MODULE MCWorkerLife ----------------------------
(* An async log, a log with a worker of its own, and one thread of each kind  *)
(* beside the workers.                                                       *)
EXTENDS WorkerLife
=============================================================================
