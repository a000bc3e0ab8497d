---------------------------- MODULE MCWorkerPool ----------------------------
(* Three actors, so that an uneven round has a first, a middle and a last. *)
EXTENDS WorkerPool
=============================================================================
