--------------------------- MODULE MCTaskRegistry --------------------------
(* The registry with tasks on every backend, two of them on Kafka, so that *)
(* a poll for one can fetch the response of the other.                     *)
EXTENDS TaskRegistry
=============================================================================
