----------------------------- MODULE MCDispatch -----------------------------
(* Dispatch on small instances: two requests at a time, small settings for *)
(* the breakers.                                                           *)
EXTENDS Dispatch, TLC

Conf(provider, fallback, eager, ray, workers) ==
    [provider |-> provider, fallback |-> fallback, eager |-> eager,
     ray |-> ray, workers |-> workers]

(* One configuration for each way get_worker, Celery and /models can       *)
(* behave; every other one acts like one of these ("celery" like a "ray"   *)
(* whose actors are missing, "auto" like "ray" with the fallback).         *)
RayConfigs == {Conf("ray", TRUE, TRUE, TRUE, NumWorkers),
               Conf("ray", FALSE, TRUE, FALSE, 0)}
CeleryConfigs == {Conf("ray", TRUE, TRUE, FALSE, 0),
                  Conf("auto", TRUE, TRUE, TRUE, 0),
                  Conf("celery", TRUE, FALSE, FALSE, 0)}
KafkaConfigs == {Conf("kafka", f, e, FALSE, 0) : f \in BOOLEAN, e \in BOOLEAN}
DistinctConfigs == RayConfigs \cup CeleryConfigs \cup KafkaConfigs
                   \cup {Conf("local", TRUE, TRUE, FALSE, 0)}

Symm == Permutations(Slots)
=============================================================================
