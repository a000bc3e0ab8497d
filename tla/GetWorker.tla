----------------------------- MODULE GetWorker -----------------------------
(***************************************************************************)
(* get_worker of app/main.py as a relation: which provider a call may be   *)
(* given under a configuration.  A configuration is what the process fixed *)
(* at start: WORKER_PROVIDER and WORKER_FALLBACK, Celery's eager mode,     *)
(* and what lifespan left behind (ray.is_initialized() and the number of   *)
(* actors in deepface_workers).                                            *)
(***************************************************************************)
EXTENDS Integers

CONSTANT NumWorkers    \* NUM_WORKERS

ASSUME NumWorkersAssumption == NumWorkers \in Nat

Provider == {"ray", "celery", "kafka", "local", "auto"}

(* lifespan creates the actors only on an initialized Ray, and none when   *)
(* creating them fails.                                                    *)
Config == {c \in [provider : Provider,
                  fallback : BOOLEAN,
                  eager    : BOOLEAN,
                  ray      : BOOLEAN,
                  workers  : {0, NumWorkers}] : c.workers > 0 => c.ray}

RayUsable(cfg) == cfg.ray /\ cfg.workers > 0

(* Kafka's readiness is asked of the broker, so both answers are possible. *)
(* Building a CeleryWorker cannot fail: the last resort of the Kafka chain *)
(* (a LocalWorker) is never handed out.                                    *)
get_worker(cfg) ==
    LET otherwise == IF cfg.fallback THEN {"celery"} ELSE {"unavailable"}
    IN  CASE cfg.provider = "ray"    -> IF RayUsable(cfg) THEN {"ray"} ELSE otherwise
          [] cfg.provider = "celery" -> {"celery"}
          [] cfg.provider = "kafka"  -> {"kafka"} \cup otherwise
          [] cfg.provider = "local"  -> {"local"}
          [] cfg.provider = "auto"   -> IF RayUsable(cfg) THEN {"ray"} ELSE {"celery"}

(* Handing out a Ray actor moves _current_worker_idx on; nothing else does. *)
(* Mutant: the index does not wrap.                                        *)
NextWorkerIdxUnwrapped(cfg, idx, chosen) == IF chosen = "ray" THEN idx + 1 ELSE idx

(* Mutant: the index wraps before the last actor.                          *)
NextWorkerIdxSkippingLast(cfg, idx, chosen) ==
    IF chosen = "ray" THEN (idx + 1) % (cfg.workers - 1) ELSE idx

NextWorkerIdx(cfg, idx, chosen) ==
    IF chosen = "ray" THEN (idx + 1) % cfg.workers ELSE idx
=============================================================================
