---------------------------- MODULE WorkerPool -----------------------------
(***************************************************************************)
(* The Ray actors of app/main.py: created once by lifespan, handed out in  *)
(* turn by get_worker, asked for a ping by /ray/health.  No actor is ever  *)
(* created again or taken out of deepface_workers.                         *)
(*                                                                         *)
(* picked and jobs are history: how often get_worker handed out an actor,  *)
(* and how many jobs were submitted to it.                                 *)
(***************************************************************************)
EXTENDS GetWorker

CONSTANT MaxPicks      \* bound of the model: picks per actor it looks at

ASSUME WorkerPoolAssumption == /\ NumWorkers > 0
                               /\ MaxPicks \in Nat

VARIABLES idx,          \* _current_worker_idx
          alive,        \* the actors whose process runs
          unreachable,  \* what the last /ray/health reported
          picked, jobs

vars == <<idx, alive, unreachable, picked, jobs>>

Workers == 0 .. NumWorkers - 1

(* A server that found Ray; the fallback never matters to it.              *)
cfg == [provider |-> "ray", fallback |-> TRUE, eager |-> TRUE,
        ray |-> TRUE, workers |-> NumWorkers]

TypeOK == /\ idx \in Workers
          /\ alive \subseteq Workers
          /\ unreachable \subseteq Workers
          /\ picked \in [Workers -> Nat]
          /\ jobs \in [Workers -> Nat]

(* lifespan: [RayWorker.remote() for _ in range(num_workers)]              *)
Init == /\ idx = 0
        /\ alive = Workers
        /\ unreachable = {}
        /\ picked = [w \in Workers |-> 0]
        /\ jobs = [w \in Workers |-> 0]

-----------------------------------------------------------------------------
(* get_worker hands out deepface_workers[_current_worker_idx % len].       *)
Picked == idx % NumWorkers

Pick == /\ "ray" \in get_worker(cfg)
        /\ picked[Picked] < MaxPicks
        /\ picked' = [picked EXCEPT ![Picked] = @ + 1]
        /\ idx' = NextWorkerIdx(cfg, idx, "ray")

(* _call of a task endpoint: worker.<method>.remote(...) goes through even *)
(* when the actor is dead, the failure comes with ray.get.                 *)
SubmitJob == /\ Pick
             /\ jobs' = [jobs EXCEPT ![Picked] = @ + 1]
             /\ UNCHANGED <<alive, unreachable>>

(* /batch-analyze takes a worker and breaks before it gives it anything.   *)
SkipInBatch == Pick /\ UNCHANGED <<jobs, alive, unreachable>>

ActorDies(w) == /\ w \in alive
                /\ alive' = alive \ {w}
                /\ UNCHANGED <<idx, unreachable, picked, jobs>>

(* Every actor is pinged for two seconds at most: a dead one is always     *)
(* reported, a busy one may be.  The report changes nothing else.          *)
ray_health == /\ \E busy \in SUBSET alive :
                    unreachable' = (Workers \ alive) \cup busy
              /\ UNCHANGED <<idx, alive, picked, jobs>>

Next == \/ SubmitJob
        \/ SkipInBatch
        \/ \E w \in Workers : ActorDies(w)
        \/ ray_health

Spec == Init /\ [][Next]_vars

-----------------------------------------------------------------------------
(***************************************************************************)
(* Round robin: however requests interleave, no actor is handed out more   *)
(* than once more often than another.                                      *)
(***************************************************************************)
PicksBalanced == \A v, w \in Workers : picked[v] <= picked[w] + 1
=============================================================================
