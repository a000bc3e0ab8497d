---------------------------- MODULE TaskRegistry ---------------------------
(***************************************************************************)
(* The task registry of app/tasks.py (_TASKS, the register functions,      *)
(* KafkaWorker._send and get_task_status) with the three backends it       *)
(* polls: Ray's object references, Celery's result backend and the Kafka   *)
(* response topic read by one consumer for all tasks.                      *)
(*                                                                         *)
(* get_task_status never awaits, so a query is one step.  The registry is  *)
(* in memory: a restart empties it, the jobs go on.                        *)
(***************************************************************************)
EXTENDS Integers, Sequences, FiniteSets

CONSTANTS RayTasks, CeleryTasks, KafkaTasks, LocalTasks,
          MaxResponses,   \* bound of the model: the length of the response
                          \* topic up to which workers repeat a response
          MaxRestarts,    \* bound of the model: restarts of the server
          MaxTasks        \* bound of the model: the tasks a run has room for

Tasks == RayTasks \cup CeleryTasks \cup KafkaTasks \cup LocalTasks

ASSUME RegistryAssumption ==
    /\ MaxResponses \in Nat /\ MaxRestarts \in Nat /\ MaxTasks \in Nat
    /\ RayTasks \cap (CeleryTasks \cup KafkaTasks \cup LocalTasks) = {}
    /\ CeleryTasks \cap (KafkaTasks \cup LocalTasks) = {}
    /\ KafkaTasks \cap LocalTasks = {}

VARIABLES
    entry,       \* _TASKS, by task
    job,         \* the job behind each task, where it runs
    responses,   \* the Kafka response topic: the task each message names
    position,    \* the consumer's position: messages it has fetched
    committed,   \* the consumer group's committed offset
    restarts,
    told         \* history: the status the client of a task was given last

vars == <<entry, job, responses, position, committed, restarts, told>>

Nobody == "nobody"

(* whose: the job an entry's "result" came from.                           *)
Absent  == [status |-> "not_found", whose |-> Nobody]
Pending == [status |-> "pending", whose |-> Nobody]
Success(t) == [status |-> "success", whose |-> t]

TypeOK ==
    /\ entry \in [Tasks -> [status : {"not_found", "pending", "success", "error"},
                            whose : Tasks \cup {Nobody}]]
    /\ job \in [Tasks -> {"none", "running", "ok", "failed", "gone"}]
    /\ responses \in Seq(KafkaTasks)
    /\ position \in 0 .. Len(responses)
    /\ committed \in 0 .. position
    /\ restarts \in 0 .. MaxRestarts
    /\ told \in [Tasks -> {"nothing", "pending", "success", "error", "not_found"}]

Init == /\ entry = [t \in Tasks |-> Absent]
        /\ job = [t \in Tasks |-> "none"]
        /\ responses = <<>>
        /\ position = 0
        /\ committed = 0
        /\ restarts = 0
        /\ told = [t \in Tasks |-> "nothing"]

-----------------------------------------------------------------------------
(* Submission.  The client learns of the task when it is registered.       *)

New(t) == job[t] = "none" /\ Cardinality({u \in Tasks : job[u] # "none"}) < MaxTasks

(* register_ray_ref, register_celery_task, and _send with its              *)
(* register_kafka_task: the job is out, the entry is pending.              *)
Submit(t) ==
    /\ t \notin LocalTasks
    /\ New(t)
    /\ job' = [job EXCEPT ![t] = "running"]
    /\ entry' = [entry EXCEPT ![t] = Pending]
    /\ told' = [told EXCEPT ![t] = "pending"]
    /\ UNCHANGED <<responses, position, committed, restarts>>

(* The broker took the message and its confirmation was late: _send or     *)
(* .delay raises, nothing is registered, no client hears of the task.      *)
SubmitUnconfirmed(t) ==
    /\ t \in CeleryTasks \cup KafkaTasks
    /\ New(t)
    /\ job' = [job EXCEPT ![t] = "running"]
    /\ UNCHANGED <<entry, responses, position, committed, restarts, told>>

(* register_local_result: the work was done in the request.                *)
FinishLocal(t) ==
    /\ t \in LocalTasks
    /\ New(t)
    /\ job' = [job EXCEPT ![t] = "ok"]
    /\ entry' = [entry EXCEPT ![t] = Success(t)]
    /\ told' = [told EXCEPT ![t] = "success"]
    /\ UNCHANGED <<responses, position, committed, restarts>>

-----------------------------------------------------------------------------
(* The backends.                                                           *)

(* A worker ends the job; a Kafka worker answers on the response topic.    *)
JobEnds(t) ==
    /\ job[t] = "running"
    /\ \E outcome \in {"ok", "failed"} : job' = [job EXCEPT ![t] = outcome]
    /\ responses' = IF t \in KafkaTasks THEN Append(responses, t) ELSE responses
    /\ UNCHANGED <<entry, position, committed, restarts, told>>

(* A Kafka worker delivers at least once: it may answer again.             *)
RespondAgain(t) ==
    /\ t \in KafkaTasks
    /\ job[t] \in {"ok", "failed"}
    /\ Len(responses) < MaxResponses
    /\ responses' = Append(responses, t)
    /\ UNCHANGED <<entry, job, position, committed, restarts, told>>

(* Ray loses the object behind a reference; Celery's result expires.       *)
ResultGone(t) ==
    /\ t \in RayTasks \cup CeleryTasks
    /\ job[t] \in {"ok", "failed"}
    /\ job' = [job EXCEPT ![t] = "gone"]
    /\ UNCHANGED <<entry, responses, position, committed, restarts, told>>

(* The consumer's periodic auto-commit.                                    *)
Commit == /\ committed # position
          /\ committed' = position
          /\ UNCHANGED <<entry, job, responses, position, restarts, told>>

(* Polls further apart than max_poll_interval_ms: the consumer leaves the  *)
(* group and goes on from the committed offset when it is back.            *)
Rejoin == /\ position # committed
          /\ position' = committed
          /\ UNCHANGED <<entry, job, responses, committed, restarts, told>>

-----------------------------------------------------------------------------
(* get_task_status, by backend.  Fail keeps an earlier result in the       *)
(* entry, as entry.update does.                                            *)
Fail(e) == [e EXCEPT !.status = "error"]

(* ray.wait is ready and ray.get returns, or raises: the job raised, its   *)
(* actor died, or the object is lost.  Asked again at every query.         *)
(* Mutant: what ray.get raises is not caught into the entry.               *)
RayEntryOfSuccessOnly(t) == IF job[t] = "ok" THEN Success(t) ELSE entry[t]

RayEntry(t) == CASE job[t] = "ok" -> Success(t)
                 [] job[t] \in {"failed", "gone"} -> Fail(entry[t])
                 [] OTHER -> entry[t]

(* ar.successful(), ar.failed(), or PENDING, which is also what Celery     *)
(* says of a result it no longer has.                                      *)
(* Mutant: Celery's PENDING is written to the entry.                       *)
CeleryEntryAsReported(t) == CASE job[t] = "ok" -> Success(t)
                              [] job[t] = "failed" -> Fail(entry[t])
                              [] OTHER -> Pending

CeleryEntry(t) == CASE job[t] = "ok" -> Success(t)
                    [] job[t] = "failed" -> Fail(entry[t])
                    [] OTHER -> entry[t]

(* The messages of one consumer.poll.                                      *)
(* Mutant: the first message of every poll is skipped.                     *)
FetchedAfterFirst(n) == {responses[i] : i \in position + 2 .. position + n}

Fetched(n) == {responses[i] : i \in position + 1 .. position + n}

(* Every message fetched is looked at for this task only, and counts as    *)
(* "success" whatever it says.                                             *)
(* Mutant: the task_id of a message is not compared.                       *)
KafkaEntryOfAnyTask(t, n) ==
    IF Fetched(n) # {} THEN Success(CHOOSE u \in Fetched(n) : TRUE) ELSE entry[t]

KafkaEntry(t, n) == IF t \in Fetched(n) THEN Success(t) ELSE entry[t]

(* poll(timeout_ms=5) brings any number of the messages that are there.    *)
Polls(t) == IF t \in KafkaTasks THEN 0 .. Len(responses) - position ELSE {0}

Looked(t, n) == CASE t \in RayTasks    -> RayEntry(t)
                  [] t \in CeleryTasks -> CeleryEntry(t)
                  [] t \in KafkaTasks  -> KafkaEntry(t, n)
                  [] t \in LocalTasks  -> entry[t]

(* The whole of get_task_status, for the client of a registered task.      *)
Query(t, n) ==
    /\ entry[t].status # "not_found"
    /\ entry' = [entry EXCEPT ![t] = Looked(t, n)]
    /\ told' = [told EXCEPT ![t] = entry'[t].status]
    /\ position' = position + n
    /\ UNCHANGED <<job, responses, committed, restarts>>

(* A client asks for a task the server has forgotten.                      *)
QueryForgotten(t) ==
    /\ told[t] # "nothing"
    /\ entry[t].status = "not_found"
    /\ told' = [told EXCEPT ![t] = "not_found"]
    /\ UNCHANGED <<entry, job, responses, position, committed, restarts>>

(* A new process: no registry, and a consumer at the committed offset.     *)
(* Mutant: a new consumer starts at the beginning of the topic.            *)
RestartFromEarliest ==
    /\ restarts < MaxRestarts
    /\ restarts' = restarts + 1
    /\ entry' = [t \in Tasks |-> Absent]
    /\ position' = 0
    /\ UNCHANGED <<job, responses, committed, told>>

Restart ==
    /\ restarts < MaxRestarts
    /\ restarts' = restarts + 1
    /\ entry' = [t \in Tasks |-> Absent]
    /\ position' = committed
    /\ UNCHANGED <<job, responses, committed, told>>

-----------------------------------------------------------------------------
Ask(t) == QueryForgotten(t) \/ \E n \in Polls(t) : Query(t, n)

(* A query whose poll brings everything there is.                          *)
AskAll(t) == QueryForgotten(t) \/ Query(t, IF t \in KafkaTasks
                                           THEN Len(responses) - position ELSE 0)

Next == \/ \E t \in Tasks : \/ Submit(t)
                            \/ SubmitUnconfirmed(t)
                            \/ FinishLocal(t)
                            \/ JobEnds(t)
                            \/ RespondAgain(t)
                            \/ ResultGone(t)
                            \/ Ask(t)
        \/ Commit
        \/ Rejoin
        \/ Restart

Spec == Init /\ [][Next]_vars

(***************************************************************************)
(* Workers end their jobs, clients keep asking, and a poll brings the      *)
(* messages now and then; nothing makes a result disappear.                *)
(***************************************************************************)
FairSpec == Spec /\ \A t \in Tasks : WF_vars(JobEnds(t)) /\ WF_vars(AskAll(t))

-----------------------------------------------------------------------------
(***************************************************************************)
(* A "success" carries the result of the task's own job, never that of     *)
(* another task whose response was fetched by the same poll, and that job  *)
(* ended.  Only a Kafka job may have failed.                               *)
(***************************************************************************)
SuccessIsOwn ==
    \A t \in Tasks :
        entry[t].status = "success" =>
            /\ entry[t].whose = t
            /\ job[t] \in {"ok", "gone"} \cup IF t \in KafkaTasks THEN {"failed"} ELSE {}

(***************************************************************************)
(* A final answer is final: once told "success" or "error" a client is not *)
(* told otherwise while the server runs, except that a Ray success turns   *)
(* into an error when Ray lost the object.                                 *)
(***************************************************************************)
FinalAnswersStand ==
    [][\A t \in Tasks :
          told[t] \in {"success", "error"} /\ told'[t] # told[t] =>
              \/ told'[t] = "not_found" /\ restarts > 0
              \/ told'[t] = "error" /\ t \in RayTasks /\ job[t] = "gone"]_vars

(***************************************************************************)
(* The registry, the three backends and the polling of them do what        *)
(* TaskLifecycle promises.                                                 *)
(***************************************************************************)
VerdictOf(t) == CASE job[t] \in {"none", "running"} -> "undecided"
                  [] job[t] = "ok" -> "ok"
                  [] job[t] = "failed" -> "failed"
                  [] job[t] = "gone" -> "lost"

Lifecycle == INSTANCE TaskLifecycle
                 WITH verdict <- [t \in Tasks |-> VerdictOf(t)],
                      Honest <- Tasks \ KafkaTasks

LifecycleSpec == Lifecycle!Spec

(***************************************************************************)
(* A client that keeps asking about a Ray or Celery task ends up with an   *)
(* answer, or with not_found after a restart; the answer can be missed     *)
(* only when Celery's result has expired, never when Ray lost it.          *)
(***************************************************************************)
ResultsResolve ==
    \A t \in RayTasks \cup CeleryTasks :
        told[t] = "pending" ~>
            \/ told[t] \in {"success", "error", "not_found"}
            \/ t \in CeleryTasks /\ job[t] = "gone"

(***************************************************************************)
(* So does the client of a Kafka task as long as no other client has one:  *)
(* its response is fetched by a query of its own, whatever answers to jobs *)
(* nobody was told of stand beside it, across rejoins and restarts.        *)
(***************************************************************************)
Unshared(t) == \A u \in KafkaTasks \ {t} : told[u] = "nothing"

LoneKafkaTaskResolves ==
    \A t \in KafkaTasks :
        told[t] = "pending" ~>
            told[t] \in {"success", "error", "not_found"} \/ ~Unshared(t)

(***************************************************************************)
(* What that rests on: no poll takes its response away without the waiting *)
(* client hearing of it.  When the job has ended and the entry is pending  *)
(* still, there is a response to it the consumer has yet to fetch.         *)
(***************************************************************************)
LoneResponseAwaits ==
    \A t \in KafkaTasks :
        Unshared(t) /\ entry[t].status = "pending" /\ job[t] \in {"ok", "failed"} =>
            \E i \in position + 1 .. Len(responses) : responses[i] = t

-----------------------------------------------------------------------------
(* KafkaWorker's docstring: it "relies on get_task_status to poll          *)
(* results".  A Kafka task whose client keeps asking is resolved.          *)
KafkaTasksResolve ==
    \A t \in KafkaTasks :
        told[t] = "pending" ~> told[t] \in {"success", "error", "not_found"}
=============================================================================
