# DeepFace Ray API: a TLA+ model

This directory models the server in `src/app` (FastAPI handlers that hand face
recognition jobs to Ray actors, Celery, Kafka workers or the process itself),
checks it with TLC on small instances and proves its main safety properties
with TLAPS for every instance. All line numbers are those of `src/`.

## 1. The system

### 1.1 Components

| Component | Where | State | Operations | Modelled in |
|---|---|---|---|---|
| Circuit breaker, `retry_call` | `app/reliability.py` | per breaker: state, failure count, time of the last failure, half-open successes | `call` (`_can_attempt`, `func`, `on_success` / `on_failure`), `retry_call` | `BreakerOps`, `CircuitBreaker`, `Dispatch` |
| Provider selection, Ray pool | `app/main.py:51-236` | `deepface_workers`, `_current_worker_idx`, the configuration | `lifespan`, `get_worker`, `/ray/health` | `GetWorker`, `WorkerPool` |
| Task endpoints | `app/main.py:264-831` | the four shared breakers `cb_*`; per request what its coroutine holds | `/verify`, `/analyze`, `/find`, `/extract-embedding`, `/batch-analyze`, `/models` | `Dispatch` |
| Task registry and polling | `app/tasks.py:29-211, 814-905`, `GET /tasks/{id}` | `_TASKS`, the Kafka consumer and its position | `register_*`, `KafkaWorker._send`, `get_task_status` | `TaskRegistry`, against `TaskLifecycle` |
| Workers | `app/tasks.py:214-811, 909-941` | none between jobs | `LocalWorker`: verify, analyze, find, extract; `RayWorker`, the Celery tasks and `CeleryWorker` hand a job on | `LocalWorker`; the others by their outcomes, in `Dispatch` |
| Secure endpoints | `app/main.py:833-1004` | none of their own | `/secure/verify`, `/secure/analyze` (wait for the result) | `Dispatch` |
| Rate limiter | `app/security.py:104-163` | hits per key, in memory or in Redis | `rate_limit` | `RateLimiter`, against `SlidingWindow` |
| Authentication, roles | `app/auth.py`, `app/security.py:20-101` | the settings; tokens are in their holders' hands | `/auth/token`, `/auth/refresh`, `require_jwt_or_api_key` | `Access` |
| Upload validation | `app/utils.py` | none | `process_uploaded_file` | accepted / refused in `Dispatch` |
| Request signing | `app/signing.py` | none | middleware, off by default | not modelled |
| Encryption, schemas, errors, headers, logs, audit, start-up | the other files | none that matters here | | not modelled |

### 1.2 How they interact

One process, one event loop. A task endpoint reads its uploads (its only
awaits), then runs `retry_call(lambda: cb.call(_call))` on the loop's own
thread. `_call` asks `get_worker` for a provider, hands the job over (or runs
it) and registers a task in `_TASKS`. The client gets the task's id and polls
`GET /tasks/{id}`, where `get_task_status` asks the backend that has the job.
A secure endpoint waits for the result inside `_call` instead and gives out no
task. Whatever the backend, the work itself is done by a `LocalWorker`. In front
of every handler are two dependencies: who is asking, and how often.
The endpoints meet in three shared places: the breakers (`cb_analyze` serves
`/analyze`, `/batch-analyze`, `/models` and `/secure/analyze`), the rotation
index of the Ray actors, and the registry with its single Kafka consumer.

### 1.3 What is hard about it

- **Who holds the loop.** The sleep between two attempts is `time.sleep`: no
  other handler runs between two attempts of a request, but other requests run
  between its upload and its call. What another request can do to a breaker in
  the middle of a call depends on this.
- **Retries of work that may have been accepted.** A publish can time out after
  the broker took it; the attempt fails, the job runs, and the retry, or the
  Kafka branch's own fallback to Celery, starts it again.
- **The last exception wins.** `retry_call` lets out the last exception, so a
  503 of the second attempt can hide the error of the first.
- **One consumer for all Kafka tasks.** A query looks for its own task only;
  every other response it fetches is dropped.
- **Registry in memory, jobs elsewhere.** A restart forgets tasks whose jobs go
  on, and moves the consumer back to its committed offset.
- **Backends that forget.** Ray loses objects, Celery's results expire and are
  then reported as PENDING.
- **Waiting on the loop.** A secure endpoint waits for its result without giving
  up the loop: ten seconds for Celery or Kafka, without limit for Ray. Its 504 is
  raised inside `_call`, hence retried, counted by the breaker, and answered 500;
  `KafkaWorker` has meanwhile registered a task no client will ask for.
- **Two ways of counting.** The in-memory limiter counts admissions, the Redis
  limiter calls; both must keep to the same window, and `Retry-After`, which is
  whole seconds, must lead somewhere.
- **Fallback upon fallback.** A failed call of DeepFace is tried with two more
  encodings and four more detectors, and verify then goes through two such chains
  again for the embeddings.
- **Sessions without a session store.** A token stands for itself; refreshing one
  copies its role, and the two kinds of token share a secret by default.
- **Breaker bookkeeping.** State, failure count and probe count are updated by
  different methods and must stay in step through every sequence of calls.

`PROJECT.json` lists each hazard at its line, with the properties that cover it.

### 1.4 What makes each component correct

| Component | Properties |
|---|---|
| Circuit breaker | closed exactly below the threshold; probes counted are consecutive; no call through an open breaker; closing is earned; it behaves like a breaker with one mode and one count, shared or not; it recovers once the service is healthy |
| Ray pool | actors are handed out evenly, the least used next |
| Task endpoints | one task per 200 and none behind a 500 or 503; a 503 hides only an error of the same request; bounded duplicate work; the loop is held by the caller only and given back; every request is answered |
| Task registry | nobody is given another task's result; final answers stand; the registry implements the task life cycle; the response of a Kafka task is never taken unheard while no other client has one; results are found by clients that keep asking |
| Secure endpoints | entries left behind are Kafka's only, one per job handed over; duplicate work and hidden errors as above |
| Rate limiter | never more than `limit` admissions in a window; a client that heeds `Retry-After` is refused twice at most; nobody is refused without cause |
| LocalWorker | a job is given up only when every way was tried, no way twice; find's ranking is the whole list, sorted and stable; every step leaves fewer ways to try, and every job ends |
| Authentication | sessions end when their users were told they would, whatever settings a restart brings; roles are kept through refreshes |

## 2. Modules

```
BreakerOps ──── CircuitBreaker ──── MCCircuitBreaker
     │              └ CircuitBreaker_proofs
     ├ BreakerOps_proofs ───────────┐
     └──── Dispatch ─────────────── Dispatch_proofs
GetWorker ──┘  │  └ MCDispatch
     └── WorkerPool ── MCWorkerPool, WorkerPool_proofs
BreakerPromise ⇐ CircuitBreaker, and ⇐ Dispatch for each of its breakers
TaskLifecycle ⇐ TaskRegistry ── MCTaskRegistry, TaskRegistry_proofs
LimiterOps ── RateLimiter ── MCRateLimiter, RateLimiter_proofs
SlidingWindow ⇐ ┘  └ RedisWindow
LocalWorker ── MCLocalWorker, LocalWorker_proofs
Access ── MCAccess, Access_proofs
```

An arrow ⇐ is a refinement, checked by TLC and proved.

**`BreakerOps`**: the methods of `CircuitBreaker` as operators on one breaker
record, shared by the two modules below. `failure_count` saturates at the
threshold, the only value it is compared with; `since` is the time since the
last failure, saturated at `recovery_timeout_sec`.

**`BreakerPromise`**: what a breaker promises its callers, with a mode, one
count and whether a call is inside. The count is the failures since the last
success while closed, the time since the last failure while open, and the
probes that succeeded while half-open; each change of mode starts it again.
`Evidence` of `BreakerOps` reads it off the three fields of the code. A call is
let in and comes out (`Enter`, `Exit`), or is one step (`Call`), as callers see
it who share an event loop.

**`CircuitBreaker`**: one breaker in use. `Enter` is `_can_attempt` answering
True, `Succeed` / `Fail` the end of `func` with `on_success` / `on_failure`;
`Tick` and `HealthChanges` are the clock and the protected service. The history
variable `streak` counts consecutive successes. It implements `BreakerPromise`
(`KeepsPromise`).

**`GetWorker`**: `get_worker` as a relation: the providers a call may be given
under a configuration, and the index it leaves.

**`WorkerPool`**: the actors' rotation. `SubmitJob` is a task endpoint,
`SkipInBatch` a `/batch-analyze`, which takes an actor from the rotation and
then breaks on the pair `get_worker` returns.

**`Dispatch`**: the handlers, composed of the two above. A request is a record;
`Arrive` is a request past the checks in front of the handler, `RejectOversize`,
`RejectUpload` and `FailBatch` the ways to be turned away before the call,
`StartCall` takes the loop, `CallRejected`, `CallSucceeds` and `CallFails` are
one attempt of `retry_call` each, the wrap-up of the last one included. What one
run of `_call` can come to is the set `CallRuns(ep)`: exception, backend named
in the metadata, jobs handed to other processes (the Kafka branch with its own
fallback to Celery included). `handler(ep)` says what tells the handlers
apart; those whose `work` is "task" register a task, those whose `work` is
"wait" (the secure ones) wait for the result: `AwaitOn` has what their `_call`
can come to, `WaitEnds` a wait without a result, which is the 504 or, on Kafka,
what `get_task_status` raises meanwhile. Each of its breakers implements `BreakerPromise`
by itself (`BreakersKeepPromise`), no matter who shares it.

**`TaskLifecycle`**: what polling promises, whatever runs the task: a client is
told later and later statuses; a success only of a job that ended, and ended
well where the backend can tell; an error only of a job that failed or whose
result is lost. Kafka is left out of `Honest`, because any response makes the
entry a success.

**`TaskRegistry`**: `_TASKS`, the jobs on their backends, the Kafka response
topic and the consumer. `Submit`, `SubmitUnconfirmed` and `FinishLocal` are the
register functions on their way through a handler; `Query` is the whole of
`get_task_status`, which never awaits; `Commit`, `Rejoin` and `Restart` are the
consumer's and the server's. `MaxTasks` bounds the jobs of a run, so that any two
tasks of different backends can be checked together. It implements `TaskLifecycle` under the mapping
of `Lifecycle` (the verdict is read off the job, `told` is `told`).

**`SlidingWindow`**: what a limiter promises, as a log of the youngest `Limit`
admissions of each key: the next admission waits until the oldest has left the
window.

**`LimiterOps`**: the two limiters as operators on what they keep for one key: a
deque of ages, and a counter with the time since its expiry was set. A second is
two ticks, so that ages can fall between the whole seconds of `Retry-After`.

**`RateLimiter`**: `rate_limit` in a process that has one of the two (`backend`),
with clients that heed `Retry-After` (`Patient`) and others, Redis failing
before or after it counted (`RedisFails`), and restarts that choose the limiter
anew. It implements `SlidingWindow`; `recent` is the history that is compared.
`refused` counts the refusals a client met in a row, through restarts, as a
client that waits does not know of them.

**`RedisWindow`**: `RateLimiter` with the time since each counter of Redis was
created (`opened`), to hold `_RedisLimiter` against the fixed window that its
comment names.

**`LocalWorker`**: one job at a time through the stages of the code. `CallFails`
is an exception of the kind the worker catches, followed by the next encoding,
the next detector, or giving up; `CallRaises` any other exception; `Verifies`,
`Analyzes`, `EmbedsQuery` and `EmbedsImage` are calls that answer. `Compared`
appends a comparison and goes on to the next image of find, or ends the job with
the ranking. `Place` is the place `list.sort` gives an item.

**`Access`**: the tokens in the world, and how each request ends. `LogIn` and
`Renew` are the two routes of `auth.py`, `Request(e, b, k)` is
`require_jwt_or_api_key` for a route of sort `e`, a bearer token `b` and a key
`k`, either possibly missing. `Restart` may change every setting: the flags, the
secrets, the lives of tokens and the list of keys. `promised` is what is left of
the longest `expires_in` and `refresh_expires_in` a user was told: a shorter life
after a restart does not shorten the tokens that are out, and is not meant to.

The operators marked *Mutant* are small wrong variants of the definition that
follows them (a dropped guard, a missing reset). Substituted for it they make a
run fail, which shows that the property of that run depends on the detail.

## 3. Runs

| Run | Question | Bounds |
|---|---|---|
| `circuit_breaker` | One breaker: coherence, earned recovery, the abstract breaker implemented, liveness | the real settings of `main.py`: 3 failures, 30 ticks, 2 probes |
| `dispatch` | The safety of the handlers | 2 requests; `/analyze`, `/models`, `/batch-analyze`, `/secure/analyze` (one breaker) and `/find`; all distinct configurations; threshold 2, timeout 1, 2 probes |
| `dispatch_live` | Is every request answered, and the loop given back? Does a breaker that two endpoints share implement the abstract one? | 2 requests to `/models` and `/secure/analyze`, the Ray configurations |
| `worker_pool` | Is the rotation even? | 3 actors, 3 picks each |
| `task_results` | Are results never swapped, do final answers stand, is the life cycle implemented, does a response await its client while the consumer is not shared, do clients that keep asking get an answer? | a Ray, a Celery, a local and two Kafka tasks, any 2 of them in a run; topic of 3, 1 restart |
| `rate_limiter` | Do both limiters keep the window, refuse only with cause, and let a patient client in? | limit 2, window of 2 seconds (4 ticks), 1 patient and 1 impatient client |
| `local_worker` | Is every way tried once before a job is given up, is the ranking honest, does each step leave less to do, does every job end? | the fallback list of the code, a request for one of the list and for another detector, 1 to 3 images, distances 0 and 1 |
| `access` | Do sessions end when promised, and roles last? | 2 users, 2 keys (one with an unknown role), 2 secrets, lives of 0 or 1 and of 1 or 2 ticks that change at restarts, 3 live tokens |

Why these bounds are enough to be interesting:

- Two requests are the fewest that can meet at a breaker or at the loop, and
  slots are reused, so any number of requests follow one another. The threshold
  of 2 lets a two-attempt request open a breaker alone or finish what another
  one began; 2 probes let a failure come between them. `/analyze`, `/models`,
  `/batch-analyze` and `/secure/analyze` share `cb_analyze` and make 2, 3, 0 and 2
  calls, the last ones waiting; `/find` has a breaker of its own and a cap. The
  other endpoints differ from these by the breaker's name only.
- `MCDispatch` names one configuration for each way `get_worker`, Celery and
  `/models` can behave; the remaining ones act like one of these. Symmetry over
  the slots is used in the safety run only.
- Three actors give a round a first, a middle and a last. `MaxPicks` bounds the
  history counters; the index wraps three times.
- Two tasks are enough for a query to meet the other's response, entry or job,
  and every pair of backends occurs, two Kafka tasks included; `MaxTasks` leaves
  the rest unsubmitted. Three messages let a response be repeated beside a
  stranger's, one restart lets the consumer go back and the registry be empty.
  `MaxResponses` bounds repeats only: a job's first response is always written.
- A limit of 2 gives a deque a first and a last entry; a window of 2 seconds has
  room for `Retry-After` values of 1 and 2 and for ages between them. Two keys
  show that they do not touch each other. `MaxRefused` is one more than the
  refusals that `PatientClientGetsIn` allows.
- `MCLocalWorker` has the code's own fallback list. A detector of the list is
  skipped at its second place, one outside it makes the chain longest. Three
  images and two distances give ties in every position; library and default
  threshold differ (0 and 1), so that a list can mix verdicts.
- In `MCAccess` access tokens live 0 or 1 ticks and refresh tokens 1 or 2: either
  kind can outlive the other's life, a restart can shorten or lengthen both while
  tokens are out, and a refresh token can be used before and after its access
  token died. Two secrets can be shared, kept or swapped at a restart. `MaxTokens`
  lets one more token live beside a pair. Which keys are listed is fixed in this
  run; that a restart may change the list is covered by the proofs.

Deadlock is checked in every run but two kinds: those of `TaskRegistry`, where
everything can be over (publishes that were never confirmed leave no client that
polls), and `local_worker`, for a `LocalWorker` need not be given another job.

### 3.1 Statements of the documents that the code does not keep

Each of these runs checks one statement and ends with a counterexample.

| Run | Statement | What the code does |
|---|---|---|
| `overflow_reply` | CHANGELOG 1.7.0: list overflows are answered 422 | `HTTPException(422)` is raised inside the handler's `try`, whose `except Exception` answers 500 |
| `batch_processing` | README: batch processing | `/batch-analyze` uses the pair returned by `get_worker` as the worker and answers 500 |
| `redis_window` | `_RedisLimiter` (`security.py:126`): a fixed window, by INCR with EXPIRE | every call sets the expiry anew, a refused one too: a key that was refused stays refused as long as its client calls within each window |
| `kafka_shared_consumer` | `KafkaWorker`: relies on `get_task_status` to poll results | a query for one task drops the response of another, which stays pending for ever |

Three more disagreements are seen in the models but have no run of their own.
README:195-196 speaks of requests distributed across *available* workers, with
automatic recovery; `get_worker` hands out dead actors in turn and none is ever
created again (`ActorDies` and `ray_health` leave `idx` alone). CHANGELOG:63
promises a fallback "then to Local if needed"; with `CELERY_EAGER=false`
`RunKafka` has no run that reaches the local worker after a Celery publish
failed as well. CHANGELOG:143 says that either JWT or API key can authorize
access; with both enabled, a recognised token of another role is answered 403
(`security.py:76-78`) although the key beside it would do: `Considered` looks at
the key only when no token was recognised.

The model shows more that no document speaks about, so no run states it:
`/tasks/{id}` allows viewers only, so an operator who submits a task may not poll it;
`/models`, which only reads lists, is turned away after failures of `/analyze`
and `/batch-analyze`'s breaker is the same one; a `ValueError` for an image
without a face counts as a failure of the service; the Kafka branch of `_call`
goes on to Celery whatever `WORKER_FALLBACK` says; a failed batch uses up an
actor's turn.

## 4. Fairness

- `CircuitBreaker`: weak fairness of `Tick` (time passes), `Enter` (clients keep
  calling) and `Succeed \/ Fail` (a function that was entered returns or raises).
  Recovery needs clients: the breaker has no timer of its own.
- `Dispatch`: strong fairness of `Begin(s)`. Other handlers take the loop again
  and again while a request waits for it, so weak fairness would not do; the
  event loop's ready queue is first in, first out, so a handler that is ready
  does get its turn. Weak fairness of an `Attempt(s)` that does not wait on Ray:
  `_call` returns or raises. `ray.get` has no timeout, so nothing obliges an
  attempt that waits on Ray to end; `EveryRequestAnswered` has the premise that
  each such wait does (`RayAnswers`), and says that then *every* request is
  answered, those behind it included. `Arrive`, `Leave` and `Tick` need none.
- `TaskRegistry`: weak fairness of `JobEnds` (workers finish) and of `AskAll`
  (clients keep asking, and now and then a poll brings the messages that are
  there). Nothing obliges results to vanish, the consumer to rejoin or the
  server to restart. The counterexample of `kafka_shared_consumer` is found
  under this same fairness.
- `LocalWorker`: weak fairness of `Work`, a call of DeepFace ends one way or
  another. Nothing obliges it to succeed, nor a new job to come.
- `RateLimiter` and `Access` have safety properties only: that a patient client
  gets in is stated as a bound on its refusals.

## 5. Proofs

| Module | Theorems | Holds for |
|---|---|---|
| `CircuitBreaker_proofs` | `TypeCorrect`, `ClosedExactlyBelowThreshold`, `ProbesCountConsecutiveSuccesses`, `OpenBreakerHasNoCall`, `ClosingIsEarned`, `ImplementsPromise` | every integer setting, zero and negative ones included (the constructor raises them to 1) |
| `WorkerPool_proofs` | `RoundRobinIsEven`, `NextInTurnIsLeastPicked`, `TypeCorrect` | every number of actors |
| `TaskRegistry_proofs` | `TypeCorrect`, `SuccessIsTheTasksOwn`, `AnswersAreFinal`, `ImplementsLifecycle`, `LoneResponseAlwaysAwaits` | all sets of tasks (finite or not), every bound on repeats and restarts |
| `Dispatch_proofs` | `TypeCorrect`, `SharedBreakersStayCoherent`, `EveryAnswerHasItsTask`, `OnlyOwnFailureIsHidden`, `JobsPerRequestAreBounded`, `OrphansAreKafkas`, `SharedBreakersKeepPromise`, `LoopIsAlwaysTheCallers`, `LoopIsAlwaysGivenBack` | any number of requests, any of the endpoints, any configurations and settings |
| `RateLimiter_proofs` | `TypeCorrect`, `KeepsWindow`, `PatientClientGetsInAlways`, `RefusalsAreAlwaysDue` | every limit and window from 1 on, any keys and any of them patient |
| `LocalWorker_proofs` | `TypeCorrect`, `GivesUpLastAlways`, `NothingTriedTwiceAlways`, `RankingIsHonestAlways`, `WorkRunsOutAlways` | any list of fallbacks (repetitions included), any number of images, any distances and thresholds |
| `Access_proofs` | `TypeCorrect`, `SessionsEndAlways`, `AdmittedInRoleAlways` | any users, roles, keys, secrets and lives, any change of them at a restart (users and their roles aside), any number of live tokens |

The assumptions are the named `ASSUME`s of the modules: breaker settings are
integers, `NumWorkers` a natural number (positive in `WorkerPool`), endpoints
and configurations among the known ones, no slot is called "free", the four
sets of tasks are disjoint, limit and window are positive, patient clients are
clients, the fallbacks are detectors, distances and thresholds are natural
numbers, users have roles and none is called like the anonymous or the service
user, listed keys are keys, and no life is longer than `MaxLife`, which may be any
natural number.

Each proof has the same shape: an inductive invariant `IInv`, a lemma per
action, and the theorems as consequences.

- **Breaker operators** (`BreakerOps_proofs`): each method keeps a breaker in
  its type and coherent, and what it does to the state. The key fact is that an
  open or half-open breaker has its count at the threshold: `on_failure` on a
  half-open breaker therefore always reopens it, and the branch that would leave
  it half-open is dead. Both modules with breakers use these lemmas, and those
  that say what each method does to the one count of `BreakerPromise`
  (`EvidenceByState`, `OnSuccessCountsProbe`, `OnFailureCountsOrOpens`,
  `ElapseRests`, ...).
- **`CircuitBreaker`**: the four invariants together are inductive. "No call
  through an open breaker" is part of it because a success that came while the
  breaker is open would lengthen `streak` without being counted as a probe. The
  refinement of `BreakerPromise` needs coherence: without it the fields of the
  code say more than one count can.
- **`WorkerPool`**: evenness alone is not inductive, as it does not say who is
  ahead. The invariant does: the actors before the index have been picked exactly
  once more than those from the index on.
- **`TaskRegistry`**: `SuccessIsOwn` needs to know that responses on the topic
  are of jobs that ended (`ResponsesAreReal`). That errors are of failed or lost jobs
  is `ErrorsAreReal`. `LoneResponseAwaits` is inductive beside these: a worker's
  answer lies beyond the consumer's position when it is written, rejoining and
  restarting only move the position back, and the one client whose queries poll
  the consumer has its entry filled by the poll that brings the response. That
  another client was told of a Kafka task never ends once it holds
  (`SharedStaysShared`), so no step makes a task unshared again; while it holds
  the last argument fails, which is the counterexample of
  `kafka_shared_consumer`. The refinement needs
  `ToldTracksEntry` (what the client knows is what the entry says, until a
  restart), `ForgottenByRestart` (an entry is missing only because the server
  restarted or the task was not submitted) and `UnsubmittedUnknown`.
- **`Dispatch`**: `RequestOK` says of one request what its record must look like
  in each phase: attempts run and attempts left stay within the endpoint's
  budget and jobs within two per attempt (`InHand`, `Accounted`); no answer and
  no task before the end (`NotBegun`, `InHand`), and the right number of tasks
  after it (`OneTask`). Two conjuncts relate requests to shared state: a request
  in the middle of its call holds the loop, and a breaker it finds open after a
  first run (`OpenedMidCall`) was opened by itself. The second depends on the
  first: if the sleep of `retry_call` gave up the loop another request could
  open the breaker in between (the mutant `LoopAfterAwaitedSleep`). The converse,
  that nobody holds the loop but a request in its call, is `LoopIsTheCallers`,
  added to the invariant for `LoopIsGivenBack`: the attempts left are a natural
  number that every step of the holder lowers. For `BreakersKeepPromise` each
  action changes one breaker by a method, and leaves the others alone.
- **`RateLimiter`**: the window is kept for two reasons. In memory, the deque is a
  tail of the log of admissions (`BucketIsTheTail`): what was dropped is older
  than the window, so a deque with room means an oldest admission that has left
  it. In Redis, the counter is at least the number of admissions younger than the
  window (`CounterCoversTheYoung`), because every call restarts the expiry.
  `PatientClientGetsIn` needs `WaitsLongEnough`: what is left to wait, against the
  age of the oldest entry of the deque *and* of the counter in Redis, as a restart
  may put the client before the other limiter. A second refusal can only come from
  the half second that `int()` dropped and the strict comparison, or from the
  other limiter; `YoungerThanKey` says that a counter that outlived its limiter
  runs out before what the other one, in memory, has admitted since.
  A refusal in memory is due because a full deque is the whole log
  (`BucketIsTheTail` again); one by Redis because a key that is there was called
  no longer ago than its expiry was set (`KeysAreCalled`).
- **`LocalWorker`**: `Walked` says that of the fresh places before the present one
  every encoding has failed, `Ahead` that nothing at the present place or after
  it has, `OrderOfCalls` that the embeddings come after the comparison failed.
  That a detector yet to try exists when some place is left is the least element
  of a set of naturals. For the ranking, `Place` is shown to be injective into
  `1 .. Len`, hence a permutation (a finite injective map is onto), so `Ranked`
  is well defined, whole and ordered; ties are in list order because
  `ResultsInOrder` says that the results were appended in that order.
  `WorkRunsOut` measures a job by `StepsLeft`, the ways left for the image at
  hand plus those of the images to come, and needs the type invariant to show
  that what `LeftOfImage` counts is lowered by every kind of step.
- **`Access`**: a token has no more left than its user was told of its kind and
  has yet to run out (`TokensPromised`), whatever the secrets and lives were when
  it was made and are now; and every token has its user's role
  (`TokensKeepRole`).

Only model-checked: the liveness properties (`RecoversWhenHealthy`,
`EveryRequestAnswered`, `ResultsResolve`, `LoneKafkaTaskResolves`, `JobEnds`), since
liveness under fairness is out of the prover's reach, and the statements of
section 3.1, which are false. What the liveness of four of them rests on is
proved as safety: an open breaker's time of rest only grows until it admits
(`ImplementsPromise`), the holder of the loop uses up its attempts
(`LoopIsAlwaysGivenBack`), the response of an unshared consumer stays to be fetched
(`LoneResponseAlwaysAwaits`), and a job's work runs out (`WorkRunsOutAlways`).
What is left to TLC is that fairness then makes the steps happen.

## 6. Abstractions

- In `Dispatch` a local run returns, raises `ValueError` (no face) or another
  exception, and a local result may or may not fit the response model;
  `LocalWorker` says when which of them happens. The two are not composed: all
  `Dispatch` needs of a local run is that it ends, which is `JobEnds`.
- Distances are small numbers. Their arithmetic, pixels and encodings as data,
  and the tables of `_default_threshold` are left out; that library and worker
  may hold a distance against different thresholds is kept.
- Authentication, rate limit and form validation come before `Arrive`; they are
  modelled on their own, since they share no state with the handlers.
- A secure wait is one step of `Dispatch`, because the loop is held throughout.
  The `get_task_status` calls of its Kafka branch move the shared consumer like
  any other query; `TaskRegistry` has those queries, from any client.
- `GET /tasks` on a Kafka task with unreachable brokers changes no state, like a
  poll that brings nothing; so does the first poll of a new consumer, which only
  joins the group.
- A response on the topic is the id of its task. Its content does not matter to
  `get_task_status`, which takes any of them for a success.
- Time in the breaker is a tick per second, in the limiter two, and in `Access`
  whatever unit the lives are multiples of.
- Signatures of tokens cannot be made without the secret; passwords are right or
  wrong. The in-memory limiter's clock goes forward.
- One server process.

## 7. Not modelled, and what could follow

- **Upload validation** (`utils.py`): a straight line of tests over the bytes of
  one upload, with a bounded read in front. It has no state, its outcome is in
  `Dispatch`, and a model would repeat the tests one by one.
- **Request signing** (`signing.py`): a middleware without state, off by default.
  It raises `HTTPException` outside the application's exception handlers; what
  the client then sees is up to Starlette, which is not part of the repository.
- **Encryption** (`crypto.py`): one call of AES-GCM; its two ways to fail are
  `Unreadable` in `Dispatch`.
- **Request and response models** (`models.py`): declarations. That a result may
  not fit one is an outcome (`Misfits`).
- **Error handlers, headers, logging, audit** and **start-up** (`errors.py`,
  `secheaders.py`, `logcnf.py`, `audit.py`, `run.py`, `test_client.py`): output
  and process start; no state the properties are about.
- `get_current_user` and `require_roles` (`auth.py:143-171`): no route uses them.

Worth adding: a consumer group of several servers in `TaskRegistry`
(`tasks.py:122`), where each server drops the responses to the other's tasks;
and a composition of `TaskRegistry` with the Kafka waits of `Dispatch`, to bound
how long a secure request holds the loop when polls of other clients consume its
response.
