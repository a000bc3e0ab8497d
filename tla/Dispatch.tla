------------------------------ MODULE Dispatch ------------------------------
(***************************************************************************)
(* The request handlers of app/main.py that go through a circuit breaker,  *)
(* from the arrival of a request to its answer.                            *)
(*                                                                         *)
(* All handlers are coroutines on one event loop.  A handler gives way     *)
(* only while it reads uploads; from the last of these awaits to its       *)
(* return it holds the loop, time.sleep of retry_call included.  loop is   *)
(* the request that does.  A step of the model is a run of a handler       *)
(* between two points where something outside can be noticed: the clock,   *)
(* the workers, the brokers.                                               *)
(***************************************************************************)
EXTENDS BreakerOps, GetWorker

CONSTANTS Slots,        \* requests the server holds at a time
          Endpoints,    \* the endpoints clients call
          Configs       \* the configurations the server may be started in

Free == "free"         \* nobody's turn on the event loop

ASSUME DispatchAssumption == /\ Endpoints \subseteq {"verify", "analyze", "find", "extract", "batch",
                                                     "models", "secure_verify", "secure_analyze"}
                             /\ Configs \subseteq Config
                             /\ Free \notin Slots

-----------------------------------------------------------------------------
(* The handlers, by what tells them apart: the breaker they call through,  *)
(* the attempts they give retry_call, whether they refuse long lists, and  *)
(* what their _call does.                                                  *)
verify_faces ==
    [breaker |-> "cb_verify", attempts |-> 2, capped |-> FALSE, work |-> "task"]
analyze_face ==
    [breaker |-> "cb_analyze", attempts |-> 2, capped |-> FALSE, work |-> "task"]
find_faces ==
    [breaker |-> "cb_find", attempts |-> 2, capped |-> TRUE, work |-> "task"]
extract_face_embedding ==
    [breaker |-> "cb_embed", attempts |-> 2, capped |-> FALSE, work |-> "task"]
batch_analyze_faces ==
    [breaker |-> "cb_analyze", attempts |-> 2, capped |-> TRUE, work |-> "batch"]
get_available_models ==
    [breaker |-> "cb_analyze", attempts |-> 3, capped |-> FALSE, work |-> "models"]
secure_verify ==
    [breaker |-> "cb_verify", attempts |-> 2, capped |-> FALSE, work |-> "wait"]
secure_analyze ==
    [breaker |-> "cb_analyze", attempts |-> 2, capped |-> FALSE, work |-> "wait"]

handler(ep) == CASE ep = "verify"         -> verify_faces
                 [] ep = "analyze"        -> analyze_face
                 [] ep = "find"           -> find_faces
                 [] ep = "extract"        -> extract_face_embedding
                 [] ep = "batch"          -> batch_analyze_faces
                 [] ep = "models"         -> get_available_models
                 [] ep = "secure_verify"  -> secure_verify
                 [] ep = "secure_analyze" -> secure_analyze

Breakers == {handler(ep).breaker : ep \in Endpoints}

-----------------------------------------------------------------------------
(* What one run of _call can come to: the exception it raises ("none" when *)
(* it returns), the backend named in the metadata it returns, and how many *)
(* jobs it handed to another process on the way.                           *)
Returned(backend, handed) == [exc |-> "none", backend |-> backend, handed |-> handed]
Raised(exc, handed)       == [exc |-> exc, backend |-> "none", handed |-> handed]

(* LocalWorker in this process: DeepFace answers, finds no face in the     *)
(* image (ValueError), or breaks.                                          *)
RunLocal == {Returned("local", 0), Raised("ValueError", 0), Raised("Exception", 0)}

(* worker.<method>.remote(...)                                             *)
SubmitToRay == {Returned("ray", 1), Raised("Exception", 0)}

(* <task>.delay(...) on a broker that may be down, or may take the message *)
(* and be lost before it confirms.                                         *)
SubmitToCelery == {Returned("celery", 1), Raised("BrokerError", 0), Raised("BrokerError", 1)}

RunCelery(cfg) == IF cfg.eager THEN RunLocal ELSE SubmitToCelery

(* KafkaWorker()._send: the produce future fails quickly or times out, in  *)
(* which case the request may be on the topic all the same.                *)
SendToKafka == {Returned("kafka", 1), Raised("BrokerError", 0), Raised("BrokerError", 1)}

(* Any failure of the Kafka path goes on to Celery, whatever               *)
(* WORKER_FALLBACK says.                                                   *)
RunKafka(cfg) ==
    {k \in SendToKafka : k.exc = "none"}
    \cup {[c EXCEPT !.handed = @ + k.handed] :
              c \in RunCelery(cfg), k \in {k \in SendToKafka : k.exc # "none"}}

RunOn(chosen, cfg) == CASE chosen = "ray"         -> SubmitToRay
                        [] chosen = "celery"      -> RunCelery(cfg)
                        [] chosen = "kafka"       -> RunKafka(cfg)
                        [] chosen = "local"       -> RunLocal
                        [] chosen = "unavailable" -> {Raised("HTTPException", 0)}

(* The secure endpoints hand a job over as well, but wait for its result:  *)
(* as long as it takes on Ray, where a failed job raises its own error;    *)
(* ten seconds on the others.  On Celery whatever goes wrong meanwhile is  *)
(* the same HTTPException(504), raised inside _call; on Kafka that is the  *)
(* end of the time, and get_task_status may raise before: ValueError for a *)
(* message that is not JSON, Exception for a consumer that cannot be had.  *)
(* Nothing falls back to Celery.                                           *)
WaitEnds(backend, exc) == [exc |-> exc, backend |-> backend, handed |-> 1]

AwaitRay == SubmitToRay \cup {Raised("ValueError", 1), Raised("Exception", 1)}

AwaitCelery(cfg) ==
    IF cfg.eager THEN RunLocal ELSE SubmitToCelery \cup {WaitEnds("celery", "HTTPException")}

AwaitKafka ==
    SendToKafka \cup {WaitEnds("kafka", exc) : exc \in {"HTTPException", "ValueError", "Exception"}}

AwaitOn(chosen, cfg) == CASE chosen = "ray"         -> AwaitRay
                          [] chosen = "celery"      -> AwaitCelery(cfg)
                          [] chosen = "kafka"       -> AwaitKafka
                          [] chosen = "local"       -> RunLocal
                          [] chosen = "unavailable" -> {Raised("HTTPException", 0)}

(* _call of /models asks a Ray task, or builds the lists in this process.  *)
ListModels(cfg) ==
    {Returned("none", 0)} \cup IF cfg.ray THEN {Raised("Exception", 0)} ELSE {}

(* The except clauses of the handlers; that of /models has no ValueError.  *)
(* An HTTPException raised inside the try is an Exception like another.    *)
ErrorReply(ep, exc) == CASE exc = "CircuitOpenError" -> 503
                         [] exc = "ValueError" /\ ep # "models" -> 422
                         [] OTHER -> 500

(* The status the code asks for when a list is longer than its cap.        *)
TooManyImagesReply(ep) == ErrorReply(ep, "HTTPException")

(* What may be raised before the call: process_uploaded_file refuses an    *)
(* upload with ValueError; decrypt_bytes one that is not base64 so too,    *)
(* and one that is not authentic with InvalidTag.                          *)
Unreadable(ep) == IF handler(ep).work = "models" THEN {}
                  ELSE IF handler(ep).work = "wait" THEN {"ValueError", "Exception"}
                  ELSE {"ValueError"}

-----------------------------------------------------------------------------
VARIABLES cfg,      \* the configuration, fixed at start
          idx,      \* _current_worker_idx
          cb,       \* the breakers
          loop,     \* the request that holds the event loop, or Free
          req       \* the requests

vars == <<cfg, idx, cb, loop, req>>

Exceptions == {"none", "CircuitOpenError", "ValueError", "HTTPException",
               "BrokerError", "Exception"}

MaxAttempts == 3

Place    == {"idle", "reading", "calling", "answered"}
Attempts == 0 .. MaxAttempts
Handed   == 0 .. 2 * MaxAttempts
Backend  == {"none", "ray", "celery", "kafka", "local"}
Status   == {0, 200, 422, 500, 503}

(* A request: where its handler is, what was asked, attempts left to       *)
(* retry_call and last_exc, and the answer.  ran, handed, opened and tasks *)
(* are history: runs of _call, jobs handed to other processes, whether a   *)
(* failure of this request opened the breaker, and entries it made in      *)
(* _TASKS.                                                                 *)
Request == [pc : Place, ep : Endpoints \cup {"none"}, oversize : BOOLEAN,
            left : Attempts, exc : Exceptions,
            ran : Attempts, handed : Handed, opened : BOOLEAN, tasks : Attempts,
            backend : Backend, reply : Status]

NoRequest == [pc |-> "idle", ep |-> "none", oversize |-> FALSE, left |-> 0,
              exc |-> "none", ran |-> 0, handed |-> 0, opened |-> FALSE,
              tasks |-> 0, backend |-> "none", reply |-> 0]

TypeOK == /\ cfg \in Configs
          /\ idx \in 0 .. NumWorkers
          /\ cb \in [Breakers -> Breaker]
          /\ loop \in Slots \cup {Free}
          /\ req \in [Slots -> Request]

Init == /\ cfg \in Configs
        /\ idx = 0
        /\ cb = [b \in Breakers |-> NewBreaker]
        /\ loop = Free
        /\ req = [s \in Slots |-> NoRequest]

-----------------------------------------------------------------------------
(* A request passed authentication, validation and the rate limit.         *)
Arrive(s, ep, oversize) ==
    /\ req[s].pc = "idle"
    /\ oversize => handler(ep).capped
    /\ req' = [req EXCEPT ![s] = [NoRequest EXCEPT
                   !.pc = "reading", !.ep = ep, !.oversize = oversize,
                   !.left = handler(ep).attempts]]
    /\ UNCHANGED <<cfg, idx, cb, loop>>

Answer(r, status) == [r EXCEPT !.pc = "answered", !.reply = status]

Reading(s) == req[s].pc = "reading" /\ loop = Free

(* len(...) > MAX_DB_IMAGES or MAX_BATCH_IMAGES: the HTTPException(422) is *)
(* raised inside the handler's own try.                                    *)
RejectOversize(s) ==
    /\ Reading(s)
    /\ req[s].oversize
    /\ req' = [req EXCEPT ![s] = Answer(@, TooManyImagesReply(@.ep))]
    /\ UNCHANGED <<cfg, idx, cb, loop>>

(* The images of the request cannot be had.                                *)
RejectUpload(s) ==
    /\ Reading(s)
    /\ ~req[s].oversize
    /\ \E exc \in Unreadable(req[s].ep) :
          req' = [req EXCEPT ![s] = Answer(@, ErrorReply(@.ep, exc))]
    /\ UNCHANGED <<cfg, idx, cb, loop>>

(* After its first image /batch-analyze calls get_worker and uses the pair *)
(* it returns as if it were the worker: AttributeError.  The breaker is    *)
(* never reached, a Ray actor has been skipped.                            *)
FailBatch(s) ==
    /\ Reading(s)
    /\ ~req[s].oversize
    /\ handler(req[s].ep).work = "batch"
    /\ \E chosen \in get_worker(cfg) :
          idx' = NextWorkerIdx(cfg, idx, chosen)
    /\ req' = [req EXCEPT ![s] = Answer(@, ErrorReply(@.ep, "Exception"))]
    /\ UNCHANGED <<cfg, cb, loop>>

(* The last await is over: retry_call starts, on the loop's own thread.    *)
StartCall(s) ==
    /\ Reading(s)
    /\ ~req[s].oversize
    /\ handler(req[s].ep).work # "batch"
    /\ loop' = s
    /\ req' = [req EXCEPT ![s].pc = "calling"]
    /\ UNCHANGED <<cfg, idx, cb>>

-----------------------------------------------------------------------------
(* retry_call after an attempt raised exc: sleep and go again, or let the  *)
(* last exception out and answer it.                                       *)
(* Mutant: range(attempts + 1).                                            *)
AfterExceptionOnceMore(r, exc) ==
    LET failed == [r EXCEPT !.left = @ - 1, !.exc = exc]
    IN  IF failed.left >= 0 THEN failed ELSE Answer(failed, ErrorReply(r.ep, exc))

(* Mutant: an open circuit is waited for, without using up attempts.       *)
AfterExceptionWaitingForCircuit(r, exc) ==
    LET failed == [r EXCEPT !.left = IF exc = "CircuitOpenError" THEN @ ELSE @ - 1,
                            !.exc = exc]
    IN  IF failed.left > 0 THEN failed ELSE Answer(failed, ErrorReply(r.ep, exc))

AfterException(r, exc) ==
    LET failed == [r EXCEPT !.left = @ - 1, !.exc = exc]
    IN  IF failed.left > 0 THEN failed ELSE Answer(failed, ErrorReply(r.ep, exc))

(* time.sleep: the loop is not given up between two attempts.              *)
(* Mutant: the sleep is awaited, other handlers run meanwhile.             *)
LoopAfterAwaitedSleep(s, r) == Free

LoopAfter(s, r) == IF r.pc = "calling" THEN s ELSE Free

Calling(s) == req[s].pc = "calling" /\ loop \in {s, Free}

CallRejected(s) ==
    /\ Calling(s)
    /\ ~CanAttempt(cb[handler(req[s].ep).breaker])
    /\ LET r == AfterException(req[s], "CircuitOpenError")
       IN  /\ req' = [req EXCEPT ![s] = r]
           /\ loop' = LoopAfter(s, r)
    /\ UNCHANGED <<cfg, idx, cb>>

(* The runs of _call an endpoint may see, and the actor index they leave.  *)
CallRuns(ep) ==
    IF handler(ep).work = "models"
    THEN {[out |-> o, idx |-> idx] : o \in ListModels(cfg)}
    ELSE UNION {{[out |-> o, idx |-> NextWorkerIdx(cfg, idx, chosen)] :
                    o \in IF handler(ep).work = "wait"
                          THEN AwaitOn(chosen, cfg) ELSE RunOn(chosen, cfg)} :
                chosen \in get_worker(cfg)}

(* What a run of _call leaves in _TASKS.  A task endpoint registers the    *)
(* task as its last act.  A secure endpoint registers nothing, but         *)
(* KafkaWorker does so by itself when it has sent a request.               *)
(* Mutant: a secure endpoint registers the jobs it waits for.              *)
RegisteredAnyway(r, out) ==
    IF \/ handler(r.ep).work = "task" /\ out.exc = "none"
       \/ handler(r.ep).work = "wait" /\ out.backend \in {"ray", "celery", "kafka"}
    THEN 1 ELSE 0

Registered(r, out) ==
    IF \/ handler(r.ep).work = "task" /\ out.exc = "none"
       \/ handler(r.ep).work = "wait" /\ out.backend = "kafka"
    THEN 1 ELSE 0

(* _call returned.  A result that does not fit the response model raises   *)
(* pydantic's ValidationError, a ValueError, after all that; one that came *)
(* by Kafka may not even have the fields the audit log asks for.           *)
Misfits(r, out) ==
    IF handler(r.ep).work = "wait"
    THEN IF out.backend = "kafka" THEN {"ValueError", "Exception"} ELSE {"ValueError"}
    ELSE IF out.backend = "local" THEN {"ValueError"} ELSE {}

(* Mutant: a misfit is answered as a server error.                         *)
RepliesWithServerError(r, out) == {200} \cup {500 : exc \in Misfits(r, out)}

Replies(r, out) == {200} \cup {ErrorReply(r.ep, exc) : exc \in Misfits(r, out)}

CallSucceeds(s) ==
    LET b == handler(req[s].ep).breaker IN
    /\ Calling(s)
    /\ CanAttempt(cb[b])
    /\ \E run \in CallRuns(req[s].ep) :
          /\ run.out.exc = "none"
          /\ idx' = run.idx
          /\ cb' = [cb EXCEPT ![b] = OnSuccess(Admitted(@))]
          /\ \E status \in Replies(req[s], run.out) :
                LET r == [req[s] EXCEPT
                            !.ran = @ + 1, !.handed = @ + run.out.handed,
                            !.backend = run.out.backend,
                            !.tasks = @ + Registered(req[s], run.out)]
                IN  req' = [req EXCEPT ![s] = Answer(r, status)]
          /\ loop' = Free
    /\ UNCHANGED cfg

(* _call raised: the breaker counts the failure, a wait in vain included.  *)
CallFails(s) ==
    LET b == handler(req[s].ep).breaker IN
    /\ Calling(s)
    /\ CanAttempt(cb[b])
    /\ \E run \in CallRuns(req[s].ep) :
          /\ run.out.exc # "none"
          /\ idx' = run.idx
          /\ cb' = [cb EXCEPT ![b] = OnFailure(Admitted(@))]
          /\ LET r == AfterException([req[s] EXCEPT
                          !.ran = @ + 1, !.handed = @ + run.out.handed,
                          !.opened = @ \/ cb'[b].state = "open",
                          !.tasks = @ + Registered(req[s], run.out)], run.out.exc)
             IN  /\ req' = [req EXCEPT ![s] = r]
                 /\ loop' = LoopAfter(s, r)
    /\ UNCHANGED cfg

-----------------------------------------------------------------------------
(* The client has its answer; the slot is free for another request.        *)
Leave(s) ==
    /\ req[s].pc = "answered"
    /\ req' = [req EXCEPT ![s] = NoRequest]
    /\ UNCHANGED <<cfg, idx, cb, loop>>

Tick == /\ cb' = [b \in Breakers |-> Elapse(cb[b])]
        /\ UNCHANGED <<cfg, idx, loop, req>>

Begin(s) == RejectOversize(s) \/ RejectUpload(s) \/ FailBatch(s) \/ StartCall(s)

Attempt(s) == CallRejected(s) \/ CallSucceeds(s) \/ CallFails(s)

Next == \/ \E s \in Slots, ep \in Endpoints, oversize \in BOOLEAN : Arrive(s, ep, oversize)
        \/ \E s \in Slots : Begin(s) \/ Attempt(s) \/ Leave(s)
        \/ Tick

Spec == Init /\ [][Next]_vars

(* A handler about to hold the event loop in ray.get, which has no timeout. *)
WaitsOnRay(s) ==
    /\ Calling(s)
    /\ CanAttempt(cb[handler(req[s].ep).breaker])
    /\ \/ handler(req[s].ep).work = "models" /\ cfg.ray
       \/ handler(req[s].ep).work = "wait" /\ "ray" \in get_worker(cfg)

(***************************************************************************)
(* The event loop's ready queue is first in, first out, so a handler whose *)
(* upload has been read gets the loop although other handlers keep taking  *)
(* it: strong fairness.  A handler that holds the loop runs on; _call      *)
(* returns or raises, except that ray.get may wait for ever.               *)
(***************************************************************************)
FairSpec == Spec /\ \A s \in Slots : /\ SF_vars(Begin(s))
                                     /\ WF_vars(Attempt(s) /\ ~WaitsOnRay(s))

-----------------------------------------------------------------------------
(***************************************************************************)
(* No breaker that several endpoints share ever disagrees with its counter.*)
(***************************************************************************)
BreakersCoherent == \A b \in Breakers : Coherent(cb[b])

(***************************************************************************)
(* Every breaker keeps the promise of a circuit breaker, whichever         *)
(* endpoints share it, although nothing keeps the retries of one request   *)
(* and the calls of another apart but the event loop.  A call is one step  *)
(* here, so that none is ever seen in progress.                            *)
(***************************************************************************)
Promise(b) == INSTANCE BreakerPromise
              WITH mode <- cb[b].state, count <- Evidence(cb[b]), calling <- FALSE,
                   Failures <- failure_threshold,
                   Rest <- recovery_timeout_sec,
                   Probes <- half_open_max_success

PromisedStep == \A b \in Breakers : [Promise(b)!Next]_(Promise(b)!vars)

BreakersKeepPromise == (\A b \in Breakers : Promise(b)!Init) /\ [][PromisedStep]_cb

(***************************************************************************)
(* A client that is answered 200 by a task endpoint was given exactly one  *)
(* task, although retry_call may have run _call several times; a client    *)
(* that is answered 500 or 503 left none behind in _TASKS; and a 422 with  *)
(* a task behind it is a local result that did not fit the response model. *)
(***************************************************************************)
OneTaskPerAnswer ==
    \A s \in Slots :
        LET r == req[s] IN
        r.pc = "answered" /\ handler(r.ep).work # "wait" =>
            /\ r.reply = 200 => r.tasks = IF handler(r.ep).work = "task" THEN 1 ELSE 0
            /\ r.reply \in {500, 503} => r.tasks = 0
            /\ r.reply = 422 /\ r.tasks = 1 => r.backend = "local"

(***************************************************************************)
(* A client of a secure endpoint is given no task: an entry that its       *)
(* request leaves in _TASKS is one nobody will ever ask for.  Only requests *)
(* sent by Kafka leave any, one for each job that was handed over, jobs    *)
(* whose result was waited for in vain included.                           *)
(***************************************************************************)
OnlyKafkaLeavesOrphans ==
    \A s \in Slots :
        LET r == req[s] IN
        r.pc # "idle" /\ handler(r.ep).work = "wait" /\ r.tasks > 0 =>
            cfg.provider = "kafka" /\ r.tasks <= r.handed

(***************************************************************************)
(* retry_call lets the last exception out, so a 503 can hide the real      *)
(* error of an earlier attempt.  It does so only in a request whose own    *)
(* failure opened the breaker: no other request can open it between two    *)
(* attempts.                                                               *)
(***************************************************************************)
RejectionHidesOnlyOwnFailure ==
    \A s \in Slots : req[s].reply = 503 /\ req[s].ran > 0 => req[s].opened

(***************************************************************************)
(* Retries and the Kafka-to-Celery fallback repeat work that may have been *)
(* accepted: a request starts at most two jobs per attempt it was given.   *)
(***************************************************************************)
DuplicateWorkIsBounded ==
    \A s \in Slots :
        req[s].pc # "idle" => req[s].handed <= 2 * handler(req[s].ep).attempts

(***************************************************************************)
(* Who holds the loop gives it back: whatever the breaker and _call do,    *)
(* each step of the holder uses up an attempt of retry_call or answers,    *)
(* and no other request takes the loop before.                             *)
(***************************************************************************)
LoopIsGivenBack ==
    [][\A s \in Slots :
          loop = s =>
              \/ loop' = Free /\ req'[s].pc = "answered"
              \/ /\ loop' = s
                 /\ req'[s] # req[s] => req'[s].left < req[s].left]_vars

(***************************************************************************)
(* Every request that arrived is answered, whatever breaker it meets and   *)
(* whoever holds the event loop, as long as no handler waits for Ray for   *)
(* ever: on a server without Ray unconditionally.                          *)
(***************************************************************************)
RayAnswers == \A s \in Slots : WaitsOnRay(s) ~> ~WaitsOnRay(s)

EveryRequestAnswered ==
    RayAnswers => \A s \in Slots : req[s].pc = "reading" ~> req[s].pc = "answered"

-----------------------------------------------------------------------------
(* Statements of the repository's documents and comments about the         *)
(* handlers, as properties.                                                *)

(* CHANGELOG 1.7.0: list sizes over MAX_DB_IMAGES and MAX_BATCH_IMAGES are *)
(* answered "with 422 responses on overflow".                              *)
OverflowIs422 ==
    \A s \in Slots : req[s].pc = "answered" /\ req[s].oversize => req[s].reply = 422

(* README, Features: "Batch Processing: Process multiple images            *)
(* simultaneously".  A batch within the cap, sent to a server with usable  *)
(* Ray actors, is not a server error unless a call made for it failed.     *)
BatchIsProcessed ==
    \A s \in Slots :
        /\ req[s].pc = "answered"
        /\ req[s].ep = "batch"
        /\ ~req[s].oversize
        /\ cfg.provider = "ray" /\ RayUsable(cfg)
        /\ req[s].exc = "none"
        => req[s].reply # 500
=============================================================================
