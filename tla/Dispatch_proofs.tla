-------------------------- MODULE Dispatch_proofs ---------------------------
(***************************************************************************)
(* The handlers, their retries and their shared breakers, for any number   *)
(* of requests, any endpoints and configurations, any breaker settings.    *)
(***************************************************************************)
EXTENDS Dispatch, BreakerOps_proofs

-----------------------------------------------------------------------------
(* Requests: what the updates the handlers make of one leave behind.       *)

LEMMA RequestFields ==
    ASSUME NEW r \in Request
    PROVE  /\ r.pc \in Place
           /\ r.ep \in Endpoints \cup {"none"}
           /\ r.oversize \in BOOLEAN
           /\ r.left \in Attempts
           /\ r.exc \in Exceptions
           /\ r.ran \in Attempts
           /\ r.handed \in Handed
           /\ r.opened \in BOOLEAN
           /\ r.tasks \in Attempts
           /\ r.backend \in Backend
           /\ r.reply \in Status
BY DEF Request

LEMMA NamesInRange ==
    /\ "reading" \in Place /\ "calling" \in Place /\ "answered" \in Place
    /\ "CircuitOpenError" \in Exceptions
    /\ 200 \in Status /\ 500 \in Status
BY DEF Place, Exceptions, Status

(* The updates the actions make, with every value in range.                *)
LEMMA MovedIsRequest ==
    ASSUME NEW r \in Request, NEW p \in Place
    PROVE  [r EXCEPT !.pc = p] \in Request
BY DEF Request

LEMMA AnsweredIsRequest ==
    ASSUME NEW r \in Request, NEW p \in Place, NEW status \in Status
    PROVE  [r EXCEPT !.pc = p, !.reply = status] \in Request
BY DEF Request

LEMMA FailedIsRequest ==
    ASSUME NEW r \in Request, NEW n \in Attempts, NEW x \in Exceptions
    PROVE  [r EXCEPT !.left = n, !.exc = x] \in Request
BY DEF Request

LEMMA RanIsRequest ==
    ASSUME NEW r \in Request, NEW n \in Attempts,
           NEW h \in Handed, NEW o \in BOOLEAN, NEW k \in Attempts
    PROVE  [r EXCEPT !.ran = n, !.handed = h, !.opened = o, !.tasks = k] \in Request
BY DEF Request

LEMMA ReturnedIsRequest ==
    ASSUME NEW r \in Request, NEW n \in Attempts,
           NEW h \in Handed, NEW b \in Backend, NEW k \in Attempts
    PROVE  [r EXCEPT !.ran = n, !.handed = h, !.backend = b, !.tasks = k] \in Request
BY DEF Request

LEMMA ArrivedIsRequest ==
    ASSUME NEW r \in Request, NEW p \in Place, NEW ep \in Endpoints,
           NEW o \in BOOLEAN, NEW n \in Attempts
    PROVE  [r EXCEPT !.pc = p, !.ep = ep, !.oversize = o, !.left = n] \in Request
BY DEF Request

LEMMA NoRequestIsRequest == NoRequest \in Request
BY DEF NoRequest, Request, Place, Exceptions, Attempts, Handed, Backend, Status, MaxAttempts

LEMMA FieldsOfAnswer ==
    ASSUME NEW r \in Request, NEW status \in Status
    PROVE  /\ Answer(r, status) \in Request
           /\ Answer(r, status).pc = "answered"
           /\ Answer(r, status).reply = status
           /\ Answer(r, status).ep = r.ep
           /\ Answer(r, status).ran = r.ran
           /\ Answer(r, status).handed = r.handed
           /\ Answer(r, status).opened = r.opened
           /\ Answer(r, status).tasks = r.tasks
           /\ Answer(r, status).backend = r.backend
<1>1. Answer(r, status) \in Request
      BY NamesInRange, AnsweredIsRequest, Zenon DEF Answer
<1>2. QED
      BY <1>1 DEF Answer, Request

-----------------------------------------------------------------------------
(* Handlers, exceptions and outcomes.                                      *)

LEMMA HandlerIsOneOf ==
    ASSUME NEW ep \in Endpoints
    PROVE  handler(ep) \in {verify_faces, analyze_face, find_faces, extract_face_embedding,
                            batch_analyze_faces, get_available_models,
                            secure_verify, secure_analyze}
<1>1. CASE ep = "verify"
      BY <1>1 DEF handler
<1>2. CASE ep = "analyze"
  <2>1. handler(ep) = analyze_face
        BY <1>2 DEF handler
  <2>2. QED
        BY <2>1
<1>3. CASE ep = "find"
  <2>1. handler(ep) = find_faces
        BY <1>3 DEF handler
  <2>2. QED
        BY <2>1
<1>4. CASE ep = "extract"
  <2>1. handler(ep) = extract_face_embedding
        BY <1>4 DEF handler
  <2>2. QED
        BY <2>1
<1>5. CASE ep = "batch"
  <2>1. handler(ep) = batch_analyze_faces
        BY <1>5 DEF handler
  <2>2. QED
        BY <2>1
<1>6. CASE ep = "models"
  <2>1. handler(ep) = get_available_models
        BY <1>6 DEF handler
  <2>2. QED
        BY <2>1
<1>7. CASE ep = "secure_verify"
  <2>1. handler(ep) = secure_verify
        BY <1>7 DEF handler
  <2>2. QED
        BY <2>1
<1>8. CASE ep = "secure_analyze"
  <2>1. handler(ep) = secure_analyze
        BY <1>8 DEF handler
  <2>2. QED
        BY <2>1
<1>9. QED
      BY <1>1, <1>2, <1>3, <1>4, <1>5, <1>6, <1>7, <1>8, DispatchAssumption

LEMMA HandlerFacts ==
    ASSUME NEW ep \in Endpoints
    PROVE  /\ handler(ep).attempts \in 1 .. MaxAttempts
           /\ handler(ep).attempts \in Attempts
           /\ handler(ep).breaker \in Breakers
<1>1. handler(ep).attempts \in {2, 3}
      BY HandlerIsOneOf DEF verify_faces, analyze_face, find_faces, extract_face_embedding,
                            batch_analyze_faces, get_available_models,
                            secure_verify, secure_analyze
<1>2. handler(ep).breaker \in Breakers
      BY DEF Breakers
<1>3. QED
      BY <1>1, <1>2 DEF MaxAttempts, Attempts

LEMMA ErrorReplyFacts ==
    ASSUME NEW ep, NEW exc
    PROVE  /\ ErrorReply(ep, exc) \in {422, 500, 503}
           /\ ErrorReply(ep, exc) \in Status
           /\ ErrorReply(ep, exc) = 503 => exc = "CircuitOpenError"
<1>1. CASE exc = "CircuitOpenError"
      BY <1>1 DEF ErrorReply, Status
<1>2. CASE exc # "CircuitOpenError" /\ exc = "ValueError" /\ ep # "models"
  <2>1. ErrorReply(ep, exc) = 422
        BY <1>2 DEF ErrorReply
  <2>2. QED
        BY <2>1 DEF Status
<1>3. CASE exc # "CircuitOpenError" /\ ~(exc = "ValueError" /\ ep # "models")
  <2>1. ErrorReply(ep, exc) = 500
        BY <1>3 DEF ErrorReply
  <2>2. QED
        BY <2>1 DEF Status
<1>4. QED
      BY <1>1, <1>2, <1>3

(* An exception _call may raise, and the jobs one run may hand out.        *)
Outcome == [exc : Exceptions \ {"CircuitOpenError"}, backend : Backend, handed : 0 .. 2]

(* What one hand-over comes to: one job at most.                           *)
HandOver == [exc : Exceptions \ {"CircuitOpenError"}, backend : Backend, handed : 0 .. 1]

LEMMA HandOverIsOutcome == HandOver \subseteq Outcome
BY DEF HandOver, Outcome

LEMMA RunLocalOutcomes == RunLocal \subseteq HandOver
BY DEF RunLocal, Returned, Raised, HandOver, Exceptions, Backend

LEMMA SubmitOutcomes == SubmitToRay \subseteq HandOver /\ SubmitToCelery \subseteq HandOver
BY DEF SubmitToRay, SubmitToCelery, Returned, Raised, HandOver, Exceptions, Backend

LEMMA RunCeleryOutcomes ==
    ASSUME NEW c \in Config
    PROVE  RunCelery(c) \subseteq HandOver
BY RunLocalOutcomes, SubmitOutcomes DEF RunCelery

(* A Kafka attempt and the Celery attempt after it: two jobs at most.      *)
LEMMA RunKafkaOutcomes ==
    ASSUME NEW c \in Config, NEW out \in RunKafka(c)
    PROVE  out \in Outcome
<1>1. ASSUME NEW k \in SendToKafka
      PROVE  (k.exc = "none" => k \in Outcome) /\ k.handed \in 0 .. 1
      BY DEF SendToKafka, Returned, Raised, Outcome, Exceptions, Backend
<1>2. CASE out \in {k \in SendToKafka : k.exc = "none"}
      BY <1>1, <1>2
<1>3. CASE out \in {[d EXCEPT !.handed = @ + k.handed] :
                       d \in RunCelery(c), k \in {k \in SendToKafka : k.exc # "none"}}
  <2>1. PICK d \in RunCelery(c), k \in SendToKafka :
               out = [d EXCEPT !.handed = @ + k.handed]
        BY <1>3
  <2>2. d \in HandOver
        BY <2>1, RunCeleryOutcomes
  <2>3. d.handed + k.handed \in 0 .. 2
        BY <1>1, <2>1, <2>2 DEF HandOver
  <2>4. QED
        BY <2>1, <2>2, <2>3 DEF HandOver, Outcome
<1>4. QED
      BY <1>2, <1>3 DEF RunKafka

LEMMA UnavailableOutcome == Raised("HTTPException", 0) \in Outcome
BY DEF Raised, Outcome, Exceptions, Backend

LEMMA ProviderGiven ==
    ASSUME NEW c \in Config, NEW chosen \in get_worker(c)
    PROVE  /\ chosen \in {"ray", "celery", "kafka", "local", "unavailable"}
           /\ chosen = "ray" => RayUsable(c)
           /\ chosen = "kafka" => c.provider = "kafka"
<1> DEFINE otherwise == IF c.fallback THEN {"celery"} ELSE {"unavailable"}
<1>1. CASE c.provider = "ray"
  <2>1. get_worker(c) = IF RayUsable(c) THEN {"ray"} ELSE otherwise
        BY <1>1 DEF get_worker
  <2>2. QED
        BY <2>1
<1>2. CASE c.provider = "celery"
  <2>1. get_worker(c) = {"celery"}
        BY <1>2 DEF get_worker
  <2>2. QED
        BY <2>1
<1>3. CASE c.provider = "kafka"
  <2>1. get_worker(c) = {"kafka"} \cup otherwise
        BY <1>3 DEF get_worker
  <2>2. QED
        BY <1>3, <2>1
<1>4. CASE c.provider = "local"
  <2>1. get_worker(c) = {"local"}
        BY <1>4 DEF get_worker
  <2>2. QED
        BY <2>1
<1>5. CASE c.provider = "auto"
  <2>1. get_worker(c) = IF RayUsable(c) THEN {"ray"} ELSE {"celery"}
        BY <1>5 DEF get_worker
  <2>2. QED
        BY <2>1
<1>6. QED
      BY <1>1, <1>2, <1>3, <1>4, <1>5 DEF Config, Provider

LEMMA RunOnOutcomes ==
    ASSUME NEW c \in Config, NEW chosen \in get_worker(c), NEW out \in RunOn(chosen, c)
    PROVE  out \in Outcome
<1>1. CASE chosen = "ray"
  <2>1. RunOn(chosen, c) = SubmitToRay
        BY <1>1 DEF RunOn
  <2>2. QED
        BY <2>1, SubmitOutcomes, HandOverIsOutcome
<1>2. CASE chosen = "celery"
  <2>1. RunOn(chosen, c) = RunCelery(c)
        BY <1>2 DEF RunOn
  <2>2. QED
        BY <2>1, RunCeleryOutcomes, HandOverIsOutcome
<1>3. CASE chosen = "kafka"
  <2>1. RunOn(chosen, c) = RunKafka(c)
        BY <1>3 DEF RunOn
  <2>2. QED
        BY <2>1, RunKafkaOutcomes
<1>4. CASE chosen = "local"
  <2>1. RunOn(chosen, c) = RunLocal
        BY <1>4 DEF RunOn
  <2>2. QED
        BY <2>1, RunLocalOutcomes, HandOverIsOutcome
<1>5. CASE chosen = "unavailable"
  <2>1. RunOn(chosen, c) = {Raised("HTTPException", 0)}
        BY <1>5 DEF RunOn
  <2>2. QED
        BY <2>1, UnavailableOutcome
<1>6. QED
      BY <1>1, <1>2, <1>3, <1>4, <1>5, ProviderGiven

(* A wait hands over one job, and only one sent by Kafka, which no other   *)
(* provider does, is named after it.                                       *)
LEMMA AwaitOnOutcomes ==
    ASSUME NEW c \in Config, NEW chosen \in get_worker(c), NEW out \in AwaitOn(chosen, c)
    PROVE  /\ out \in HandOver
           /\ out.backend = "kafka" => chosen = "kafka" /\ out.handed = 1
<1>1. CASE chosen = "ray"
  <2>1. AwaitOn(chosen, c) = AwaitRay
        BY <1>1 DEF AwaitOn
  <2>2. QED
        BY <2>1 DEF AwaitRay, SubmitToRay, Returned, Raised, HandOver, Exceptions, Backend
<1>2. CASE chosen = "celery"
  <2>1. AwaitOn(chosen, c) = AwaitCelery(c)
        BY <1>2 DEF AwaitOn
  <2>2. out \in RunLocal \/ out \in SubmitToCelery \/ out = WaitEnds("celery", "HTTPException")
        BY <2>1 DEF AwaitCelery
  <2>3. QED
        BY <2>2 DEF RunLocal, SubmitToCelery, WaitEnds, Returned, Raised, HandOver, Exceptions,
                    Backend
<1>3. CASE chosen = "kafka"
  <2>1. AwaitOn(chosen, c) = AwaitKafka
        BY <1>3 DEF AwaitOn
  <2>2. QED
        BY <1>3, <2>1 DEF AwaitKafka, SendToKafka, WaitEnds, Returned, Raised, HandOver,
                          Exceptions, Backend
<1>4. CASE chosen = "local"
  <2>1. AwaitOn(chosen, c) = RunLocal
        BY <1>4 DEF AwaitOn
  <2>2. QED
        BY <2>1 DEF RunLocal, Returned, Raised, HandOver, Exceptions, Backend
<1>5. CASE chosen = "unavailable"
  <2>1. AwaitOn(chosen, c) = {Raised("HTTPException", 0)}
        BY <1>5 DEF AwaitOn
  <2>2. QED
        BY <2>1 DEF Raised, HandOver, Exceptions, Backend
<1>6. QED
      BY <1>1, <1>2, <1>3, <1>4, <1>5, ProviderGiven

LEMMA ListModelsOutcomes ==
    ASSUME NEW c \in Config, NEW out \in ListModels(c)
    PROVE  out \in Outcome
<1>1. Returned("none", 0) \in Outcome /\ Raised("Exception", 0) \in Outcome
      BY DEF Returned, Raised, Outcome, Exceptions, Backend
<1>2. QED
      BY <1>1 DEF ListModels

LEMMA NextWorkerIdxInRange ==
    ASSUME NEW c \in Config, NEW chosen \in get_worker(c), NEW i \in 0 .. NumWorkers
    PROVE  NextWorkerIdx(c, i, chosen) \in 0 .. NumWorkers
<1>1. CASE chosen = "ray"
  <2>1. c.workers = NumWorkers /\ NumWorkers > 0
        BY <1>1, ProviderGiven, NumWorkersAssumption DEF RayUsable, Config
  <2>2. (i + 1) % NumWorkers \in 0 .. NumWorkers
        BY <2>1, NumWorkersAssumption
  <2>3. QED
        BY <1>1, <2>1, <2>2 DEF NextWorkerIdx
<1>2. CASE chosen # "ray"
      BY <1>2 DEF NextWorkerIdx
<1>3. QED
      BY <1>1, <1>2

LEMMA CallRunsFacts ==
    ASSUME cfg \in Configs, idx \in 0 .. NumWorkers, NEW ep \in Endpoints,
           NEW run \in CallRuns(ep)
    PROVE  /\ run.out \in Outcome /\ run.idx \in 0 .. NumWorkers
           /\ handler(ep).work = "wait" =>
                  /\ run.out.handed \in 0 .. 1
                  /\ run.out.backend = "kafka" => cfg.provider = "kafka" /\ run.out.handed = 1
<1>1. cfg \in Config
      BY DispatchAssumption
<1>2. CASE handler(ep).work = "models"
  <2>1. CallRuns(ep) = {[out |-> o, idx |-> idx] : o \in ListModels(cfg)}
        BY <1>2 DEF CallRuns
  <2>2. QED
        BY <1>1, <1>2, <2>1, ListModelsOutcomes
<1>3. CASE handler(ep).work # "models" /\ handler(ep).work # "wait"
  <2>1. PICK chosen \in get_worker(cfg) : \E o \in RunOn(chosen, cfg) :
               run = [out |-> o, idx |-> NextWorkerIdx(cfg, idx, chosen)]
        BY <1>3 DEF CallRuns
  <2>2. QED
        BY <1>1, <1>3, <2>1, RunOnOutcomes, NextWorkerIdxInRange
<1>4. CASE handler(ep).work = "wait"
  <2>1. PICK chosen \in get_worker(cfg) : \E o \in AwaitOn(chosen, cfg) :
               run = [out |-> o, idx |-> NextWorkerIdx(cfg, idx, chosen)]
        BY <1>4 DEF CallRuns
  <2>2. run.out \in AwaitOn(chosen, cfg) /\ run.idx = NextWorkerIdx(cfg, idx, chosen)
        BY <2>1
  <2>3. /\ run.out \in HandOver
        /\ run.out.backend = "kafka" => chosen = "kafka" /\ run.out.handed = 1
        BY <1>1, <2>2, AwaitOnOutcomes
  <2>4. run.out \in Outcome /\ run.out.handed \in 0 .. 1
        BY <2>3, HandOverIsOutcome DEF HandOver
  <2>5. run.idx \in 0 .. NumWorkers
        BY <1>1, <2>2, NextWorkerIdxInRange
  <2>6. run.out.backend = "kafka" => cfg.provider = "kafka"
        BY <1>1, <2>3, ProviderGiven
  <2>7. QED
        BY <2>3, <2>4, <2>5, <2>6
<1>5. QED
      BY <1>2, <1>3, <1>4

-----------------------------------------------------------------------------
(* The inductive invariant.                                                *)

(* What holds of a request by itself.  Attempts already run and attempts   *)
(* left never exceed what the endpoint grants, which bounds the jobs it    *)
(* handed over; a request has no answer before it is answered.             *)
NotBegun(r) ==
    r.pc \in {"idle", "reading"} =>
        r.ran = 0 /\ r.handed = 0 /\ r.reply = 0 /\ r.tasks = 0

InHand(r) ==
    r.pc \in {"reading", "calling"} =>
        /\ r.reply = 0 /\ (handler(r.ep).work # "wait" => r.tasks = 0)
        /\ r.left > 0
        /\ r.ran + r.left <= handler(r.ep).attempts
        /\ r.handed <= 2 * r.ran

Accounted(r) == r.pc = "answered" => r.handed <= 2 * handler(r.ep).attempts

OwnFailure(r) == r.reply = 503 /\ r.ran > 0 => r.opened

(* The tasks behind an answer, by its status, unless it was waited for.    *)
TasksFit(r, status) ==
    handler(r.ep).work # "wait" =>
        /\ status = 200 => r.tasks = IF handler(r.ep).work = "task" THEN 1 ELSE 0
        /\ status \in {500, 503} => r.tasks = 0
        /\ status = 422 /\ r.tasks = 1 => r.backend = "local"

OneTask(r) == r.pc = "answered" => TasksFit(r, r.reply)

(* Entries in _TASKS: at most one for each run, and for each job if the    *)
(* request waits for its results.                                          *)
Orphans(r) == /\ r.tasks <= r.ran
              /\ handler(r.ep).work = "wait" => r.tasks <= r.handed

RequestOK(r) == /\ r \in Request
                /\ r.pc # "idle" => r.ep \in Endpoints
                /\ NotBegun(r)
                /\ InHand(r)
                /\ Accounted(r)
                /\ OwnFailure(r)
                /\ OneTask(r)
                /\ Orphans(r)

(* Only requests sent by Kafka leave entries nobody asks for.              *)
OrphanOfKafka(r, c) == handler(r.ep).work = "wait" /\ r.tasks > 0 => c.provider = "kafka"

(* A breaker found open in the middle of a call was opened by that call:   *)
(* the handler has held the loop since its first attempt.                  *)
OpenedMidCall(r, c) ==
    r.pc = "calling" /\ r.ran > 0 /\ c[handler(r.ep).breaker].state = "open" => r.opened

IInv == /\ TypeOK
        /\ BreakersCoherent
        /\ \A s \in Slots : RequestOK(req[s])
        /\ \A s \in Slots : req[s].pc = "calling" => loop = s
        /\ \A s \in Slots : OpenedMidCall(req[s], cb)
        /\ \A s \in Slots : OrphanOfKafka(req[s], cfg)

(* A request whose answer is given.                                        *)
LEMMA AnswerIsOK ==
    ASSUME NEW r \in Request, NEW status \in Status,
           r.ep \in Endpoints,
           r.handed <= 2 * handler(r.ep).attempts,
           status = 503 /\ r.ran > 0 => r.opened,
           TasksFit(r, status), Orphans(r)
    PROVE  /\ RequestOK(Answer(r, status))
           /\ Answer(r, status).pc = "answered"
BY FieldsOfAnswer DEF RequestOK, NotBegun, InHand, Accounted, OwnFailure, OneTask, Orphans, TasksFit

(* retry_call after an exception, from a request that has used an attempt  *)
(* more than its budget of jobs accounts for.                              *)
LEMMA AfterExceptionIsOK ==
    ASSUME NEW r \in Request, NEW exc \in Exceptions,
           r.ep \in Endpoints, r.pc = "calling",
           r.reply = 0, r.left > 0,
           handler(r.ep).work # "wait" => r.tasks = 0, Orphans(r),
           r.ran + r.left <= handler(r.ep).attempts + 1,
           r.handed <= 2 * r.ran,
           r.ran <= handler(r.ep).attempts,
           exc = "CircuitOpenError" /\ r.ran > 0 => r.opened
    PROVE  /\ RequestOK(AfterException(r, exc))
           /\ AfterException(r, exc).pc \in {"calling", "answered"}
           /\ AfterException(r, exc).ran = r.ran
           /\ AfterException(r, exc).ep = r.ep
           /\ AfterException(r, exc).opened = r.opened
           /\ AfterException(r, exc).tasks = r.tasks
<1> DEFINE failed == [r EXCEPT !.left = @ - 1, !.exc = exc]
<1>1. r.left - 1 \in Attempts
      BY RequestFields DEF Attempts, MaxAttempts
<1>2. failed \in Request
      BY <1>1, FailedIsRequest, Zenon
<1>3. /\ failed.pc = r.pc /\ failed.ep = r.ep /\ failed.reply = r.reply
      /\ failed.left = r.left - 1
      /\ failed.ran = r.ran /\ failed.handed = r.handed /\ failed.opened = r.opened
      /\ failed.tasks = r.tasks
      BY DEF Request
<1>4. /\ r.ran \in Nat /\ r.left \in Nat /\ r.handed \in Nat
      /\ handler(r.ep).attempts \in Nat
      BY RequestFields, HandlerFacts DEF Attempts, Handed, MaxAttempts
<1>5. CASE failed.left > 0
  <2>1. AfterException(r, exc) = failed
        BY <1>5 DEF AfterException
  <2>2. failed.ran + failed.left <= handler(failed.ep).attempts
        BY <1>3, <1>4
  <2>3. RequestOK(failed)
        BY <1>2, <1>3, <1>5, <2>2
        DEF RequestOK, NotBegun, InHand, Accounted, OwnFailure, OneTask, Orphans
  <2>4. QED
        BY <1>3, <2>1, <2>3
<1>6. CASE ~(failed.left > 0)
  <2> DEFINE status == ErrorReply(r.ep, exc)
  <2>1. AfterException(r, exc) = Answer(failed, status)
        BY <1>6 DEF AfterException
  <2>2. status \in Status /\ (status = 503 => exc = "CircuitOpenError")
        BY ErrorReplyFacts
  <2>3. /\ failed.ep \in Endpoints
        /\ failed.handed <= 2 * handler(failed.ep).attempts
        /\ status = 503 /\ failed.ran > 0 => failed.opened
        BY <1>3, <1>4, <2>2
  <2>4. TasksFit(failed, status) /\ Orphans(failed)
        BY <1>3, ErrorReplyFacts DEF TasksFit, Orphans
  <2> HIDE DEF status
  <2>5. RequestOK(Answer(failed, status)) /\ Answer(failed, status).pc = "answered"
    <3> HIDE DEF failed
    <3>1. QED
          BY <1>2, <2>2, <2>3, <2>4, AnswerIsOK
  <2>6. /\ Answer(failed, status).ran = failed.ran
        /\ Answer(failed, status).ep = failed.ep
        /\ Answer(failed, status).opened = failed.opened
        /\ Answer(failed, status).tasks = failed.tasks
    <3> HIDE DEF failed
    <3>1. QED
          BY <1>2, <2>2, FieldsOfAnswer
  <2>7. QED
        BY <1>3, <2>1, <2>5, <2>6
<1>7. QED
      BY <1>5, <1>6

-----------------------------------------------------------------------------
(* One request moves.  What others may notice of it: a breaker changes, or *)
(* the loop changes hands, only while none of them is in the middle of a   *)
(* call.                                                                   *)
LEMMA RequestMoves ==
    ASSUME IInv, NEW s \in Slots, NEW r,
           RequestOK(r),
           r.pc = "calling" => loop' = s,
           OpenedMidCall(r, cb'), OrphanOfKafka(r, cfg),
           req' = [req EXCEPT ![s] = r],
           cfg' = cfg,
           idx' \in 0 .. NumWorkers,
           cb' \in [Breakers -> Breaker],
           \A b \in Breakers : Coherent(cb'[b]),
           loop' \in Slots \cup {Free},
           \A t \in Slots \ {s} : req[t].pc = "calling" => loop' = t /\ cb' = cb
    PROVE  IInv'
<1>1. /\ req'[s] = r
      /\ \A t \in Slots \ {s} : req'[t] = req[t]
      BY DEF IInv, TypeOK
<1>2. TypeOK'
      BY DEF IInv, TypeOK, RequestOK
<1>3. BreakersCoherent'
      BY DEF BreakersCoherent
<1>4. \A t \in Slots : RequestOK(req'[t])
      BY <1>1 DEF IInv
<1>5. \A t \in Slots : req'[t].pc = "calling" => loop' = t
      BY <1>1
<1>6. ASSUME NEW t \in Slots
      PROVE  OpenedMidCall(req'[t], cb')
  <2>1. CASE t = s
        BY <1>1, <2>1
  <2>2. CASE t # s /\ req[t].pc = "calling"
    <3>1. cb' = cb /\ req'[t] = req[t]
          BY <1>1, <2>2
    <3>2. OpenedMidCall(req[t], cb)
          BY DEF IInv
    <3>3. QED
          BY <3>1, <3>2
  <2>3. CASE t # s /\ req[t].pc # "calling"
        BY <1>1, <2>3 DEF OpenedMidCall
  <2>4. QED
        BY <2>1, <2>2, <2>3
<1>7. ASSUME NEW t \in Slots
      PROVE  OrphanOfKafka(req'[t], cfg')
      BY <1>1 DEF IInv
<1>8. QED
      BY <1>2, <1>3, <1>4, <1>5, <1>6, <1>7
      DEF IInv, RequestOK, NotBegun, InHand, Accounted, OwnFailure, OneTask, Orphans,
          OpenedMidCall, OrphanOfKafka

LEMMA TypeFacts ==
    ASSUME IInv
    PROVE  /\ cfg \in Configs /\ idx \in 0 .. NumWorkers
           /\ cb \in [Breakers -> Breaker]
           /\ \A b \in Breakers : Coherent(cb[b])
           /\ loop \in Slots \cup {Free}
           /\ req \in [Slots -> Request]
           /\ \A s \in Slots : RequestOK(req[s])
           /\ \A s \in Slots : req[s].pc = "calling" => loop = s
BY DEF IInv, TypeOK, BreakersCoherent

(* Moves that leave the breakers and the loop alone.                       *)
LEMMA QuietMove ==
    ASSUME IInv, NEW s \in Slots, NEW r,
           RequestOK(r), r.pc # "calling", OrphanOfKafka(r, cfg),
           req' = [req EXCEPT ![s] = r],
           idx' \in 0 .. NumWorkers,
           UNCHANGED <<cfg, cb, loop>>
    PROVE  IInv'
<1>1. OpenedMidCall(r, cb')
      BY DEF OpenedMidCall
<1>2. QED
      BY <1>1, TypeFacts, RequestMoves

LEMMA ArriveKeepsIInv ==
    ASSUME IInv, NEW s \in Slots, NEW ep \in Endpoints, NEW oversize \in BOOLEAN,
           Arrive(s, ep, oversize)
    PROVE  IInv'
<1> DEFINE r == [NoRequest EXCEPT !.pc = "reading", !.ep = ep, !.oversize = oversize,
                                  !.left = handler(ep).attempts]
<1>1. r \in Request
      BY NoRequestIsRequest, NamesInRange, HandlerFacts, ArrivedIsRequest, Zenon
<1>2. /\ r.pc = "reading" /\ r.ep = ep /\ r.left = handler(ep).attempts
      /\ r.ran = 0 /\ r.handed = 0 /\ r.reply = 0 /\ r.tasks = 0
      BY DEF NoRequest
<1> HIDE DEF r
<1>3. RequestOK(r)
      BY <1>1, <1>2, HandlerFacts
      DEF RequestOK, NotBegun, InHand, Accounted, OwnFailure, OneTask, Orphans, MaxAttempts
<1>4. req' = [req EXCEPT ![s] = r] /\ UNCHANGED <<cfg, idx, cb, loop>>
      BY DEF Arrive, r
<1>5. OrphanOfKafka(r, cfg)
      BY <1>2 DEF OrphanOfKafka
<1>6. QED
      BY <1>2, <1>3, <1>4, <1>5, TypeFacts, QuietMove

LEMMA LeaveKeepsIInv ==
    ASSUME IInv, NEW s \in Slots, Leave(s)
    PROVE  IInv'
<1>1. /\ RequestOK(NoRequest) /\ NoRequest.pc # "calling"
      /\ OrphanOfKafka(NoRequest, cfg)
      BY NoRequestIsRequest
      DEF RequestOK, NotBegun, InHand, Accounted, OwnFailure, OneTask, Orphans, NoRequest,
          OrphanOfKafka
<1>2. QED
      BY <1>1, TypeFacts, QuietMove DEF Leave

(* The three ways to be turned away before the call.                       *)
LEMMA ReadingFacts ==
    ASSUME IInv, NEW s \in Slots, Reading(s)
    PROVE  /\ req[s] \in Request /\ req[s].ep \in Endpoints
           /\ req[s].ran = 0 /\ req[s].handed = 0 /\ req[s].reply = 0 /\ req[s].tasks = 0
           /\ \A status \in {422, 500, 503} :
                  /\ RequestOK(Answer(req[s], status))
                  /\ Answer(req[s], status).pc # "calling"
                  /\ OrphanOfKafka(Answer(req[s], status), cfg)
           /\ \A t \in Slots : req[t].pc # "calling"
<1>1. /\ req[s] \in Request /\ req[s].ep \in Endpoints
      /\ req[s].ran = 0 /\ req[s].handed = 0 /\ req[s].reply = 0 /\ req[s].tasks = 0
      BY DEF IInv, Reading, RequestOK, NotBegun
<1>2. req[s].handed <= 2 * handler(req[s].ep).attempts
      BY <1>1, HandlerFacts DEF MaxAttempts
<1>3. ASSUME NEW status \in {422, 500, 503}
      PROVE  /\ RequestOK(Answer(req[s], status))
             /\ Answer(req[s], status).pc # "calling"
             /\ OrphanOfKafka(Answer(req[s], status), cfg)
  <2>1. /\ status \in Status
        /\ status = 503 /\ req[s].ran > 0 => req[s].opened
        /\ TasksFit(req[s], status) /\ Orphans(req[s])
        BY <1>1 DEF Status, TasksFit, Orphans
  <2>2. OrphanOfKafka(Answer(req[s], status), cfg)
        BY <1>1, <2>1, FieldsOfAnswer DEF OrphanOfKafka
  <2>3. QED
        BY <1>1, <1>2, <2>1, <2>2, AnswerIsOK
<1>4. \A t \in Slots : req[t].pc # "calling"
      BY TypeFacts, DispatchAssumption DEF Reading
<1>5. QED
      BY <1>1, <1>3, <1>4

LEMMA RejectOversizeKeepsIInv ==
    ASSUME IInv, NEW s \in Slots, RejectOversize(s)
    PROVE  IInv'
<1> DEFINE status == TooManyImagesReply(req[s].ep)
<1>1. status \in {422, 500, 503}
      BY ErrorReplyFacts DEF TooManyImagesReply
<1>2. req' = [req EXCEPT ![s] = Answer(req[s], status)]
      BY DEF RejectOversize
<1> HIDE DEF status
<1>3. Reading(s) /\ UNCHANGED <<cfg, idx, cb, loop>>
      BY DEF RejectOversize
<1>4. /\ RequestOK(Answer(req[s], status)) /\ Answer(req[s], status).pc # "calling"
      /\ OrphanOfKafka(Answer(req[s], status), cfg)
      BY <1>1, <1>3, ReadingFacts
<1>5. QED
      BY <1>2, <1>3, <1>4, TypeFacts, QuietMove

LEMMA RejectUploadKeepsIInv ==
    ASSUME IInv, NEW s \in Slots, RejectUpload(s)
    PROVE  IInv'
<1>0. PICK exc \in Unreadable(req[s].ep) :
          req' = [req EXCEPT ![s] = Answer(req[s], ErrorReply(req[s].ep, exc))]
      BY DEF RejectUpload
<1> DEFINE status == ErrorReply(req[s].ep, exc)
<1>1. status \in {422, 500, 503}
      BY ErrorReplyFacts
<1>2. req' = [req EXCEPT ![s] = Answer(req[s], status)]
      BY <1>0
<1> HIDE DEF status
<1>3. Reading(s) /\ UNCHANGED <<cfg, idx, cb, loop>>
      BY DEF RejectUpload
<1>4. /\ RequestOK(Answer(req[s], status)) /\ Answer(req[s], status).pc # "calling"
      /\ OrphanOfKafka(Answer(req[s], status), cfg)
      BY <1>1, <1>3, ReadingFacts
<1>5. QED
      BY <1>2, <1>3, <1>4, TypeFacts, QuietMove

LEMMA FailBatchKeepsIInv ==
    ASSUME IInv, NEW s \in Slots, FailBatch(s)
    PROVE  IInv'
<1> DEFINE status == ErrorReply(req[s].ep, "Exception")
<1>1. status \in {422, 500, 503}
      BY ErrorReplyFacts
<1>2. req' = [req EXCEPT ![s] = Answer(req[s], status)]
      BY DEF FailBatch
<1>3. idx' \in 0 .. NumWorkers
      BY TypeFacts, DispatchAssumption, NextWorkerIdxInRange DEF FailBatch
<1> HIDE DEF status
<1>4. Reading(s) /\ UNCHANGED <<cfg, cb, loop>>
      BY DEF FailBatch
<1>5. /\ RequestOK(Answer(req[s], status)) /\ Answer(req[s], status).pc # "calling"
      /\ OrphanOfKafka(Answer(req[s], status), cfg)
      BY <1>1, <1>4, ReadingFacts
<1>6. QED
      BY <1>2, <1>3, <1>4, <1>5, QuietMove

LEMMA StartCallKeepsIInv ==
    ASSUME IInv, NEW s \in Slots, StartCall(s)
    PROVE  IInv'
<1> DEFINE r == [req[s] EXCEPT !.pc = "calling"]
<1>1. Reading(s) /\ loop' = s /\ UNCHANGED <<cfg, idx, cb>>
      BY DEF StartCall
<1>2. req[s] \in Request /\ RequestOK(req[s]) /\ req[s].pc = "reading"
      BY <1>1, TypeFacts DEF Reading
<1>3. r \in Request
      BY <1>2, NamesInRange, MovedIsRequest
<1>4. /\ r.pc = "calling" /\ r.ep = req[s].ep /\ r.left = req[s].left
      /\ r.ran = req[s].ran /\ r.handed = req[s].handed /\ r.reply = req[s].reply
      /\ r.tasks = req[s].tasks
      BY <1>2 DEF Request
<1>5. req' = [req EXCEPT ![s] = r]
      BY DEF StartCall
<1> HIDE DEF r
<1>6. RequestOK(r)
      BY <1>2, <1>3, <1>4 DEF RequestOK, NotBegun, InHand, Accounted, OwnFailure, OneTask, Orphans
<1>7. OpenedMidCall(r, cb') /\ OrphanOfKafka(r, cfg)
      BY <1>2, <1>4 DEF OpenedMidCall, RequestOK, NotBegun, OrphanOfKafka
<1>8. \A t \in Slots : req[t].pc # "calling"
      BY <1>1, ReadingFacts
<1>9. QED
      BY <1>1, <1>4, <1>5, <1>6, <1>7, <1>8, TypeFacts, RequestMoves

LEMMA JobsStayBounded ==
    ASSUME NEW ran \in Nat, NEW left \in Nat, NEW jobs \in Nat,
           NEW n \in 1 .. 3, NEW h \in 0 .. 2,
           left > 0, ran + left <= n, jobs <= 2 * ran
    PROVE  /\ ran + 1 \in Attempts
           /\ jobs + h \in Handed
           /\ jobs + h <= 2 * (ran + 1)
           /\ jobs + h <= 2 * n
BY DEF Attempts, Handed, MaxAttempts

(* In the middle of a call: the loop is held, nobody else is calling.      *)
LEMMA CallingFacts ==
    ASSUME IInv, NEW s \in Slots, Calling(s)
    PROVE  /\ req[s] \in Request /\ req[s].ep \in Endpoints /\ req[s].pc = "calling"
           /\ req[s].reply = 0 /\ (handler(req[s].ep).work # "wait" => req[s].tasks = 0)
           /\ Orphans(req[s]) /\ OrphanOfKafka(req[s], cfg)
           /\ req[s].tasks \in Nat
           /\ req[s].left \in Nat /\ req[s].ran \in Nat /\ req[s].handed \in Nat
           /\ req[s].left > 0
           /\ req[s].ran + req[s].left <= handler(req[s].ep).attempts
           /\ req[s].handed <= 2 * req[s].ran
           /\ handler(req[s].ep).attempts \in 1 .. 3
           /\ handler(req[s].ep).breaker \in Breakers
           /\ \A t \in Slots \ {s} : req[t].pc # "calling"
<1>1. RequestOK(req[s]) /\ req[s].pc = "calling"
      BY TypeFacts DEF Calling
<1>2. req[s] \in Request /\ req[s].ep \in Endpoints
      BY <1>1 DEF RequestOK
<1>3. /\ req[s].reply = 0 /\ (handler(req[s].ep).work # "wait" => req[s].tasks = 0)
      /\ req[s].left > 0
      /\ req[s].ran + req[s].left <= handler(req[s].ep).attempts
      /\ req[s].handed <= 2 * req[s].ran
      BY <1>1 DEF RequestOK, InHand
<1>4. /\ req[s].left \in Nat /\ req[s].ran \in Nat /\ req[s].handed \in Nat
      /\ req[s].tasks \in Nat
      BY <1>2, RequestFields DEF Attempts, Handed, MaxAttempts
<1>5. /\ handler(req[s].ep).attempts \in 1 .. 3
      /\ handler(req[s].ep).breaker \in Breakers
      BY <1>2, HandlerFacts DEF MaxAttempts
<1>6. \A t \in Slots \ {s} : req[t].pc # "calling"
      BY <1>1, TypeFacts
<1>7. Orphans(req[s]) /\ OrphanOfKafka(req[s], cfg)
      BY <1>1 DEF IInv, RequestOK
<1>8. QED
      BY <1>1, <1>2, <1>3, <1>4, <1>5, <1>6, <1>7

LEMMA LoopAfterFacts ==
    ASSUME NEW s \in Slots, NEW r
    PROVE  /\ LoopAfter(s, r) \in Slots \cup {Free}
           /\ r.pc = "calling" => LoopAfter(s, r) = s
BY DEF LoopAfter

LEMMA CallRejectedKeepsIInv ==
    ASSUME IInv, NEW s \in Slots, CallRejected(s)
    PROVE  IInv'
<1> DEFINE r == AfterException(req[s], "CircuitOpenError")
<1>1. Calling(s)
      BY DEF CallRejected
<1>2. cb[handler(req[s].ep).breaker].state = "open"
      BY DEF CallRejected, CanAttempt
<1>3. req[s].ran > 0 => req[s].opened
      BY <1>1, <1>2, CallingFacts DEF IInv, OpenedMidCall
<1>4. /\ req[s].ran + req[s].left <= handler(req[s].ep).attempts + 1
      /\ req[s].ran <= handler(req[s].ep).attempts
      BY <1>1, CallingFacts
<1>5. /\ RequestOK(r) /\ r.ran = req[s].ran /\ r.opened = req[s].opened
      /\ r.tasks = req[s].tasks /\ r.ep = req[s].ep
      BY <1>1, <1>3, <1>4, CallingFacts, NamesInRange, AfterExceptionIsOK
<1>6. req' = [req EXCEPT ![s] = r] /\ loop' = LoopAfter(s, r)
      BY DEF CallRejected
<1>7. UNCHANGED <<cfg, idx, cb>>
      BY DEF CallRejected
<1> HIDE DEF r
<1>8. OpenedMidCall(r, cb') /\ OrphanOfKafka(r, cfg)
      BY <1>1, <1>3, <1>5, CallingFacts DEF OpenedMidCall, OrphanOfKafka
<1>9. QED
      BY <1>1, <1>5, <1>6, <1>7, <1>8, CallingFacts, LoopAfterFacts, TypeFacts, RequestMoves

(* What the breaker becomes.                                               *)
LEMMA BreakersAfterCall ==
    ASSUME IInv, NEW b \in Breakers
    PROVE  /\ OnSuccess(Admitted(cb[b])) \in Breaker
           /\ Coherent(OnSuccess(Admitted(cb[b])))
           /\ OnFailure(Admitted(cb[b])) \in Breaker
           /\ Coherent(OnFailure(Admitted(cb[b])))
<1>1. cb[b] \in Breaker /\ Coherent(cb[b])
      BY TypeFacts
<1>2. Admitted(cb[b]) \in Breaker /\ Coherent(Admitted(cb[b]))
      BY <1>1, AdmittedIsCoherent
<1>3. QED
      BY <1>2, OnSuccessIsCoherent, OnFailureIsCoherent

LEMMA BreakerUpdate ==
    ASSUME IInv, NEW b \in Breakers, NEW x \in Breaker, Coherent(x),
           cb' = [cb EXCEPT ![b] = x]
    PROVE  /\ cb' \in [Breakers -> Breaker]
           /\ \A c \in Breakers : Coherent(cb'[c])
           /\ cb'[b] = x
BY TypeFacts

(* Only /models answers a ValueError with 500, and it registers nothing.   *)
LEMMA ValueErrorReply ==
    ASSUME NEW r, ErrorReply(r.ep, "ValueError") = 500
    PROVE  handler(r.ep).work = "models"
<1>1. CASE r.ep = "models"
  <2>1. handler(r.ep) = get_available_models
        BY <1>1 DEF handler
  <2>2. QED
        BY <2>1 DEF get_available_models
<1>2. CASE r.ep # "models"
  <2>1. ErrorReply(r.ep, "ValueError") = 422
        BY <1>2 DEF ErrorReply
  <2>2. QED
        BY <2>1
<1>3. QED
      BY <1>1, <1>2

(* The entries in _TASKS after a run of _call.                             *)
LEMMA RegisteredFacts ==
    ASSUME IInv, NEW s \in Slots, Calling(s), NEW run \in CallRuns(req[s].ep)
    PROVE  LET n == req[s].tasks + Registered(req[s], run.out)
               work == handler(req[s].ep).work
           IN  /\ n \in Nat /\ n <= req[s].ran + 1 /\ n \in Attempts
               /\ work # "wait" => n = IF work = "task" /\ run.out.exc = "none" THEN 1 ELSE 0
               /\ work = "wait" => n <= req[s].handed + run.out.handed
               /\ work = "wait" /\ n > 0 => cfg.provider = "kafka"
<1> DEFINE m == Registered(req[s], run.out)
           work == handler(req[s].ep).work
<1>1. /\ req[s].tasks \in Nat /\ req[s].ran \in Nat /\ req[s].handed \in Nat
      /\ req[s].left \in Nat /\ req[s].left > 0
      /\ req[s].ran + req[s].left <= handler(req[s].ep).attempts
      /\ handler(req[s].ep).attempts \in 1 .. 3
      /\ work # "wait" => req[s].tasks = 0
      /\ req[s].tasks <= req[s].ran
      /\ work = "wait" => req[s].tasks <= req[s].handed
      /\ work = "wait" /\ req[s].tasks > 0 => cfg.provider = "kafka"
      BY CallingFacts DEF Orphans, OrphanOfKafka
<1>2. /\ m \in {0, 1}
      /\ work # "wait" => m = IF work = "task" /\ run.out.exc = "none" THEN 1 ELSE 0
      /\ work = "wait" => m = IF run.out.backend = "kafka" THEN 1 ELSE 0
      BY DEF Registered
<1>3. /\ run.out.handed \in 0 .. 2
      /\ work = "wait" /\ run.out.backend = "kafka" => cfg.provider = "kafka" /\ run.out.handed = 1
  <2>1. cfg \in Configs /\ idx \in 0 .. NumWorkers /\ req[s].ep \in Endpoints
        BY TypeFacts, CallingFacts
  <2>2. QED
        BY <2>1, CallRunsFacts DEF Outcome
<1> HIDE DEF m, work
<1>4. req[s].tasks + m \in Nat /\ req[s].tasks + m <= req[s].ran + 1 /\ req[s].tasks + m \in 0 .. 3
      BY <1>1, <1>2
<1>5. work # "wait" =>
          req[s].tasks + m = IF work = "task" /\ run.out.exc = "none" THEN 1 ELSE 0
      BY <1>1, <1>2
<1>6. work = "wait" => /\ req[s].tasks + m <= req[s].handed + run.out.handed
                       /\ req[s].tasks + m > 0 => cfg.provider = "kafka"
      BY <1>1, <1>2, <1>3
<1>7. QED
      BY <1>4, <1>5, <1>6 DEF m, work, Attempts, MaxAttempts

LEMMA CallSucceedsKeepsIInv ==
    ASSUME IInv, NEW s \in Slots, CallSucceeds(s)
    PROVE  IInv'
<1> DEFINE b == handler(req[s].ep).breaker
<1>1. Calling(s)
      BY DEF CallSucceeds
<1>2. PICK run \in CallRuns(req[s].ep) :
          /\ run.out.exc = "none"
          /\ idx' = run.idx
          /\ \E status \in Replies(req[s], run.out) :
                LET r == [req[s] EXCEPT
                            !.ran = @ + 1, !.handed = @ + run.out.handed,
                            !.backend = run.out.backend,
                            !.tasks = @ + Registered(req[s], run.out)]
                IN  req' = [req EXCEPT ![s] = Answer(r, status)]
      BY DEF CallSucceeds
<1> DEFINE n == req[s].tasks + Registered(req[s], run.out)
           work == handler(req[s].ep).work
           r0 == [req[s] EXCEPT !.ran = req[s].ran + 1,
                                !.handed = req[s].handed + run.out.handed,
                                !.backend = run.out.backend,
                                !.tasks = n]
<1>3. PICK status \in Replies(req[s], run.out) :
          req' = [req EXCEPT ![s] = Answer(r0, status)]
      BY <1>2
<1>4. run.out \in Outcome /\ run.idx \in 0 .. NumWorkers
      BY <1>1, CallingFacts, CallRunsFacts, TypeFacts
<1>5. run.out.handed \in 0 .. 2 /\ run.out.backend \in Backend
      BY <1>4 DEF Outcome
<1>6. /\ req[s].ran + 1 \in Attempts
      /\ req[s].handed + run.out.handed \in Handed
      /\ req[s].handed + run.out.handed <= 2 * handler(req[s].ep).attempts
  <2>1. /\ req[s].ran \in Nat /\ req[s].left \in Nat /\ req[s].handed \in Nat
        /\ handler(req[s].ep).attempts \in 1 .. 3
        /\ req[s].left > 0
        /\ req[s].ran + req[s].left <= handler(req[s].ep).attempts
        /\ req[s].handed <= 2 * req[s].ran
        BY <1>1, CallingFacts
  <2>2. QED
        BY <1>5, <2>1, JobsStayBounded, Zenon
<1>7. /\ n \in Attempts /\ n <= req[s].ran + 1
      /\ work # "wait" => n = IF work = "task" THEN 1 ELSE 0
      /\ work = "wait" => n <= req[s].handed + run.out.handed
      /\ work = "wait" /\ n > 0 => cfg.provider = "kafka"
      BY <1>1, <1>2, RegisteredFacts
<1> HIDE DEF n
<1>8. r0 \in Request
      BY <1>1, <1>5, <1>6, <1>7, CallingFacts, ReturnedIsRequest, Zenon
<1>9. /\ r0.ep = req[s].ep /\ r0.handed = req[s].handed + run.out.handed
      /\ r0.tasks = n /\ r0.backend = run.out.backend /\ r0.ran = req[s].ran + 1
      BY <1>1, CallingFacts DEF Request
<1>10. /\ status \in Status /\ status # 503
       /\ status = 200 \/ \E exc \in Misfits(req[s], run.out) : status = ErrorReply(req[s].ep, exc)
  <2>1. status = 200 \/ \E exc \in Misfits(req[s], run.out) : status = ErrorReply(req[s].ep, exc)
        BY <1>3 DEF Replies
  <2>2. \A exc \in Misfits(req[s], run.out) : exc # "CircuitOpenError"
        BY DEF Misfits
  <2>3. QED
        BY <2>1, <2>2, ErrorReplyFacts, NamesInRange
<1>11. req' = [req EXCEPT ![s] = Answer(r0, status)]
      BY <1>3
<1>12. UNCHANGED cfg /\ loop' = Free
      BY DEF CallSucceeds
<1>13. /\ cb' \in [Breakers -> Breaker]
       /\ \A c \in Breakers : Coherent(cb'[c])
  <2>1. cb' = [cb EXCEPT ![b] = OnSuccess(Admitted(cb[b]))]
        BY DEF CallSucceeds
  <2>2. QED
        BY <1>1, <2>1, CallingFacts, BreakersAfterCall, BreakerUpdate
<1> HIDE DEF r0
<1>14. TasksFit(r0, status)
  <2> SUFFICES ASSUME work # "wait"
               PROVE  /\ status = 200 => n = IF work = "task" THEN 1 ELSE 0
                      /\ status \in {500, 503} => n = 0
                      /\ status = 422 /\ n = 1 => run.out.backend = "local"
      BY <1>9 DEF TasksFit
  <2>1. n = IF work = "task" THEN 1 ELSE 0
        BY <1>7
  <2>2. Misfits(req[s], run.out) \subseteq {"ValueError"}
        BY DEF Misfits
  <2>3. CASE status = 200
        BY <2>1, <2>3
  <2>4. CASE status # 200
    <3>1. /\ status = ErrorReply(req[s].ep, "ValueError")
          /\ "ValueError" \in Misfits(req[s], run.out)
          BY <1>10, <2>2, <2>4
    <3>2. run.out.backend = "local"
          BY <3>1 DEF Misfits
    <3>3. status = 500 => work = "models"
          BY <3>1, ValueErrorReply
    <3>4. QED
          BY <1>10, <2>1, <2>4, <3>2, <3>3
  <2>5. QED
        BY <2>3, <2>4
<1>15. r0.ep \in Endpoints /\ r0.handed <= 2 * handler(r0.ep).attempts
      BY <1>1, <1>6, <1>9, CallingFacts
<1>16. Orphans(r0)
      BY <1>7, <1>9 DEF Orphans
<1>17. RequestOK(Answer(r0, status)) /\ Answer(r0, status).pc = "answered"
      BY <1>8, <1>10, <1>15, <1>14, <1>16, AnswerIsOK
<1>18. OpenedMidCall(Answer(r0, status), cb') /\ OrphanOfKafka(Answer(r0, status), cfg)
      BY <1>7, <1>8, <1>9, <1>10, <1>17, FieldsOfAnswer DEF OpenedMidCall, OrphanOfKafka
<1>19. QED
      BY <1>1, <1>2, <1>4, <1>11, <1>12, <1>13, <1>17, <1>18, CallingFacts, RequestMoves

LEMMA CallFailsKeepsIInv ==
    ASSUME IInv, NEW s \in Slots, CallFails(s)
    PROVE  IInv'
<1> DEFINE b == handler(req[s].ep).breaker
           opens == req[s].opened \/ cb'[b].state = "open"
<1>1. Calling(s)
      BY DEF CallFails
<1>2. PICK run \in CallRuns(req[s].ep) :
          /\ run.out.exc # "none"
          /\ idx' = run.idx
          /\ LET r == AfterException([req[s] EXCEPT
                          !.ran = @ + 1, !.handed = @ + run.out.handed,
                          !.opened = @ \/ cb'[b].state = "open",
                          !.tasks = @ + Registered(req[s], run.out)], run.out.exc)
             IN  /\ req' = [req EXCEPT ![s] = r]
                 /\ loop' = LoopAfter(s, r)
      BY DEF CallFails
<1> DEFINE n == req[s].tasks + Registered(req[s], run.out)
           work == handler(req[s].ep).work
           r0 == [req[s] EXCEPT !.ran = req[s].ran + 1,
                                !.handed = req[s].handed + run.out.handed,
                                !.opened = opens,
                                !.tasks = n]
           r == AfterException(r0, run.out.exc)
<1>3. run.out \in Outcome /\ run.idx \in 0 .. NumWorkers
      BY <1>1, CallingFacts, CallRunsFacts, TypeFacts
<1>4. /\ run.out.handed \in 0 .. 2
      /\ run.out.exc \in Exceptions /\ run.out.exc # "CircuitOpenError"
      BY <1>3 DEF Outcome
<1>5. /\ req[s].ran + 1 \in Attempts
      /\ req[s].handed + run.out.handed \in Handed
      /\ req[s].handed + run.out.handed <= 2 * (req[s].ran + 1)
  <2>1. /\ req[s].ran \in Nat /\ req[s].left \in Nat /\ req[s].handed \in Nat
        /\ handler(req[s].ep).attempts \in 1 .. 3
        /\ req[s].left > 0
        /\ req[s].ran + req[s].left <= handler(req[s].ep).attempts
        /\ req[s].handed <= 2 * req[s].ran
        BY <1>1, CallingFacts
  <2>2. QED
        BY <1>4, <2>1, JobsStayBounded, Zenon
<1>6. opens \in BOOLEAN
      OBVIOUS
<1>7. req' = [req EXCEPT ![s] = r] /\ loop' = LoopAfter(s, r)
      BY <1>2
<1>7a. /\ n \in Attempts /\ n <= req[s].ran + 1
       /\ work # "wait" => n = 0
       /\ work = "wait" => n <= req[s].handed + run.out.handed
       /\ work = "wait" /\ n > 0 => cfg.provider = "kafka"
      BY <1>1, <1>2, RegisteredFacts
<1> HIDE DEF opens, n
<1>8. r0 \in Request
      BY <1>1, <1>5, <1>6, <1>7a, CallingFacts, RanIsRequest, Zenon
<1>9. /\ r0.ep = req[s].ep /\ r0.pc = "calling" /\ r0.reply = 0 /\ r0.left = req[s].left
      /\ r0.tasks = n
      /\ r0.ran = req[s].ran + 1 /\ r0.handed = req[s].handed + run.out.handed
      /\ r0.opened = opens
      BY <1>1, CallingFacts DEF Request
<1> HIDE DEF r0
<1>10. /\ r0.left > 0
       /\ r0.ran + r0.left <= handler(r0.ep).attempts + 1
       /\ r0.handed <= 2 * r0.ran
       /\ r0.ran <= handler(r0.ep).attempts
      BY <1>1, <1>5, <1>9, CallingFacts
<1>10a. Orphans(r0) /\ (handler(r0.ep).work # "wait" => r0.tasks = 0)
      BY <1>9, <1>7a DEF Orphans
<1>11. RequestOK(r) /\ r.ep = r0.ep /\ r.opened = r0.opened /\ r.tasks = r0.tasks
      BY <1>1, <1>4, <1>8, <1>9, <1>10, <1>10a, CallingFacts, AfterExceptionIsOK
<1> HIDE DEF r
<1>12. OpenedMidCall(r, cb') /\ OrphanOfKafka(r, cfg)
      BY <1>9, <1>11, <1>7a DEF OpenedMidCall, opens, OrphanOfKafka
<1>13. /\ cb' \in [Breakers -> Breaker]
       /\ \A c \in Breakers : Coherent(cb'[c])
  <2>1. cb' = [cb EXCEPT ![b] = OnFailure(Admitted(cb[b]))]
        BY DEF CallFails
  <2>2. QED
        BY <1>1, <2>1, CallingFacts, BreakersAfterCall, BreakerUpdate
<1>14. UNCHANGED cfg
      BY DEF CallFails
<1>15. idx' \in 0 .. NumWorkers
      BY <1>2, <1>3
<1>16. loop' \in Slots \cup {Free} /\ (r.pc = "calling" => loop' = s)
      BY <1>7, LoopAfterFacts
<1>17. \A t \in Slots \ {s} : req[t].pc # "calling"
      BY <1>1, CallingFacts
<1>18. QED
      BY <1>7, <1>11, <1>12, <1>13, <1>14, <1>15, <1>16, <1>17, RequestMoves

LEMMA TickKeepsIInv ==
    ASSUME IInv, Tick
    PROVE  IInv'
<1>1. \A b \in Breakers : /\ cb'[b] \in Breaker
                          /\ Coherent(cb'[b])
                          /\ cb'[b].state = cb[b].state
      BY TypeFacts, ElapseIsCoherent DEF Tick
<1>2. cb' \in [Breakers -> Breaker]
      BY <1>1 DEF Tick
<1>3. UNCHANGED <<cfg, idx, loop, req>>
      BY DEF Tick
<1>4. \A s \in Slots : OpenedMidCall(req'[s], cb')
  <2> SUFFICES ASSUME NEW s \in Slots, req[s].pc = "calling", req[s].ran > 0,
                      cb'[handler(req[s].ep).breaker].state = "open"
               PROVE  req[s].opened
      BY <1>3 DEF OpenedMidCall
  <2>1. req[s].ep \in Endpoints
        BY TypeFacts DEF RequestOK
  <2>2. cb[handler(req[s].ep).breaker].state = "open"
        BY <1>1, <2>1, HandlerFacts
  <2>3. QED
        BY <2>2 DEF IInv, OpenedMidCall
<1>5. TypeOK'
      BY <1>2, <1>3, TypeFacts DEF TypeOK
<1>6. BreakersCoherent'
      BY <1>1 DEF BreakersCoherent
<1>7. \A s \in Slots : OrphanOfKafka(req'[s], cfg')
      BY <1>3 DEF IInv
<1>8. QED
      BY <1>3, <1>4, <1>5, <1>6, <1>7, TypeFacts
      DEF IInv, RequestOK, NotBegun, InHand, Accounted, OwnFailure, OneTask, Orphans,
          OpenedMidCall, OrphanOfKafka

LEMMA InitEstablishesIInv == Init => IInv
<1> SUFFICES ASSUME Init PROVE IInv
    OBVIOUS
<1>1. TypeOK
      BY NewBreakerIsCoherent, NoRequestIsRequest, NumWorkersAssumption DEF Init, TypeOK
<1>2. BreakersCoherent
      BY NewBreakerIsCoherent DEF Init, BreakersCoherent
<1>3. /\ RequestOK(NoRequest) /\ NoRequest.pc # "calling"
      /\ OrphanOfKafka(NoRequest, cfg)
      BY NoRequestIsRequest
      DEF RequestOK, NotBegun, InHand, Accounted, OwnFailure, OneTask, Orphans, NoRequest,
          OrphanOfKafka
<1>4. \A s \in Slots : req[s] = NoRequest
      BY DEF Init
<1>5. QED
      BY <1>1, <1>2, <1>3, <1>4 DEF IInv, OpenedMidCall

LEMMA StepsKeepIInv == IInv /\ [Next]_vars => IInv'
<1> SUFFICES ASSUME IInv, [Next]_vars PROVE IInv'
    OBVIOUS
<1>1. ASSUME NEW s \in Slots, NEW ep \in Endpoints, NEW oversize \in BOOLEAN,
             Arrive(s, ep, oversize)
      PROVE  IInv'
      BY <1>1, ArriveKeepsIInv
<1>2. ASSUME NEW s \in Slots, Begin(s)
      PROVE  IInv'
      BY <1>2, RejectOversizeKeepsIInv, RejectUploadKeepsIInv, FailBatchKeepsIInv,
         StartCallKeepsIInv DEF Begin
<1>3. ASSUME NEW s \in Slots, Attempt(s)
      PROVE  IInv'
      BY <1>3, CallRejectedKeepsIInv, CallSucceedsKeepsIInv, CallFailsKeepsIInv DEF Attempt
<1>4. ASSUME NEW s \in Slots, Leave(s)
      PROVE  IInv'
      BY <1>4, LeaveKeepsIInv
<1>5. CASE Tick
      BY <1>5, TickKeepsIInv
<1>6. CASE UNCHANGED vars
      BY <1>6 DEF vars, IInv, TypeOK, BreakersCoherent, RequestOK, NotBegun, InHand,
                  Accounted, OwnFailure, OneTask, Orphans, OpenedMidCall, OrphanOfKafka
<1>7. QED
      BY <1>1, <1>2, <1>3, <1>4, <1>5, <1>6 DEF Next

LEMMA InvariantHolds == Spec => []IInv
BY InitEstablishesIInv, StepsKeepIInv, PTL DEF Spec

-----------------------------------------------------------------------------
(* The configuration, the breakers, the loop and the requests always have  *)
(* their types, for any number of requests and any breaker settings.       *)
THEOREM TypeCorrect == Spec => []TypeOK
<1>1. IInv => TypeOK
      BY DEF IInv
<1>2. QED
      BY <1>1, InvariantHolds, PTL

(* However the handlers that share a breaker interleave, retry or are      *)
(* turned away, the breaker is closed exactly below its threshold.         *)
THEOREM SharedBreakersStayCoherent == Spec => []BreakersCoherent
<1>1. IInv => BreakersCoherent
      BY DEF IInv
<1>2. QED
      BY <1>1, InvariantHolds, PTL

(* retry_call may run _call again after it handed work over, yet a client  *)
(* answered 200 by a task endpoint has one task, and one answered 500 or   *)
(* 503 none.                                                               *)
THEOREM EveryAnswerHasItsTask == Spec => []OneTaskPerAnswer
<1>1. IInv => OneTaskPerAnswer
      BY DEF IInv, RequestOK, OneTask, TasksFit, OneTaskPerAnswer
<1>2. QED
      BY <1>1, InvariantHolds, PTL

(* Whatever is given up and tried again, the entries that requests of the  *)
(* secure endpoints leave in _TASKS, of which no client is told, are       *)
(* KafkaWorker's, and no more than the jobs it handed over.                *)
THEOREM OrphansAreKafkas == Spec => []OnlyKafkaLeavesOrphans
<1>1. IInv => OnlyKafkaLeavesOrphans
      BY DEF IInv, RequestOK, Orphans, OrphanOfKafka, OnlyKafkaLeavesOrphans
<1>2. QED
      BY <1>1, InvariantHolds, PTL

(* A 503 takes the place of a real error only in a request whose own       *)
(* failure opened the breaker.                                             *)
THEOREM OnlyOwnFailureIsHidden == Spec => []RejectionHidesOnlyOwnFailure
<1>1. IInv => RejectionHidesOnlyOwnFailure
      BY DEF IInv, RequestOK, OwnFailure, RejectionHidesOnlyOwnFailure
<1>2. QED
      BY <1>1, InvariantHolds, PTL

(* Retries and the fallback from Kafka to Celery hand over at most two     *)
(* jobs per attempt the endpoint grants.                                   *)
THEOREM JobsPerRequestAreBounded == Spec => []DuplicateWorkIsBounded
<1>1. ASSUME NEW r, RequestOK(r), r.pc # "idle"
      PROVE  r.handed <= 2 * handler(r.ep).attempts
  <2>1. r.ran \in Nat /\ r.left \in Nat /\ r.handed \in Nat /\ r.pc \in Place
        BY <1>1, RequestFields DEF RequestOK, Attempts, Handed, MaxAttempts
  <2>2. handler(r.ep).attempts \in 1 .. 3
        BY <1>1, HandlerFacts DEF RequestOK, MaxAttempts
  <2>3. CASE r.pc = "answered"
        BY <1>1, <2>3 DEF RequestOK, Accounted
  <2>4. CASE r.pc \in {"reading", "calling"}
    <3>1. r.left > 0 /\ r.ran + r.left <= handler(r.ep).attempts /\ r.handed <= 2 * r.ran
          BY <1>1, <2>4 DEF RequestOK, InHand
    <3>2. QED
          BY <2>1, <2>2, <3>1
  <2>5. QED
        BY <1>1, <2>1, <2>3, <2>4 DEF Place
<1>2. IInv => DuplicateWorkIsBounded
      BY <1>1 DEF IInv, DuplicateWorkIsBounded
<1>3. QED
      BY <1>2, InvariantHolds, PTL

-----------------------------------------------------------------------------
(* What a call, or time, does to one breaker is a step of its promise.     *)
(* What the breaker is like inside a call: as it was, or half open with    *)
(* nothing counted.                                                        *)
LEMMA InsideACall ==
    ASSUME NEW b \in Breakers, cb[b] \in Breaker, Coherent(cb[b]), CanAttempt(cb[b])
    PROVE  /\ Admitted(cb[b]) \in Breaker /\ Coherent(Admitted(cb[b]))
           /\ Admitted(cb[b]).state # "open"
           /\ Promise(b)!MayEnter
           /\ Admitted(cb[b]).state = Promise(b)!ModeInside
           /\ Evidence(Admitted(cb[b])) = Promise(b)!CountInside
<1>1. CASE cb[b].state = "open"
      BY <1>1, AdmittedIsCoherent, AdmittedStartsProbing
         DEF Promise!MayEnter, Promise!ModeInside, Promise!CountInside
<1>2. CASE cb[b].state # "open"
      BY <1>2, AdmittedIsCoherent
         DEF Promise!MayEnter, Promise!ModeInside, Promise!CountInside
<1>3. QED
      BY <1>1, <1>2

LEMMA SuccessIsPromised ==
    ASSUME NEW b \in Breakers, cb[b] \in Breaker, Coherent(cb[b]), CanAttempt(cb[b]),
           cb'[b] = OnSuccess(Admitted(cb[b]))
    PROVE  [Promise(b)!Next]_(Promise(b)!vars)
<1> DEFINE a == Admitted(cb[b])
<1>1. /\ a \in Breaker /\ Coherent(a) /\ a.state # "open"
      /\ Promise(b)!MayEnter
      /\ a.state = Promise(b)!ModeInside /\ Evidence(a) = Promise(b)!CountInside
      /\ cb'[b] = OnSuccess(a)
      BY InsideACall
<1> HIDE DEF a
<1>2. Promise(b)!Success(a.state, Evidence(a))
  <2>1. CASE a.state = "half_open"
        BY <1>1, <2>1, OnSuccessCountsProbe DEF Promise!Success, Promise!Become
  <2>2. CASE a.state = "closed"
    <3>1. cb'[b] = a
          BY <1>1, <2>2, OnSuccessIsCoherent
    <3>2. QED
          BY <2>2, <3>1 DEF Promise!Success, Promise!Become
  <2>3. QED
        BY <1>1, <2>1, <2>2, BreakerFields
<1>3. Promise(b)!Outcome(Promise(b)!ModeInside, Promise(b)!CountInside)
      BY <1>1, <1>2 DEF Promise!Outcome, Promise!Success, Promise!Become
<1>4. Promise(b)!Call
      BY <1>1, <1>3 DEF Promise!Call
<1>5. QED
      BY <1>4 DEF Promise!Next

LEMMA FailureIsPromised ==
    ASSUME NEW b \in Breakers, cb[b] \in Breaker, Coherent(cb[b]), CanAttempt(cb[b]),
           cb'[b] = OnFailure(Admitted(cb[b]))
    PROVE  [Promise(b)!Next]_(Promise(b)!vars)
<1> DEFINE a == Admitted(cb[b])
<1>1. /\ a \in Breaker /\ Coherent(a) /\ a.state # "open"
      /\ Promise(b)!MayEnter
      /\ a.state = Promise(b)!ModeInside /\ Evidence(a) = Promise(b)!CountInside
      /\ cb'[b] = OnFailure(a)
      BY InsideACall
<1> HIDE DEF a
<1>2. Promise(b)!Failure(a.state, Evidence(a))
      BY <1>1, OnFailureCountsOrOpens DEF Promise!Failure, Promise!Become
<1>3. Promise(b)!Outcome(Promise(b)!ModeInside, Promise(b)!CountInside)
      BY <1>1, <1>2 DEF Promise!Outcome, Promise!Failure, Promise!Become
<1>4. Promise(b)!Call
      BY <1>1, <1>3 DEF Promise!Call
<1>5. QED
      BY <1>4 DEF Promise!Next

LEMMA TimeIsPromised ==
    ASSUME NEW b \in Breakers, cb[b] \in Breaker, Coherent(cb[b]),
           cb'[b] = Elapse(cb[b])
    PROVE  [Promise(b)!Next]_(Promise(b)!vars)
<1>1. CASE cb[b].state = "open" /\ Evidence(cb[b]) < recovery_timeout_sec
  <2>1. Promise(b)!RestOn
        BY <1>1, ElapseRests DEF Promise!RestOn, Promise!Become
  <2>2. QED
        BY <2>1 DEF Promise!Next
<1>2. CASE ~(cb[b].state = "open" /\ Evidence(cb[b]) < recovery_timeout_sec)
      BY <1>2, ElapseRests DEF Promise!vars
<1>3. QED
      BY <1>1, <1>2

LEMMA NoStepIsPromised ==
    ASSUME NEW b \in Breakers, cb'[b] = cb[b]
    PROVE  [Promise(b)!Next]_(Promise(b)!vars)
BY DEF Promise!vars

(* A call touches its own breaker and no other.                            *)
LEMMA NextIsPromised == IInv /\ [Next]_vars => [PromisedStep]_cb
<1> SUFFICES ASSUME IInv, [Next]_vars, NEW b \in Breakers
             PROVE  [Promise(b)!Next]_(Promise(b)!vars)
    BY DEF PromisedStep
<1>1. cb \in [Breakers -> Breaker] /\ cb[b] \in Breaker /\ Coherent(cb[b])
      BY TypeFacts
<1>2. ASSUME NEW s \in Slots, CallSucceeds(s)
      PROVE  [Promise(b)!Next]_(Promise(b)!vars)
  <2> DEFINE own == handler(req[s].ep).breaker
  <2>1. CanAttempt(cb[own]) /\ cb' = [cb EXCEPT ![own] = OnSuccess(Admitted(@))]
        BY <1>2 DEF CallSucceeds
  <2> HIDE DEF own
  <2>2. CASE b = own
        BY <1>1, <2>1, <2>2, SuccessIsPromised
  <2>3. CASE b # own
        BY <1>1, <2>1, <2>3, NoStepIsPromised
  <2>4. QED
        BY <2>2, <2>3
<1>3. ASSUME NEW s \in Slots, CallFails(s)
      PROVE  [Promise(b)!Next]_(Promise(b)!vars)
  <2> DEFINE own == handler(req[s].ep).breaker
  <2>1. CanAttempt(cb[own]) /\ cb' = [cb EXCEPT ![own] = OnFailure(Admitted(@))]
        BY <1>3 DEF CallFails
  <2> HIDE DEF own
  <2>2. CASE b = own
        BY <1>1, <2>1, <2>2, FailureIsPromised
  <2>3. CASE b # own
        BY <1>1, <2>1, <2>3, NoStepIsPromised
  <2>4. QED
        BY <2>2, <2>3
<1>4. CASE Tick
  <2>1. cb'[b] = Elapse(cb[b])
        BY <1>4 DEF Tick
  <2>2. QED
        BY <1>1, <2>1, TimeIsPromised
<1>5. CASE UNCHANGED cb
  <2>1. cb'[b] = cb[b]
        BY <1>5
  <2>2. QED
        BY <2>1, NoStepIsPromised
<1>6. (\E s \in Slots : CallSucceeds(s) \/ CallFails(s)) \/ Tick \/ UNCHANGED cb
      BY DEF Next, Arrive, Begin, RejectOversize, RejectUpload, FailBatch, StartCall,
             Attempt, CallRejected, Leave, vars
<1>7. QED
      BY <1>2, <1>3, <1>4, <1>5, <1>6

(* Every breaker implements BreakerPromise, for every number of requests,  *)
(* any endpoints that share it and every setting.                          *)
THEOREM SharedBreakersKeepPromise == Spec => BreakersKeepPromise
<1>1. Init => \A b \in Breakers : Promise(b)!Init
  <2> SUFFICES ASSUME Init, NEW b \in Breakers PROVE Promise(b)!Init
      OBVIOUS
  <2>1. cb[b] = NewBreaker
        BY DEF Init
  <2>2. QED
        BY <2>1, NewBreakerIsCoherent, EvidenceByState DEF NewBreaker, Promise!Init
<1>2. IInv /\ [Next]_vars => [PromisedStep]_cb
      BY NextIsPromised
<1>3. QED
      BY <1>1, <1>2, InvariantHolds, PTL DEF Spec, BreakersKeepPromise
-----------------------------------------------------------------------------
(* The event loop.                                                         *)

(* It is held by the request in the middle of its call and by nobody else: *)
(* never given up between two attempts, nor kept by a handler that has     *)
(* returned, which would stop the whole server.                            *)
LoopIsTheCallers == \A s \in Slots : loop = s <=> req[s].pc = "calling"

(* An attempt leaves its request with the loop and fewer attempts, or      *)
(* answered and the loop free.                                             *)
Settled(s, r) == \/ r.pc = "calling" /\ r.left < req[s].left /\ loop' = s
                 \/ r.pc = "answered" /\ loop' = Free

LEMMA AttemptSettles ==
    ASSUME IInv, NEW s \in Slots, Attempt(s)
    PROVE  Settled(s, req'[s]) /\ \A t \in Slots \ {s} : req'[t] = req[t]
<1>1. /\ req \in [Slots -> Request] /\ req[s] \in Request
      /\ req[s].pc = "calling" /\ req[s].left \in Nat
      BY TypeFacts, CallingFacts DEF Attempt, CallRejected, CallSucceeds, CallFails
<1>2. CASE CallRejected(s)
  <2> DEFINE f == AfterException(req[s], "CircuitOpenError")
             failed == [req[s] EXCEPT !.left = @ - 1, !.exc = "CircuitOpenError"]
  <2>1. f = IF failed.left > 0 THEN failed
            ELSE Answer(failed, ErrorReply(req[s].ep, "CircuitOpenError"))
        BY DEF AfterException
  <2>2. failed.pc = "calling" /\ failed.left = req[s].left - 1
        BY <1>1 DEF Request
  <2>3. Answer(failed, ErrorReply(req[s].ep, "CircuitOpenError")).pc = "answered"
        BY <1>1 DEF Answer, Request
  <2>4. req' = [req EXCEPT ![s] = f] /\ loop' = LoopAfter(s, f)
        BY <1>2 DEF CallRejected
  <2> HIDE DEF f, failed
  <2>5. \/ f.pc = "calling" /\ f.left = req[s].left - 1
        \/ f.pc = "answered"
        BY <2>1, <2>2, <2>3
  <2>6. QED
        BY <1>1, <2>4, <2>5 DEF Settled, LoopAfter
<1>3. CASE CallSucceeds(s)
  <2>1. PICK run \in CallRuns(req[s].ep) :
            \E status \in Replies(req[s], run.out) :
            LET r == [req[s] EXCEPT
                        !.ran = @ + 1, !.handed = @ + run.out.handed,
                        !.backend = run.out.backend,
                        !.tasks = @ + Registered(req[s], run.out)]
            IN  req' = [req EXCEPT ![s] = Answer(r, status)]
        BY <1>3 DEF CallSucceeds
  <2> DEFINE r0 == [req[s] EXCEPT
                        !.ran = req[s].ran + 1,
                        !.handed = req[s].handed + run.out.handed,
                        !.backend = run.out.backend,
                        !.tasks = req[s].tasks + Registered(req[s], run.out)]
  <2>2. PICK status : req' = [req EXCEPT ![s] = Answer(r0, status)]
        BY <2>1
  <2>3. Answer(r0, status).pc = "answered"
        BY <1>1 DEF Answer, Request
  <2> HIDE DEF r0
  <2>4. loop' = Free
        BY <1>3 DEF CallSucceeds
  <2>5. QED
        BY <1>1, <2>2, <2>3, <2>4 DEF Settled
<1>4. CASE CallFails(s)
  <2> DEFINE b == handler(req[s].ep).breaker
  <2>1. PICK run \in CallRuns(req[s].ep) :
            LET r == AfterException([req[s] EXCEPT
                          !.ran = @ + 1, !.handed = @ + run.out.handed,
                          !.opened = @ \/ cb'[b].state = "open",
                          !.tasks = @ + Registered(req[s], run.out)], run.out.exc)
            IN  req' = [req EXCEPT ![s] = r] /\ loop' = LoopAfter(s, r)
        BY <1>4 DEF CallFails
  <2> DEFINE a == req[s].ran + 1
             h == req[s].handed + run.out.handed
             o == req[s].opened \/ cb'[b].state = "open"
             k == req[s].tasks + Registered(req[s], run.out)
             x == run.out.exc
             r0 == [req[s] EXCEPT !.ran = a, !.handed = h, !.opened = o, !.tasks = k]
             failed == [r0 EXCEPT !.left = r0.left - 1, !.exc = x]
             f == AfterException(r0, x)
  <2>2. req' = [req EXCEPT ![s] = f] /\ loop' = LoopAfter(s, f)
        BY <2>1
  <2> HIDE DEF a, h, o, k, x
  <2>3. /\ failed.pc = "calling" /\ failed.left = req[s].left - 1
        /\ Answer(failed, ErrorReply(r0.ep, x)).pc = "answered"
        BY <1>1 DEF Request, Answer
  <2>4. f = IF failed.left > 0 THEN failed ELSE Answer(failed, ErrorReply(r0.ep, x))
        BY DEF AfterException
  <2> HIDE DEF r0, failed, f
  <2>5. \/ f.pc = "calling" /\ f.left = req[s].left - 1
        \/ f.pc = "answered"
        BY <2>3, <2>4
  <2>6. QED
        BY <1>1, <2>2, <2>5 DEF Settled, LoopAfter
<1>5. QED
      BY <1>2, <1>3, <1>4 DEF Attempt

(* A request that moves without the loop.                                  *)
LEMMA OthersLeaveTheLoop ==
    ASSUME IInv, NEW s \in Slots,
           \/ \E ep \in Endpoints, oversize \in BOOLEAN : Arrive(s, ep, oversize)
           \/ RejectOversize(s) \/ RejectUpload(s) \/ FailBatch(s) \/ Leave(s)
    PROVE  /\ req[s].pc # "calling" /\ req'[s].pc # "calling"
           /\ \A t \in Slots \ {s} : req'[t] = req[t]
           /\ loop' = loop
<1>1. req \in [Slots -> Request] /\ req[s] \in Request
      BY TypeFacts
<1>2. ASSUME NEW status PROVE Answer(req[s], status).pc = "answered"
      BY <1>1 DEF Answer, Request
<1>3. CASE \E ep \in Endpoints, oversize \in BOOLEAN : Arrive(s, ep, oversize)
      BY <1>1, <1>3 DEF Arrive, NoRequest
<1>4. CASE RejectOversize(s)
      BY <1>1, <1>2, <1>4 DEF RejectOversize, Reading
<1>5. CASE RejectUpload(s)
      BY <1>1, <1>2, <1>5 DEF RejectUpload, Reading
<1>6. CASE FailBatch(s)
      BY <1>1, <1>2, <1>6 DEF FailBatch, Reading
<1>7. CASE Leave(s)
      BY <1>1, <1>7 DEF Leave, NoRequest
<1>8. QED
      BY <1>3, <1>4, <1>5, <1>6, <1>7

LEMMA NextKeepsTheLoopTheCallers ==
    ASSUME IInv, LoopIsTheCallers, [Next]_vars
    PROVE  LoopIsTheCallers'
<1> USE DispatchAssumption
<1>1. ASSUME NEW s \in Slots,
             \/ \E ep \in Endpoints, oversize \in BOOLEAN : Arrive(s, ep, oversize)
             \/ RejectOversize(s) \/ RejectUpload(s) \/ FailBatch(s) \/ Leave(s)
      PROVE  LoopIsTheCallers'
      BY <1>1, OthersLeaveTheLoop DEF LoopIsTheCallers
<1>2. ASSUME NEW s \in Slots, StartCall(s)
      PROVE  LoopIsTheCallers'
  <2>1. /\ loop = Free /\ loop' = s
        /\ req'[s].pc = "calling"
        /\ \A t \in Slots \ {s} : req'[t] = req[t]
        BY <1>2, TypeFacts DEF StartCall, Reading, Request
  <2>2. QED
        BY <2>1 DEF LoopIsTheCallers
<1>3. ASSUME NEW s \in Slots, Attempt(s)
      PROVE  LoopIsTheCallers'
  <2>1. Settled(s, req'[s]) /\ \A t \in Slots \ {s} : req'[t] = req[t]
        BY <1>3, AttemptSettles
  <2>2. \A t \in Slots \ {s} : req[t].pc # "calling"
        BY <1>3, CallingFacts DEF Attempt, CallRejected, CallSucceeds, CallFails
  <2>3. QED
        BY <2>1, <2>2 DEF Settled, LoopIsTheCallers
<1>4. CASE Tick \/ UNCHANGED vars
      BY <1>4 DEF Tick, vars, LoopIsTheCallers
<1>5. QED
      BY <1>1, <1>2, <1>3, <1>4 DEF Next, Begin

(* The event loop is never lost: if it is held, a request is in its call,  *)
(* for any number of requests.                                             *)
THEOREM LoopIsAlwaysTheCallers == Spec => []LoopIsTheCallers
<1>1. Init => LoopIsTheCallers
      BY DispatchAssumption DEF Init, NoRequest, LoopIsTheCallers
<1>2. IInv /\ LoopIsTheCallers /\ [Next]_vars => LoopIsTheCallers'
      BY NextKeepsTheLoopTheCallers
<1>3. QED
      BY <1>1, <1>2, InvariantHolds, PTL DEF Spec

(* Who holds the loop uses up an attempt with every step it makes and      *)
(* frees the loop with its answer: the measure on which the liveness of    *)
(* the server rests, for every breaker setting.                            *)
THEOREM LoopIsAlwaysGivenBack == Spec => LoopIsGivenBack
<1> DEFINE GivesBack(s) == \/ loop' = Free /\ req'[s].pc = "answered"
                           \/ /\ loop' = s
                              /\ req'[s] # req[s] => req'[s].left < req[s].left
<1>1. ASSUME IInv, LoopIsTheCallers, [Next]_vars, NEW s \in Slots, loop = s
      PROVE  GivesBack(s)
  <2> USE DispatchAssumption
  <2>0. req[s].pc = "calling"
        BY <1>1 DEF LoopIsTheCallers
  <2>1. ASSUME NEW t \in Slots,
               \/ \E ep \in Endpoints, oversize \in BOOLEAN : Arrive(t, ep, oversize)
               \/ RejectOversize(t) \/ RejectUpload(t) \/ FailBatch(t) \/ Leave(t)
        PROVE  GivesBack(s)
    <3>1. t # s /\ loop' = loop /\ req'[s] = req[s]
          BY <1>1, <2>0, <2>1, OthersLeaveTheLoop
    <3>2. QED
          BY <1>1, <3>1
  <2>2. ASSUME NEW t \in Slots, StartCall(t) PROVE GivesBack(s)
        BY <1>1, <2>2 DEF StartCall, Reading
  <2>3. ASSUME NEW t \in Slots, Attempt(t) PROVE GivesBack(s)
    <3>1. t = s
          BY <1>1, <2>0, <2>3, CallingFacts DEF Attempt, CallRejected, CallSucceeds, CallFails
    <3>2. QED
          BY <1>1, <2>3, <3>1, AttemptSettles DEF Settled
  <2>4. CASE Tick \/ UNCHANGED vars
        BY <1>1, <2>4 DEF Tick, vars
  <2>5. QED
        BY <1>1, <2>1, <2>2, <2>3, <2>4 DEF Next, Begin
<1>2. IInv /\ LoopIsTheCallers /\ [Next]_vars =>
        [\A s \in Slots :
            loop = s =>
              \/ loop' = Free /\ req'[s].pc = "answered"
              \/ /\ loop' = s
                 /\ req'[s] # req[s] => req'[s].left < req[s].left]_vars
      BY <1>1
<1>3. QED
      BY <1>2, InvariantHolds, LoopIsAlwaysTheCallers, PTL DEF Spec, LoopIsGivenBack
=============================================================================
