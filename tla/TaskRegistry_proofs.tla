------------------------ MODULE TaskRegistry_proofs -------------------------
(***************************************************************************)
(* The registry of app/tasks.py, for every set of tasks on the four        *)
(* backends: types, whose result a success carries, finality of answers,   *)
(* and the refinement of TaskLifecycle.                                    *)
(***************************************************************************)
EXTENDS TaskRegistry, TLAPS

Entry == [status : {"not_found", "pending", "success", "error"},
          whose : Tasks \cup {Nobody}]

Entries == entry \in [Tasks -> Entry]

Jobs == job \in [Tasks -> {"none", "running", "ok", "failed", "gone"}]

Statuses == {"nothing", "pending", "success", "error", "not_found"}

(* What the entry of a task says is what its client was told.              *)
ToldTracksEntry ==
    \A t \in Tasks : entry[t].status # "not_found" => told[t] = entry[t].status

(* Nothing is known of a job that was never handed out.                    *)
UnsubmittedUnknown ==
    \A t \in Tasks : job[t] = "none" => entry[t].status = "not_found" /\ told[t] = "nothing"

(* Only a restart makes the server forget a task a client knows of.        *)
ForgottenByRestart ==
    \A t \in Tasks : entry[t].status = "not_found" /\ told[t] # "nothing" => restarts > 0

(* An error is that of a job that failed, or of a result that is lost.     *)
ErrorsAreReal ==
    \A t \in Tasks : entry[t].status = "error" =>
        t \in RayTasks \cup CeleryTasks /\ job[t] \in {"failed", "gone"}

(* Every message on the response topic is the response of a Kafka job that *)
(* ended.                                                                  *)
ResponsesAreReal ==
    \A i \in 1 .. Len(responses) :
        responses[i] \in KafkaTasks /\ job[responses[i]] \in {"ok", "failed"}

(* The inductive invariant.  SuccessIsOwn alone is not inductive: that a   *)
(* fetched response names a job that ended is ResponsesAreReal.            *)
IInv == /\ TypeOK
        /\ ToldTracksEntry
        /\ UnsubmittedUnknown
        /\ ForgottenByRestart
        /\ ErrorsAreReal
        /\ ResponsesAreReal
        /\ SuccessIsOwn

-----------------------------------------------------------------------------
(* get_task_status.                                                        *)

(* What a query may make of the entry of a task the server knows.          *)
Answerable(t, e) ==
    /\ e \in Entry
    /\ e.status # "not_found"
    /\ e.status = "success" =>
           /\ e.whose = t
           /\ job[t] \in {"ok", "gone"} \cup IF t \in KafkaTasks THEN {"failed"} ELSE {}
    /\ e.status = "error" =>
           t \in RayTasks \cup CeleryTasks /\ job[t] \in {"failed", "gone"}
    /\ e.status = "success" /\ entry[t].status # "success" =>
           job[t] \in IF t \in KafkaTasks THEN {"ok", "failed"} ELSE {"ok"}
    /\ e.status = "pending" => entry[t].status = "pending"
    /\ entry[t].status = "success" /\ e.status # "success" =>
           e.status = "error" /\ t \in RayTasks /\ job[t] = "gone"
    /\ entry[t].status = "error" => e.status = "error"

LEMMA SuccessIsEntry == ASSUME NEW t \in Tasks PROVE Success(t) \in Entry
BY DEF Success, Entry

LEMMA FailIsEntry ==
    ASSUME NEW e \in Entry
    PROVE  Fail(e) \in Entry /\ Fail(e).status = "error"
BY DEF Fail, Entry

LEMMA RayEntryIsAnswerable ==
    ASSUME IInv, NEW t \in RayTasks, entry[t].status # "not_found"
    PROVE  Answerable(t, RayEntry(t))
<1> USE RegistryAssumption
<1>1. t \in Tasks /\ t \notin KafkaTasks /\ entry[t] \in Entry
      BY DEF IInv, TypeOK, Entry, Tasks
<1>2. CASE job[t] = "ok"
  <2>1. RayEntry(t) = Success(t)
        BY <1>2 DEF RayEntry
  <2>2. entry[t].status # "error"
        BY <1>1, <1>2 DEF IInv, ErrorsAreReal
  <2>3. QED
        BY <1>1, <1>2, <2>1, <2>2, SuccessIsEntry DEF Answerable, Success
<1>3. CASE job[t] \in {"failed", "gone"}
  <2>1. RayEntry(t) = Fail(entry[t])
        BY <1>3 DEF RayEntry
  <2>2. entry[t].status = "success" => job[t] = "gone"
        BY <1>1, <1>3 DEF IInv, SuccessIsOwn
  <2>3. QED
        BY <1>1, <1>3, <2>1, <2>2, FailIsEntry DEF Answerable
<1>4. CASE job[t] \notin {"ok", "failed", "gone"}
  <2>1. RayEntry(t) = entry[t]
        BY <1>4 DEF RayEntry
  <2>2. QED
        BY <1>1, <1>4, <2>1 DEF Answerable, IInv, SuccessIsOwn, ErrorsAreReal, Entry
<1>5. QED
      BY <1>2, <1>3, <1>4

LEMMA CeleryEntryIsAnswerable ==
    ASSUME IInv, NEW t \in CeleryTasks, entry[t].status # "not_found"
    PROVE  Answerable(t, CeleryEntry(t))
<1> USE RegistryAssumption
<1>1. t \in Tasks /\ t \notin KafkaTasks /\ entry[t] \in Entry
      BY DEF IInv, TypeOK, Entry, Tasks
<1>2. CASE job[t] = "ok"
  <2>1. CeleryEntry(t) = Success(t)
        BY <1>2 DEF CeleryEntry
  <2>2. entry[t].status # "error"
        BY <1>1, <1>2 DEF IInv, ErrorsAreReal
  <2>3. QED
        BY <1>1, <1>2, <2>1, <2>2, SuccessIsEntry DEF Answerable, Success
<1>3. CASE job[t] = "failed"
  <2>1. CeleryEntry(t) = Fail(entry[t])
        BY <1>3 DEF CeleryEntry
  <2>2. entry[t].status # "success"
        BY <1>1, <1>3 DEF IInv, SuccessIsOwn
  <2>3. QED
        BY <1>1, <1>3, <2>1, <2>2, FailIsEntry DEF Answerable
<1>4. CASE job[t] \notin {"ok", "failed"}
  <2>1. CeleryEntry(t) = entry[t]
        BY <1>4 DEF CeleryEntry
  <2>2. QED
        BY <1>1, <1>4, <2>1 DEF Answerable, IInv, SuccessIsOwn, ErrorsAreReal, Entry
<1>5. QED
      BY <1>2, <1>3, <1>4

(* A response found names a job that ended.                                *)
LEMMA FetchedJobEnded ==
    ASSUME IInv, NEW t \in KafkaTasks, NEW n \in Polls(t), t \in Fetched(n)
    PROVE  job[t] \in {"ok", "failed"}
<1>1. n \in 0 .. Len(responses) - position /\ position \in Nat /\ Len(responses) \in Nat
      BY DEF Polls, IInv, TypeOK
<1>2. PICK i \in position + 1 .. position + n : responses[i] = t
      BY DEF Fetched
<1>3. i \in 1 .. Len(responses)
      BY <1>1, <1>2
<1>4. QED
      BY <1>2, <1>3 DEF IInv, ResponsesAreReal

LEMMA KafkaEntryIsAnswerable ==
    ASSUME IInv, NEW t \in KafkaTasks, NEW n \in Polls(t), entry[t].status # "not_found"
    PROVE  Answerable(t, KafkaEntry(t, n))
<1> USE RegistryAssumption
<1>1. /\ t \in Tasks /\ entry[t] \in Entry
      /\ t \notin RayTasks \cup CeleryTasks
      BY DEF IInv, TypeOK, Entry, Tasks
<1>2. entry[t].status # "error"
      BY <1>1 DEF IInv, ErrorsAreReal
<1>3. CASE t \in Fetched(n)
  <2>1. KafkaEntry(t, n) = Success(t)
        BY <1>3 DEF KafkaEntry
  <2>2. job[t] \in {"ok", "failed"}
        BY <1>3, FetchedJobEnded
  <2>3. QED
        BY <1>1, <1>2, <2>1, <2>2, SuccessIsEntry DEF Answerable, Success
<1>4. CASE t \notin Fetched(n)
  <2>1. KafkaEntry(t, n) = entry[t]
        BY <1>4 DEF KafkaEntry
  <2>2. QED
        BY <1>1, <1>2, <2>1 DEF Answerable, IInv, SuccessIsOwn, Entry
<1>5. QED
      BY <1>3, <1>4

LEMMA LookedIsAnswerable ==
    ASSUME IInv, NEW t \in Tasks, NEW n \in Polls(t), entry[t].status # "not_found"
    PROVE  Answerable(t, Looked(t, n))
<1> USE RegistryAssumption
<1>1. CASE t \in RayTasks
      BY <1>1, RayEntryIsAnswerable DEF Looked
<1>2. CASE t \in CeleryTasks
  <2>1. Looked(t, n) = CeleryEntry(t)
        BY <1>2 DEF Looked
  <2>2. QED
        BY <1>2, <2>1, CeleryEntryIsAnswerable
<1>3. CASE t \in KafkaTasks
  <2>1. Looked(t, n) = KafkaEntry(t, n)
        BY <1>3 DEF Looked
  <2>2. QED
        BY <1>3, <2>1, KafkaEntryIsAnswerable
<1>4. CASE t \in LocalTasks
  <2>1. Looked(t, n) = entry[t]
        BY <1>4 DEF Looked
  <2>2. QED
        BY <1>4, <2>1 DEF Answerable, IInv, TypeOK, SuccessIsOwn, ErrorsAreReal, Entry
<1>5. QED
      BY <1>1, <1>2, <1>3, <1>4 DEF Tasks

-----------------------------------------------------------------------------
(* The inductive invariant.                                                *)

LEMMA InitEstablishesIInv == Init => IInv
<1> SUFFICES ASSUME Init PROVE IInv
    OBVIOUS
<1>1. /\ \A t \in Tasks : entry[t].status = "not_found" /\ told[t] = "nothing"
      /\ Len(responses) = 0
      BY DEF Init, Absent
<1>2. TypeOK
      BY RegistryAssumption DEF Init, TypeOK, Absent
<1>3. QED
      BY <1>1, <1>2 DEF IInv, ToldTracksEntry, UnsubmittedUnknown, ForgottenByRestart,
                        ErrorsAreReal, ResponsesAreReal, SuccessIsOwn

(* A step that gives one task a new job, entry and told, and leaves the    *)
(* others, the topic and the count of restarts.                            *)
LEMMA SubmissionKeepsIInv ==
    ASSUME IInv, NEW t \in Tasks, job[t] = "none",
           NEW e \in Entry, NEW j \in {"running", "ok"},
           NEW s \in Statuses,
           job' = [job EXCEPT ![t] = j],
           entry' = [entry EXCEPT ![t] = e],
           told' = [told EXCEPT ![t] = s],
           e.status = "not_found" => s = "nothing",
           e.status # "not_found" => s = e.status,
           e.status = "success" => e.whose = t /\ j = "ok",
           e.status # "error",
           UNCHANGED <<responses, position, committed, restarts>>
    PROVE  IInv'
<1>1. TypeOK'
  <2>1. entry' \in [Tasks -> Entry]
        BY DEF IInv, TypeOK, Entry
  <2>2. job' \in [Tasks -> {"none", "running", "ok", "failed", "gone"}]
        BY DEF IInv, TypeOK
  <2>3. told' \in [Tasks -> Statuses]
        BY DEF IInv, TypeOK, Statuses
  <2>4. QED
        BY <2>1, <2>2, <2>3 DEF IInv, TypeOK, Entry, Statuses
<1>2. /\ entry'[t] = e /\ job'[t] = j /\ told'[t] = s
      /\ \A u \in Tasks : u # t => /\ entry'[u] = entry[u]
                                  /\ job'[u] = job[u]
                                  /\ told'[u] = told[u]
      BY DEF IInv, TypeOK
<1>3. ToldTracksEntry'
      BY <1>2 DEF IInv, ToldTracksEntry
<1>4. UnsubmittedUnknown'
      BY <1>2 DEF IInv, UnsubmittedUnknown
<1>5. ForgottenByRestart'
      BY <1>2 DEF IInv, ForgottenByRestart
<1>6. ErrorsAreReal'
      BY <1>2 DEF IInv, ErrorsAreReal
<1>7. ResponsesAreReal'
      BY <1>2 DEF IInv, TypeOK, ResponsesAreReal, Tasks
<1>8. SuccessIsOwn'
      BY <1>2 DEF IInv, SuccessIsOwn
<1>9. QED
      BY <1>1, <1>3, <1>4, <1>5, <1>6, <1>7, <1>8 DEF IInv

LEMMA SubmitKeepsIInv ==
    ASSUME IInv, NEW t \in Tasks, Submit(t) \/ SubmitUnconfirmed(t) \/ FinishLocal(t)
    PROVE  IInv'
<1>1. CASE Submit(t)
  <2>1. Pending \in Entry /\ Pending.status = "pending"
        BY DEF Pending, Entry
  <2>2. "pending" \in Statuses /\ "running" \in {"running", "ok"}
        BY DEF Statuses
  <2>3. QED
        BY <1>1, <2>1, <2>2, SubmissionKeepsIInv DEF New, Submit
<1>2. CASE SubmitUnconfirmed(t)
  <2>1. entry[t].status = "not_found" /\ told[t] = "nothing" /\ entry[t] \in Entry
        BY <1>2 DEF New, SubmitUnconfirmed, IInv, UnsubmittedUnknown, TypeOK, Entry
  <2>2. "nothing" \in Statuses /\ "running" \in {"running", "ok"}
        BY DEF Statuses
  <2>3. entry' = [entry EXCEPT ![t] = entry[t]] /\ told' = [told EXCEPT ![t] = "nothing"]
        BY <1>2, <2>1 DEF New, SubmitUnconfirmed, IInv, TypeOK
  <2>4. QED
        BY <1>2, <2>1, <2>2, <2>3, SubmissionKeepsIInv DEF New, SubmitUnconfirmed
<1>3. CASE FinishLocal(t)
  <2>1. Success(t) \in Entry /\ Success(t).status = "success" /\ Success(t).whose = t
        BY SuccessIsEntry DEF Success
  <2>2. "success" \in Statuses /\ "ok" \in {"running", "ok"}
        BY DEF Statuses
  <2>3. QED
        BY <1>3, <2>1, <2>2, SubmissionKeepsIInv DEF New, FinishLocal
<1>4. QED
      BY <1>1, <1>2, <1>3

(* One more message on the topic, the response of a job that ended.        *)
LEMMA AppendedResponseIsReal ==
    ASSUME TypeOK, NEW t \in KafkaTasks, responses' = Append(responses, t)
    PROVE  /\ responses' \in Seq(KafkaTasks)
           /\ Len(responses') = Len(responses) + 1
           /\ \A i \in 1 .. Len(responses') :
                  responses'[i] = t \/ (i \in 1 .. Len(responses) /\ responses'[i] = responses[i])
BY DEF TypeOK

LEMMA JobEndsKeepsIInv == ASSUME IInv, NEW t \in Tasks, JobEnds(t) PROVE IInv'
<1> USE RegistryAssumption
<1>1. PICK outcome \in {"ok", "failed"} : job' = [job EXCEPT ![t] = outcome]
      BY DEF JobEnds
<1>2. /\ job'[t] = outcome
      /\ \A u \in Tasks : u # t => job'[u] = job[u]
      /\ job' \in [Tasks -> {"none", "running", "ok", "failed", "gone"}]
      BY <1>1 DEF IInv, TypeOK
<1>3. /\ responses' \in Seq(KafkaTasks)
      /\ Len(responses') \in Nat
      /\ Len(responses) \in Nat
      /\ Len(responses) <= Len(responses')
      /\ \A i \in 1 .. Len(responses') :
             \/ (responses'[i] = t /\ t \in KafkaTasks)
             \/ (i \in 1 .. Len(responses) /\ responses'[i] = responses[i])
  <2>1. CASE t \in KafkaTasks
        BY <2>1, AppendedResponseIsReal DEF JobEnds, IInv, TypeOK
  <2>2. CASE t \notin KafkaTasks
        BY <2>2 DEF JobEnds, IInv, TypeOK
  <2>3. QED
        BY <2>1, <2>2
<1>4. TypeOK'
  <2>1. position' \in 0 .. Len(responses')
        BY <1>3 DEF JobEnds, IInv, TypeOK
  <2>2. QED
        BY <1>2, <1>3, <2>1 DEF JobEnds, IInv, TypeOK
<1>5. ResponsesAreReal'
      BY <1>2, <1>3 DEF IInv, ResponsesAreReal, Tasks
<1>6. job[t] = "running"
      BY DEF JobEnds
<1>7. ToldTracksEntry' /\ ForgottenByRestart'
      BY DEF JobEnds, IInv, ToldTracksEntry, ForgottenByRestart
<1>8. UnsubmittedUnknown'
      BY <1>2 DEF JobEnds, IInv, UnsubmittedUnknown
<1>9. ErrorsAreReal'
      BY <1>2, <1>6 DEF JobEnds, IInv, ErrorsAreReal
<1>10. SuccessIsOwn'
      BY <1>2, <1>6 DEF JobEnds, IInv, SuccessIsOwn
<1>11. QED
      BY <1>4, <1>5, <1>7, <1>8, <1>9, <1>10 DEF IInv

LEMMA RespondAgainKeepsIInv == ASSUME IInv, NEW t \in Tasks, RespondAgain(t) PROVE IInv'
<1>1. /\ t \in KafkaTasks
      /\ job[t] \in {"ok", "failed"}
      /\ responses' = Append(responses, t)
      /\ UNCHANGED <<entry, job, position, committed, restarts, told>>
      BY DEF RespondAgain
<1>2. /\ responses' \in Seq(KafkaTasks)
      /\ Len(responses') = Len(responses) + 1
      /\ \A i \in 1 .. Len(responses') :
             responses'[i] = t \/ (i \in 1 .. Len(responses) /\ responses'[i] = responses[i])
      BY <1>1, AppendedResponseIsReal DEF IInv
<1>3. TypeOK'
      BY <1>1, <1>2 DEF IInv, TypeOK
<1>4. ResponsesAreReal'
      BY <1>1, <1>2 DEF IInv, ResponsesAreReal
<1>5. QED
      BY <1>1, <1>3, <1>4 DEF IInv, ToldTracksEntry, UnsubmittedUnknown,
                              ForgottenByRestart, ErrorsAreReal, SuccessIsOwn

LEMMA ResultGoneKeepsIInv == ASSUME IInv, NEW t \in Tasks, ResultGone(t) PROVE IInv'
<1> USE RegistryAssumption
<1>1. /\ t \in RayTasks \cup CeleryTasks /\ t \notin KafkaTasks
      /\ job[t] \in {"ok", "failed"}
      /\ job'[t] = "gone"
      /\ \A u \in Tasks : u # t => job'[u] = job[u]
      /\ job' \in [Tasks -> {"none", "running", "ok", "failed", "gone"}]
      /\ UNCHANGED <<entry, responses, position, committed, restarts, told>>
      BY DEF ResultGone, IInv, TypeOK
<1>2. TypeOK'
      BY <1>1 DEF IInv, TypeOK
<1>3. ResponsesAreReal'
      BY <1>1 DEF IInv, ResponsesAreReal, Tasks
<1>4. ToldTracksEntry' /\ ForgottenByRestart' /\ UnsubmittedUnknown'
      BY <1>1 DEF IInv, ToldTracksEntry, ForgottenByRestart, UnsubmittedUnknown
<1>5. ErrorsAreReal'
      BY <1>1 DEF IInv, ErrorsAreReal
<1>6. SuccessIsOwn'
      BY <1>1 DEF IInv, SuccessIsOwn
<1>7. QED
      BY <1>2, <1>3, <1>4, <1>5, <1>6 DEF IInv

(* The consumer's position moves, within the topic.                        *)
LEMMA ConsumerKeepsIInv == ASSUME IInv, Commit \/ Rejoin PROVE IInv'
<1>1. UNCHANGED <<entry, job, responses, restarts, told>>
      BY DEF Commit, Rejoin
<1>2. TypeOK'
      BY DEF Commit, Rejoin, IInv, TypeOK
<1>3. QED
      BY <1>1, <1>2 DEF IInv, ToldTracksEntry, UnsubmittedUnknown, ForgottenByRestart,
                        ErrorsAreReal, ResponsesAreReal, SuccessIsOwn

(* After a restart no entry says anything.                                 *)
LEMMA RestartKeepsIInv == ASSUME IInv, Restart PROVE IInv'
<1> USE RegistryAssumption
<1>1. /\ \A t \in Tasks : entry'[t].status = "not_found"
      /\ entry' \in [Tasks -> Entry]
      BY DEF Restart, Absent, Entry
<1>2. restarts' > 0 /\ restarts' \in 0 .. MaxRestarts
      BY DEF Restart, IInv, TypeOK
<1>3. TypeOK'
      BY <1>1, <1>2 DEF Restart, IInv, TypeOK, Entry
<1>4. UnsubmittedUnknown' /\ ResponsesAreReal'
      BY <1>1 DEF Restart, IInv, UnsubmittedUnknown, ResponsesAreReal
<1>5. ToldTracksEntry' /\ ForgottenByRestart' /\ ErrorsAreReal' /\ SuccessIsOwn'
      BY <1>1, <1>2 DEF ToldTracksEntry, ForgottenByRestart, ErrorsAreReal, SuccessIsOwn
<1>6. QED
      BY <1>3, <1>4, <1>5 DEF IInv

(* A query makes the entry Answerable, tells it, and moves the consumer.   *)
LEMMA QueryAnswers ==
    ASSUME IInv, NEW t \in Tasks, NEW n \in Polls(t), Query(t, n)
    PROVE  /\ Answerable(t, entry'[t])
           /\ entry' \in [Tasks -> Entry]
           /\ \A u \in Tasks : u # t => entry'[u] = entry[u] /\ told'[u] = told[u]
           /\ told[t] = entry[t].status
           /\ told'[t] = entry'[t].status
           /\ told' = [told EXCEPT ![t] = entry'[t].status]
           /\ told' \in [Tasks -> Statuses]
           /\ UNCHANGED <<job, responses, committed, restarts>>
<1>1. Answerable(t, Looked(t, n))
      BY LookedIsAnswerable DEF Query
<1>2. entry'[t] = Looked(t, n) /\ \A u \in Tasks : u # t => entry'[u] = entry[u]
      BY DEF Query, IInv, TypeOK
<1>3. entry' \in [Tasks -> Entry]
      BY <1>1 DEF Query, Answerable, IInv, TypeOK, Entry
<1>4. told' = [told EXCEPT ![t] = entry'[t].status]
      BY DEF Query
<1>5. entry'[t].status \in Statuses
      BY <1>3 DEF Entry, Statuses
<1>6. told[t] = entry[t].status
      BY DEF Query, IInv, ToldTracksEntry
<1>7. /\ told' \in [Tasks -> Statuses]
      /\ told'[t] = entry'[t].status
      /\ \A u \in Tasks : u # t => told'[u] = told[u]
      BY <1>4, <1>5 DEF IInv, TypeOK, Statuses
<1>8. QED
      BY <1>1, <1>2, <1>3, <1>4, <1>6, <1>7 DEF Query

LEMMA QueryKeepsIInv ==
    ASSUME IInv, NEW t \in Tasks, NEW n \in Polls(t), Query(t, n)
    PROVE  IInv'
<1> USE QueryAnswers
<1>1. position' \in 0 .. Len(responses) /\ committed \in 0 .. position'
  <2>1. /\ position \in 0 .. Len(responses) /\ committed \in 0 .. position
        /\ Len(responses) \in Nat /\ position' = position + n
        BY DEF IInv, TypeOK, Query
  <2>2. CASE t \in KafkaTasks
        BY <2>1, <2>2 DEF Polls
  <2>3. CASE t \notin KafkaTasks
        BY <2>1, <2>3 DEF Polls
  <2>4. QED
        BY <2>2, <2>3
<1>2. TypeOK'
      BY <1>1 DEF IInv, TypeOK, Entry, Statuses
<1>3. ToldTracksEntry'
      BY DEF IInv, ToldTracksEntry
<1>4. UnsubmittedUnknown'
      BY DEF IInv, UnsubmittedUnknown, Query
<1>5. ForgottenByRestart'
      BY DEF IInv, ForgottenByRestart, Answerable
<1>6. ErrorsAreReal'
      BY DEF IInv, ErrorsAreReal, Answerable
<1>7. ResponsesAreReal'
      BY DEF IInv, ResponsesAreReal
<1>8. SuccessIsOwn'
      BY DEF IInv, SuccessIsOwn, Answerable
<1>9. QED
      BY <1>2, <1>3, <1>4, <1>5, <1>6, <1>7, <1>8 DEF IInv

LEMMA QueryForgottenKeepsIInv ==
    ASSUME IInv, NEW t \in Tasks, QueryForgotten(t)
    PROVE  IInv'
<1>1. /\ told'[t] = "not_found"
      /\ told[t] # "nothing" /\ entry[t].status = "not_found"
      /\ \A u \in Tasks : u # t => told'[u] = told[u]
      /\ UNCHANGED <<entry, job, responses, position, committed, restarts>>
      BY DEF QueryForgotten, IInv, TypeOK
<1>2. TypeOK'
      BY DEF QueryForgotten, IInv, TypeOK
<1>3. ToldTracksEntry' /\ UnsubmittedUnknown' /\ ForgottenByRestart'
      BY <1>1 DEF IInv, ToldTracksEntry, UnsubmittedUnknown, ForgottenByRestart
<1>4. QED
      BY <1>1, <1>2, <1>3 DEF IInv, ErrorsAreReal, ResponsesAreReal, SuccessIsOwn

LEMMA NextPreservesIInv == IInv /\ [Next]_vars => IInv'
<1> SUFFICES ASSUME IInv, [Next]_vars PROVE IInv'
    OBVIOUS
<1>1. ASSUME NEW t \in Tasks, Submit(t) \/ SubmitUnconfirmed(t) \/ FinishLocal(t)
      PROVE  IInv'
      BY <1>1, SubmitKeepsIInv
<1>2. ASSUME NEW t \in Tasks, JobEnds(t) PROVE IInv'
      BY <1>2, JobEndsKeepsIInv
<1>3. ASSUME NEW t \in Tasks, RespondAgain(t) PROVE IInv'
      BY <1>3, RespondAgainKeepsIInv
<1>4. ASSUME NEW t \in Tasks, ResultGone(t) PROVE IInv'
      BY <1>4, ResultGoneKeepsIInv
<1>5. ASSUME NEW t \in Tasks, Ask(t) PROVE IInv'
      BY <1>5, QueryKeepsIInv, QueryForgottenKeepsIInv DEF Ask
<1>6. CASE Commit \/ Rejoin
      BY <1>6, ConsumerKeepsIInv
<1>7. CASE Restart
      BY <1>7, RestartKeepsIInv
<1>8. CASE UNCHANGED vars
      BY <1>8 DEF vars, IInv, TypeOK, ToldTracksEntry, UnsubmittedUnknown,
                  ForgottenByRestart, ErrorsAreReal, ResponsesAreReal, SuccessIsOwn
<1>9. QED
      BY <1>1, <1>2, <1>3, <1>4, <1>5, <1>6, <1>7, <1>8 DEF Next

LEMMA IInvIsInvariant == Spec => []IInv
BY InitEstablishesIInv, NextPreservesIInv, PTL DEF Spec

(* Every reachable state has the declared type: in particular the          *)
(* consumer never stands beyond the topic nor before its committed offset. *)
THEOREM TypeCorrect == Spec => []TypeOK
<1>1. IInv => TypeOK
      BY DEF IInv
<1>2. QED
      BY <1>1, IInvIsInvariant, PTL

(* A success carries the result of the task's own job, whichever queries   *)
(* fetched which responses.                                                *)
THEOREM SuccessIsTheTasksOwn == Spec => []SuccessIsOwn
<1>1. IInv => SuccessIsOwn
      BY DEF IInv
<1>2. QED
      BY <1>1, IInvIsInvariant, PTL

-----------------------------------------------------------------------------
(* The response of a Kafka task whose consumer nobody shares.              *)

(* There is a response to t that the consumer has yet to fetch.            *)
OnItsWay(t) == \E i \in position + 1 .. Len(responses) : responses[i] = t

(* What LoneResponseAwaits asks of one task.                               *)
Awaits(t) == entry[t].status = "pending" /\ job[t] \in {"ok", "failed"} => OnItsWay(t)

(* A poll that does not fetch the response to t leaves it where it was.    *)
LEMMA PollLeavesResponse ==
    ASSUME TypeOK, NEW t \in KafkaTasks, OnItsWay(t),
           NEW n \in Polls(t), t \notin Fetched(n),
           position' = position + n, responses' = responses
    PROVE  OnItsWay(t)'
<1>1. position \in Nat /\ Len(responses) \in Nat /\ n \in Nat
      BY DEF Polls, TypeOK
<1>2. PICK i \in position + 1 .. Len(responses) : responses[i] = t
      BY DEF OnItsWay
<1>3. ~(i \in position + 1 .. position + n)
      BY <1>2 DEF Fetched
<1>4. i \in (position + n) + 1 .. Len(responses)
      BY <1>1, <1>2, <1>3
<1>5. QED
      BY <1>2, <1>4 DEF OnItsWay

LEMMA LoneQueryKeepsAwaits ==
    ASSUME IInv, NEW t \in KafkaTasks, Unshared(t), Awaits(t),
           NEW u \in Tasks, NEW n \in Polls(u), Query(u, n)
    PROVE  Awaits(t)'
<1> USE RegistryAssumption
<1>1. /\ t \in Tasks /\ position \in Nat /\ Len(responses) \in Nat
      /\ t \notin RayTasks \cup CeleryTasks
      BY DEF IInv, TypeOK, Tasks
<1>2. /\ position' = position + n
      /\ UNCHANGED <<job, responses>>
      /\ entry' = [entry EXCEPT ![u] = Looked(u, n)]
      /\ entry[u].status # "not_found"
      BY DEF Query
<1>3. CASE u # t
  <2>1. told[u] # "nothing"
        BY <1>2 DEF IInv, TypeOK, ToldTracksEntry
  <2>2. u \notin KafkaTasks
        BY <1>3, <2>1 DEF Unshared
  <2>3. n = 0
        BY <2>2 DEF Polls
  <2>4. position' = position /\ entry'[t] = entry[t]
        BY <1>1, <1>2, <1>3, <2>3 DEF IInv, TypeOK
  <2>5. QED
        BY <1>2, <2>4 DEF Awaits, OnItsWay
<1>4. CASE u = t
  <2>1. Looked(t, n) = KafkaEntry(t, n)
        BY <1>1 DEF Looked
  <2>2. entry'[t] = KafkaEntry(t, n)
        BY <1>1, <1>2, <1>4, <2>1 DEF IInv, TypeOK
  <2>3. CASE t \in Fetched(n)
    <3>1. entry'[t].status = "success"
          BY <2>2, <2>3 DEF KafkaEntry, Success
    <3>2. QED
          BY <3>1 DEF Awaits
  <2>4. CASE t \notin Fetched(n)
    <3>1. entry'[t] = entry[t] /\ n \in Polls(t)
          BY <1>4, <2>2, <2>4 DEF KafkaEntry
    <3>2. OnItsWay(t) => OnItsWay(t)'
          BY <1>2, <2>4, <3>1, PollLeavesResponse DEF IInv
    <3>3. QED
          BY <1>2, <3>1, <3>2 DEF Awaits
  <2>5. QED
        BY <2>3, <2>4
<1>5. QED
      BY <1>3, <1>4

(* An answer is appended: the consumer has not fetched it.                 *)
LEMMA AppendedIsOnItsWay ==
    ASSUME TypeOK, NEW t \in KafkaTasks, NEW u \in KafkaTasks,
           responses' = Append(responses, u), position' = position
    PROVE  /\ OnItsWay(t) => OnItsWay(t)'
           /\ OnItsWay(u)'
<1>1. /\ responses \in Seq(KafkaTasks) /\ Len(responses) \in Nat
      /\ position \in Nat /\ position <= Len(responses)
      BY DEF TypeOK
<1>2. /\ Len(responses') = Len(responses) + 1
      /\ responses'[Len(responses) + 1] = u
      /\ \A i \in 1 .. Len(responses) : responses'[i] = responses[i]
      BY <1>1
<1>3. OnItsWay(u)'
  <2>1. Len(responses) + 1 \in position' + 1 .. Len(responses')
        BY <1>1, <1>2
  <2>2. QED
        BY <1>2, <2>1 DEF OnItsWay
<1>4. ASSUME OnItsWay(t) PROVE OnItsWay(t)'
  <2>1. PICK i \in position + 1 .. Len(responses) : responses[i] = t
        BY <1>4 DEF OnItsWay
  <2>2. i \in position' + 1 .. Len(responses') /\ responses'[i] = t
        BY <1>1, <1>2, <2>1
  <2>3. QED
        BY <2>2 DEF OnItsWay
<1>5. QED
      BY <1>3, <1>4

LEMMA ResponseKeepsAwaits ==
    ASSUME IInv, NEW t \in KafkaTasks, Awaits(t),
           NEW u \in Tasks, JobEnds(u) \/ RespondAgain(u)
    PROVE  Awaits(t)'
<1>1. TypeOK /\ position' = position /\ entry' = entry
      BY DEF IInv, JobEnds, RespondAgain
<1>2. CASE u = t
  <2>1. responses' = Append(responses, t)
        BY <1>2 DEF JobEnds, RespondAgain
  <2>2. QED
        BY <1>1, <2>1, AppendedIsOnItsWay DEF Awaits
<1>3. CASE u # t
  <2>1. job'[t] = job[t]
    <3>1. t \in Tasks /\ job \in [Tasks -> {"none", "running", "ok", "failed", "gone"}]
          BY <1>1 DEF TypeOK, Tasks
    <3>2. job' = job \/ \E outcome \in {"ok", "failed"} : job' = [job EXCEPT ![u] = outcome]
          BY DEF JobEnds, RespondAgain
    <3>3. QED
          BY <1>3, <3>1, <3>2
  <2>2. \/ u \in KafkaTasks /\ responses' = Append(responses, u)
        \/ responses' = responses
        BY DEF JobEnds, RespondAgain
  <2>3. OnItsWay(t) => OnItsWay(t)'
    <3>1. CASE u \in KafkaTasks /\ responses' = Append(responses, u)
          BY <1>1, <3>1, AppendedIsOnItsWay
    <3>2. CASE responses' = responses
          BY <1>1, <3>2 DEF OnItsWay
    <3>3. QED
          BY <2>2, <3>1, <3>2
  <2>4. QED
        BY <1>1, <2>1, <2>3 DEF Awaits
<1>4. QED
      BY <1>2, <1>3

LEMMA NextKeepsAwaits ==
    ASSUME IInv, NEW t \in KafkaTasks, Unshared(t), Awaits(t), [Next]_vars
    PROVE  Awaits(t)'
<1> USE RegistryAssumption
<1>1. /\ t \in Tasks /\ t \notin RayTasks \cup CeleryTasks \cup LocalTasks
      /\ position \in Nat /\ committed \in 0 .. position /\ Len(responses) \in Nat
      BY DEF IInv, TypeOK, Tasks
<1>2. ASSUME NEW u \in Tasks, Submit(u) \/ SubmitUnconfirmed(u) \/ FinishLocal(u)
      PROVE  Awaits(t)'
  <2>1. CASE u = t
    <3>1. job'[t] = "running"
          BY <1>1, <1>2, <2>1 DEF Submit, SubmitUnconfirmed, FinishLocal, IInv, TypeOK
    <3>2. QED
          BY <3>1 DEF Awaits
  <2>2. CASE u # t
    <3>1. /\ entry'[t] = entry[t] /\ job'[t] = job[t]
          /\ UNCHANGED <<responses, position>>
          BY <1>1, <1>2, <2>2 DEF Submit, SubmitUnconfirmed, FinishLocal, IInv, TypeOK
    <3>2. QED
          BY <3>1 DEF Awaits, OnItsWay
  <2>3. QED
        BY <2>1, <2>2
<1>3. ASSUME NEW u \in Tasks, JobEnds(u) \/ RespondAgain(u) PROVE Awaits(t)'
      BY <1>3, ResponseKeepsAwaits
<1>4. ASSUME NEW u \in Tasks, ResultGone(u) PROVE Awaits(t)'
  <2>1. /\ job'[t] = job[t]
        /\ UNCHANGED <<entry, responses, position>>
        BY <1>1, <1>4 DEF ResultGone, IInv, TypeOK
  <2>2. QED
        BY <2>1 DEF Awaits, OnItsWay
<1>5. ASSUME NEW u \in Tasks, Ask(u) PROVE Awaits(t)'
  <2>1. CASE QueryForgotten(u)
        BY <2>1 DEF QueryForgotten, Awaits, OnItsWay
  <2>2. CASE \E n \in Polls(u) : Query(u, n)
        BY <2>2, LoneQueryKeepsAwaits
  <2>3. QED
        BY <1>5, <2>1, <2>2 DEF Ask
<1>6. CASE Commit \/ Rejoin
  <2>1. /\ entry' = entry /\ job' = job /\ responses' = responses
        /\ position' \in Nat /\ position' <= position
        BY <1>1, <1>6 DEF Commit, Rejoin
  <2>2. ASSUME OnItsWay(t) PROVE OnItsWay(t)'
    <3>1. PICK i \in position + 1 .. Len(responses) : responses[i] = t
          BY <2>2 DEF OnItsWay
    <3>2. \A p, q, m \in Nat : p <= q => q + 1 .. m \subseteq p + 1 .. m
          OBVIOUS
    <3>3. i \in position' + 1 .. Len(responses)
          BY <1>1, <2>1, <3>1, <3>2
    <3>4. QED
          BY <2>1, <3>1, <3>3 DEF OnItsWay
  <2>3. QED
        BY <2>1, <2>2 DEF Awaits
<1>7. CASE Restart
  <2>1. entry'[t].status = "not_found"
        BY <1>1, <1>7 DEF Restart, Absent
  <2>2. QED
        BY <2>1 DEF Awaits
<1>8. CASE UNCHANGED vars
      BY <1>8 DEF vars, Awaits, OnItsWay
<1>9. QED
      BY <1>2, <1>3, <1>4, <1>5, <1>6, <1>7, <1>8 DEF Next

(* A consumer that was shared stays so: nobody unlearns of a task.         *)
LEMMA SharedStaysShared ==
    ASSUME IInv, NEW t \in KafkaTasks, Unshared(t)', [Next]_vars
    PROVE  Unshared(t)
<1> SUFFICES ASSUME NEW u \in KafkaTasks \ {t} PROVE told[u] = "nothing"
    BY DEF Unshared
<1>1. u \in Tasks /\ told'[u] = "nothing"
      BY DEF Unshared, Tasks
<1>2. ASSUME NEW v \in Tasks, NEW n \in Polls(v), Query(v, n)
      PROVE  told'[u] = told[u] \/ told'[u] # "nothing"
  <2>1. told' = [told EXCEPT ![v] = entry'[v].status]
        BY <1>2 DEF Query
  <2>2. entry'[v].status # "nothing"
    <3>1. entry' \in [Tasks -> Entry]
          BY NextPreservesIInv DEF IInv, TypeOK, Entry
    <3>2. QED
          BY <3>1 DEF Entry
  <2>3. QED
        BY <1>1, <2>1, <2>2 DEF IInv, TypeOK
<1>3. ASSUME NEW v \in Tasks,
             \/ Submit(v) \/ SubmitUnconfirmed(v) \/ FinishLocal(v) \/ JobEnds(v)
             \/ RespondAgain(v) \/ ResultGone(v) \/ QueryForgotten(v)
      PROVE  told'[u] = told[u] \/ told'[u] # "nothing"
      BY <1>1, <1>3 DEF Submit, SubmitUnconfirmed, FinishLocal, JobEnds, RespondAgain,
                        ResultGone, QueryForgotten, IInv, TypeOK
<1>4. CASE Commit \/ Rejoin \/ Restart \/ UNCHANGED vars
      BY <1>1, <1>4 DEF Commit, Rejoin, Restart, vars
<1>5. QED
      BY <1>1, <1>2, <1>3, <1>4 DEF Next, Ask

(* The response of a Kafka task is not taken from the topic unheard while  *)
(* no other client has a Kafka task, whatever is repeated, rejoined or     *)
(* restarted: the safety half of LoneKafkaTaskResolves, for every set of   *)
(* tasks.                                                                  *)
THEOREM LoneResponseAlwaysAwaits == Spec => []LoneResponseAwaits
<1>1. Init => LoneResponseAwaits
  <2>1. \A t \in KafkaTasks : t \in Tasks
        BY DEF Tasks
  <2>2. QED
        BY <2>1 DEF Init, LoneResponseAwaits
<1>2. ASSUME IInv, LoneResponseAwaits, [Next]_vars PROVE LoneResponseAwaits'
  <2> SUFFICES ASSUME NEW t \in KafkaTasks, Unshared(t)' PROVE Awaits(t)'
      BY DEF LoneResponseAwaits, Awaits, OnItsWay
  <2>1. Unshared(t)
        BY <1>2, SharedStaysShared
  <2>2. Awaits(t)
        BY <1>2, <2>1 DEF LoneResponseAwaits, Awaits, OnItsWay
  <2>3. QED
        BY <1>2, <2>1, <2>2, NextKeepsAwaits
<1>3. QED
      BY <1>1, <1>2, IInvIsInvariant, PTL DEF Spec

-----------------------------------------------------------------------------
(* Finality.                                                               *)

(* What FinalAnswersStand asks of one step.                                *)
Stands(t) ==
    told[t] \in {"success", "error"} /\ told'[t] # told[t] =>
        \/ told'[t] = "not_found" /\ restarts > 0
        \/ told'[t] = "error" /\ t \in RayTasks /\ job[t] = "gone"

LEMMA SubmissionStands ==
    ASSUME IInv, NEW t \in Tasks, Submit(t) \/ FinishLocal(t), NEW u \in Tasks
    PROVE  Stands(u)
<1>1. told[t] = "nothing"
      BY DEF New, Submit, FinishLocal, IInv, UnsubmittedUnknown
<1>2. u # t => told'[u] = told[u]
      BY DEF New, Submit, FinishLocal, IInv, TypeOK
<1>3. QED
      BY <1>1, <1>2 DEF Stands

LEMMA QueryStands ==
    ASSUME IInv, NEW t \in Tasks, NEW n \in Polls(t), Query(t, n), NEW u \in Tasks
    PROVE  Stands(u)
<1>1. CASE u # t
      BY <1>1, QueryAnswers DEF Stands
<1>2. CASE u = t
  <2>1. /\ Answerable(t, entry'[t])
        /\ told[t] = entry[t].status
        /\ told'[t] = entry'[t].status
        /\ entry'[t].status \in Statuses
        BY QueryAnswers DEF Answerable, Entry, Statuses
  <2>2. QED
        BY <1>2, <2>1 DEF Stands, Answerable
<1>3. QED
      BY <1>1, <1>2

LEMMA QueryForgottenStands ==
    ASSUME IInv, NEW t \in Tasks, QueryForgotten(t), NEW u \in Tasks
    PROVE  Stands(u)
<1>1. restarts > 0 /\ told'[t] = "not_found"
      BY DEF QueryForgotten, IInv, TypeOK, ForgottenByRestart
<1>2. u # t => told'[u] = told[u]
      BY DEF QueryForgotten, IInv, TypeOK
<1>3. QED
      BY <1>1, <1>2 DEF Stands

(* Once told "success" or "error", a client is not told otherwise, but for *)
(* a restart or a Ray object that is lost, for every set of tasks.         *)
THEOREM AnswersAreFinal == Spec => FinalAnswersStand
<1>1. ASSUME IInv, [Next]_vars, NEW u \in Tasks PROVE Stands(u)
  <2>1. ASSUME NEW t \in Tasks, Submit(t) \/ FinishLocal(t) PROVE Stands(u)
        BY <1>1, <2>1, SubmissionStands
  <2>2. ASSUME NEW t \in Tasks, Ask(t) PROVE Stands(u)
        BY <1>1, <2>2, QueryStands, QueryForgottenStands DEF Ask
  <2>3. CASE UNCHANGED told
        BY <2>3 DEF Stands
  <2>4. QED
        BY <1>1, <2>1, <2>2, <2>3
        DEF New, Next, SubmitUnconfirmed, JobEnds, RespondAgain, ResultGone, Commit, Rejoin,
            Restart, vars
<1>2. IInv /\ [Next]_vars =>
        [\A t \in Tasks :
            told[t] \in {"success", "error"} /\ told'[t] # told[t] =>
                \/ told'[t] = "not_found" /\ restarts > 0
                \/ told'[t] = "error" /\ t \in RayTasks /\ job[t] = "gone"]_vars
      BY <1>1 DEF Stands
<1>3. QED
      BY <1>2, IInvIsInvariant, PTL DEF Spec, FinalAnswersStand

-----------------------------------------------------------------------------
(* The refinement of TaskLifecycle.                                        *)

verdict == [t \in Tasks |-> VerdictOf(t)]

LEMMA InitRefines == Init => Lifecycle!Init
BY DEF Init, Lifecycle!Init, VerdictOf

(* An abstract step of one task.                                           *)
LEMMA TellRefines ==
    ASSUME NEW t \in Tasks, NEW s \in Statuses \ {"nothing"}, Lifecycle!Tell(t, s)
    PROVE  Lifecycle!Next
BY DEF Lifecycle!Next, Lifecycle!Status, Statuses

LEMMA SubmissionRefines ==
    ASSUME IInv, NEW t \in Tasks, Submit(t) \/ SubmitUnconfirmed(t) \/ FinishLocal(t)
    PROVE  [Lifecycle!Next]_(Lifecycle!vars)
<1>1. told[t] = "nothing" /\ job[t] = "none"
      BY DEF New, Submit, SubmitUnconfirmed, FinishLocal, IInv, UnsubmittedUnknown
<1>2. CASE Submit(t)
  <2>1. verdict' = verdict
        BY <1>1, <1>2 DEF New, Submit, verdict, VerdictOf, IInv, TypeOK
  <2>2. Lifecycle!Tell(t, "pending")
        BY <1>1, <1>2, <2>1 DEF New, Submit, Lifecycle!Tell, Lifecycle!Rank, verdict
  <2>3. "pending" \in Statuses \ {"nothing"}
        BY DEF Statuses
  <2>4. QED
        BY <2>2, <2>3, TellRefines
<1>3. CASE SubmitUnconfirmed(t)
  <2>1. verdict' = verdict
        BY <1>1, <1>3 DEF New, SubmitUnconfirmed, verdict, VerdictOf, IInv, TypeOK
  <2>2. QED
        BY <1>3, <2>1 DEF New, SubmitUnconfirmed, Lifecycle!vars, verdict
<1>4. CASE FinishLocal(t)
  <2>1. verdict[t] = "undecided" /\ verdict' = [verdict EXCEPT ![t] = "ok"]
        BY <1>1, <1>4 DEF New, FinishLocal, verdict, VerdictOf, IInv, TypeOK
  <2>2. Lifecycle!FinishAtOnce(t)
        BY <1>1, <1>4, <2>1 DEF New, FinishLocal, Lifecycle!FinishAtOnce, verdict
  <2>3. QED
        BY <2>2 DEF Lifecycle!Next
<1>5. QED
      BY <1>2, <1>3, <1>4

LEMMA JobEndsRefines ==
    ASSUME IInv, NEW t \in Tasks, JobEnds(t)
    PROVE  [Lifecycle!Next]_(Lifecycle!vars)
<1>1. PICK outcome \in {"ok", "failed"} : job' = [job EXCEPT ![t] = outcome]
      BY DEF JobEnds
<1>2. verdict[t] = "undecided" /\ verdict' = [verdict EXCEPT ![t] = outcome]
      BY <1>1 DEF JobEnds, verdict, VerdictOf, IInv, TypeOK
<1>3. Lifecycle!Decide(t)
      BY <1>2 DEF JobEnds, Lifecycle!Decide, verdict
<1>4. QED
      BY <1>3 DEF Lifecycle!Next

LEMMA ResultGoneRefines ==
    ASSUME IInv, NEW t \in Tasks, ResultGone(t)
    PROVE  [Lifecycle!Next]_(Lifecycle!vars)
<1>1. verdict[t] \in {"ok", "failed"} /\ verdict' = [verdict EXCEPT ![t] = "lost"]
      BY DEF ResultGone, verdict, VerdictOf, IInv, TypeOK
<1>2. Lifecycle!Lose(t)
      BY <1>1 DEF ResultGone, Lifecycle!Lose, verdict
<1>3. QED
      BY <1>2 DEF Lifecycle!Next

(* Steps of the topic, the consumer and the server's life stutter.         *)
LEMMA OthersStutter ==
    ASSUME UNCHANGED <<job, told>>
    PROVE  UNCHANGED Lifecycle!vars
BY DEF Lifecycle!vars, VerdictOf

LEMMA QueryRefines ==
    ASSUME IInv, NEW t \in Tasks, NEW n \in Polls(t), Query(t, n)
    PROVE  [Lifecycle!Next]_(Lifecycle!vars)
<1> USE RegistryAssumption
<1> DEFINE s == entry'[t].status
<1>1. /\ Answerable(t, entry'[t])
      /\ told[t] = entry[t].status
      /\ told' = [told EXCEPT ![t] = s]
      /\ job' = job
      BY QueryAnswers
<1>2. s \in {"pending", "success", "error"}
      BY <1>1 DEF Answerable, Entry
<1>3. told[t] \in {"pending", "success", "error"}
      BY <1>1 DEF Query, IInv, TypeOK
<1>4. Lifecycle!Rank[s] >= Lifecycle!Rank[told[t]]
  <2>1. /\ told[t] = "success" => s \in {"success", "error"}
        /\ told[t] = "error" => s = "error"
        BY <1>1, <1>2 DEF Answerable
  <2>2. QED
        BY <1>2, <1>3, <2>1 DEF Lifecycle!Rank
<1>5. s = "success" /\ told[t] # "success" =>
          verdict[t] \in IF t \in Tasks \ KafkaTasks THEN {"ok"} ELSE {"ok", "failed"}
      BY <1>1 DEF Answerable, verdict, VerdictOf
<1>6. s = "error" => verdict[t] \in {"failed", "lost"}
      BY <1>1 DEF Answerable, verdict, VerdictOf
<1>7. verdict' = verdict
      BY <1>1 DEF verdict, VerdictOf
<1>8. Lifecycle!Tell(t, s)
      BY <1>1, <1>4, <1>5, <1>6, <1>7 DEF Lifecycle!Tell, verdict
<1>9. s \in Statuses \ {"nothing"}
      BY <1>2 DEF Statuses
<1>10. QED
      BY <1>8, <1>9, TellRefines

LEMMA QueryForgottenRefines ==
    ASSUME IInv, NEW t \in Tasks, QueryForgotten(t)
    PROVE  [Lifecycle!Next]_(Lifecycle!vars)
<1>1. Lifecycle!Rank["not_found"] >= Lifecycle!Rank[told[t]]
      BY DEF IInv, TypeOK, Lifecycle!Rank
<1>2. verdict' = verdict
      BY DEF QueryForgotten, verdict, VerdictOf
<1>3. Lifecycle!Tell(t, "not_found")
      BY <1>1, <1>2 DEF QueryForgotten, Lifecycle!Tell, verdict
<1>4. "not_found" \in Statuses \ {"nothing"}
      BY DEF Statuses
<1>5. QED
      BY <1>3, <1>4, TellRefines

LEMMA NextRefines == IInv /\ [Next]_vars => [Lifecycle!Next]_(Lifecycle!vars)
<1> SUFFICES ASSUME IInv, [Next]_vars PROVE [Lifecycle!Next]_(Lifecycle!vars)
    OBVIOUS
<1>1. ASSUME NEW t \in Tasks, Submit(t) \/ SubmitUnconfirmed(t) \/ FinishLocal(t)
      PROVE  [Lifecycle!Next]_(Lifecycle!vars)
      BY <1>1, SubmissionRefines
<1>2. ASSUME NEW t \in Tasks, JobEnds(t) PROVE [Lifecycle!Next]_(Lifecycle!vars)
      BY <1>2, JobEndsRefines
<1>3. ASSUME NEW t \in Tasks, ResultGone(t) PROVE [Lifecycle!Next]_(Lifecycle!vars)
      BY <1>3, ResultGoneRefines
<1>4. ASSUME NEW t \in Tasks, Ask(t) PROVE [Lifecycle!Next]_(Lifecycle!vars)
      BY <1>4, QueryRefines, QueryForgottenRefines DEF Ask
<1>5. CASE UNCHANGED <<job, told>>
      BY <1>5, OthersStutter
<1>6. QED
      BY <1>1, <1>2, <1>3, <1>4, <1>5
      DEF Next, RespondAgain, Commit, Rejoin, Restart, vars

(* The registry, its backends and the polling of them do what              *)
(* TaskLifecycle promises, for every set of tasks.                         *)
THEOREM ImplementsLifecycle == Spec => LifecycleSpec
BY InitRefines, NextRefines, IInvIsInvariant, PTL DEF Spec, LifecycleSpec, Lifecycle!Spec
=============================================================================
