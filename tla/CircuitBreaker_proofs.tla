----------------------- MODULE CircuitBreaker_proofs -----------------------
(***************************************************************************)
(* Proofs that the breaker's invariants hold for every threshold, timeout  *)
(* and number of probes, whatever the constructor was given.               *)
(***************************************************************************)
EXTENDS CircuitBreaker, BreakerOps_proofs

(* The inductive invariant: the four invariants are inductive together.    *)
(* ClosedIffBelowThreshold needs the range of failure_count, and           *)
(* ProbesAreConsecutive needs ClosedIffBelowThreshold: a failed probe that *)
(* did not reopen the breaker would leave half_open_successes behind, and  *)
(* NoCallThroughOpen: a call that succeeded through an open breaker would  *)
(* be a success nobody counted.                                            *)
IInv == /\ TypeOK
        /\ ClosedIffBelowThreshold
        /\ ProbesAreConsecutive
        /\ NoCallThroughOpen

LEMMA InitEstablishesIInv == Init => IInv
<1> SUFFICES ASSUME Init PROVE IInv
    OBVIOUS
<1>1. cb \in Breaker /\ Coherent(cb) /\ cb.state = "closed"
      BY NewBreakerIsCoherent DEF Init, NewBreaker
<1>2. streak \in 0 .. half_open_max_success
      BY SettingsArePositive DEF Init
<1>3. inflight \in BOOLEAN /\ healthy \in BOOLEAN
      BY DEF Init
<1>4. QED
      BY <1>1, <1>2, <1>3
         DEF IInv, TypeOK, ClosedIffBelowThreshold, ProbesAreConsecutive, NoCallThroughOpen

(* Every step, one conjunct at a time: what happens to cb and streak is    *)
(* what the lemmas about the methods say.                                  *)
LEMMA NextPreservesIInv == IInv /\ [Next]_vars => IInv'
<1> SUFFICES ASSUME IInv, [Next]_vars PROVE IInv'
    OBVIOUS
<1>1. /\ cb \in Breaker /\ Coherent(cb)
      /\ inflight \in BOOLEAN /\ healthy \in BOOLEAN
      /\ streak \in 0 .. half_open_max_success
      /\ cb.state = "half_open" => cb.half_open_successes = streak
      /\ cb.state = "open" => streak = 0
      /\ inflight => cb.state # "open"
      BY DEF IInv, TypeOK, ClosedIffBelowThreshold, ProbesAreConsecutive, NoCallThroughOpen
<1>2. /\ inflight' \in BOOLEAN
      /\ healthy' \in BOOLEAN
      BY <1>1, Zenon DEF Next, Enter, Succeed, Fail, Tick, HealthChanges, vars
<1>3. /\ cb' \in Breaker /\ Coherent(cb')
      /\ streak' \in 0 .. half_open_max_success
      /\ cb'.state = "half_open" => cb'.half_open_successes = streak'
      /\ cb'.state = "open" => streak' = 0
      /\ inflight' => cb'.state # "open"
  <2>1. CASE Enter
        BY <1>1, <2>1, AdmittedIsCoherent DEF Enter
  <2>2. CASE Succeed
    <3>1. /\ cb' = OnSuccess(cb)
          /\ streak' = UpTo(streak, half_open_max_success)
          /\ inflight /\ cb.state # "open"
          BY <1>1, <2>2 DEF Succeed
    <3>2. QED
          BY <1>1, <3>1, OnSuccessIsCoherent, UpToStaysInRange, SettingsArePositive
  <2>3. CASE Fail
        BY <1>1, <2>3, OnFailureIsCoherent, SettingsArePositive DEF Fail
  <2>4. CASE Tick
        BY <1>1, <2>4, ElapseIsCoherent DEF Tick
  <2>5. CASE HealthChanges
        BY <1>1, <2>5 DEF HealthChanges
  <2>6. CASE UNCHANGED vars
        BY <1>1, <2>6 DEF vars
  <2>7. QED
        BY <2>1, <2>2, <2>3, <2>4, <2>5, <2>6 DEF Next
<1>4. QED
      BY <1>2, <1>3
         DEF IInv, TypeOK, ClosedIffBelowThreshold, ProbesAreConsecutive, NoCallThroughOpen

LEMMA IInvIsInvariant == Spec => []IInv
BY InitEstablishesIInv, NextPreservesIInv, PTL DEF Spec

(* Every reachable state of the breaker object has the declared type.      *)
THEOREM TypeCorrect == Spec => []TypeOK
<1>1. IInv => TypeOK
      BY DEF IInv
<1>2. QED
      BY <1>1, IInvIsInvariant, PTL

(* The branch of on_failure that would leave a half-open breaker half-open *)
(* is dead, for every threshold.                                           *)
THEOREM ClosedExactlyBelowThreshold == Spec => []ClosedIffBelowThreshold
<1>1. IInv => ClosedIffBelowThreshold
      BY DEF IInv
<1>2. QED
      BY <1>1, IInvIsInvariant, PTL

(* half_open_successes counts consecutive successes, for every number of   *)
(* probes.                                                                 *)
THEOREM ProbesCountConsecutiveSuccesses == Spec => []ProbesAreConsecutive
<1>1. IInv => ProbesAreConsecutive
      BY DEF IInv
<1>2. QED
      BY <1>1, IInvIsInvariant, PTL

(* No call is in progress through an open breaker, for every timeout.      *)
THEOREM OpenBreakerHasNoCall == Spec => []NoCallThroughOpen
<1>1. IInv => NoCallThroughOpen
      BY DEF IInv
<1>2. QED
      BY <1>1, IInvIsInvariant, PTL

(* A step that closes the breaker is the last of half_open_max_success     *)
(* successes in a row.                                                     *)
THEOREM ClosingIsEarned == Spec => RecoveryIsEarned
<1> DEFINE Earned == cb.state # "closed" /\ cb'.state = "closed"
                        => streak' = half_open_max_success
<1>1. IInv /\ [Next]_vars => [Earned]_vars
  <2> SUFFICES ASSUME IInv, Next, cb.state # "closed", cb'.state = "closed"
               PROVE  streak' = half_open_max_success
      BY DEF vars
  <2>1. /\ cb \in Breaker /\ Coherent(cb)
        /\ streak \in 0 .. half_open_max_success
        /\ cb.state = "half_open" => cb.half_open_successes = streak
        BY DEF IInv, TypeOK, ClosedIffBelowThreshold, ProbesAreConsecutive
  <2>2. ~Enter
        BY <2>1, AdmittedIsCoherent DEF Enter
  <2>3. CASE Succeed
    <3>1. cb' = OnSuccess(cb) /\ streak' = UpTo(streak, half_open_max_success)
          BY <2>3 DEF Succeed
    <3>2. /\ cb.state = "half_open"
          /\ ~(cb.half_open_successes + 1 < half_open_max_success)
          BY <2>1, <3>1, OnSuccessIsCoherent
    <3>3. QED
          BY <2>1, <3>1, <3>2, UpToStaysInRange, SettingsArePositive
  <2>4. ~Fail
        BY <2>1, OnFailureIsCoherent DEF Fail
  <2>5. ~Tick
        BY <2>1, ElapseIsCoherent DEF Tick
  <2>6. ~HealthChanges
        BY DEF HealthChanges
  <2>7. QED
        BY <2>2, <2>3, <2>4, <2>5, <2>6 DEF Next
<1>2. QED
      BY <1>1, IInvIsInvariant, PTL DEF Spec, RecoveryIsEarned

-----------------------------------------------------------------------------
(* A new breaker is as good as its promise.                                *)
LEMMA InitImplementsPromise == Init => Promise!Init
BY NewBreakerIsCoherent, EvidenceByState DEF Init, NewBreaker, Promise!Init

(* Each step of the breaker is the promised one, or none at all.           *)
LEMMA NextImplementsPromise == IInv /\ [Next]_vars => [Promise!Next]_(Promise!vars)
<1> SUFFICES ASSUME IInv, [Next]_vars
             PROVE  Promise!Next \/ UNCHANGED <<cb.state, Evidence(cb), inflight>>
    BY DEF Promise!vars
<1>1. /\ cb \in Breaker /\ Coherent(cb)
      /\ inflight \in BOOLEAN
      /\ inflight => cb.state # "open"
      BY DEF IInv, TypeOK, ClosedIffBelowThreshold, NoCallThroughOpen
<1>2. CASE Enter
  <2>1. /\ CanAttempt(cb) /\ cb' = Admitted(cb)
        /\ inflight = FALSE /\ inflight' = TRUE
        BY <1>1, <1>2 DEF Enter
  <2>2. CASE cb.state = "open"
    <3>1. Promise!Enter
          BY <1>1, <2>1, <2>2, AdmittedStartsProbing
             DEF Promise!Enter, Promise!MayEnter, Promise!ModeInside, Promise!CountInside,
                 Promise!Become
    <3>2. QED
          BY <3>1 DEF Promise!Next
  <2>3. CASE cb.state # "open"
    <3>1. cb' = cb
          BY <1>1, <2>1, <2>3, AdmittedIsCoherent
    <3>2. Promise!Enter
          BY <2>1, <2>3, <3>1
             DEF Promise!Enter, Promise!MayEnter, Promise!ModeInside, Promise!CountInside,
                 Promise!Become
    <3>3. QED
          BY <3>2 DEF Promise!Next
  <2>4. QED
        BY <2>2, <2>3
<1>3. CASE Succeed
  <2>1. /\ cb' = OnSuccess(cb) /\ cb.state # "open"
        /\ inflight = TRUE /\ inflight' = FALSE
        BY <1>1, <1>3 DEF Succeed
  <2>2. Promise!Success(cb.state, Evidence(cb))
    <3>1. CASE cb.state = "half_open"
          BY <1>1, <2>1, <3>1, OnSuccessCountsProbe DEF Promise!Success, Promise!Become
    <3>2. CASE cb.state = "closed"
      <4>1. cb' = cb
            BY <1>1, <2>1, <3>2, OnSuccessIsCoherent
      <4>2. QED
            BY <3>2, <4>1 DEF Promise!Success, Promise!Become
    <3>3. QED
          BY <1>1, <2>1, <3>1, <3>2, BreakerFields
  <2>3. QED
        BY <2>1, <2>2 DEF Promise!Next, Promise!Exit, Promise!Outcome
<1>4. CASE Fail
  <2>1. /\ cb' = OnFailure(cb) /\ cb.state # "open"
        /\ inflight = TRUE /\ inflight' = FALSE
        BY <1>1, <1>4 DEF Fail
  <2>2. Promise!Failure(cb.state, Evidence(cb))
        BY <1>1, <2>1, OnFailureCountsOrOpens DEF Promise!Failure, Promise!Become
  <2>3. QED
        BY <2>1, <2>2 DEF Promise!Next, Promise!Exit, Promise!Outcome
<1>5. CASE Tick
  <2>1. cb' = Elapse(cb) /\ inflight' = inflight
        BY <1>5 DEF Tick
  <2>2. CASE cb.state = "open" /\ Evidence(cb) < recovery_timeout_sec
    <3>1. Promise!RestOn
          BY <1>1, <2>1, <2>2, ElapseRests DEF Promise!RestOn, Promise!Become
    <3>2. QED
          BY <3>1 DEF Promise!Next
  <2>3. CASE ~(cb.state = "open" /\ Evidence(cb) < recovery_timeout_sec)
        BY <1>1, <2>1, <2>3, ElapseRests
  <2>4. QED
        BY <2>2, <2>3
<1>6. CASE HealthChanges
      BY <1>6 DEF HealthChanges
<1>7. CASE UNCHANGED vars
      BY <1>7 DEF vars
<1>8. QED
      BY <1>2, <1>3, <1>4, <1>5, <1>6, <1>7 DEF Next

(* The breaker implements BreakerPromise, for every threshold, timeout and *)
(* number of probes: no failed probe goes unpunished and no count of an    *)
(* earlier period is taken for one of this.                                *)
THEOREM ImplementsPromise == Spec => KeepsPromise
<1>1. Init => Promise!Init
      BY InitImplementsPromise
<1>2. IInv /\ [Next]_vars => [Promise!Next]_(Promise!vars)
      BY NextImplementsPromise
<1>3. QED
      BY <1>1, <1>2, IInvIsInvariant, PTL DEF Spec, KeepsPromise, Promise!Spec
=============================================================================
