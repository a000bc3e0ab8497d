------------------------- MODULE BreakerOps_proofs --------------------------
(***************************************************************************)
(* Lemmas about the methods of CircuitBreaker, one breaker object at a     *)
(* time: every module whose state holds breakers cites them.               *)
(***************************************************************************)
EXTENDS BreakerOps, TLAPS

(* The constructor's max(1, ...) makes every setting positive.             *)
LEMMA SettingsArePositive ==
    /\ failure_threshold \in Nat \ {0}
    /\ recovery_timeout_sec \in Nat \ {0}
    /\ half_open_max_success \in Nat \ {0}
BY BreakerAssumption
   DEF failure_threshold, recovery_timeout_sec, half_open_max_success, AtLeastOne

(* The saturating increment stays in range, and reaches the top only from  *)
(* one below it.                                                           *)
LEMMA UpToStaysInRange ==
    ASSUME NEW top \in Nat, NEW n \in 0 .. top
    PROVE  /\ UpTo(n, top) \in 0 .. top
           /\ n + 1 >= top <=> UpTo(n, top) = top
           /\ n + 1 < top => UpTo(n, top) = n + 1
BY DEF UpTo

(* The fields of a breaker object and their ranges.                        *)
LEMMA BreakerFields ==
    ASSUME NEW b \in Breaker
    PROVE  /\ b.state \in {"closed", "open", "half_open"}
           /\ b.failure_count \in 0 .. failure_threshold
           /\ b.since \in 0 .. recovery_timeout_sec
           /\ b.half_open_successes \in 0 .. half_open_max_success
BY DEF Breaker, BreakerState

(* The assignments the methods make, with values in range.                 *)
LEMMA UpdatesKeepType ==
    ASSUME NEW b \in Breaker, NEW s \in BreakerState,
           NEW f \in 0 .. failure_threshold,
           NEW t \in 0 .. recovery_timeout_sec,
           NEW n \in 0 .. half_open_max_success
    PROVE  /\ [b EXCEPT !.failure_count = f] \in Breaker
           /\ [b EXCEPT !.half_open_successes = n] \in Breaker
           /\ [b EXCEPT !.state = s, !.half_open_successes = n] \in Breaker
           /\ [b EXCEPT !.failure_count = f, !.state = s, !.since = t] \in Breaker
           /\ [b EXCEPT !.state = s, !.failure_count = f,
                        !.half_open_successes = n] \in Breaker
BY DEF Breaker

(* The values the methods assign are in range.                             *)
LEMMA LiteralsInRange ==
    /\ "closed" \in BreakerState /\ "open" \in BreakerState /\ "half_open" \in BreakerState
    /\ 0 \in 0 .. failure_threshold
    /\ 0 \in 0 .. recovery_timeout_sec
    /\ 0 \in 0 .. half_open_max_success
BY SettingsArePositive DEF BreakerState

(* A new breaker is closed and has counted nothing.                        *)
LEMMA NewBreakerIsCoherent == NewBreaker \in Breaker /\ Coherent(NewBreaker)
BY SettingsArePositive DEF NewBreaker, Breaker, BreakerState, Coherent

(* Letting a caller in changes an open breaker only, and it stays below    *)
(* nothing: the failure count is kept.                                     *)
LEMMA AdmittedIsCoherent ==
    ASSUME NEW b \in Breaker, Coherent(b)
    PROVE  /\ Admitted(b) \in Breaker
           /\ Coherent(Admitted(b))
           /\ Admitted(b).state # "open"
           /\ Admitted(b).state = "closed" <=> b.state = "closed"
           /\ b.state # "open" => Admitted(b) = b
           /\ b.state = "open" => Admitted(b).half_open_successes = 0
<1> USE SettingsArePositive, BreakerFields
<1>1. CASE b.state # "open"
      BY <1>1 DEF Admitted
<1>2. CASE b.state = "open"
  <2> DEFINE a == [b EXCEPT !.state = "half_open", !.half_open_successes = 0]
  <2>1. Admitted(b) = a
        BY <1>2 DEF Admitted, TransitionToHalfOpen
  <2>2. a \in Breaker
        BY LiteralsInRange, UpdatesKeepType, Zenon
  <2>3. /\ a.state = "half_open"
        /\ a.half_open_successes = 0
        /\ a.failure_count = b.failure_count
        BY DEF Breaker
  <2> HIDE DEF a
  <2>4. Coherent(a)
        BY <1>2, <2>3 DEF Coherent
  <2>5. QED
        BY <1>2, <2>1, <2>2, <2>3, <2>4
<1>3. QED
      BY <1>1, <1>2

(* A success leaves a breaker coherent; only the last probe closes it.     *)
LEMMA OnSuccessIsCoherent ==
    ASSUME NEW b \in Breaker, Coherent(b)
    PROVE  /\ OnSuccess(b) \in Breaker
           /\ Coherent(OnSuccess(b))
           /\ b.state # "half_open" => OnSuccess(b) = b
           /\ b.state = "half_open" /\ b.half_open_successes + 1 < half_open_max_success
                => /\ OnSuccess(b).state = "half_open"
                   /\ OnSuccess(b).half_open_successes = b.half_open_successes + 1
           /\ b.state = "half_open" /\ b.half_open_successes + 1 >= half_open_max_success
                => OnSuccess(b).state = "closed"
<1> USE SettingsArePositive, BreakerFields
<1>1. CASE b.state # "half_open"
      BY <1>1 DEF OnSuccess
<1>2. CASE b.state = "half_open" /\ b.half_open_successes + 1 >= half_open_max_success
  <2> DEFINE a == [b EXCEPT !.state = "closed", !.failure_count = 0,
                            !.half_open_successes = 0]
  <2>1. OnSuccess(b) = a
        BY <1>2 DEF OnSuccess, TransitionToClosed
  <2>2. a \in Breaker
        BY LiteralsInRange, UpdatesKeepType, Zenon
  <2>3. a.state = "closed" /\ a.failure_count = 0
        BY DEF Breaker
  <2> HIDE DEF a
  <2>4. QED
        BY <1>2, <2>1, <2>2, <2>3 DEF Coherent
<1>3. CASE b.state = "half_open" /\ b.half_open_successes + 1 < half_open_max_success
  <2>1. OnSuccess(b) = [b EXCEPT !.half_open_successes = b.half_open_successes + 1]
        BY <1>3 DEF OnSuccess
  <2>2. QED
        BY <1>3, <2>1 DEF Breaker, BreakerState, Coherent
<1>4. QED
      BY <1>1, <1>2, <1>3

(* A failure leaves a breaker coherent, never closes one, and reopens a    *)
(* half-open one at once: its count had already reached the threshold.     *)
LEMMA OnFailureIsCoherent ==
    ASSUME NEW b \in Breaker, Coherent(b)
    PROVE  /\ OnFailure(b) \in Breaker
           /\ Coherent(OnFailure(b))
           /\ OnFailure(b).state # "half_open"
           /\ OnFailure(b).state = "closed" => b.state = "closed"
<1> DEFINE count == UpTo(b.failure_count, failure_threshold)
<1> USE SettingsArePositive, BreakerFields
<1>1. /\ count \in 0 .. failure_threshold
      /\ b.failure_count >= failure_threshold => count >= failure_threshold
      BY UpToStaysInRange
<1> HIDE DEF count
<1>2. CASE b.state = "open"
      BY <1>2 DEF OnFailure
<1>3. CASE b.state # "open" /\ count >= failure_threshold
  <2> DEFINE a == [b EXCEPT !.failure_count = count, !.state = "open", !.since = 0]
  <2>1. OnFailure(b) = a
        BY <1>3 DEF OnFailure, TransitionToOpen, Breaker, count
  <2>2. a \in Breaker
        BY <1>1, LiteralsInRange, UpdatesKeepType, Zenon
  <2>3. a.state = "open" /\ a.failure_count = count
        BY DEF Breaker
  <2> HIDE DEF a
  <2>4. QED
        BY <1>1, <1>3, <2>1, <2>2, <2>3 DEF Coherent
<1>4. CASE b.state # "open" /\ count < failure_threshold
  <2>1. OnFailure(b) = [b EXCEPT !.failure_count = count]
        BY <1>1, <1>4 DEF OnFailure, Breaker, count
  <2>2. QED
        BY <1>1, <1>4, <2>1 DEF Breaker, BreakerState, Coherent
<1>5. QED
      BY <1>1, <1>2, <1>3, <1>4

(* Time moves nothing but the age of an open breaker.                      *)
LEMMA ElapseIsCoherent ==
    ASSUME NEW b \in Breaker, Coherent(b)
    PROVE  /\ Elapse(b) \in Breaker
           /\ Coherent(Elapse(b))
           /\ Elapse(b).state = b.state
           /\ Elapse(b).half_open_successes = b.half_open_successes
<1>1. UpTo(b.since, recovery_timeout_sec) \in 0 .. recovery_timeout_sec
      BY UpToStaysInRange, BreakerFields, SettingsArePositive
<1>2. QED
      BY <1>1 DEF Elapse, Breaker, Coherent

-----------------------------------------------------------------------------
(* The methods by what they do to the state and the evidence, which is all *)
(* that BreakerPromise knows of a breaker.                                 *)
LEMMA EvidenceByState ==
    ASSUME NEW b \in Breaker
    PROVE  /\ b.state = "closed" => Evidence(b) = b.failure_count
           /\ b.state = "open" => Evidence(b) = b.since
           /\ b.state = "half_open" => Evidence(b) = b.half_open_successes
BY DEF Evidence

(* An open breaker that lets a caller in has rested, and starts to count   *)
(* probes at nought, whatever an earlier half-open period left behind.     *)
LEMMA AdmittedStartsProbing ==
    ASSUME NEW b \in Breaker, Coherent(b), CanAttempt(b), b.state = "open"
    PROVE  /\ Evidence(b) = recovery_timeout_sec
           /\ Admitted(b).state = "half_open"
           /\ Evidence(Admitted(b)) = 0
<1> USE SettingsArePositive, BreakerFields, EvidenceByState
<1>1. Evidence(b) = recovery_timeout_sec
      BY DEF CanAttempt
<1>2. /\ Admitted(b) \in Breaker
      /\ Admitted(b).half_open_successes = 0
      /\ Admitted(b).state # "open" /\ Admitted(b).state # "closed"
      BY AdmittedIsCoherent
<1>3. QED
      BY <1>1, <1>2

(* A success that counts: one probe more, or the breaker starts afresh.    *)
LEMMA OnSuccessCountsProbe ==
    ASSUME NEW b \in Breaker, Coherent(b), b.state = "half_open"
    PROVE  IF Evidence(b) + 1 < half_open_max_success
           THEN /\ OnSuccess(b).state = "half_open"
                /\ Evidence(OnSuccess(b)) = Evidence(b) + 1
           ELSE /\ OnSuccess(b).state = "closed"
                /\ Evidence(OnSuccess(b)) = 0
<1> USE SettingsArePositive, BreakerFields, EvidenceByState
<1>1. Evidence(b) = b.half_open_successes /\ OnSuccess(b) \in Breaker
      BY OnSuccessIsCoherent
<1>2. CASE Evidence(b) + 1 < half_open_max_success
  <2>1. /\ OnSuccess(b).state = "half_open"
        /\ OnSuccess(b).half_open_successes = b.half_open_successes + 1
        BY <1>1, <1>2, OnSuccessIsCoherent
  <2>2. QED
        BY <1>1, <1>2, <2>1
<1>3. CASE ~(Evidence(b) + 1 < half_open_max_success)
  <2>1. OnSuccess(b) = [b EXCEPT !.state = "closed", !.failure_count = 0,
                                 !.half_open_successes = 0]
        BY <1>1, <1>3 DEF OnSuccess, TransitionToClosed
  <2>2. OnSuccess(b).state = "closed" /\ OnSuccess(b).failure_count = 0
        BY <2>1 DEF Breaker
  <2>3. QED
        BY <1>1, <1>3, <2>2
<1>4. QED
      BY <1>2, <1>3

(* A failure: a closed breaker counts it or opens, a half-open one opens   *)
(* whatever it had counted, and the rest begins.                           *)
LEMMA OnFailureCountsOrOpens ==
    ASSUME NEW b \in Breaker, Coherent(b), b.state # "open"
    PROVE  IF b.state = "closed" /\ Evidence(b) + 1 < failure_threshold
           THEN /\ OnFailure(b).state = "closed"
                /\ Evidence(OnFailure(b)) = Evidence(b) + 1
           ELSE /\ OnFailure(b).state = "open"
                /\ Evidence(OnFailure(b)) = 0
<1> DEFINE count == UpTo(b.failure_count, failure_threshold)
<1> USE SettingsArePositive, BreakerFields, EvidenceByState
<1>1. /\ count \in 0 .. failure_threshold
      /\ b.failure_count + 1 >= failure_threshold <=> count = failure_threshold
      /\ b.failure_count + 1 < failure_threshold => count = b.failure_count + 1
      BY UpToStaysInRange
<1>2. OnFailure(b) = IF count >= failure_threshold
                     THEN [b EXCEPT !.failure_count = count, !.state = "open", !.since = 0]
                     ELSE [b EXCEPT !.failure_count = count]
      BY DEF OnFailure, TransitionToOpen, Breaker, count
<1>3. OnFailure(b) \in Breaker
      BY OnFailureIsCoherent
<1> HIDE DEF count
<1>4. CASE b.state = "closed" /\ Evidence(b) + 1 < failure_threshold
  <2>1. OnFailure(b).state = "closed" /\ OnFailure(b).failure_count = count
        BY <1>1, <1>2, <1>4 DEF Breaker
  <2>2. QED
        BY <1>1, <1>3, <1>4, <2>1
<1>5. CASE ~(b.state = "closed" /\ Evidence(b) + 1 < failure_threshold)
  <2>1. count = failure_threshold
        BY <1>1, <1>5 DEF Coherent
  <2>2. OnFailure(b).state = "open" /\ OnFailure(b).since = 0
        BY <1>1, <1>2, <2>1 DEF Breaker
  <2>3. QED
        BY <1>3, <1>5, <2>2
<1>6. QED
      BY <1>4, <1>5

(* Time: an open breaker rests, until it has rested long enough; another   *)
(* breaker does not feel it.                                               *)
LEMMA ElapseRests ==
    ASSUME NEW b \in Breaker, Coherent(b)
    PROVE  /\ Elapse(b).state = b.state
           /\ b.state = "open" /\ Evidence(b) < recovery_timeout_sec
                 => Evidence(Elapse(b)) = Evidence(b) + 1
           /\ ~(b.state = "open" /\ Evidence(b) < recovery_timeout_sec)
                 => Evidence(Elapse(b)) = Evidence(b)
<1> USE SettingsArePositive, BreakerFields, EvidenceByState
<1>1. CASE b.state = "open"
  <2>1. /\ Elapse(b) \in Breaker /\ Elapse(b).state = "open"
        /\ Elapse(b).since = UpTo(b.since, recovery_timeout_sec)
        BY <1>1, ElapseIsCoherent DEF Elapse, Breaker
  <2>2. QED
        BY <1>1, <2>1 DEF UpTo
<1>2. CASE b.state # "open"
      BY <1>2 DEF Elapse
<1>3. QED
      BY <1>1, <1>2
=============================================================================
