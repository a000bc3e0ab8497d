----------------------------- MODULE BreakerOps -----------------------------
(***************************************************************************)
(* The methods of the class CircuitBreaker of app/reliability.py, as       *)
(* operators on a record that stands for one breaker object.  The record   *)
(* keeps what the methods tell apart:                                      *)
(*   - failure_count saturates at failure_threshold, the only value it is  *)
(*     ever compared with (in the code it grows with every failed probe);  *)
(*   - since is time.time() - last_failure_ts, saturated at                *)
(*     recovery_timeout_sec; it is read in the state "open" only, so it    *)
(*     runs in that state only.                                            *)
(***************************************************************************)
EXTENDS Integers

CONSTANTS FailureThreshold,    \* the constructor's failure_threshold
          RecoveryTimeoutSec,  \* the constructor's recovery_timeout_sec
          HalfOpenMaxSuccess   \* the constructor's half_open_max_success

ASSUME BreakerAssumption ==
    /\ FailureThreshold \in Int
    /\ RecoveryTimeoutSec \in Int
    /\ HalfOpenMaxSuccess \in Int

AtLeastOne(n) == IF n > 1 THEN n ELSE 1

failure_threshold     == AtLeastOne(FailureThreshold)
recovery_timeout_sec  == AtLeastOne(RecoveryTimeoutSec)
half_open_max_success == AtLeastOne(HalfOpenMaxSuccess)

\* n + 1, but never past top: the counters' saturating increment.
UpTo(n, top) == IF n < top THEN n + 1 ELSE top

BreakerState == {"closed", "open", "half_open"}

Breaker == [state : BreakerState,
            failure_count : 0 .. failure_threshold,
            since : 0 .. recovery_timeout_sec,
            half_open_successes : 0 .. half_open_max_success]

(* A breaker is closed exactly while it has counted fewer failures than    *)
(* the threshold.                                                          *)
Coherent(b) == b.state = "closed" <=> b.failure_count < failure_threshold

(* The number a breaker decides by, in the state it is in: the failures it *)
(* has counted, the time it has rested or the probes that succeeded.       *)
Evidence(b) == CASE b.state = "closed"    -> b.failure_count
                 [] b.state = "open"      -> b.since
                 [] b.state = "half_open" -> b.half_open_successes

-----------------------------------------------------------------------------
(* last_failure_ts starts at the epoch: any timeout has long elapsed.      *)
NewBreaker == [state |-> "closed",
               failure_count |-> 0,
               since |-> recovery_timeout_sec,
               half_open_successes |-> 0]

TransitionToOpen(b) == [b EXCEPT !.state = "open", !.since = 0]

(* Mutant: the probes of an earlier half-open period are kept.             *)
TransitionToHalfOpenKeepingProbes(b) == [b EXCEPT !.state = "half_open"]

TransitionToHalfOpen(b) == [b EXCEPT !.state = "half_open",
                                     !.half_open_successes = 0]

(* Mutant: failure_count is not reset.                                     *)
TransitionToClosedKeepingCount(b) == [b EXCEPT !.state = "closed",
                                               !.half_open_successes = 0]

TransitionToClosed(b) == [b EXCEPT !.state = "closed",
                                   !.failure_count = 0,
                                   !.half_open_successes = 0]

(* _can_attempt answers a question and, when an open breaker has cooled    *)
(* down, changes it: CanAttempt is the answer, Admitted(b) the breaker     *)
(* after the answer True.                                                  *)
(* Mutant: the timer of an open breaker is not looked at.                  *)
CanAttemptUnlessOpen(b) == b.state # "open"

CanAttempt(b) == b.state = "open" => b.since >= recovery_timeout_sec

(* Mutant: the caller is let in, the state stays.                          *)
AdmittedStayingOpen(b) == b

Admitted(b) == IF b.state = "open" THEN TransitionToHalfOpen(b) ELSE b

(* Mutant: successes are counted before the state is looked at.            *)
OnSuccessCountingAlways(b) ==
    LET n == b.half_open_successes + 1
    IN  IF b.state = "half_open" /\ n >= half_open_max_success
        THEN TransitionToClosed(b)
        ELSE [b EXCEPT !.half_open_successes = n]

(* Mutant: one probe too few.                                              *)
OnSuccessOneProbeEarly(b) ==
    LET n == b.half_open_successes + 1
    IN  IF b.state # "half_open" THEN b
        ELSE IF n + 1 >= half_open_max_success THEN TransitionToClosed(b)
        ELSE [b EXCEPT !.half_open_successes = n]

OnSuccess(b) ==
    LET n == b.half_open_successes + 1
    IN  IF b.state # "half_open" THEN b
        ELSE IF n >= half_open_max_success THEN TransitionToClosed(b)
        ELSE [b EXCEPT !.half_open_successes = n]

OnFailure(b) ==
    LET counted == [b EXCEPT !.failure_count = UpTo(@, failure_threshold)]
    IN  IF b.state = "open" THEN b
        ELSE IF counted.failure_count >= failure_threshold
             THEN TransitionToOpen(counted)
        ELSE counted

(* One tick of time.time() as this breaker sees it.                        *)
Elapse(b) == IF b.state = "open"
             THEN [b EXCEPT !.since = UpTo(@, recovery_timeout_sec)]
             ELSE b
=============================================================================
