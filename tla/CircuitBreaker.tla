--------------------------- MODULE CircuitBreaker ---------------------------
(***************************************************************************)
(* One CircuitBreaker object in use.  call() runs a blocking function on   *)
(* the thread of the event loop, so at most one call is between            *)
(* _can_attempt and on_success / on_failure; wall-clock time goes by       *)
(* before, during and after a call.                                        *)
(*                                                                         *)
(* healthy is the environment: while it is FALSE the protected function    *)
(* may fail, while it is TRUE it does not.                                 *)
(*                                                                         *)
(* streak is a history variable the code does not have: the number of      *)
(* calls that succeeded since the last one that failed, saturated at       *)
(* half_open_max_success.                                                  *)
(***************************************************************************)
EXTENDS BreakerOps

VARIABLES cb, inflight, healthy, streak

vars == <<cb, inflight, healthy, streak>>

TypeOK == /\ cb \in Breaker
          /\ inflight \in BOOLEAN
          /\ healthy \in BOOLEAN
          /\ streak \in 0 .. half_open_max_success

Init == /\ cb = NewBreaker
        /\ inflight = FALSE
        /\ healthy \in BOOLEAN
        /\ streak = 0

-----------------------------------------------------------------------------
(* call: the guard let the caller in, func() starts.                       *)
Enter == /\ ~inflight
         /\ CanAttempt(cb)
         /\ cb' = Admitted(cb)
         /\ inflight' = TRUE
         /\ UNCHANGED <<healthy, streak>>

(* call: func() returned, on_success ran.                                  *)
Succeed == /\ inflight
           /\ cb' = OnSuccess(cb)
           /\ inflight' = FALSE
           /\ streak' = UpTo(streak, half_open_max_success)
           /\ UNCHANGED healthy

(* call: func() raised, on_failure ran and the exception went up.          *)
Fail == /\ inflight
        /\ ~healthy
        /\ cb' = OnFailure(cb)
        /\ inflight' = FALSE
        /\ streak' = 0
        /\ UNCHANGED healthy

Tick == /\ cb' = Elapse(cb)
        /\ UNCHANGED <<inflight, healthy, streak>>

(* The protected service breaks or comes back.                             *)
HealthChanges == /\ healthy' = ~healthy
                 /\ UNCHANGED <<cb, inflight, streak>>

Next == Enter \/ Succeed \/ Fail \/ Tick \/ HealthChanges

Spec == Init /\ [][Next]_vars

(***************************************************************************)
(* Time passes, clients keep calling, and a function that was entered      *)
(* returns or raises.                                                      *)
(***************************************************************************)
Fairness == WF_vars(Tick) /\ WF_vars(Enter) /\ WF_vars(Succeed \/ Fail)

FairSpec == Spec /\ Fairness

-----------------------------------------------------------------------------
(***************************************************************************)
(* A breaker is closed exactly while it has counted fewer failures than    *)
(* the threshold.  on_failure leaves a half-open breaker half-open when    *)
(* the count is below the threshold; this says that branch never runs, so  *)
(* every failed probe reopens.                                             *)
(***************************************************************************)
ClosedIffBelowThreshold == Coherent(cb)

(***************************************************************************)
(* A half-open breaker's half_open_successes counts the successes since    *)
(* the last failure: no failed probe is forgotten on the way to closing.   *)
(* An open breaker has seen no success since the failure that opened it.   *)
(***************************************************************************)
ProbesAreConsecutive ==
    /\ cb.state = "half_open" => cb.half_open_successes = streak
    /\ cb.state = "open" => streak = 0

(***************************************************************************)
(* While a call is in progress the breaker is not open: the timer turns    *)
(* open into half_open before func() starts, and nothing reopens it before *)
(* func() is done.                                                         *)
(***************************************************************************)
NoCallThroughOpen == inflight => cb.state # "open"

(***************************************************************************)
(* A breaker that closes again does so after half_open_max_success calls   *)
(* in a row succeeded.                                                     *)
(***************************************************************************)
RecoveryIsEarned ==
    [][cb.state # "closed" /\ cb'.state = "closed"
         => streak' = half_open_max_success]_vars

(***************************************************************************)
(* Once the protected service stays healthy, the breaker ends up closed    *)
(* and stays closed, whatever it had counted before.                       *)
(***************************************************************************)
RecoversWhenHealthy == <>[]healthy => <>[](cb.state = "closed")

(***************************************************************************)
(* The breaker keeps the promise of a circuit breaker: it opens at the     *)
(* threshold, lets nobody in before it has rested, closes after enough     *)
(* successes in a row, and opens again at the first probe that fails.      *)
(* What it counts in a state other than the one it is in never matters.    *)
(***************************************************************************)
Promise == INSTANCE BreakerPromise
           WITH mode <- cb.state, count <- Evidence(cb), calling <- inflight,
                Failures <- failure_threshold,
                Rest <- recovery_timeout_sec,
                Probes <- half_open_max_success

KeepsPromise == Promise!Spec
=============================================================================
