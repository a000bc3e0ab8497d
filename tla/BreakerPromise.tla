--------------------------- MODULE BreakerPromise ---------------------------
(***************************************************************************)
(* What a circuit breaker promises the callers of the function it guards.  *)
(* A breaker is told by one number, which means what its mode says:        *)
(*   - closed, it counts failures, and opens at the Failures-th: a success *)
(*     in between forgives none;                                           *)
(*   - open, it rests, and lets nobody in before it has rested for Rest    *)
(*     ticks;                                                              *)
(*   - half open, it counts successes: the Probes-th in a row closes it,   *)
(*     and the first failure opens it again.                               *)
(* How a breaker keeps its promise, and what else it counts meanwhile, is  *)
(* its own affair.                                                         *)
(***************************************************************************)
EXTENDS Naturals

CONSTANTS Failures, Rest, Probes

VARIABLES mode, count,
          calling       \* the guarded function is running

vars == <<mode, count, calling>>

Init == mode = "closed" /\ count = 0 /\ calling = FALSE

Become(m, n) == mode' = m /\ count' = n

RestOn == /\ mode = "open" /\ count < Rest
          /\ Become("open", count + 1)
          /\ UNCHANGED calling

(* A caller may enter, and finds a breaker that rested long enough half    *)
(* open, with every probe to come.                                         *)
MayEnter == mode = "open" => count = Rest

ModeInside  == IF mode = "open" THEN "half_open" ELSE mode
CountInside == IF mode = "open" THEN 0 ELSE count

(* The function returned, or raised, in a breaker of mode m that had       *)
(* counted n.                                                              *)
Success(m, n) == IF m = "closed" THEN Become("closed", n)
                 ELSE IF n + 1 < Probes THEN Become("half_open", n + 1)
                 ELSE Become("closed", 0)

Failure(m, n) == IF m = "closed" /\ n + 1 < Failures THEN Become("closed", n + 1)
                 ELSE Become("open", 0)

Outcome(m, n) == Success(m, n) \/ Failure(m, n)

(* A call is two steps, with other things in between, or one.              *)
Enter == /\ ~calling /\ MayEnter
         /\ calling' = TRUE
         /\ Become(ModeInside, CountInside)

Exit == /\ calling /\ mode # "open"
        /\ calling' = FALSE
        /\ Outcome(mode, count)

Call == /\ ~calling /\ MayEnter
        /\ UNCHANGED calling
        /\ Outcome(ModeInside, CountInside)

Next == RestOn \/ Enter \/ Exit \/ Call

Spec == Init /\ [][Next]_vars
=============================================================================
