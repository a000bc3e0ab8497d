---------------------------- MODULE RateLimiter ----------------------------
(***************************************************************************)
(* The limiter of the process at work: rate_limit of app/security.py under *)
(* the calls of several clients, each with a key of its own.               *)
(*                                                                         *)
(* A client of Patient keeps to the Retry-After it is given, the others    *)
(* call whenever they like.                                                *)
(*                                                                         *)
(* recent is history: the ages of the youngest Limit admissions of a key,  *)
(* for comparison with SlidingWindow.  So are refused, the refusals of a   *)
(* key since it was last admitted or met an error, up to MaxRefused and    *)
(* through restarts, and quiet, the time since a call last reached the     *)
(* limiter.                                                                *)
(***************************************************************************)
EXTENDS LimiterOps

CONSTANTS Keys,       \* rl:<scope>:<identifier>
          Patient     \* the keys whose clients heed Retry-After

ASSUME KeysAssumption == Patient \subseteq Keys

MaxRefused == 3

VARIABLES backend,    \* which of the two classes _limiter is an object of
          bucket,     \* bucket of _InMemoryLimiter
          redis,      \* the counters on the Redis server
          wait,       \* ticks a client has yet to wait
          recent,     \* history: ages of the last admissions
          refused,    \* history: refusals in a row
          quiet       \* history: ticks without a call, up to the window

vars == <<backend, bucket, redis, wait, recent, refused, quiet>>

Ages == {s \in Seq(Age) : Len(s) <= Limit}

TypeOK == /\ backend \in {"memory", "redis"}
          /\ bucket \in [Keys -> Ages]
          /\ redis \in [Keys -> Counter]
          /\ wait \in [Keys -> 0 .. Window]
          /\ recent \in [Keys -> Ages]
          /\ refused \in [Keys -> 0 .. MaxRefused]
          /\ quiet \in [Keys -> 0 .. Window]

NothingAdmitted == [k \in Keys |-> <<>>]

(* Redis is taken if it answers a ping when the module is loaded.          *)
Init == /\ backend \in {"memory", "redis"}
        /\ bucket = NothingAdmitted
        /\ redis = [k \in Keys |-> NoKey]
        /\ wait = [k \in Keys |-> 0]
        /\ recent = NothingAdmitted
        /\ refused = [k \in Keys |-> 0]
        /\ quiet = [k \in Keys |-> Window]

-----------------------------------------------------------------------------
Calls(k, limiter) == backend = limiter /\ (k \in Patient => wait[k] = 0)

(* allow answered True.                                                    *)
Admitted(k) ==
    /\ recent' = [recent EXCEPT ![k] =
                     Append(IF Len(@) = Limit THEN Tail(@) ELSE @, 0)]
    /\ refused' = [refused EXCEPT ![k] = 0]
    /\ wait' = [wait EXCEPT ![k] = 0]
    /\ quiet' = [quiet EXCEPT ![k] = 0]

(* allow answered False and how many seconds to wait: 429.                 *)
Refused(k, retry_after) ==
    /\ wait' = [wait EXCEPT ![k] = retry_after * TicksPerSec]
    /\ refused' = [refused EXCEPT ![k] = IF @ < MaxRefused THEN @ + 1 ELSE @]
    /\ quiet' = [quiet EXCEPT ![k] = 0]
    /\ UNCHANGED recent

AdmitInMemory(k) ==
    /\ Calls(k, "memory")
    /\ \E dq \in Purged(bucket[k]) :
          /\ MemoryAllows(dq)
          /\ bucket' = [bucket EXCEPT ![k] = Append(dq, 0)]
    /\ Admitted(k)
    /\ UNCHANGED <<backend, redis>>

RefuseInMemory(k) ==
    /\ Calls(k, "memory")
    /\ \E dq \in Purged(bucket[k]) :
          /\ ~MemoryAllows(dq)
          /\ bucket' = [bucket EXCEPT ![k] = dq]
          /\ Refused(k, MemoryRetryAfter(dq))
    /\ UNCHANGED <<backend, redis>>

AdmitByRedis(k) ==
    /\ Calls(k, "redis")
    /\ RedisAllows(redis[k])
    /\ redis' = [redis EXCEPT ![k] = Hit(@)]
    /\ Admitted(k)
    /\ UNCHANGED <<backend, bucket>>

(* The refused call has been counted and has renewed the expiry as well.   *)
RefuseByRedis(k) ==
    /\ Calls(k, "redis")
    /\ ~RedisAllows(redis[k])
    /\ redis' = [redis EXCEPT ![k] = Hit(@)]
    /\ Refused(k, RedisRetryAfter)
    /\ UNCHANGED <<backend, bucket>>

(* Redis went away after the start: execute raises, the dependency lets    *)
(* the exception out and the request fails, counted on the server or not.  *)
RedisFails(k) ==
    /\ Calls(k, "redis")
    /\ \/ /\ redis' = [redis EXCEPT ![k] = Hit(@)]
          /\ quiet' = [quiet EXCEPT ![k] = 0]
       \/ UNCHANGED <<redis, quiet>>
    /\ refused' = [refused EXCEPT ![k] = 0]
    /\ UNCHANGED <<backend, bucket, wait, recent>>

(* The server starts again: what was kept in memory is lost, and Redis may *)
(* be reachable now or no longer.  Clients forget nothing.                 *)
Restart ==
    /\ backend' \in {"memory", "redis"}
    /\ bucket' = NothingAdmitted
    /\ recent' = IF backend = "redis" /\ backend' = "redis" THEN recent ELSE NothingAdmitted
    /\ UNCHANGED <<redis, wait, refused, quiet>>

Tick == /\ bucket' = [k \in Keys |-> OlderAll(bucket[k])]
        /\ redis' = [k \in Keys |-> Expire(redis[k])]
        /\ wait' = [k \in Keys |-> IF wait[k] > 0 THEN wait[k] - 1 ELSE 0]
        /\ recent' = [k \in Keys |-> OlderAll(recent[k])]
        /\ quiet' = [k \in Keys |-> IF quiet[k] < Window THEN quiet[k] + 1 ELSE quiet[k]]
        /\ UNCHANGED <<backend, refused>>

Call(k) == \/ AdmitInMemory(k) \/ RefuseInMemory(k)
           \/ AdmitByRedis(k) \/ RefuseByRedis(k) \/ RedisFails(k)

Next == \/ \E k \in Keys : Call(k)
        \/ Restart
        \/ Tick

Spec == Init /\ [][Next]_vars

-----------------------------------------------------------------------------
(***************************************************************************)
(* Both limiters keep to the window, although one counts admissions and    *)
(* the other calls: no key is admitted more than Limit times in any        *)
(* stretch of time shorter than window_seconds, whatever its client does   *)
(* and whatever fails.  Only a restart of a server whose limiter is in     *)
(* memory starts the count again.                                          *)
(***************************************************************************)
Promised == INSTANCE SlidingWindow

WindowKept == Promised!Spec

(***************************************************************************)
(* Retry-After may be too short: int() drops half seconds and an entry     *)
(* leaves the deque only when it is older than the window, so a client     *)
(* that waits as long as it was told may be refused again.  It is not      *)
(* refused a third time, also when the server starts again while it waits  *)
(* and the other limiter, with its own counts, answers it then.            *)
(***************************************************************************)
PatientClientGetsIn == \A k \in Patient : refused[k] <= 2

(***************************************************************************)
(* Nobody is refused without cause.  In memory the cause is a full window: *)
(* Limit admissions of the key, the oldest not older than the window, so   *)
(* that refusals and what is left in the deque never count.  With Redis it *)
(* is only that there has been a call within the window.                   *)
(***************************************************************************)
FullWindow(k) == Len(recent[k]) = Limit /\ Head(recent[k]) <= Window

RefusalsAreDue ==
    [][\A k \in Keys : /\ RefuseInMemory(k) => FullWindow(k)
                       /\ RefuseByRedis(k) => quiet[k] < Window]_vars
=============================================================================
