----------------------------- MODULE LimiterOps -----------------------------
(***************************************************************************)
(* The two rate limiters of app/security.py, as operators on what they     *)
(* keep for one key.                                                       *)
(*   - _InMemoryLimiter keeps a deque of admission times: here a sequence  *)
(*     of ages (now minus the time), oldest first, in ticks.  Ages past    *)
(*     the window are all alike.                                           *)
(*   - _RedisLimiter keeps a counter with an expiry on the Redis server:   *)
(*     here the count, saturated just past the limit, and the time since   *)
(*     the expiry was last set.                                            *)
(* time.time() is finer than the seconds of the window and of Retry-After, *)
(* so a second is two ticks: an age can fall between two seconds.          *)
(***************************************************************************)
EXTENDS Integers, Sequences

CONSTANTS Limit,       \* limit of rate_limit(...)
          WindowSec    \* window_seconds

ASSUME LimiterAssumption == Limit \in Nat \ {0} /\ WindowSec \in Nat \ {0}

TicksPerSec == 2

Window == WindowSec * TicksPerSec

Age == 0 .. Window + 1

Older(age) == IF age <= Window THEN age + 1 ELSE age

OlderAll(ages) == [i \in DOMAIN ages |-> Older(ages[i])]

-----------------------------------------------------------------------------
(* The while loop at the head of allow pops entries from the left while    *)
(* they are older than the window: it stops after n of them.  Purged is    *)
(* what it leaves, a set of one deque.                                     *)
(* Mutant: an entry is dropped a second before it leaves the window.       *)
PopsEarly(dq, n) ==
    /\ \A i \in 1 .. n : dq[i] > Window - TicksPerSec
    /\ n < Len(dq) => dq[n + 1] <= Window - TicksPerSec

Pops(dq, n) ==
    /\ \A i \in 1 .. n : dq[i] > Window
    /\ n < Len(dq) => dq[n + 1] <= Window

Purged(dq) == {SubSeq(dq, n + 1, Len(dq)) : n \in {m \in 0 .. Len(dq) : Pops(dq, m)}}

(* Mutant: one admission too many.                                         *)
MemoryAllowsOneMore(dq) == Len(dq) <= Limit

(* Mutant: one admission too few.                                          *)
MemoryAllowsOneFewer(dq) == Len(dq) + 1 < Limit

MemoryAllows(dq) == Len(dq) < Limit

(* int() drops the part of a second that is left.                          *)
(* Mutant: the lower bound of one second is missing.                       *)
MemoryRetryAfterUnbounded(dq) == (Window - Head(dq)) \div TicksPerSec

MemoryRetryAfter(dq) ==
    LET seconds == (Window - Head(dq)) \div TicksPerSec
    IN  IF seconds > 1 THEN seconds ELSE 1

-----------------------------------------------------------------------------
(* count = 0 is a key that does not exist.                                 *)
Counter == {c \in [count : 0 .. Limit + 1, idle : 0 .. Window - 1] :
                c.count = 0 => c.idle = 0}

NoKey == [count |-> 0, idle |-> 0]

(* INCR and EXPIRE, one transaction: every call sets the expiry anew.      *)
Hit(c) == [count |-> IF c.count <= Limit THEN c.count + 1 ELSE c.count,
           idle  |-> 0]

RedisAllows(c) == Hit(c).count <= Limit

(* The ttl that is read back is the one this very call has set.            *)
RedisRetryAfter == WindowSec

(* A tick on the Redis server: the key goes when its time is over.         *)
Expire(c) == IF c.count = 0 \/ c.idle + 1 >= Window
             THEN NoKey
             ELSE [c EXCEPT !.idle = @ + 1]
=============================================================================
