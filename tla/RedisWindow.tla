---------------------------- MODULE RedisWindow ----------------------------
(***************************************************************************)
(* RateLimiter with a clock beside each counter on the Redis server, to    *)
(* compare _RedisLimiter with the fixed window its comment names.          *)
(***************************************************************************)
EXTENDS RateLimiter

VARIABLE opened   \* history: ticks since the counter of a key was created, up
                  \* to the window; 0 while there is no counter

Clocked == <<vars, opened>>

ClockedInit == Init /\ opened = [k \in Keys |-> 0]

Longer(k) == IF opened[k] < Window THEN opened[k] + 1 ELSE Window

ClockedNext ==
    \/ (\E k \in Keys : Call(k)) /\ UNCHANGED opened
    \/ Restart /\ UNCHANGED opened
    \/ Tick /\ opened' = [k \in Keys |-> IF redis'[k].count = 0 THEN 0 ELSE Longer(k)]

ClockedSpec == ClockedInit /\ [][ClockedNext]_Clocked

(***************************************************************************)
(* The limiter is a fixed window: a key that Redis would refuse has used   *)
(* up its limit in a window that opened less than window_seconds ago.      *)
(* app/security.py:126 says so of INCR with EXPIRE, but every call sets    *)
(* the expiry anew, a refused one too, and the counter never starts again  *)
(* while the calls go on.                                                  *)
(***************************************************************************)
FixedWindow == \A k \in Keys : ~RedisAllows(redis[k]) => opened[k] < Window
=============================================================================
