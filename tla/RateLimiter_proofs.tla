------------------------- MODULE RateLimiter_proofs -------------------------
(***************************************************************************)
(* Proofs about RateLimiter: for every limit, every window and all sets of *)
(* keys and clients.                                                       *)
(***************************************************************************)
EXTENDS RateLimiter, TLAPS, SequenceTheorems

LEMMA WindowType == /\ Limit \in Nat /\ Limit > 0
                    /\ Window \in Nat /\ Window >= 2 /\ Window = 2 * WindowSec
                    /\ WindowSec \in Nat /\ WindowSec > 0
  BY LimiterAssumption DEF Window, TicksPerSec

-----------------------------------------------------------------------------
(* What the loop that purges a deque leaves is a tail of it, and what it    *)
(* popped has left the window.                                             *)
LEMMA PurgedFacts ==
    ASSUME NEW s \in Ages, NEW dq \in Purged(s)
    PROVE  /\ dq \in Ages
           /\ Len(dq) <= Len(s)
           /\ \A i \in 1 .. Len(dq) : dq[i] = s[i + (Len(s) - Len(dq))]
           /\ \A i \in 1 .. Len(s) - Len(dq) : s[i] > Window
           /\ Len(dq) > 0 => dq[1] <= Window
  <1>1. PICK n \in 0 .. Len(s) : Pops(s, n) /\ dq = SubSeq(s, n + 1, Len(s))
    BY DEF Purged
  <1>2. s \in Seq(Age) /\ Len(s) \in Nat /\ Len(s) <= Limit
    BY DEF Ages
  <1>3. /\ dq \in Seq(Age)
        /\ Len(dq) = Len(s) - n
        /\ \A i \in 1 .. Len(s) - n : dq[i] = s[i + n]
    BY <1>1, <1>2
  <1>4. n = Len(s) - Len(dq) /\ Len(dq) <= Len(s)
    BY <1>1, <1>2, <1>3
  <1>5. \A i \in 1 .. n : s[i] > Window
    BY <1>1 DEF Pops
  <1>6. ASSUME Len(dq) > 0 PROVE dq[1] <= Window
    <2>1. n < Len(s) /\ dq[1] = s[n + 1]
      BY <1>1, <1>2, <1>3, <1>4, <1>6
    <2> QED BY <1>1, <2>1 DEF Pops
  <1> QED BY <1>2, <1>3, <1>4, <1>5, <1>6, WindowType DEF Ages

LEMMA AgesFacts ==
    ASSUME NEW s \in Ages
    PROVE  /\ s \in Seq(Age) /\ Len(s) \in Nat /\ Len(s) <= Limit
           /\ \A i \in 1 .. Len(s) : s[i] \in Age
           /\ OlderAll(s) \in Ages
           /\ Len(OlderAll(s)) = Len(s)
           /\ \A i \in 1 .. Len(s) : OlderAll(s)[i] = Older(s[i])
  <1>1. s \in Seq(Age) /\ Len(s) \in Nat /\ Len(s) <= Limit /\ DOMAIN s = 1 .. Len(s)
    BY DEF Ages
  <1>2. \A i \in 1 .. Len(s) : s[i] \in Age /\ Older(s[i]) \in Age
    BY <1>1, WindowType DEF Age, Older
  <1>3. OlderAll(s) \in [1 .. Len(s) -> Age]
    BY <1>1, <1>2 DEF OlderAll
  <1>4. OlderAll(s) \in Seq(Age) /\ Len(OlderAll(s)) = Len(s)
    BY <1>1, <1>3
  <1> QED BY <1>1, <1>2, <1>3, <1>4 DEF OlderAll, Ages

LEMMA AgeIsNatural ==
    ASSUME NEW s \in Ages, NEW i \in 1 .. Len(s)
    PROVE  s[i] \in Nat /\ s[i] <= Window + 1
  <1>1. s[i] \in Age
    BY AgesFacts
  <1> QED BY <1>1, WindowType DEF Age

(* What an admission does to a log of ages.                                *)
LEMMA RememberFacts ==
    ASSUME NEW s \in Ages
    PROVE  LET r == Append(IF Len(s) = Limit THEN Tail(s) ELSE s, 0)
               cut == IF Len(s) = Limit THEN 1 ELSE 0
           IN  /\ r \in Ages
               /\ Len(r) = Len(s) + 1 - cut
               /\ \A i \in 1 .. Len(r) - 1 : r[i] = s[i + cut]
               /\ r[Len(r)] = 0
  <1>1. s \in Seq(Age) /\ Len(s) \in Nat /\ Len(s) <= Limit /\ 0 \in Age
    BY AgesFacts, WindowType DEF Age
  <1>2. CASE Len(s) = Limit
    <2>1. /\ Tail(s) \in Seq(Age) /\ Len(Tail(s)) = Len(s) - 1
          /\ \A i \in 1 .. Len(s) - 1 : Tail(s)[i] = s[i + 1]
      BY <1>1, <1>2, WindowType
    <2>2. /\ Append(Tail(s), 0) \in Seq(Age) /\ Len(Append(Tail(s), 0)) = Len(s)
          /\ \A i \in 1 .. Len(s) - 1 : Append(Tail(s), 0)[i] = Tail(s)[i]
          /\ Append(Tail(s), 0)[Len(s)] = 0
      BY <1>1, <2>1, WindowType, <1>2
    <2> QED BY <1>1, <1>2, <2>1, <2>2 DEF Ages
  <1>3. CASE Len(s) # Limit
    <2>1. /\ Append(s, 0) \in Seq(Age) /\ Len(Append(s, 0)) = Len(s) + 1
          /\ \A i \in 1 .. Len(s) : Append(s, 0)[i] = s[i]
          /\ Append(s, 0)[Len(s) + 1] = 0
      BY <1>1
    <2> QED BY <1>1, <1>3, <2>1, WindowType DEF Ages
  <1> QED BY <1>2, <1>3

-----------------------------------------------------------------------------
(* A deque holds the youngest of the admissions, and those it holds no     *)
(* more have left the window.                                              *)
BucketIsTheTail(b, r) ==
    /\ Len(b) <= Len(r)
    /\ \A i \in 1 .. Len(b) : b[i] = r[i + (Len(r) - Len(b))]
    /\ \A i \in 1 .. Len(r) - Len(b) : r[i] > Window

(* Admissions that a counter does not count are a window old, and those it *)
(* counts are no younger than the last call.                               *)
CounterCoversTheYoung(c, r) ==
    \A i \in 1 .. Len(r) :
        /\ c.idle <= r[i]
        /\ i <= Len(r) - c.count => r[i] >= Window

MemoryInv == \A k \in Keys : BucketIsTheTail(bucket[k], recent[k])

RedisInv == \A k \in Keys : CounterCoversTheYoung(redis[k], recent[k])

IInv == /\ TypeOK
        /\ backend = "memory" => MemoryInv
        /\ backend = "redis" => RedisInv

-----------------------------------------------------------------------------
(* What the steps do to one key, freed from the arrays.                    *)
LEMMA CounterFacts ==
    ASSUME NEW c \in Counter
    PROVE  /\ c.count \in 0 .. Limit + 1 /\ c.idle \in 0 .. Window - 1
           /\ Hit(c) \in Counter
           /\ Hit(c).idle = 0
           /\ Hit(c).count > 0
           /\ c.count <= Limit => Hit(c).count = c.count + 1
           /\ c.count > Limit => Hit(c).count = c.count
           /\ Expire(c) \in Counter
           /\ c.count = 0 \/ c.idle + 1 >= Window => Expire(c).count = 0 /\ Expire(c).idle = 0
           /\ c.count > 0 /\ c.idle + 1 < Window
                => Expire(c).count = c.count /\ Expire(c).idle = c.idle + 1
  <1>1. /\ c = [count |-> c.count, idle |-> c.idle]
        /\ c.count \in 0 .. Limit + 1 /\ c.idle \in 0 .. Window - 1
        /\ c.count = 0 => c.idle = 0
    BY DEF Counter
  <1>2. /\ Hit(c).count = IF c.count <= Limit THEN c.count + 1 ELSE c.count
        /\ Hit(c).idle = 0
        /\ Hit(c) \in Counter
    BY <1>1, WindowType DEF Hit, Counter
  <1>3. CASE c.count = 0 \/ c.idle + 1 >= Window
    <2>1. Expire(c) = [count |-> 0, idle |-> 0]
      BY <1>3 DEF Expire, NoKey
    <2>2. [count |-> 0, idle |-> 0] \in Counter
      BY WindowType DEF Counter
    <2> QED BY <1>1, <1>2, <1>3, <2>1, <2>2, WindowType
  <1>4. CASE ~(c.count = 0 \/ c.idle + 1 >= Window)
    <2>1. Expire(c) = [count |-> c.count, idle |-> c.idle + 1]
      BY <1>1, <1>4 DEF Expire
    <2>2. [count |-> c.count, idle |-> c.idle + 1] \in Counter
      BY <1>1, <1>4, WindowType DEF Counter
    <2> QED BY <1>1, <1>2, <1>4, <2>1, <2>2, WindowType
  <1> QED BY <1>3, <1>4

LEMMA NoKeyType == NoKey \in Counter /\ NoKey.count = 0 /\ NoKey.idle = 0
  BY WindowType DEF NoKey, Counter

LEMMA NothingType == <<>> \in Ages
  BY WindowType DEF Ages

LEMMA RetryAfterFacts ==
    ASSUME NEW dq \in Ages, Len(dq) > 0, dq[1] <= Window
    PROVE  LET w == MemoryRetryAfter(dq) * TicksPerSec
           IN  /\ w \in 0 .. Window
               /\ w >= 2
               /\ dq[1] + w >= Window - 1
  <1>0. dq \in Seq(Age) /\ Len(dq) \in Nat /\ 1 \in 1 .. Len(dq)
    BY AgesFacts
  <1>1. Head(dq) = dq[1] /\ dq[1] \in 0 .. Window + 1
    BY <1>0, AgesFacts, WindowType DEF Age
  <1> DEFINE s == (Window - dq[1]) \div 2
  <1>2. s \in Nat /\ 2 * s <= Window - dq[1] /\ 2 * s >= Window - dq[1] - 1
    BY <1>1, WindowType
  <1>3. MemoryRetryAfter(dq) = IF s > 1 THEN s ELSE 1
    BY <1>1 DEF MemoryRetryAfter, TicksPerSec
  <1> HIDE DEF s
  <1> QED BY <1>1, <1>2, <1>3, WindowType DEF TicksPerSec

Remember(s) == Append(IF Len(s) = Limit THEN Tail(s) ELSE s, 0)

LEMMA PurgedKeepsTail ==
    ASSUME NEW b \in Ages, NEW r \in Ages, BucketIsTheTail(b, r), NEW dq \in Purged(b)
    PROVE  BucketIsTheTail(dq, r)
  <1>1. /\ Len(b) \in Nat /\ Len(r) \in Nat /\ Len(dq) \in Nat
        /\ Len(dq) <= Len(b) /\ Len(b) <= Len(r)
    BY PurgedFacts, AgesFacts DEF BucketIsTheTail
  <1> DEFINE d == Len(r) - Len(b)
             e == Len(b) - Len(dq)
  <1>2. d \in Nat /\ e \in Nat /\ Len(r) - Len(dq) = d + e
    BY <1>1
  <1>3. \A i \in 1 .. Len(b) : b[i] = r[i + d]
    BY DEF BucketIsTheTail
  <1>4. \A i \in 1 .. Len(dq) : dq[i] = b[i + e]
    BY PurgedFacts
  <1>5. \A i \in 1 .. e : b[i] > Window
    BY PurgedFacts
  <1>6. \A i \in 1 .. d : r[i] > Window
    BY DEF BucketIsTheTail
  <1>7. Len(b) = Len(dq) + e
    BY <1>1
  <1> HIDE DEF d, e
  <1>8. ASSUME NEW i \in 1 .. Len(dq) PROVE dq[i] = r[i + (d + e)]
    <2>1. i + e \in 1 .. Len(b) /\ (i + e) + d = i + (d + e)
      BY <1>1, <1>2, <1>7
    <2> QED BY <2>1, <1>3, <1>4
  <1>9. ASSUME NEW i \in 1 .. d + e PROVE r[i] > Window
    <2>1. CASE i <= d
      BY <2>1, <1>2, <1>6
    <2>2. CASE i > d
      <3>1. i - d \in 1 .. e /\ i - d \in 1 .. Len(b) /\ (i - d) + d = i
        BY <1>1, <1>2, <1>7, <2>2
      <3>2. b[i - d] > Window
        BY <3>1, <1>5
      <3>3. b[i - d] = r[(i - d) + d]
        BY <3>1, <1>2, <1>3
      <3> QED BY <3>1, <3>2, <3>3
    <2> QED BY <2>1, <2>2, <1>2
  <1>10. \A i \in 1 .. Len(dq) : dq[i] = r[i + (Len(r) - Len(dq))]
    BY <1>2, <1>8
  <1>11. \A i \in 1 .. Len(r) - Len(dq) : r[i] > Window
    BY <1>2, <1>9
  <1> QED BY <1>1, <1>10, <1>11 DEF BucketIsTheTail

(* The guard of the in-memory limiter is strong enough for the window.     *)
LEMMA MemoryGuard ==
    ASSUME NEW dq \in Ages, NEW r \in Ages, BucketIsTheTail(dq, r),
           Len(dq) < Limit, Len(r) = Limit
    PROVE  Head(r) > Window
  <1>1. r \in Seq(Age) /\ Len(r) \in Nat /\ Len(dq) \in Nat /\ 1 \in 1 .. Len(r) - Len(dq)
    BY AgesFacts, WindowType
  <1>2. r[1] > Window
    BY <1>1 DEF BucketIsTheTail
  <1> QED BY <1>1, <1>2, WindowType

LEMMA AdmittedKeepsTail ==
    ASSUME NEW dq \in Ages, NEW r \in Ages, BucketIsTheTail(dq, r), Len(dq) < Limit
    PROVE  Append(dq, 0) \in Ages /\ BucketIsTheTail(Append(dq, 0), Remember(r))
  <1> DEFINE b == Append(dq, 0)
             s == Remember(r)
             cut == IF Len(r) = Limit THEN 1 ELSE 0
  <1>1. /\ dq \in Seq(Age) /\ Len(dq) \in Nat /\ Len(r) \in Nat
        /\ Len(dq) <= Len(r) /\ Len(r) <= Limit
    BY AgesFacts DEF BucketIsTheTail
  <1>2. /\ b \in Ages /\ Len(b) = Len(dq) + 1
        /\ \A i \in 1 .. Len(dq) : b[i] = dq[i]
        /\ b[Len(dq) + 1] = 0
    BY <1>1, WindowType DEF Ages, Age
  <1>3. /\ s \in Ages /\ Len(s) = Len(r) + 1 - cut
        /\ \A i \in 1 .. Len(s) - 1 : s[i] = r[i + cut]
        /\ s[Len(s)] = 0
    BY RememberFacts DEF Remember
  <1>4. cut \in {0, 1} /\ (cut = 1 => Len(r) - Len(dq) > 0)
    BY <1>1
  <1>5. \A i \in 1 .. Len(dq) : dq[i] = r[i + (Len(r) - Len(dq))]
    BY DEF BucketIsTheTail
  <1>6. \A i \in 1 .. Len(r) - Len(dq) : r[i] > Window
    BY DEF BucketIsTheTail
  <1> HIDE DEF b, s, cut
  <1>7. Len(b) <= Len(s) /\ Len(s) - Len(b) = (Len(r) - Len(dq)) - cut /\ Len(s) \in Nat
    BY <1>1, <1>2, <1>3, <1>4
  <1>8. ASSUME NEW i \in 1 .. Len(b) PROVE b[i] = s[i + (Len(s) - Len(b))]
    <2>1. CASE i = Len(b)
      <3>1. i + (Len(s) - Len(b)) = Len(s) /\ i = Len(dq) + 1
        BY <1>1, <1>2, <1>7, <2>1
      <3> QED BY <3>1, <1>2, <1>3
    <2>2. CASE i # Len(b)
      <3>1. i \in 1 .. Len(dq)
        BY <1>1, <1>2, <2>2
      <3>2. /\ i + (Len(s) - Len(b)) \in 1 .. Len(s) - 1
            /\ (i + (Len(s) - Len(b))) + cut = i + (Len(r) - Len(dq))
        BY <1>1, <1>2, <1>4, <1>7, <3>1
      <3> QED BY <3>1, <3>2, <1>2, <1>3, <1>5
    <2> QED BY <2>1, <2>2
  <1>9. ASSUME NEW i \in 1 .. Len(s) - Len(b) PROVE s[i] > Window
    <2>1. i \in 1 .. Len(s) - 1 /\ i + cut \in 1 .. Len(r) - Len(dq)
      BY <1>1, <1>2, <1>3, <1>4, <1>7
    <2> QED BY <2>1, <1>3, <1>6
  <1>10. BucketIsTheTail(b, s)
    BY <1>7, <1>8, <1>9 DEF BucketIsTheTail
  <1> QED BY <1>2, <1>10 DEF b, s

LEMMA TickKeepsTail ==
    ASSUME NEW b \in Ages, NEW r \in Ages, BucketIsTheTail(b, r)
    PROVE  BucketIsTheTail(OlderAll(b), OlderAll(r))
  <1>1. /\ Len(b) \in Nat /\ Len(r) \in Nat
        /\ Len(OlderAll(b)) = Len(b) /\ Len(OlderAll(r)) = Len(r)
        /\ \A i \in 1 .. Len(b) : OlderAll(b)[i] = Older(b[i])
        /\ \A i \in 1 .. Len(r) : OlderAll(r)[i] = Older(r[i]) /\ r[i] \in Age
    BY AgesFacts
  <1>2. /\ Len(b) <= Len(r)
        /\ \A i \in 1 .. Len(b) : b[i] = r[i + (Len(r) - Len(b))]
        /\ \A i \in 1 .. Len(r) - Len(b) : r[i] > Window
    BY DEF BucketIsTheTail
  <1>3. \A i \in 1 .. Len(b) : OlderAll(b)[i] = OlderAll(r)[i + (Len(r) - Len(b))]
    BY <1>1, <1>2
  <1>4. \A i \in 1 .. Len(r) - Len(b) : OlderAll(r)[i] > Window
    BY <1>1, <1>2, WindowType DEF Older, Age
  <1> QED BY <1>1, <1>2, <1>3, <1>4 DEF BucketIsTheTail

-----------------------------------------------------------------------------
(* The guard of the Redis limiter is strong enough for the window.         *)
LEMMA RedisGuard ==
    ASSUME NEW c \in Counter, NEW r \in Ages, CounterCoversTheYoung(c, r),
           RedisAllows(c), Len(r) = Limit
    PROVE  Head(r) >= Window
  <1>1. c.count \in Nat /\ c.count + 1 <= Limit
    BY CounterFacts, WindowType DEF RedisAllows
  <1>2. r \in Seq(Age) /\ 1 \in 1 .. Len(r) /\ 1 <= Len(r) - c.count /\ Head(r) = r[1]
    BY <1>1, AgesFacts, WindowType
  <1> QED BY <1>2 DEF CounterCoversTheYoung

LEMMA AdmittedKeepsCover ==
    ASSUME NEW c \in Counter, NEW r \in Ages, CounterCoversTheYoung(c, r), RedisAllows(c)
    PROVE  CounterCoversTheYoung(Hit(c), Remember(r))
  <1> DEFINE s == Remember(r)
             cut == IF Len(r) = Limit THEN 1 ELSE 0
  <1>1. /\ c.count \in Nat /\ Hit(c).count = c.count + 1 /\ Hit(c).idle = 0
    BY CounterFacts, WindowType DEF RedisAllows
  <1>2. /\ s \in Ages /\ Len(s) = Len(r) + 1 - cut
        /\ \A i \in 1 .. Len(s) - 1 : s[i] = r[i + cut]
    BY RememberFacts DEF Remember
  <1>3. Len(r) \in Nat /\ cut \in {0, 1} /\ Len(s) \in Nat
    BY <1>2, AgesFacts
  <1>4. \A i \in 1 .. Len(s) : s[i] >= 0
    BY <1>2, AgeIsNatural
  <1>5. \A i \in 1 .. Len(r) : i <= Len(r) - c.count => r[i] >= Window
    BY DEF CounterCoversTheYoung
  <1> HIDE DEF s, cut
  <1>6. ASSUME NEW i \in 1 .. Len(s), i <= Len(s) - (c.count + 1) PROVE s[i] >= Window
    <2>1. i \in 1 .. Len(s) - 1 /\ i + cut \in 1 .. Len(r) /\ i + cut <= Len(r) - c.count
      BY <1>1, <1>2, <1>3, <1>6
    <2> QED BY <2>1, <1>2, <1>5
  <1>7. CounterCoversTheYoung(Hit(c), s)
    BY <1>1, <1>4, <1>6 DEF CounterCoversTheYoung
  <1> QED BY <1>7 DEF s

LEMMA HitKeepsCover ==
    ASSUME NEW c \in Counter, NEW r \in Ages, CounterCoversTheYoung(c, r)
    PROVE  CounterCoversTheYoung(Hit(c), r)
  <1>1. c.count \in Nat /\ Hit(c).count \in Nat /\ Hit(c).count >= c.count /\ Hit(c).idle = 0
    BY CounterFacts, WindowType
  <1>2. Len(r) \in Nat /\ \A i \in 1 .. Len(r) : r[i] >= 0
    BY AgesFacts, AgeIsNatural
  <1>3. \A i \in 1 .. Len(r) : i <= Len(r) - c.count => r[i] >= Window
    BY DEF CounterCoversTheYoung
  <1>4. \A i \in 1 .. Len(r) : i <= Len(r) - Hit(c).count => i <= Len(r) - c.count
    BY <1>1, <1>2
  <1> QED BY <1>1, <1>2, <1>3, <1>4 DEF CounterCoversTheYoung

LEMMA TickKeepsCover ==
    ASSUME NEW c \in Counter, NEW r \in Ages, CounterCoversTheYoung(c, r)
    PROVE  CounterCoversTheYoung(Expire(c), OlderAll(r))
  <1>1. /\ c.count \in 0 .. Limit + 1 /\ c.idle \in 0 .. Window - 1
        /\ c.count = 0 \/ c.idle + 1 >= Window => Expire(c).count = 0 /\ Expire(c).idle = 0
        /\ c.count > 0 /\ c.idle + 1 < Window
             => Expire(c).count = c.count /\ Expire(c).idle = c.idle + 1
    BY CounterFacts
  <1>2. /\ Len(r) \in Nat /\ Len(OlderAll(r)) = Len(r)
        /\ \A i \in 1 .. Len(r) : OlderAll(r)[i] = Older(r[i]) /\ r[i] \in Age
    BY AgesFacts
  <1>3. \A i \in 1 .. Len(r) : c.idle <= r[i] /\ (i <= Len(r) - c.count => r[i] >= Window)
    BY DEF CounterCoversTheYoung
  <1> HIDE DEF CounterCoversTheYoung
  <1>4. ASSUME NEW i \in 1 .. Len(r)
        PROVE  /\ Expire(c).idle <= Older(r[i])
               /\ i <= Len(r) - Expire(c).count => Older(r[i]) >= Window
    <2>1. /\ r[i] \in 0 .. Window + 1 /\ c.idle <= r[i]
          /\ i <= Len(r) - c.count => r[i] >= Window
          /\ c.count = 0 => r[i] >= Window
      BY <1>1, <1>2, <1>3 DEF Age
    <2>2. Older(r[i]) = IF r[i] <= Window THEN r[i] + 1 ELSE r[i]
      BY DEF Older
    <2>3. CASE c.count = 0 \/ c.idle + 1 >= Window
      BY <2>1, <2>2, <2>3, <1>1, WindowType
    <2>4. CASE ~(c.count = 0 \/ c.idle + 1 >= Window)
      BY <2>1, <2>2, <2>4, <1>1, WindowType
    <2> QED BY <2>3, <2>4
  <1> QED BY <1>2, <1>4 DEF CounterCoversTheYoung

-----------------------------------------------------------------------------
LEMMA NothingIsKept == BucketIsTheTail(<<>>, <<>>)
  <1>1. Len(<<>>) = 0
    OBVIOUS
  <1> QED BY <1>1 DEF BucketIsTheTail

LEMMA Initially == Init => IInv
  <1> SUFFICES ASSUME Init PROVE IInv
    OBVIOUS
  <1>1. TypeOK
    BY NoKeyType, NothingType, WindowType DEF Init, TypeOK, NothingAdmitted, MaxRefused
  <1>2. \A k \in Keys : bucket[k] = <<>> /\ recent[k] = <<>> /\ refused[k] = 0
    BY DEF Init, NothingAdmitted
  <1>3. MemoryInv
    BY <1>2, NothingIsKept DEF MemoryInv
  <1>4. RedisInv
    BY <1>2 DEF RedisInv, CounterCoversTheYoung
  <1> QED BY <1>1, <1>3, <1>4 DEF IInv

LEMMA AdmitInMemoryKeeps ==
    ASSUME IInv, NEW k \in Keys, AdmitInMemory(k)
    PROVE  IInv'
  <1>1. TypeOK /\ MemoryInv /\ backend = "memory" /\ backend' = "memory"
    BY DEF IInv, AdmitInMemory, Calls
  <1>2. PICK dq \in Purged(bucket[k]) :
          MemoryAllows(dq) /\ bucket' = [bucket EXCEPT ![k] = Append(dq, 0)]
    BY DEF AdmitInMemory
  <1>3. /\ recent' = [recent EXCEPT ![k] = Remember(recent[k])]
        /\ refused' = [refused EXCEPT ![k] = 0]
        /\ wait' = [wait EXCEPT ![k] = 0]
        /\ quiet' = [quiet EXCEPT ![k] = 0]
        /\ UNCHANGED <<backend, redis>>
    BY DEF AdmitInMemory, Admitted, Remember
  <1>4. bucket[k] \in Ages /\ recent[k] \in Ages /\ BucketIsTheTail(bucket[k], recent[k])
    BY <1>1 DEF TypeOK, MemoryInv
  <1>5. dq \in Ages /\ BucketIsTheTail(dq, recent[k]) /\ Len(dq) < Limit
    BY <1>2, <1>4, PurgedFacts, PurgedKeepsTail DEF MemoryAllows
  <1>6. Append(dq, 0) \in Ages /\ BucketIsTheTail(Append(dq, 0), Remember(recent[k]))
    BY <1>4, <1>5, AdmittedKeepsTail
  <1>7. Remember(recent[k]) \in Ages
    BY <1>4, RememberFacts DEF Remember
  <1>8. TypeOK'
    BY <1>1, <1>2, <1>3, <1>6, <1>7, WindowType DEF TypeOK, MaxRefused
  <1>9. ASSUME NEW j \in Keys
        PROVE  BucketIsTheTail(bucket'[j], recent'[j])
    <2>1. CASE j = k
      <3>1. bucket'[k] = Append(dq, 0) /\ recent'[k] = Remember(recent[k])
        BY <1>1, <1>2, <1>3 DEF TypeOK
      <3> QED BY <2>1, <3>1, <1>6
    <2>2. CASE j # k
      <3>1. bucket'[j] = bucket[j] /\ recent'[j] = recent[j]
        BY <2>2, <1>1, <1>2, <1>3 DEF TypeOK
      <3> QED BY <3>1, <1>1 DEF MemoryInv
    <2> QED BY <2>1, <2>2
  <1> QED BY <1>1, <1>8, <1>9 DEF IInv, MemoryInv

LEMMA RefuseInMemoryKeeps ==
    ASSUME IInv, NEW k \in Keys, RefuseInMemory(k)
    PROVE  IInv'
  <1>1. TypeOK /\ MemoryInv /\ backend = "memory" /\ backend' = "memory"
    BY DEF IInv, RefuseInMemory, Calls
  <1>2. PICK dq \in Purged(bucket[k]) :
          /\ ~MemoryAllows(dq)
          /\ bucket' = [bucket EXCEPT ![k] = dq]
          /\ Refused(k, MemoryRetryAfter(dq))
    BY DEF RefuseInMemory
  <1> DEFINE w == MemoryRetryAfter(dq) * TicksPerSec
             n == IF refused[k] < MaxRefused THEN refused[k] + 1 ELSE refused[k]
  <1>3. /\ recent' = recent
        /\ refused' = [refused EXCEPT ![k] = n]
        /\ wait' = [wait EXCEPT ![k] = w]
        /\ quiet' = [quiet EXCEPT ![k] = 0]
        /\ UNCHANGED <<backend, redis>>
    BY <1>2 DEF RefuseInMemory, Refused
  <1>4. /\ bucket[k] \in Ages /\ recent[k] \in Ages /\ BucketIsTheTail(bucket[k], recent[k])
        /\ refused[k] \in 0 .. MaxRefused
    BY <1>1 DEF TypeOK, MemoryInv
  <1>5. /\ dq \in Ages /\ BucketIsTheTail(dq, recent[k]) /\ Len(dq) > 0
        /\ dq[1] <= Window
    <2>1. dq \in Ages /\ (Len(dq) > 0 => dq[1] <= Window)
      BY <1>4, PurgedFacts
    <2>2. Len(dq) \in Nat /\ ~(Len(dq) < Limit)
      BY <2>1, <1>2, AgesFacts DEF MemoryAllows
    <2> QED BY <1>4, <2>1, <2>2, PurgedKeepsTail, WindowType
  <1>6. w \in 0 .. Window
    BY <1>5, RetryAfterFacts
  <1>7. n \in 0 .. MaxRefused
    BY <1>4 DEF MaxRefused
  <1> HIDE DEF w, n
  <1>8. TypeOK'
    BY <1>1, <1>2, <1>3, <1>5, <1>6, <1>7, WindowType DEF TypeOK
  <1>9. ASSUME NEW j \in Keys
        PROVE  BucketIsTheTail(bucket'[j], recent'[j])
    <2>1. CASE j = k
      <3>1. bucket'[k] = dq /\ recent'[k] = recent[k]
        BY <1>1, <1>2, <1>3 DEF TypeOK
      <3> QED BY <2>1, <3>1, <1>5
    <2>2. CASE j # k
      <3>1. bucket'[j] = bucket[j] /\ recent'[j] = recent[j]
        BY <2>2, <1>1, <1>2, <1>3 DEF TypeOK
      <3> QED BY <3>1, <1>1 DEF MemoryInv
    <2> QED BY <2>1, <2>2
  <1> QED BY <1>1, <1>8, <1>9 DEF IInv, MemoryInv

LEMMA AdmitByRedisKeeps ==
    ASSUME IInv, NEW k \in Keys, AdmitByRedis(k)
    PROVE  IInv'
  <1>1. TypeOK /\ RedisInv /\ backend = "redis" /\ backend' = "redis" /\ RedisAllows(redis[k])
    BY DEF IInv, AdmitByRedis, Calls
  <1>2. /\ redis' = [redis EXCEPT ![k] = Hit(redis[k])]
        /\ recent' = [recent EXCEPT ![k] = Remember(recent[k])]
        /\ refused' = [refused EXCEPT ![k] = 0]
        /\ wait' = [wait EXCEPT ![k] = 0]
        /\ quiet' = [quiet EXCEPT ![k] = 0]
        /\ UNCHANGED <<backend, bucket>>
    BY DEF AdmitByRedis, Admitted, Remember
  <1>3. redis[k] \in Counter /\ recent[k] \in Ages /\ CounterCoversTheYoung(redis[k], recent[k])
    BY <1>1 DEF TypeOK, RedisInv
  <1>4. Hit(redis[k]) \in Counter /\ Remember(recent[k]) \in Ages
    BY <1>3, CounterFacts, RememberFacts DEF Remember
  <1>5. CounterCoversTheYoung(Hit(redis[k]), Remember(recent[k]))
    BY <1>1, <1>3, AdmittedKeepsCover
  <1>6. TypeOK'
    BY <1>1, <1>2, <1>4, WindowType DEF TypeOK, MaxRefused
  <1>7. ASSUME NEW j \in Keys
        PROVE  CounterCoversTheYoung(redis'[j], recent'[j])
    <2>1. CASE j = k
      <3>1. redis'[k] = Hit(redis[k]) /\ recent'[k] = Remember(recent[k])
        BY <1>1, <1>2 DEF TypeOK
      <3> QED BY <2>1, <3>1, <1>5
    <2>2. CASE j # k
      <3>1. redis'[j] = redis[j] /\ recent'[j] = recent[j]
        BY <2>2, <1>1, <1>2 DEF TypeOK
      <3> QED BY <3>1, <1>1 DEF RedisInv
    <2> QED BY <2>1, <2>2
  <1> QED BY <1>1, <1>6, <1>7 DEF IInv, RedisInv

LEMMA RefuseByRedisKeeps ==
    ASSUME IInv, NEW k \in Keys, RefuseByRedis(k)
    PROVE  IInv'
  <1>1. TypeOK /\ RedisInv /\ backend = "redis" /\ backend' = "redis" /\ ~RedisAllows(redis[k])
    BY DEF IInv, RefuseByRedis, Calls
  <1> DEFINE n == IF refused[k] < MaxRefused THEN refused[k] + 1 ELSE refused[k]
  <1>2. /\ redis' = [redis EXCEPT ![k] = Hit(redis[k])]
        /\ recent' = recent
        /\ refused' = [refused EXCEPT ![k] = n]
        /\ wait' = [wait EXCEPT ![k] = Window]
        /\ quiet' = [quiet EXCEPT ![k] = 0]
        /\ UNCHANGED <<backend, bucket>>
    BY DEF RefuseByRedis, Refused, RedisRetryAfter, Window
  <1>3. /\ redis[k] \in Counter /\ recent[k] \in Ages /\ CounterCoversTheYoung(redis[k], recent[k])
        /\ refused[k] \in 0 .. MaxRefused
    BY <1>1 DEF TypeOK, RedisInv
  <1>4. Hit(redis[k]) \in Counter /\ CounterCoversTheYoung(Hit(redis[k]), recent[k])
    BY <1>3, CounterFacts, HitKeepsCover
  <1>5. n \in 0 .. MaxRefused
    BY <1>3 DEF MaxRefused
  <1> HIDE DEF n
  <1>6. TypeOK'
    BY <1>1, <1>2, <1>4, <1>5, WindowType DEF TypeOK
  <1>7. ASSUME NEW j \in Keys
        PROVE  CounterCoversTheYoung(redis'[j], recent'[j])
    <2>1. CASE j = k
      <3>1. redis'[k] = Hit(redis[k]) /\ recent'[k] = recent[k]
        BY <1>1, <1>2 DEF TypeOK
      <3> QED BY <2>1, <3>1, <1>4
    <2>2. CASE j # k
      <3>1. redis'[j] = redis[j] /\ recent'[j] = recent[j]
        BY <2>2, <1>1, <1>2 DEF TypeOK
      <3> QED BY <3>1, <1>1 DEF RedisInv
    <2> QED BY <2>1, <2>2
  <1> QED BY <1>1, <1>6, <1>7 DEF IInv, RedisInv

LEMMA RedisFailsKeeps ==
    ASSUME IInv, NEW k \in Keys, RedisFails(k)
    PROVE  IInv'
  <1>1. TypeOK /\ RedisInv /\ backend = "redis" /\ backend' = "redis"
    BY DEF IInv, RedisFails, Calls
  <1>2. /\ \/ redis' = [redis EXCEPT ![k] = Hit(redis[k])] /\ quiet' = [quiet EXCEPT ![k] = 0]
           \/ redis' = redis /\ quiet' = quiet
        /\ refused' = [refused EXCEPT ![k] = 0]
        /\ UNCHANGED <<backend, bucket, wait, recent>>
    BY DEF RedisFails
  <1>3. redis[k] \in Counter /\ recent[k] \in Ages /\ CounterCoversTheYoung(redis[k], recent[k])
    BY <1>1 DEF TypeOK, RedisInv
  <1>4. Hit(redis[k]) \in Counter /\ CounterCoversTheYoung(Hit(redis[k]), recent[k])
    BY <1>3, CounterFacts, HitKeepsCover
  <1>5. TypeOK'
    BY <1>1, <1>2, <1>4, WindowType DEF TypeOK, MaxRefused
  <1>6. ASSUME NEW j \in Keys
        PROVE  CounterCoversTheYoung(redis'[j], recent'[j])
    <2>1. CASE j = k
      <3>1. redis'[k] \in {Hit(redis[k]), redis[k]} /\ recent'[k] = recent[k]
        BY <1>1, <1>2 DEF TypeOK
      <3> QED BY <2>1, <3>1, <1>3, <1>4
    <2>2. CASE j # k
      <3>1. redis'[j] = redis[j] /\ recent'[j] = recent[j]
        BY <2>2, <1>1, <1>2 DEF TypeOK
      <3> QED BY <3>1, <1>1 DEF RedisInv
    <2> QED BY <2>1, <2>2
  <1> QED BY <1>1, <1>5, <1>6 DEF IInv, RedisInv

LEMMA RestartKeeps ==
    ASSUME IInv, Restart
    PROVE  IInv'
  <1>1. TypeOK
    BY DEF IInv
  <1>2. /\ backend' \in {"memory", "redis"}
        /\ bucket' = [j \in Keys |-> <<>>]
        /\ \/ recent' = [j \in Keys |-> <<>>]
           \/ backend = "redis" /\ backend' = "redis" /\ recent' = recent
        /\ UNCHANGED <<redis, wait, refused, quiet>>
    BY DEF Restart, NothingAdmitted
  <1>3. TypeOK'
    BY <1>1, <1>2, NothingType DEF TypeOK, MaxRefused
  <1>4. ASSUME backend' = "memory" PROVE MemoryInv'
    <2>1. \A j \in Keys : bucket'[j] = <<>> /\ recent'[j] = <<>>
      BY <1>2, <1>4
    <2> QED BY <2>1, NothingIsKept DEF MemoryInv
  <1>5. ASSUME NEW j \in Keys, backend' = "redis"
        PROVE  CounterCoversTheYoung(redis'[j], recent'[j])
    <2>1. redis'[j] = redis[j]
      BY <1>2
    <2>2. CASE recent' = [i \in Keys |-> <<>>]
      <3>1. recent'[j] = <<>>
        BY <2>2
      <3> QED BY <2>1, <3>1 DEF CounterCoversTheYoung
    <2>3. CASE backend = "redis" /\ recent' = recent
      BY <2>1, <2>3 DEF IInv, RedisInv
    <2> QED BY <1>2, <2>2, <2>3
  <1> QED BY <1>3, <1>4, <1>5 DEF IInv, RedisInv

LEMMA TickKeeps ==
    ASSUME IInv, Tick
    PROVE  IInv'
  <1>1. TypeOK
    BY DEF IInv
  <1>2. /\ backend' = backend /\ refused' = refused
        /\ \A j \in Keys :
              /\ bucket'[j] = OlderAll(bucket[j])
              /\ redis'[j] = Expire(redis[j])
              /\ wait'[j] = IF wait[j] > 0 THEN wait[j] - 1 ELSE 0
              /\ recent'[j] = OlderAll(recent[j])
              /\ quiet'[j] = IF quiet[j] < Window THEN quiet[j] + 1 ELSE quiet[j]
    BY DEF Tick
  <1>3. \A j \in Keys : /\ bucket[j] \in Ages /\ recent[j] \in Ages /\ redis[j] \in Counter
                        /\ wait[j] \in 0 .. Window /\ quiet[j] \in 0 .. Window
                        /\ refused[j] \in 0 .. MaxRefused
    BY <1>1 DEF TypeOK
  <1>4. TypeOK'
    <2>1. /\ bucket' \in [Keys -> Ages] /\ recent' \in [Keys -> Ages]
          /\ redis' \in [Keys -> Counter]
      BY <1>3, AgesFacts, CounterFacts DEF Tick
    <2>2. wait' \in [Keys -> 0 .. Window] /\ quiet' \in [Keys -> 0 .. Window]
      BY <1>3, WindowType DEF Tick
    <2> QED BY <1>1, <1>2, <2>1, <2>2 DEF TypeOK
  <1>5. ASSUME NEW j \in Keys, backend = "memory"
        PROVE  BucketIsTheTail(bucket'[j], recent'[j])
    <2>1. BucketIsTheTail(bucket[j], recent[j])
      BY <1>5 DEF IInv, MemoryInv
    <2> QED BY <2>1, <1>2, <1>3, TickKeepsTail
  <1>6. ASSUME NEW j \in Keys, backend = "redis"
        PROVE  CounterCoversTheYoung(redis'[j], recent'[j])
    <2>1. CounterCoversTheYoung(redis[j], recent[j])
      BY <1>6 DEF IInv, RedisInv
    <2> QED BY <2>1, <1>2, <1>3, TickKeepsCover
  <1> QED BY <1>2, <1>4, <1>5, <1>6 DEF IInv, MemoryInv, RedisInv

LEMMA StutterKeeps == IInv /\ UNCHANGED vars => IInv'
  BY DEF IInv, TypeOK, MemoryInv, RedisInv, vars

LEMMA Inductive == Spec => []IInv
  <1>1. IInv /\ [Next]_vars => IInv'
    BY AdmitInMemoryKeeps, RefuseInMemoryKeeps, AdmitByRedisKeeps, RefuseByRedisKeeps,
       RedisFailsKeeps, RestartKeeps, TickKeeps, StutterKeeps DEF Next, Call
  <1> QED BY Initially, <1>1, PTL DEF Spec

-----------------------------------------------------------------------------
(* Every value the limiters keep stays in its range: a deque never grows   *)
(* past the limit, a wait never past the window.                           *)
THEOREM TypeCorrect == Spec => []TypeOK
  <1>1. IInv => TypeOK
    BY DEF IInv
  <1> QED BY Inductive, <1>1, PTL

-----------------------------------------------------------------------------
(* How long a client that was refused has yet to wait, against what is     *)
(* left of the time of the oldest entry and of the key's: it may outwait   *)
(* either limiter, since a restart can put the one in the other's place.   *)
WaitsLongEnough(b, c, w, n) ==
    /\ n <= 2
    /\ n = 1 => /\ Len(b) > 0 => b[1] + w >= Window - 1
                /\ c.count > 0 => c.idle + w >= Window - 1
    /\ n = 2 => /\ Len(b) > 0 => b[1] + w >= Window + 1
                /\ c.count > 0 => c.idle + w >= Window

(* A counter that outlived its limiter is older than what the other, in    *)
(* memory, has admitted since.                                             *)
YoungerThanKey(b, c) == c.count > 0 => \A i \in 1 .. Len(b) : b[i] <= c.idle

WaitInv == \A k \in Keys :
    /\ backend = "redis" => bucket[k] = <<>>
    /\ YoungerThanKey(bucket[k], redis[k])
    /\ k \in Patient => WaitsLongEnough(bucket[k], redis[k], wait[k], refused[k])

LEMMA NothingIsYounger ==
    ASSUME NEW c
    PROVE  YoungerThanKey(<<>>, c)
  <1>1. Len(<<>>) = 0
    OBVIOUS
  <1> QED BY <1>1 DEF YoungerThanKey

LEMMA AdmittedIsYounger ==
    ASSUME NEW b \in Ages, NEW c \in Counter, YoungerThanKey(b, c), NEW dq \in Purged(b)
    PROVE  YoungerThanKey(dq, c) /\ YoungerThanKey(Append(dq, 0), c)
  <1>1. /\ Len(b) \in Nat /\ Len(dq) \in Nat /\ Len(dq) <= Len(b) /\ dq \in Seq(Age)
        /\ \A i \in 1 .. Len(dq) : dq[i] = b[i + (Len(b) - Len(dq))]
    BY PurgedFacts, AgesFacts
  <1>2. c.idle \in Nat
    BY CounterFacts, WindowType
  <1>3. ASSUME c.count > 0, NEW i \in 1 .. Len(dq) PROVE dq[i] <= c.idle
    <2>1. i + (Len(b) - Len(dq)) \in 1 .. Len(b)
      BY <1>1
    <2> QED BY <2>1, <1>1, <1>3 DEF YoungerThanKey
  <1>4. /\ Len(Append(dq, 0)) = Len(dq) + 1
        /\ \A i \in 1 .. Len(dq) : Append(dq, 0)[i] = dq[i]
        /\ Append(dq, 0)[Len(dq) + 1] = 0
    BY <1>1
  <1>5. ASSUME c.count > 0, NEW i \in 1 .. Len(Append(dq, 0))
        PROVE  Append(dq, 0)[i] <= c.idle
    <2>1. i \in 1 .. Len(dq) \/ i = Len(dq) + 1
      BY <1>1, <1>4
    <2> QED BY <2>1, <1>2, <1>3, <1>4, <1>5
  <1> QED BY <1>3, <1>5 DEF YoungerThanKey

LEMMA TickKeepsYounger ==
    ASSUME NEW b \in Ages, NEW c \in Counter, YoungerThanKey(b, c)
    PROVE  YoungerThanKey(OlderAll(b), Expire(c))
  <1>1. /\ Len(b) \in Nat /\ Len(OlderAll(b)) = Len(b)
        /\ \A i \in 1 .. Len(b) : OlderAll(b)[i] = Older(b[i]) /\ b[i] \in Age
    BY AgesFacts
  <1> SUFFICES ASSUME Expire(c).count > 0, NEW i \in 1 .. Len(b)
               PROVE  Older(b[i]) <= Expire(c).idle
    BY <1>1 DEF YoungerThanKey
  <1>2. c.count > 0 /\ Expire(c).idle = c.idle + 1 /\ c.idle \in 0 .. Window - 1
    BY CounterFacts, WindowType
  <1>3. b[i] <= c.idle /\ b[i] \in 0 .. Window + 1
    BY <1>1, <1>2 DEF YoungerThanKey, Age
  <1> QED BY <1>2, <1>3, WindowType DEF Older

LEMMA TickKeepsWait ==
    ASSUME NEW b \in Ages, NEW c \in Counter, NEW w \in 0 .. Window,
           NEW n \in 0 .. MaxRefused, WaitsLongEnough(b, c, w, n)
    PROVE  WaitsLongEnough(OlderAll(b), Expire(c), IF w > 0 THEN w - 1 ELSE 0, n)
  <1> DEFINE v == IF w > 0 THEN w - 1 ELSE 0
  <1>0. w \in Nat /\ v \in Nat /\ v + 1 >= w
    BY WindowType
  <1>1. ASSUME NEW x \in {Window - 1, Window + 1}, Len(b) > 0, b[1] + w >= x
        PROVE  OlderAll(b)[1] + v >= x
    <2>1. OlderAll(b)[1] = Older(b[1]) /\ b[1] \in 0 .. Window + 1
      BY <1>1, AgesFacts DEF Age
    <2>2. CASE b[1] <= Window
      BY <2>1, <2>2, <1>0, <1>1, WindowType DEF Older
    <2>3. CASE b[1] > Window
      BY <2>1, <2>3, <1>0, WindowType DEF Older
    <2> QED BY <2>1, <2>2, <2>3, WindowType
  <1>2. ASSUME NEW x \in {Window - 1, Window}, c.count > 0 => c.idle + w >= x,
               Expire(c).count > 0
        PROVE  Expire(c).idle + v >= x
    <2>1. c.count > 0 /\ Expire(c).idle = c.idle + 1 /\ c.idle \in 0 .. Window - 1
      BY <1>2, CounterFacts, WindowType
    <2> QED BY <2>1, <1>0, <1>2, WindowType
  <1>3. Len(OlderAll(b)) = Len(b)
    BY AgesFacts
  <1> HIDE DEF v
  <1>4. WaitsLongEnough(OlderAll(b), Expire(c), v, n)
    BY <1>1, <1>2, <1>3 DEF WaitsLongEnough
  <1> QED BY <1>4 DEF v

(* A patient client that is refused has waited; twice is the most.         *)
LEMMA RefusalKeepsWait ==
    ASSUME NEW b \in Ages, NEW c \in Counter, YoungerThanKey(b, c),
           NEW dq \in Purged(b), ~MemoryAllows(dq),
           NEW n \in 0 .. MaxRefused, WaitsLongEnough(b, c, 0, n)
    PROVE  /\ n < MaxRefused
           /\ WaitsLongEnough(dq, c, MemoryRetryAfter(dq) * TicksPerSec, n + 1)
  <1>1. /\ dq \in Ages /\ Len(dq) \in Nat /\ Len(b) \in Nat
        /\ Len(dq) <= Len(b) /\ Len(b) <= Limit /\ ~(Len(dq) < Limit)
    BY PurgedFacts, AgesFacts DEF MemoryAllows
  <1>2. Len(dq) = Len(b) /\ Len(dq) > 0 /\ 1 \in 1 .. Len(dq)
    BY <1>1, WindowType
  <1>3. dq[1] = b[1] /\ dq[1] <= Window /\ dq[1] \in Int
    <2>1. dq[1] = b[1 + (Len(b) - Len(dq))] /\ dq[1] <= Window /\ dq[1] \in Age
      BY <1>1, <1>2, PurgedFacts, AgesFacts
    <2>2. 1 + (Len(b) - Len(dq)) = 1
      BY <1>1, <1>2
    <2> QED BY <2>1, <2>2, WindowType DEF Age
  <1> DEFINE w == MemoryRetryAfter(dq) * TicksPerSec
  <1>4. w \in 0 .. Window /\ w >= 2 /\ dq[1] + w >= Window - 1
    BY <1>1, <1>2, <1>3, RetryAfterFacts
  <1> HIDE DEF w
  <1>5. n <= 2 /\ (n = 1 => b[1] >= Window - 1) /\ (n = 2 => b[1] >= Window + 1)
    BY <1>2, <1>3 DEF WaitsLongEnough
  <1>6. n \in {0, 1} /\ (n = 1 => dq[1] + w >= Window + 1)
    BY <1>3, <1>4, <1>5, WindowType DEF MaxRefused
  <1>7. c.count > 0 => c.idle >= dq[1] /\ c.idle \in Int
    BY <1>1, <1>2, <1>3, CounterFacts DEF YoungerThanKey
  <1>8. c.count > 0 => c.idle + w >= dq[1] + w
    BY <1>3, <1>4, <1>7
  <1>9. WaitsLongEnough(dq, c, w, n + 1)
    BY <1>3, <1>4, <1>6, <1>7, <1>8, WindowType DEF WaitsLongEnough
  <1> QED BY <1>6, <1>9 DEF MaxRefused, w

LEMMA RefusalByCounterKeepsWait ==
    ASSUME NEW c \in Counter, ~RedisAllows(c),
           NEW n \in 0 .. MaxRefused, WaitsLongEnough(<<>>, c, 0, n)
    PROVE  /\ n < MaxRefused
           /\ WaitsLongEnough(<<>>, Hit(c), Window, n + 1)
  <1>1. c.count > 0 /\ c.idle \in 0 .. Window - 1 /\ Hit(c).idle = 0
    BY CounterFacts, WindowType DEF RedisAllows
  <1>2. n \in {0, 1}
    BY <1>1, WindowType DEF WaitsLongEnough, MaxRefused
  <1>3. Len(<<>>) = 0
    OBVIOUS
  <1> QED BY <1>1, <1>2, <1>3, WindowType DEF WaitsLongEnough, MaxRefused

LEMMA WaitInitially == Init => WaitInv
  BY NothingIsYounger DEF Init, NothingAdmitted, WaitInv, WaitsLongEnough

LEMMA CallKeepsWait ==
    ASSUME TypeOK, WaitInv, NEW k \in Keys, Call(k)
    PROVE  WaitInv'
  <1>0. /\ bucket \in [Keys -> Ages] /\ redis \in [Keys -> Counter]
        /\ wait \in [Keys -> 0 .. Window] /\ refused \in [Keys -> 0 .. MaxRefused]
        /\ backend \in {"memory", "redis"}
    BY DEF TypeOK
  <1>1. backend' = backend /\ (k \in Patient => wait[k] = 0 \/ refused'[k] = 0)
    BY DEF Call, AdmitInMemory, RefuseInMemory, AdmitByRedis, RefuseByRedis, RedisFails,
           Calls
  <1>2. /\ backend = "redis" => bucket[k] = <<>>
        /\ YoungerThanKey(bucket[k], redis[k])
        /\ k \in Patient => WaitsLongEnough(bucket[k], redis[k], wait[k], refused[k])
    BY DEF WaitInv
  <1>3. ASSUME NEW j \in Keys \ {k}
        PROVE  /\ bucket'[j] = bucket[j] /\ redis'[j] = redis[j]
               /\ wait'[j] = wait[j] /\ refused'[j] = refused[j]
    <2>1. CASE AdmitInMemory(k)
      BY <2>1, <1>0 DEF AdmitInMemory, Admitted
    <2>2. CASE RefuseInMemory(k)
      BY <2>2, <1>0 DEF RefuseInMemory, Refused
    <2>3. CASE AdmitByRedis(k)
      BY <2>3, <1>0 DEF AdmitByRedis, Admitted
    <2>4. CASE RefuseByRedis(k)
      BY <2>4, <1>0 DEF RefuseByRedis, Refused
    <2>5. CASE RedisFails(k)
      BY <2>5, <1>0 DEF RedisFails
    <2> QED BY <2>1, <2>2, <2>3, <2>4, <2>5 DEF Call
  <1>4. /\ backend = "redis" => bucket'[k] = <<>>
        /\ YoungerThanKey(bucket'[k], redis'[k])
        /\ k \in Patient => WaitsLongEnough(bucket'[k], redis'[k], wait'[k], refused'[k])
    <2>1. CASE AdmitInMemory(k)
      <3>1. PICK dq \in Purged(bucket[k]) : bucket' = [bucket EXCEPT ![k] = Append(dq, 0)]
        BY <2>1 DEF AdmitInMemory
      <3>2. bucket'[k] = Append(dq, 0) /\ redis' = redis /\ refused'[k] = 0
        BY <2>1, <3>1, <1>0 DEF AdmitInMemory, Admitted
      <3>3. backend = "memory"
        BY <2>1 DEF AdmitInMemory, Calls
      <3>4. YoungerThanKey(bucket'[k], redis'[k])
        BY <3>2, <1>0, <1>2, AdmittedIsYounger
      <3> QED BY <3>2, <3>3, <3>4 DEF WaitsLongEnough
    <2>2. CASE RefuseInMemory(k)
      <3>1. PICK dq \in Purged(bucket[k]) :
              /\ ~MemoryAllows(dq)
              /\ bucket' = [bucket EXCEPT ![k] = dq]
              /\ Refused(k, MemoryRetryAfter(dq))
        BY <2>2 DEF RefuseInMemory
      <3>2. /\ bucket'[k] = dq /\ redis' = redis
            /\ wait'[k] = MemoryRetryAfter(dq) * TicksPerSec
            /\ refused'[k] = IF refused[k] < MaxRefused THEN refused[k] + 1 ELSE refused[k]
        BY <2>2, <3>1, <1>0 DEF RefuseInMemory, Refused
      <3>3. backend = "memory" /\ (k \in Patient => wait[k] = 0)
        BY <2>2 DEF RefuseInMemory, Calls
      <3>4. YoungerThanKey(bucket'[k], redis'[k])
        BY <3>2, <1>0, <1>2, AdmittedIsYounger
      <3>5. ASSUME k \in Patient
            PROVE  WaitsLongEnough(bucket'[k], redis'[k], wait'[k], refused'[k])
        <4>1. /\ refused[k] < MaxRefused
              /\ WaitsLongEnough(dq, redis[k], MemoryRetryAfter(dq) * TicksPerSec,
                                 refused[k] + 1)
          BY <3>1, <3>3, <3>5, <1>0, <1>2, RefusalKeepsWait
        <4> QED BY <4>1, <3>2
      <3> QED BY <3>3, <3>4, <3>5
    <2>3. CASE AdmitByRedis(k)
      <3>1. bucket' = bucket /\ refused'[k] = 0 /\ backend = "redis"
        BY <2>3, <1>0 DEF AdmitByRedis, Admitted, Calls
      <3> QED BY <3>1, <1>2, NothingIsYounger DEF WaitsLongEnough
    <2>4. CASE RefuseByRedis(k)
      <3>1. /\ bucket' = bucket /\ backend = "redis" /\ ~RedisAllows(redis[k])
            /\ k \in Patient => wait[k] = 0
        BY <2>4 DEF RefuseByRedis, Calls
      <3>2. /\ redis'[k] = Hit(redis[k]) /\ wait'[k] = Window
            /\ refused'[k] = IF refused[k] < MaxRefused THEN refused[k] + 1 ELSE refused[k]
        BY <2>4, <1>0 DEF RefuseByRedis, Refused, RedisRetryAfter, Window
      <3>3. bucket[k] = <<>> /\ bucket'[k] = <<>>
        BY <3>1, <1>2
      <3>4. ASSUME k \in Patient
            PROVE  WaitsLongEnough(bucket'[k], redis'[k], wait'[k], refused'[k])
        <4>1. /\ refused[k] < MaxRefused
              /\ WaitsLongEnough(<<>>, Hit(redis[k]), Window, refused[k] + 1)
          BY <3>1, <3>3, <3>4, <1>0, <1>2, RefusalByCounterKeepsWait
        <4> QED BY <4>1, <3>2, <3>3
      <3> QED BY <3>3, <3>4, NothingIsYounger
    <2>5. CASE RedisFails(k)
      <3>1. bucket' = bucket /\ refused'[k] = 0 /\ backend = "redis"
        BY <2>5, <1>0 DEF RedisFails, Calls
      <3> QED BY <3>1, <1>2, NothingIsYounger DEF WaitsLongEnough
    <2> QED BY <2>1, <2>2, <2>3, <2>4, <2>5 DEF Call
  <1>5. ASSUME NEW j \in Keys
        PROVE  /\ backend' = "redis" => bucket'[j] = <<>>
               /\ YoungerThanKey(bucket'[j], redis'[j])
               /\ j \in Patient => WaitsLongEnough(bucket'[j], redis'[j], wait'[j], refused'[j])
    <2>1. CASE j = k
      BY <2>1, <1>1, <1>4
    <2>2. CASE j # k
      BY <2>2, <1>1, <1>3 DEF WaitInv
    <2> QED BY <2>1, <2>2
  <1> QED BY <1>5 DEF WaitInv

(* What a restart forgets only lets the client in sooner.                  *)
LEMMA RestartKeepsWait ==
    ASSUME TypeOK, WaitInv, Restart
    PROVE  WaitInv'
  <1> SUFFICES ASSUME NEW j \in Keys
               PROVE  /\ bucket'[j] = <<>>
                      /\ YoungerThanKey(bucket'[j], redis'[j])
                      /\ j \in Patient
                           => WaitsLongEnough(bucket'[j], redis'[j], wait'[j], refused'[j])
    BY DEF WaitInv
  <1>1. bucket'[j] = <<>> /\ UNCHANGED <<redis, wait, refused>>
    BY DEF Restart, NothingAdmitted
  <1>2. j \in Patient => WaitsLongEnough(bucket[j], redis[j], wait[j], refused[j])
    BY DEF WaitInv
  <1>3. Len(<<>>) = 0
    OBVIOUS
  <1>4. j \in Patient => WaitsLongEnough(<<>>, redis[j], wait[j], refused[j])
    BY <1>2, <1>3 DEF WaitsLongEnough
  <1> QED BY <1>1, <1>4, NothingIsYounger

LEMMA TimeKeepsWait ==
    ASSUME TypeOK, WaitInv, Tick
    PROVE  WaitInv'
  <1> SUFFICES ASSUME NEW j \in Keys
               PROVE  /\ backend' = "redis" => bucket'[j] = <<>>
                      /\ YoungerThanKey(bucket'[j], redis'[j])
                      /\ j \in Patient
                           => WaitsLongEnough(bucket'[j], redis'[j], wait'[j], refused'[j])
    BY DEF WaitInv
  <1>1. /\ backend' = backend /\ refused'[j] = refused[j]
        /\ bucket'[j] = OlderAll(bucket[j]) /\ redis'[j] = Expire(redis[j])
        /\ wait'[j] = IF wait[j] > 0 THEN wait[j] - 1 ELSE 0
    BY DEF Tick
  <1>2. /\ bucket[j] \in Ages /\ redis[j] \in Counter /\ wait[j] \in 0 .. Window
        /\ refused[j] \in 0 .. MaxRefused
    BY DEF TypeOK
  <1>3. /\ backend = "redis" => bucket[j] = <<>>
        /\ YoungerThanKey(bucket[j], redis[j])
        /\ j \in Patient => WaitsLongEnough(bucket[j], redis[j], wait[j], refused[j])
    BY DEF WaitInv
  <1>4. OlderAll(<<>>) = <<>>
    BY DEF OlderAll
  <1> QED BY <1>1, <1>2, <1>3, <1>4, TickKeepsYounger, TickKeepsWait

LEMMA WaitAlways == Spec => []WaitInv
  <1>1. TypeOK /\ WaitInv /\ [Next]_vars => WaitInv'
    <2> SUFFICES ASSUME TypeOK, WaitInv, [Next]_vars PROVE WaitInv'
      OBVIOUS
    <2>1. CASE UNCHANGED vars
      BY <2>1 DEF vars, WaitInv
    <2> QED BY <2>1, CallKeepsWait, RestartKeepsWait, TimeKeepsWait DEF Next
  <1> QED BY WaitInitially, <1>1, TypeCorrect, PTL DEF Spec

(* A client that heeds Retry-After is never refused three times in a row,  *)
(* whichever limiter answers, whatever the other clients do, and though    *)
(* the server starts again, with the other limiter, while it waits.        *)
THEOREM PatientClientGetsInAlways == Spec => []PatientClientGetsIn
  <1>1. WaitInv => PatientClientGetsIn
    BY KeysAssumption DEF WaitInv, WaitsLongEnough, PatientClientGetsIn
  <1> QED BY WaitAlways, <1>1, PTL

-----------------------------------------------------------------------------
(* Both limiters implement the sliding window.                             *)
THEOREM KeepsWindow == Spec => WindowKept
  <1>1. Init => Promised!Init
    BY DEF Init, NothingAdmitted, Promised!Init, Promised!Empty
  <1>2. ASSUME NEW k \in Keys, TypeOK, Admitted(k), Len(recent[k]) = Limit => Head(recent[k]) >= Window
        PROVE  Promised!Admit(k)
    BY <1>2 DEF Admitted, Promised!Admit, Promised!Full
  <1>3. ASSUME IInv, NEW k \in Keys, AdmitInMemory(k)
        PROVE  Promised!Admit(k)
    <2>1. /\ TypeOK /\ recent[k] \in Ages /\ bucket[k] \in Ages
          /\ BucketIsTheTail(bucket[k], recent[k]) /\ Admitted(k)
      BY <1>3 DEF IInv, TypeOK, MemoryInv, AdmitInMemory, Calls
    <2>2. PICK dq \in Purged(bucket[k]) : MemoryAllows(dq)
      BY <1>3 DEF AdmitInMemory
    <2>3. dq \in Ages /\ BucketIsTheTail(dq, recent[k]) /\ Len(dq) < Limit
      BY <2>1, <2>2, PurgedFacts, PurgedKeepsTail DEF MemoryAllows
    <2>4. ASSUME Len(recent[k]) = Limit PROVE Head(recent[k]) >= Window
      <3>1. Head(recent[k]) > Window
        BY <2>1, <2>3, <2>4, MemoryGuard
      <3>2. Head(recent[k]) = recent[k][1] /\ recent[k][1] \in Nat
        BY <2>1, <2>4, AgeIsNatural, AgesFacts, WindowType
      <3> QED BY <3>1, <3>2, WindowType
    <2> QED BY <2>1, <2>4, <1>2
  <1>4. ASSUME IInv, NEW k \in Keys, AdmitByRedis(k)
        PROVE  Promised!Admit(k)
    <2>1. /\ TypeOK /\ recent[k] \in Ages /\ redis[k] \in Counter /\ RedisAllows(redis[k])
          /\ CounterCoversTheYoung(redis[k], recent[k]) /\ Admitted(k)
      BY <1>4 DEF IInv, TypeOK, RedisInv, AdmitByRedis, Calls
    <2> QED BY <2>1, <1>2, RedisGuard
  <1>5. ASSUME NEW k \in Keys, RefuseInMemory(k) \/ RefuseByRedis(k) \/ RedisFails(k)
        PROVE  UNCHANGED recent
    BY <1>5 DEF RefuseInMemory, RefuseByRedis, RedisFails, Refused
  <1>6. Restart => Promised!Forget \/ UNCHANGED recent
    BY DEF Restart, NothingAdmitted, Promised!Forget, Promised!Empty
  <1>7. Tick => Promised!Elapse
    BY DEF Tick, OlderAll, Older, Promised!Elapse, Promised!Older
  <1>8. UNCHANGED vars => UNCHANGED recent
    BY DEF vars
  <1>9. IInv /\ [Next]_vars => [Promised!Next]_recent
    BY <1>3, <1>4, <1>5, <1>6, <1>7, <1>8 DEF Next, Call, Promised!Next
  <1> QED BY Inductive, <1>1, <1>9, PTL DEF Spec, WindowKept, Promised!Spec

-----------------------------------------------------------------------------
(* A key that Redis counts has been called since its expiry was last set,  *)
(* whichever limiter was called: quiet is not behind idle.                 *)
KeysAreCalled == \A k \in Keys : redis[k].count > 0 => quiet[k] <= redis[k].idle

LEMMA KeysAreCalledInitially == Init => KeysAreCalled
  BY NoKeyType DEF Init, KeysAreCalled

LEMMA CallKeepsKeysCalled ==
    ASSUME TypeOK, KeysAreCalled, NEW k \in Keys,
           \/ /\ quiet' = [quiet EXCEPT ![k] = 0]
              /\ redis' = [redis EXCEPT ![k] = Hit(redis[k])] \/ redis' = redis
           \/ UNCHANGED <<redis, quiet>>
    PROVE  KeysAreCalled'
  <1>1. /\ redis \in [Keys -> Counter] /\ quiet \in [Keys -> 0 .. Window]
        /\ redis[k] \in Counter
    BY DEF TypeOK
  <1>2. CASE UNCHANGED <<redis, quiet>>
    BY <1>2 DEF KeysAreCalled
  <1>3. CASE /\ quiet' = [quiet EXCEPT ![k] = 0]
             /\ redis' = [redis EXCEPT ![k] = Hit(redis[k])] \/ redis' = redis
    <2> SUFFICES ASSUME NEW j \in Keys, redis'[j].count > 0
                 PROVE  quiet'[j] <= redis'[j].idle
      BY DEF KeysAreCalled
    <2>1. CASE j = k
      <3>1. quiet'[j] = 0
        BY <1>1, <1>3, <2>1
      <3>2. redis'[j] \in Counter
        BY <1>1, <1>3, CounterFacts, <2>1
      <3>3. redis'[j].idle \in Nat
        BY <3>2, CounterFacts, WindowType
      <3> QED BY <3>1, <3>3
    <2>2. CASE j # k
      <3>1. quiet'[j] = quiet[j] /\ redis'[j] = redis[j]
        BY <1>1, <1>3, <2>2
      <3> QED BY <3>1 DEF KeysAreCalled
    <2> QED BY <2>1, <2>2
  <1> QED BY <1>2, <1>3

LEMMA TickKeepsKeysCalled ==
    ASSUME TypeOK, KeysAreCalled, Tick
    PROVE  KeysAreCalled'
  <1> SUFFICES ASSUME NEW j \in Keys, redis'[j].count > 0
               PROVE  quiet'[j] <= redis'[j].idle
    BY DEF KeysAreCalled
  <1>1. redis[j] \in Counter /\ quiet[j] \in 0 .. Window
    BY DEF TypeOK
  <1>2. /\ redis'[j] = Expire(redis[j])
        /\ quiet'[j] = IF quiet[j] < Window THEN quiet[j] + 1 ELSE quiet[j]
    BY DEF Tick
  <1>3. /\ redis[j].count > 0 /\ redis'[j].idle = redis[j].idle + 1
        /\ redis[j].idle \in 0 .. Window - 1
    BY <1>1, <1>2, CounterFacts, WindowType
  <1>4. quiet[j] <= redis[j].idle
    BY <1>3 DEF KeysAreCalled
  <1> QED BY <1>1, <1>2, <1>3, <1>4, WindowType

LEMMA KeysAreAlwaysCalled == Spec => []KeysAreCalled
  <1>1. TypeOK /\ KeysAreCalled /\ [Next]_vars => KeysAreCalled'
    <2> SUFFICES ASSUME TypeOK, KeysAreCalled, [Next]_vars PROVE KeysAreCalled'
      OBVIOUS
    <2>1. ASSUME NEW k \in Keys,
                 \/ AdmitInMemory(k) \/ RefuseInMemory(k)
                 \/ AdmitByRedis(k) \/ RefuseByRedis(k) \/ RedisFails(k)
          PROVE  KeysAreCalled'
      <3>1. \/ /\ quiet' = [quiet EXCEPT ![k] = 0]
               /\ redis' = [redis EXCEPT ![k] = Hit(redis[k])] \/ redis' = redis
            \/ UNCHANGED <<redis, quiet>>
        BY <2>1 DEF AdmitInMemory, RefuseInMemory, AdmitByRedis, RefuseByRedis, RedisFails,
                    Admitted, Refused
      <3> QED BY <3>1, CallKeepsKeysCalled
    <2>2. CASE Restart \/ UNCHANGED vars
      BY <2>2 DEF Restart, KeysAreCalled, vars
    <2>3. CASE Tick
      BY <2>3, TickKeepsKeysCalled
    <2> QED BY <2>1, <2>2, <2>3 DEF Next, Call
  <1> QED BY KeysAreCalledInitially, <1>1, TypeCorrect, PTL DEF Spec

(* No client is refused without cause, for every limit and window: the     *)
(* in-memory limiter refuses only what the sliding window would, or an     *)
(* admission exactly as old as the window; Redis only a key in use.        *)
THEOREM RefusalsAreAlwaysDue == Spec => RefusalsAreDue
  <1>1. ASSUME IInv, NEW k \in Keys, RefuseInMemory(k)
        PROVE  FullWindow(k)
    <2>1. /\ recent[k] \in Ages /\ bucket[k] \in Ages
          /\ BucketIsTheTail(bucket[k], recent[k])
      BY <1>1 DEF IInv, TypeOK, MemoryInv, RefuseInMemory, Calls
    <2>2. PICK dq \in Purged(bucket[k]) : ~MemoryAllows(dq)
      BY <1>1 DEF RefuseInMemory
    <2>3. /\ dq \in Ages /\ BucketIsTheTail(dq, recent[k])
          /\ Len(dq) > 0 => dq[1] <= Window
      BY <2>1, <2>2, PurgedFacts, PurgedKeepsTail
    <2>4. /\ Len(dq) = Limit /\ Len(recent[k]) = Limit
          /\ recent[k] \in Seq(Age)
      <3>1. /\ recent[k] \in Seq(Age) /\ Len(recent[k]) \in Nat
            /\ Len(recent[k]) <= Limit
        BY <2>1, AgesFacts
      <3>2. Len(dq) \in Nat /\ Len(dq) <= Limit
        BY <2>3, AgesFacts
      <3>3. ~(Len(dq) < Limit)
        BY <2>2 DEF MemoryAllows
      <3>4. Len(dq) <= Len(recent[k])
        BY <2>3 DEF BucketIsTheTail
      <3> QED BY <3>1, <3>2, <3>3, <3>4, WindowType
    <2>5. dq[1] = recent[k][1]
      BY <2>3, <2>4, WindowType DEF BucketIsTheTail
    <2> QED BY <2>3, <2>4, <2>5, WindowType DEF FullWindow
  <1>2. ASSUME IInv, KeysAreCalled, NEW k \in Keys, RefuseByRedis(k)
        PROVE  quiet[k] < Window
    <2>1. redis[k] \in Counter /\ ~RedisAllows(redis[k]) /\ quiet[k] \in 0 .. Window
      BY <1>2 DEF IInv, TypeOK, RefuseByRedis
    <2>2. redis[k].count > 0 /\ redis[k].idle \in 0 .. Window - 1
      BY <2>1, CounterFacts, WindowType DEF RedisAllows
    <2>3. quiet[k] <= redis[k].idle
      BY <1>2, <2>2 DEF KeysAreCalled
    <2> QED BY <2>1, <2>2, <2>3, WindowType
  <1>3. IInv /\ KeysAreCalled /\ [Next]_vars
          => [\A k \in Keys : /\ RefuseInMemory(k) => FullWindow(k)
                              /\ RefuseByRedis(k) => quiet[k] < Window]_vars
    BY <1>1, <1>2
  <1> QED BY Inductive, KeysAreAlwaysCalled, <1>3, PTL DEF Spec, RefusalsAreDue
=============================================================================
