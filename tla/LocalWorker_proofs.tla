------------------------- MODULE LocalWorker_proofs ------------------------
(***************************************************************************)
(* Proofs about LocalWorker: for every list of fallback detectors and      *)
(* every number of images, nothing is tried twice on an image, a job is    *)
(* given up last, and find's ranking is honest.                            *)
(***************************************************************************)
EXTENDS LocalWorker, FiniteSetTheorems, WellFoundedInduction, TLAPS

-----------------------------------------------------------------------------
(***************************************************************************)
(* The detectors to try: of those that name the same detector, the first   *)
(* place is fresh, so that the fresh places miss none.                     *)
(***************************************************************************)
LEMMA LeastExists ==
    ASSUME NEW S, S \subseteq Nat, S # {}
    PROVE  \E x \in S : \A y \in S : x <= y
<1>1. PICK x \in S : \A y \in S : <<y, x>> \notin OpToRel(<, Nat)
  BY WFMin, NatLessThanWellFounded, Zenon
<1>2. ASSUME NEW y \in S PROVE x <= y
  <2>1. <<y, x>> \notin {ss \in Nat \X Nat : ss[1] < ss[2]}
    BY <1>1, Zenon DEF OpToRel
  <2>2. ~(y < x)
    BY <2>1
  <2>. QED BY <2>2
<1>. QED BY <1>2

LEMMA PreferredDetectors ==
    ASSUME NEW d \in Detectors
    PROVE  /\ Preferred(d) \in Seq(Detectors)
           /\ Len(Preferred(d)) \in Nat
           /\ Places(d) = 1 .. Len(Preferred(d))
           /\ 1 \in Places(d)
           /\ Preferred(d)[1] = d
           /\ \A i \in Places(d) : Preferred(d)[i] \in Detectors
           /\ Fresh(d, 1)
<1>1. <<d>> \in Seq(Detectors) /\ Fallbacks \in Seq(Detectors) /\ Len(<<d>>) = 1
  BY WorkerAssumption
<1>2. /\ Preferred(d) \in Seq(Detectors)
      /\ Len(Preferred(d)) = 1 + Len(Fallbacks)
      /\ Preferred(d)[1] = d
  BY <1>1 DEF Preferred
<1>3. Len(Fallbacks) \in Nat
  BY <1>1
<1>4. \A i \in 1 .. Len(Preferred(d)) : Preferred(d)[i] \in Detectors
  BY <1>2
<1>5. Fresh(d, 1)
  BY DEF Fresh
<1>. QED BY <1>2, <1>3, <1>4, <1>5 DEF Places

LEMMA FreshPlaceExists ==
    ASSUME NEW d \in Detectors, NEW c \in Candidates(d)
    PROVE  \E i \in Places(d) : Fresh(d, i) /\ Preferred(d)[i] = c
<1>. DEFINE S == {i \in Places(d) : Preferred(d)[i] = c}
<1>1. Places(d) \subseteq Nat
  BY PreferredDetectors
<1>0. PICK k \in Places(d) : Preferred(d)[k] = c
  BY DEF Candidates
<1>2. PICK i \in S : \A j \in S : i <= j
  BY <1>0, <1>1, LeastExists, Zenon
<1>3. ASSUME NEW j \in 1 .. i - 1 PROVE Preferred(d)[j] # Preferred(d)[i]
  <2>1. j \in Places(d) /\ j < i
    <3>1. i \in 1 .. Len(Preferred(d)) /\ Len(Preferred(d)) \in Nat
      BY PreferredDetectors
    <3>. QED BY <3>1, PreferredDetectors
  <2>. QED BY <1>2, <2>1
<1>. QED BY <1>2, <1>3 DEF Fresh

LEMMA FreshPlacesDiffer ==
    ASSUME NEW d \in Detectors, NEW i \in Places(d), NEW j \in Places(d),
           Fresh(d, i), j < i
    PROVE  Preferred(d)[j] # Preferred(d)[i]
<1>1. j \in 1 .. i - 1
  BY PreferredDetectors
<1>. QED BY <1>1 DEF Fresh

-----------------------------------------------------------------------------
(***************************************************************************)
(* The ranking.  Place is a permutation, because the order it counts by is *)
(* total; Ranked reads the comparisons along it.                           *)
(***************************************************************************)
Behind(rs, i) == {j \in DOMAIN rs : \/ rs[j].distance < rs[i].distance
                                    \/ rs[j].distance = rs[i].distance /\ j <= i}

LEMMA PlaceIsBehind ==
    ASSUME NEW rs, NEW i PROVE Place(rs, i) = Cardinality(Behind(rs, i))
BY DEF Place, Behind

LEMMA DistancesAreNumbers ==
    ASSUME NEW rs \in Seq(Comparison)
    PROVE  /\ Len(rs) \in Nat
           /\ DOMAIN rs = 1 .. Len(rs)
           /\ DOMAIN rs \subseteq Int
           /\ \A k \in DOMAIN rs : rs[k].distance \in Int
<1>1. Len(rs) \in Nat /\ DOMAIN rs = 1 .. Len(rs)
  OBVIOUS
<1>2. \A c \in Comparison : c.distance \in Int
  BY DEF Comparison, Distance
<1>3. \A k \in 1 .. Len(rs) : rs[k] \in Comparison
  OBVIOUS
<1>. QED BY <1>1, <1>2, <1>3

LEMMA Precedes ==
    ASSUME NEW rs \in Seq(Comparison), NEW i \in DOMAIN rs, NEW j \in DOMAIN rs,
           i # j,
           \/ rs[i].distance < rs[j].distance
           \/ rs[i].distance = rs[j].distance /\ i < j
    PROVE  Place(rs, i) < Place(rs, j)
<1>0. /\ DOMAIN rs \subseteq Int /\ DOMAIN rs = 1 .. Len(rs)
      /\ \A k \in DOMAIN rs : rs[k].distance \in Int
  BY DistancesAreNumbers
<1>1. Behind(rs, i) \subseteq Behind(rs, j)
  BY <1>0 DEF Behind
<1>2. j \in Behind(rs, j) /\ j \notin Behind(rs, i)
  BY <1>0 DEF Behind
<1>3. IsFiniteSet(DOMAIN rs)
  BY <1>0, DistancesAreNumbers, FS_Interval
<1>4. IsFiniteSet(Behind(rs, j))
  BY <1>3, FS_Subset DEF Behind
<1>5. /\ Cardinality(Behind(rs, i)) <= Cardinality(Behind(rs, j))
      /\ Cardinality(Behind(rs, i)) # Cardinality(Behind(rs, j))
  BY <1>1, <1>2, <1>4, FS_Subset
<1>6. Cardinality(Behind(rs, i)) \in Nat /\ Cardinality(Behind(rs, j)) \in Nat
  BY <1>1, <1>4, FS_Subset, FS_CardinalityType
<1>. QED BY <1>5, <1>6, PlaceIsBehind

LEMMA Comparable ==
    ASSUME NEW rs \in Seq(Comparison), NEW i \in DOMAIN rs, NEW j \in DOMAIN rs, i # j
    PROVE  \/ rs[i].distance < rs[j].distance
           \/ rs[i].distance = rs[j].distance /\ i < j
           \/ rs[j].distance < rs[i].distance
           \/ rs[j].distance = rs[i].distance /\ j < i
<1>0. /\ i \in Int /\ j \in Int
      /\ rs[i].distance \in Int /\ rs[j].distance \in Int
  BY DistancesAreNumbers
<1>. QED BY <1>0

LEMMA PlaceInjective ==
    ASSUME NEW rs \in Seq(Comparison), NEW i \in DOMAIN rs, NEW j \in DOMAIN rs,
           Place(rs, i) = Place(rs, j)
    PROVE  i = j
<1>0. Place(rs, i) \in Nat
  <2>1. IsFiniteSet(DOMAIN rs) BY DistancesAreNumbers, FS_Interval
  <2>2. IsFiniteSet(Behind(rs, i)) BY <2>1, FS_Subset DEF Behind
  <2>. QED BY <2>2, FS_CardinalityType, PlaceIsBehind
<1>1. ~(Place(rs, i) < Place(rs, j)) /\ ~(Place(rs, j) < Place(rs, i))
  BY <1>0
<1>. QED BY <1>1, Comparable, Precedes

LEMMA PlaceInRange ==
    ASSUME NEW rs \in Seq(Comparison), NEW i \in DOMAIN rs
    PROVE  Place(rs, i) \in DOMAIN rs
<1>0. /\ Len(rs) \in Nat /\ DOMAIN rs = 1 .. Len(rs)
  BY DistancesAreNumbers
<1>1. IsFiniteSet(DOMAIN rs) /\ Cardinality(DOMAIN rs) = Len(rs)
  <2>1. /\ IsFiniteSet(1 .. Len(rs))
        /\ Cardinality(1 .. Len(rs)) = IF 1 > Len(rs) THEN 0 ELSE Len(rs) - 1 + 1
    BY <1>0, FS_Interval
  <2>. QED BY <1>0, <2>1
<1>2. Behind(rs, i) \subseteq DOMAIN rs /\ i \in Behind(rs, i)
  BY <1>0 DEF Behind
<1>3. /\ IsFiniteSet(Behind(rs, i))
      /\ Cardinality(Behind(rs, i)) <= Len(rs)
  BY <1>1, <1>2, FS_Subset
<1>4. Cardinality(Behind(rs, i)) \in Nat /\ Cardinality(Behind(rs, i)) # 0
  BY <1>2, <1>3, FS_CardinalityType, FS_EmptySet
<1>. QED BY <1>0, <1>3, <1>4, PlaceIsBehind

LEMMA PlaceSurjective ==
    ASSUME NEW rs \in Seq(Comparison), NEW p \in DOMAIN rs
    PROVE  \E i \in DOMAIN rs : Place(rs, i) = p
<1>. DEFINE f == [i \in DOMAIN rs |-> Place(rs, i)]
<1>1. f \in [DOMAIN rs -> DOMAIN rs]
  BY PlaceInRange
<1>2. \A i, j \in DOMAIN rs : f[i] = f[j] => i = j
  BY PlaceInjective
<1>3. f \in Injection(DOMAIN rs, DOMAIN rs)
  <2>. HIDE DEF f
  <2>. QED BY <1>1, <1>2 DEF Injection, IsInjective
<1>4. IsFiniteSet(DOMAIN rs)
  BY DistancesAreNumbers, FS_Interval
<1>5. f \in Surjection(DOMAIN rs, DOMAIN rs)
  <2>. HIDE DEF f
  <2>. QED BY <1>3, <1>4, FS_Injection
<1>. QED BY <1>5 DEF Surjection

LEMMA RankedIsAt ==
    ASSUME NEW rs \in Seq(Comparison), NEW p \in DOMAIN rs
    PROVE  \E i \in DOMAIN rs : Place(rs, i) = p /\ Ranked(rs)[p] = rs[i]
<1>1. PICK i \in DOMAIN rs : Place(rs, i) = p
  BY PlaceSurjective
<1>2. (CHOOSE j \in DOMAIN rs : Place(rs, j) = p) = i
  BY <1>1, PlaceInjective
<1>. QED BY <1>1, <1>2 DEF Ranked

LEMMA RankedType ==
    ASSUME NEW rs \in Seq(Comparison)
    PROVE  Ranked(rs) \in Seq(Comparison) /\ Len(Ranked(rs)) = Len(rs)
<1>1. \A p \in 1 .. Len(rs) : Ranked(rs)[p] \in Comparison
  BY RankedIsAt, DistancesAreNumbers
<1>2. Ranked(rs) \in [1 .. Len(rs) -> Comparison]
  BY <1>1, DistancesAreNumbers DEF Ranked
<1>. QED BY <1>2, DistancesAreNumbers

LEMMA RankedInOrder ==
    ASSUME NEW rs \in Seq(Comparison), \A i \in DOMAIN rs : rs[i].image = i,
           NEW p \in DOMAIN rs, NEW q \in DOMAIN rs, p < q
    PROVE  /\ Ranked(rs)[p].distance <= Ranked(rs)[q].distance
           /\ Ranked(rs)[p].distance = Ranked(rs)[q].distance =>
                  Ranked(rs)[p].image < Ranked(rs)[q].image
<1>1. PICK i \in DOMAIN rs : Place(rs, i) = p /\ Ranked(rs)[p] = rs[i]
  BY RankedIsAt
<1>2. PICK j \in DOMAIN rs : Place(rs, j) = q /\ Ranked(rs)[q] = rs[j]
  BY RankedIsAt
<1>3. p \in Int /\ q \in Int
  BY DistancesAreNumbers
<1>4. i # j /\ ~(Place(rs, j) < Place(rs, i))
  BY <1>1, <1>2, <1>3
<1>5. \/ rs[i].distance < rs[j].distance
      \/ rs[i].distance = rs[j].distance /\ i < j
  BY <1>4, Precedes, Comparable
<1>6. /\ rs[i].distance \in Int /\ rs[j].distance \in Int
      /\ rs[i].image = i /\ rs[j].image = j
  BY DistancesAreNumbers
<1>. QED BY <1>1, <1>2, <1>5, <1>6

LEMMA RankedIsWhole ==
    ASSUME NEW rs \in Seq(Comparison), \A i \in DOMAIN rs : rs[i].image = i
    PROVE  {Ranked(rs)[p].image : p \in DOMAIN rs} = DOMAIN rs
<1>1. ASSUME NEW p \in DOMAIN rs PROVE Ranked(rs)[p].image \in DOMAIN rs
  BY RankedIsAt
<1>2. ASSUME NEW i \in DOMAIN rs
      PROVE  \E p \in DOMAIN rs : Ranked(rs)[p].image = i
  <2>1. Place(rs, i) \in DOMAIN rs
    BY PlaceInRange
  <2>2. PICK j \in DOMAIN rs : Place(rs, j) = Place(rs, i)
                               /\ Ranked(rs)[Place(rs, i)] = rs[j]
    BY <2>1, RankedIsAt
  <2>3. j = i
    BY <2>2, PlaceInjective
  <2>. QED BY <2>1, <2>2, <2>3
<1>3. {Ranked(rs)[p].image : p \in DOMAIN rs} \subseteq DOMAIN rs
  BY <1>1, Zenon
<1>4. DOMAIN rs \subseteq {Ranked(rs)[p].image : p \in DOMAIN rs}
  BY <1>2, Zenon
<1>. QED BY <1>3, <1>4, Zenon

LEMMA VerifiedFirst ==
    ASSUME NEW c \in Comparison, NEW d \in Comparison,
           c.distance <= d.distance, c.by = d.by, Verified(d)
    PROVE  Verified(c)
<1>1. c.distance \in Int /\ d.distance \in Int
  <2>1. \A x \in Comparison : x.distance \in Distance
    BY DEF Comparison
  <2>. QED BY <2>1 DEF Distance
<1>3. Threshold(d) \in Int
  BY WorkerAssumption DEF Threshold
<1>2. Threshold(c) = Threshold(d)
  BY DEF Threshold
<1>4. d.distance <= Threshold(d)
  BY DEF Verified
<1>5. c.distance <= Threshold(d)
  BY <1>1, <1>3, <1>4
<1>. QED BY <1>2, <1>5 DEF Verified

-----------------------------------------------------------------------------
(***************************************************************************)
(* The inductive invariant.  Where the loops stand tells what has failed   *)
(* on the image: every way before the present one, and no other.           *)
(***************************************************************************)
Tried(s, i, e) == Attempt(s, Preferred(job.detector)[i], e) \in tried

Walked ==
    stage \in Calls =>
        /\ \A i \in Places(job.detector), e \in Encodings :
              Fresh(job.detector, i) /\ i < at => Tried(stage, i, e)
        /\ \A e \in Encodings : e < encoding => Tried(stage, at, e)

Ahead ==
    stage \in Calls =>
        \A a \in tried : a.call = stage =>
            \E i \in Places(job.detector) :
                /\ a.detector = Preferred(job.detector)[i]
                /\ i < at \/ (i = at /\ a.encoding < encoding)

OrderOfCalls ==
    /\ stage \in {"query", "image"} => tried = {} /\ at = 1 /\ encoding = 1
    /\ stage = "verify" => \A a \in tried : a.call = "verify"
    /\ stage = "analyze" => \A a \in tried : a.call = "analyze"
    /\ stage = "query_embedding" =>
           \A a \in tried : a.call \in {"verify", "query_embedding"}
    /\ stage \in {"query_embedding", "image_embedding"} /\ job.op # "extract" =>
           TriedAll("verify", Candidates(job.detector))

StageFitsJob ==
    /\ stage \in {"image", "verify", "image_embedding"} => job.op \in {"verify", "find"}
    /\ stage = "analyze" => job.op = "analyze"
    /\ stage = "query_embedding" => job.op # "analyze"
    /\ stage \in Calls => Fresh(job.detector, at)
    /\ stage \notin {"over", "idle"} => because = "nothing" /\ error = "none"

ResultsInOrder ==
    stage \in {"query", "image"} \cup Calls =>
        /\ Len(results) = image - 1
        /\ \A i \in DOMAIN results : results[i].image = i

IInv == /\ TypeOK
        /\ Walked
        /\ Ahead
        /\ OrderOfCalls
        /\ StageFitsJob
        /\ ResultsInOrder
        /\ GivesUpLast
        /\ RankingIsHonest

LEMMA Initially == Init => IInv
<1>. SUFFICES ASSUME Init PROVE IInv
  OBVIOUS
<1>1. TypeOK
  <2>1. job \in Job
    BY WorkerAssumption DEF Init, Job
  <2>2. job.images = 1 /\ job.detector \in Detectors
    BY DEF Init
  <2>3. 1 \in Places(job.detector)
    BY <2>2, PreferredDetectors
  <2>4. <<>> \in Seq(Comparison)
    OBVIOUS
  <2>5. image \in 1 .. job.images /\ encoding \in Encodings
    BY <2>2 DEF Init, Encodings
  <2>6. at = 1
    BY DEF Init
  <2>. QED BY <2>1, <2>3, <2>4, <2>5, <2>6 DEF Init, TypeOK
<1>2. Walked /\ Ahead /\ OrderOfCalls /\ StageFitsJob
  BY DEF Init, Walked, Ahead, OrderOfCalls, StageFitsJob, Calls
<1>3. ResultsInOrder /\ GivesUpLast /\ RankingIsHonest
  BY DEF Init, ResultsInOrder, GivesUpLast, RankingIsHonest, Calls
<1>. QED BY <1>1, <1>2, <1>3 DEF IInv

(* What every step from a stage of the worker can rely on.                 *)
LEMMA JobFacts ==
    ASSUME TypeOK
    PROVE  /\ job.op \in {"verify", "find", "analyze", "extract"}
           /\ job.detector \in Detectors
           /\ job.images \in Nat /\ job.images >= 1 /\ job.images <= MaxImages
           /\ image \in Nat /\ image >= 1 /\ image <= job.images
           /\ at \in Nat /\ at \in Places(job.detector)
<1>1. /\ job.op \in {"verify", "find", "analyze", "extract"}
      /\ job.detector \in Detectors
      /\ job.images \in 1 .. MaxImages
  BY DEF TypeOK, Job
<1>2. MaxImages \in Nat
  BY WorkerAssumption
<1>3. job.images \in Nat /\ job.images >= 1 /\ job.images <= MaxImages
  BY <1>1, <1>2
<1>4. image \in Nat /\ image >= 1 /\ image <= job.images
  BY <1>3 DEF TypeOK
<1>5. at \in Places(job.detector)
  BY DEF TypeOK
<1>6. at \in Nat
  BY <1>1, <1>5, PreferredDetectors
<1>. QED BY <1>1, <1>3, <1>4, <1>5, <1>6

(***************************************************************************)
(* Steps that end the job.                                                 *)
(***************************************************************************)
LEMMA Raises ==
    ASSUME IInv,
           NEW class \in {"ValueError", "IndexError", "library"},
           NEW why \in {"unreadable", "gave_up", "raised", "no_face"},
           Raise(class, why), tried' \in SUBSET Attempts,
           why = "gave_up" => GivesUpLast'
    PROVE  IInv'
<1>1. TypeOK'
  BY DEF IInv, TypeOK, Raise
<1>2. Walked' /\ Ahead' /\ OrderOfCalls' /\ StageFitsJob' /\ ResultsInOrder'
  BY DEF Raise, Walked, Ahead, OrderOfCalls, StageFitsJob, ResultsInOrder, Calls
<1>3. GivesUpLast'
  BY DEF Raise, GivesUpLast
<1>4. RankingIsHonest'
  BY DEF Raise, RankingIsHonest
<1>. QED BY <1>1, <1>2, <1>3, <1>4 DEF IInv

LEMMA Finishes ==
    ASSUME IInv, because = "nothing", NEW rs \in Seq(Comparison), Finish(rs),
           results' \in Seq(Comparison),
           job.op \in {"verify", "find"} =>
               Len(rs) = job.images /\ \A i \in DOMAIN rs : rs[i].image = i
    PROVE  IInv'
<1>1. TypeOK'
  BY RankedType DEF IInv, TypeOK, Finish
<1>2. Walked' /\ Ahead' /\ OrderOfCalls' /\ StageFitsJob' /\ ResultsInOrder'
  BY DEF Finish, Walked, Ahead, OrderOfCalls, StageFitsJob, ResultsInOrder, Calls
<1>3. GivesUpLast'
  BY DEF Finish, GivesUpLast
<1>4. RankingIsHonest'
  <2>. SUFFICES ASSUME job.op \in {"verify", "find"}
                PROVE  /\ Len(answer') = job.images
                       /\ {answer'[p].image : p \in DOMAIN answer'} = 1 .. job.images
                       /\ \A p, q \in DOMAIN answer' :
                             p < q =>
                               /\ answer'[p].distance <= answer'[q].distance
                               /\ answer'[p].distance = answer'[q].distance =>
                                      answer'[p].image < answer'[q].image
                               /\ answer'[p].by = answer'[q].by /\ Verified(answer'[q]) =>
                                      Verified(answer'[p])
    BY DEF Finish, RankingIsHonest, Verified, Threshold
  <2>1. answer' = Ranked(rs) /\ Len(rs) = job.images
        /\ \A i \in DOMAIN rs : rs[i].image = i
    BY DEF Finish
  <2>2. Ranked(rs) \in Seq(Comparison) /\ Len(Ranked(rs)) = Len(rs)
    BY RankedType
  <2>3. DOMAIN Ranked(rs) = DOMAIN rs /\ DOMAIN rs = 1 .. job.images
    BY <2>1, <2>2, DistancesAreNumbers
  <2>4. {Ranked(rs)[p].image : p \in DOMAIN Ranked(rs)} = 1 .. job.images
    BY <2>1, <2>3, RankedIsWhole
  <2>5. ASSUME NEW p \in DOMAIN rs, NEW q \in DOMAIN rs, p < q
        PROVE  /\ Ranked(rs)[p].distance <= Ranked(rs)[q].distance
               /\ Ranked(rs)[p].distance = Ranked(rs)[q].distance =>
                      Ranked(rs)[p].image < Ranked(rs)[q].image
               /\ Ranked(rs)[p].by = Ranked(rs)[q].by /\ Verified(Ranked(rs)[q]) =>
                      Verified(Ranked(rs)[p])
    <3>1. /\ Ranked(rs)[p].distance <= Ranked(rs)[q].distance
          /\ Ranked(rs)[p].distance = Ranked(rs)[q].distance =>
                 Ranked(rs)[p].image < Ranked(rs)[q].image
      BY <2>1, <2>5, RankedInOrder
    <3>2. Ranked(rs)[p] \in Comparison /\ Ranked(rs)[q] \in Comparison
      BY RankedIsAt, DistancesAreNumbers
    <3>. QED BY <3>1, <3>2, VerifiedFirst
  <2>. QED BY <2>1, <2>2, <2>3, <2>4, <2>5
<1>. QED BY <1>1, <1>2, <1>3, <1>4 DEF IInv

(***************************************************************************)
(* Steps that go on with it.                                               *)
(***************************************************************************)
LEMMA Takes ==
    ASSUME IInv, NEW j \in Job, Take(j)
    PROVE  IInv'
<1>0. j.detector \in Detectors /\ j.images \in 1 .. MaxImages
  BY DEF Job
<1>1. TypeOK'
  <2>1. 1 \in Places(j.detector)
    BY <1>0, PreferredDetectors
  <2>2. <<>> \in Seq(Comparison)
    OBVIOUS
  <2>3. 1 \in 1 .. j.images /\ 1 \in Encodings
    BY <1>0, WorkerAssumption DEF Encodings
  <2>. QED BY <2>1, <2>2, <2>3 DEF Take, TypeOK
<1>2. Walked' /\ Ahead' /\ OrderOfCalls' /\ StageFitsJob'
  BY DEF Take, Walked, Ahead, OrderOfCalls, StageFitsJob, Calls
<1>3. ResultsInOrder' /\ GivesUpLast' /\ RankingIsHonest'
  BY DEF Take, ResultsInOrder, GivesUpLast, RankingIsHonest
<1>. QED BY <1>1, <1>2, <1>3 DEF IInv

LEMMA Returns == IInv /\ Return => IInv'
<1>. SUFFICES ASSUME IInv, Return PROVE IInv'
  OBVIOUS
<1>1. TypeOK'
  BY DEF IInv, TypeOK, Return
<1>2. Walked' /\ Ahead' /\ OrderOfCalls' /\ StageFitsJob' /\ ResultsInOrder'
  BY DEF Return, Walked, Ahead, OrderOfCalls, StageFitsJob, ResultsInOrder, Calls
<1>3. GivesUpLast'
  BY DEF IInv, Return, GivesUpLast, TriedAll
<1>4. RankingIsHonest'
  BY DEF Return, RankingIsHonest
<1>. QED BY <1>1, <1>2, <1>3, <1>4 DEF IInv

(* A call stage is entered with nothing tried of its kind.                 *)
LEMMA FreshStart ==
    ASSUME job.detector \in Detectors, NEW s \in Calls,
           stage' = s, at' = 1, encoding' = 1, job' = job,
           \A a \in tried' : a.call # s
    PROVE  Walked' /\ Ahead' /\ Fresh(job'.detector, at')
<1>1. Walked'
  <2>1. \A i \in Places(job.detector) : ~(i < 1)
    BY PreferredDetectors
  <2>2. \A e \in Encodings : ~(e < 1)
    BY DEF Encodings
  <2>3. \A i \in Places(job'.detector) : ~(i < at')
    BY <2>1
  <2>. QED BY <2>2, <2>3 DEF Walked
<1>2. Ahead'
  BY DEF Ahead
<1>3. Fresh(job'.detector, at')
  BY PreferredDetectors
<1>. QED BY <1>1, <1>2, <1>3

LEMMA Reading == IInv /\ (ReadQuery \/ ReadImage) => IInv'
<1>. SUFFICES ASSUME IInv, ReadQuery \/ ReadImage PROVE IInv'
  OBVIOUS
<1>. DEFINE next == stage'
<1>0. /\ TypeOK /\ OrderOfCalls /\ StageFitsJob /\ ResultsInOrder
      /\ stage \in {"query", "image"}
      /\ Reads(next)
  BY DEF IInv, ReadQuery, ReadImage, Reads
<1>1. \/ next = "analyze" /\ job.op = "analyze"
      \/ next = "query_embedding" /\ job.op = "extract"
      \/ next \in {"image", "verify"} /\ job.op \in {"verify", "find"}
  <2>1. CASE ReadImage
    BY <1>0, <2>1 DEF ReadImage, Reads, StageFitsJob
  <2>2. CASE ReadQuery
    <3>1. CASE job.op = "analyze"
      BY <2>2, <3>1 DEF ReadQuery, Reads
    <3>2. CASE job.op = "extract"
      BY <2>2, <3>2 DEF ReadQuery, Reads
    <3>3. CASE job.op \in {"verify", "find"}
      BY <2>2, <3>3 DEF ReadQuery, Reads
    <3>. QED BY <1>0, <3>1, <3>2, <3>3, JobFacts
  <2>. QED BY <2>1, <2>2
<1>2. /\ tried = {} /\ at = 1 /\ encoding = 1 /\ because = "nothing" /\ error = "none"
  BY <1>0 DEF OrderOfCalls, StageFitsJob
<1>3. next \in {"image"} \cup Calls
  BY <1>1 DEF Calls
<1>4. TypeOK'
  BY <1>0, <1>3 DEF TypeOK, Reads
<1>5. Walked' /\ Ahead' /\ (next \in Calls => Fresh(job'.detector, at'))
  <2>1. CASE next \in Calls
    BY <1>0, <1>2, <2>1, JobFacts, FreshStart DEF Reads
  <2>2. CASE next = "image"
    BY <2>2 DEF Walked, Ahead, Calls
  <2>. QED BY <1>3, <2>1, <2>2
<1>6. OrderOfCalls'
  BY <1>0, <1>1, <1>2 DEF OrderOfCalls, Reads
<1>7. StageFitsJob'
  BY <1>0, <1>1, <1>2, <1>5 DEF StageFitsJob, Reads, Calls
<1>8. ResultsInOrder'
  BY <1>0 DEF ResultsInOrder, Reads
<1>9. GivesUpLast' /\ RankingIsHonest'
  BY <1>0, <1>2, <1>3 DEF GivesUpLast, RankingIsHonest, Reads, Calls
<1>. QED BY <1>4, <1>5, <1>6, <1>7, <1>8, <1>9 DEF IInv

(***************************************************************************)
(* A call fails: the present way joins those that were tried.              *)
(***************************************************************************)
Failed == Attempt(stage, Preferred(job.detector)[at], encoding)

LEMMA FailedFacts ==
    ASSUME IInv, stage \in Calls
    PROVE  /\ Failed \in Attempts
           /\ Failed.call = stage
           /\ Failed.detector = Preferred(job.detector)[at]
           /\ Failed.encoding = encoding
<1>1. TypeOK
  BY DEF IInv
<1>2. Preferred(job.detector)[at] \in Detectors
  BY <1>1, JobFacts, PreferredDetectors
<1>3. encoding \in Encodings
  BY <1>1 DEF TypeOK
<1>. QED BY <1>2, <1>3 DEF Failed, Attempt, Attempts

LEMMA TriesNextEncoding ==
    ASSUME IInv, stage \in Calls, tried' = tried \cup {Failed}, TryNextEncoding
    PROVE  IInv'
<1>0. /\ TypeOK /\ Walked /\ Ahead /\ OrderOfCalls /\ StageFitsJob /\ ResultsInOrder
      /\ encoding \in 1 .. 3
  BY DEF IInv, TypeOK, Encodings
<1>1. TypeOK'
  <2>1. encoding' \in Encodings
    BY <1>0 DEF TryNextEncoding, Encodings
  <2>. QED BY <1>0, <2>1, FailedFacts DEF TypeOK, TryNextEncoding
<1>2. Walked'
  <2>1. \A i \in Places(job.detector), e \in Encodings :
           Fresh(job.detector, i) /\ i < at => Tried(stage, i, e)'
    BY <1>0 DEF Walked, Tried, TryNextEncoding
  <2>2. \A e \in Encodings : e < encoding' => e < encoding \/ e = encoding
    BY <1>0 DEF TryNextEncoding, Encodings
  <2>3. \A e \in Encodings : e < encoding' => Tried(stage, at, e)'
    BY <1>0, <2>2 DEF Walked, Tried, TryNextEncoding, Failed
  <2>. QED BY <2>1, <2>3 DEF Walked, TryNextEncoding
<1>3. Ahead'
  <2>1. ASSUME NEW a \in tried', a.call = stage
        PROVE  \E i \in Places(job.detector) :
                   /\ a.detector = Preferred(job.detector)[i]
                   /\ i < at \/ (i = at /\ a.encoding < encoding')
    <3>1. CASE a = Failed
      <4>1. a.encoding < encoding' /\ at \in Places(job.detector)
        BY <1>0, <3>1, FailedFacts, JobFacts DEF TryNextEncoding
      <4>. QED BY <3>1, <4>1, FailedFacts
    <3>2. CASE a \in tried
      <4>1. PICK i \in Places(job.detector) :
                   /\ a.detector = Preferred(job.detector)[i]
                   /\ i < at \/ (i = at /\ a.encoding < encoding)
        BY <1>0, <2>1, <3>2 DEF Ahead
      <4>2. a.encoding \in Int
        <5>1. \A b \in Attempts : b.encoding \in Encodings
          BY DEF Attempts
        <5>. QED BY <1>0, <3>2, <5>1 DEF TypeOK, Encodings
      <4>3. a.encoding < encoding => a.encoding < encoding'
        BY <1>0, <4>2 DEF TryNextEncoding
      <4>. QED BY <4>1, <4>3
    <3>. QED BY <2>1, <3>1, <3>2
  <2>. QED BY <2>1 DEF Ahead, TryNextEncoding
<1>4. OrderOfCalls'
  BY <1>0, FailedFacts DEF OrderOfCalls, TryNextEncoding, TriedAll, Calls
<1>5. StageFitsJob' /\ ResultsInOrder'
  BY <1>0 DEF StageFitsJob, ResultsInOrder, TryNextEncoding
<1>6. GivesUpLast' /\ RankingIsHonest'
  BY <1>0 DEF StageFitsJob, GivesUpLast, RankingIsHonest, TryNextEncoding, Calls
<1>. QED BY <1>1, <1>2, <1>3, <1>4, <1>5, <1>6 DEF IInv

LEMMA TriesNextDetector ==
    ASSUME IInv, stage \in Calls, tried' = tried \cup {Failed}, TryNextDetector
    PROVE  IInv'
<1>0. /\ TypeOK /\ Walked /\ Ahead /\ OrderOfCalls /\ StageFitsJob /\ ResultsInOrder
      /\ encoding = 3
  BY DEF IInv, TryNextDetector
<1>a. /\ job.detector \in Detectors /\ at \in Nat /\ at \in Places(job.detector)
      /\ \A i \in Places(job.detector) : i \in Nat
  BY <1>0, JobFacts, PreferredDetectors
<1>b. PICK n \in Left : (\A j \in Left : n <= j) /\ at' = n
  BY DEF TryNextDetector
<1>c. /\ stage # "analyze" /\ n \in Places(job.detector) /\ n > at
      /\ Fresh(job.detector, n) /\ n \in Nat
  BY <1>a, <1>b DEF Left
<1>d. ASSUME NEW i \in Places(job.detector), Fresh(job.detector, i), i < n
      PROVE  i < at \/ i = at
  <2>1. i > at => i \in Left
    BY <1>c, <1>d DEF Left
  <2>. QED BY <1>a, <1>b, <1>c, <1>d, <2>1
<1>1. TypeOK'
  BY <1>0, <1>b, <1>c, FailedFacts DEF TypeOK, TryNextDetector, Encodings
<1>2. Walked'
  <2>1. ASSUME NEW i \in Places(job.detector), NEW e \in Encodings,
               Fresh(job.detector, i), i < n
        PROVE  Tried(stage, i, e)'
    <3>1. CASE i < at
      BY <1>0, <2>1, <3>1 DEF Walked, Tried, TryNextDetector
    <3>2. CASE i = at
      <4>1. e < encoding \/ e = encoding
        BY <1>0 DEF Encodings
      <4>. QED BY <1>0, <3>2, <4>1 DEF Walked, Tried, TryNextDetector, Failed
    <3>. QED BY <1>d, <2>1, <3>1, <3>2
  <2>2. \A e \in Encodings : ~(e < encoding')
    BY DEF TryNextDetector, Encodings
  <2>. QED BY <1>b, <2>1, <2>2 DEF Walked, TryNextDetector
<1>3. Ahead'
  <2>1. ASSUME NEW a \in tried', a.call = stage
        PROVE  \E i \in Places(job.detector) :
                   a.detector = Preferred(job.detector)[i] /\ i < n
    <3>1. CASE a = Failed
      BY <1>a, <1>c, <3>1, FailedFacts
    <3>2. CASE a \in tried
      <4>1. PICK i \in Places(job.detector) :
                   /\ a.detector = Preferred(job.detector)[i]
                   /\ i < at \/ i = at
        BY <1>0, <2>1, <3>2 DEF Ahead
      <4>2. i \in Nat /\ at \in Nat /\ n \in Nat /\ n > at
        BY <1>a, <1>c
      <4>3. i < n
        BY <4>1, <4>2
      <4>. QED BY <4>1, <4>3
    <3>. QED BY <2>1, <3>1, <3>2
  <2>. QED BY <1>b, <2>1 DEF Ahead, TryNextDetector
<1>4. OrderOfCalls'
  BY <1>0, FailedFacts DEF OrderOfCalls, TryNextDetector, TriedAll, Calls
<1>5. StageFitsJob' /\ ResultsInOrder'
  BY <1>0, <1>b, <1>c DEF StageFitsJob, ResultsInOrder, TryNextDetector
<1>6. GivesUpLast' /\ RankingIsHonest'
  BY <1>0 DEF StageFitsJob, GivesUpLast, RankingIsHonest, TryNextDetector, Calls
<1>. QED BY <1>1, <1>2, <1>3, <1>4, <1>5, <1>6 DEF IInv

(* At the end of both loops every way has been tried.                      *)
LEMMA AllTried ==
    ASSUME IInv, stage \in Calls, tried' = tried \cup {Failed}, encoding = 3,
           NEW d \in Candidates(job.detector), NEW e \in Encodings,
           {i \in Places(job.detector) : i > at /\ Fresh(job.detector, i)} = {}
    PROVE  Attempt(stage, d, e) \in tried'
<1>0. TypeOK /\ Walked /\ job.detector \in Detectors /\ at \in Nat
      /\ at \in Places(job.detector) /\ \A i \in Places(job.detector) : i \in Nat
  BY JobFacts, PreferredDetectors DEF IInv
<1>1. PICK i \in Places(job.detector) :
         Fresh(job.detector, i) /\ Preferred(job.detector)[i] = d
  BY <1>0, FreshPlaceExists
<1>2. i < at \/ i = at
  <2>1. ~(i > at) /\ i \in Nat /\ at \in Nat
    BY <1>0, <1>1
  <2>. QED BY <2>1
<1>3. CASE i < at
  BY <1>0, <1>1, <1>3 DEF Walked, Tried
<1>4. CASE i = at
  <2>1. e < encoding \/ e = encoding
    BY DEF Encodings
  <2>2. CASE e < encoding
    BY <1>0, <1>1, <1>4, <2>2 DEF Walked, Tried
  <2>3. CASE e = encoding
    BY <1>1, <1>4, <2>3 DEF Failed
  <2>. QED BY <2>1, <2>2, <2>3
<1>. QED BY <1>2, <1>3, <1>4

LEMMA AnalyzeTried ==
    ASSUME IInv, stage = "analyze", tried' = tried \cup {Failed}, encoding = 3,
           NEW e \in Encodings
    PROVE  Attempt("analyze", job.detector, e) \in tried'
<1>0. TypeOK /\ Walked /\ job.detector \in Detectors /\ stage \in Calls
      /\ at \in Places(job.detector)
  BY JobFacts DEF IInv, Calls
<1>1. /\ 1 \in Places(job.detector) /\ Fresh(job.detector, 1)
      /\ Preferred(job.detector)[1] = job.detector
      /\ at \in Nat /\ at >= 1
  BY <1>0, PreferredDetectors
<1>2. CASE 1 < at
  BY <1>0, <1>1, <1>2 DEF Walked, Tried
<1>3. CASE at = 1
  <2>1. e < encoding \/ e = encoding
    BY DEF Encodings
  <2>2. CASE e < encoding
    BY <1>0, <1>1, <1>3, <2>2 DEF Walked, Tried
  <2>3. CASE e = encoding
    BY <1>1, <1>3, <2>3 DEF Failed
  <2>. QED BY <2>1, <2>2, <2>3
<1>. QED BY <1>1, <1>2, <1>3

LEMMA GivesUp ==
    ASSUME IInv, stage \in Calls, tried' = tried \cup {Failed}, GiveUp
    PROVE  IInv'
<1>0. /\ TypeOK /\ OrderOfCalls /\ StageFitsJob /\ ResultsInOrder
      /\ encoding = 3 /\ Left = {} /\ tried' \subseteq Attempts
      /\ job.detector \in Detectors
  BY FailedFacts, JobFacts DEF IInv, TypeOK, GiveUp
<1>1. CASE stage = "verify"
  <2>1. /\ Begin("query_embedding")
        /\ UNCHANGED <<job, image, faceless, results, answer, error, because>>
    BY <1>1 DEF GiveUp
  <2>2. \A a \in tried' : a.call = "verify"
    BY <1>0, <1>1, FailedFacts DEF OrderOfCalls
  <2>3. TypeOK'
    <3>1. 1 \in Places(job.detector) /\ 1 \in Encodings
      BY <1>0, PreferredDetectors DEF Encodings
    <3>. QED BY <1>0, <2>1, <3>1 DEF TypeOK, Begin, Calls
  <2>4. Walked' /\ Ahead' /\ Fresh(job'.detector, at')
    BY <1>0, <2>1, <2>2, FreshStart DEF Begin, Calls
  <2>5. \A d \in Candidates(job.detector), e \in Encodings :
           Attempt("verify", d, e) \in tried'
    BY <1>0, <1>1, AllTried DEF Left
  <2>6. OrderOfCalls'
    BY <2>1, <2>2, <2>5 DEF OrderOfCalls, Begin, TriedAll
  <2>7. StageFitsJob'
    BY <1>0, <1>1, <2>1, <2>4 DEF StageFitsJob, Begin, Calls
  <2>8. ResultsInOrder'
    BY <1>0, <1>1, <2>1 DEF ResultsInOrder, Begin, Calls
  <2>9. GivesUpLast' /\ RankingIsHonest'
    BY <1>0, <1>1, <2>1 DEF StageFitsJob, GivesUpLast, RankingIsHonest, Begin
  <2>. QED BY <2>3, <2>4, <2>6, <2>7, <2>8, <2>9 DEF IInv
<1>2. CASE stage = "analyze"
  <2>1. Raise("library", "gave_up")
    BY <1>2 DEF GiveUp
  <2>2. \A e \in Encodings : Attempt("analyze", job.detector, e) \in tried'
    BY <1>0, <1>2, AnalyzeTried
  <2>3. GivesUpLast'
    BY <1>0, <1>2, <2>1, <2>2 DEF GivesUpLast, Raise, TriedAll, StageFitsJob
  <2>. QED BY <1>0, <2>1, <2>3, Raises
<1>3. CASE stage \in {"query_embedding", "image_embedding"}
  <2>1. Raise("ValueError", "gave_up")
    BY <1>3 DEF GiveUp
  <2>2. \A d \in Candidates(job.detector), e \in Encodings :
           Attempt(stage, d, e) \in tried'
    BY <1>0, <1>3, AllTried DEF Left
  <2>3. job.op # "extract" => \A d \in Candidates(job.detector), e \in Encodings :
                                 Attempt("verify", d, e) \in tried'
    BY <1>0, <1>3 DEF OrderOfCalls, TriedAll
  <2>4. job' = job /\ job.op # "analyze"
    BY <1>0, <1>3, <2>1 DEF StageFitsJob, Raise
  <2>5. GivesUpLast'
    BY <1>3, <2>2, <2>3, <2>4 DEF GivesUpLast, TriedAll
  <2>. QED BY <1>0, <2>1, <2>5, Raises
<1>. QED BY <1>1, <1>2, <1>3 DEF Calls

LEMMA CallFailing == IInv /\ CallFails => IInv'
<1>. SUFFICES ASSUME IInv, CallFails PROVE IInv'
  OBVIOUS
<1>1. stage \in Calls /\ tried' = tried \cup {Failed}
  BY DEF CallFails, Failed
<1>2. TryNextEncoding \/ TryNextDetector \/ GiveUp
  BY DEF CallFails
<1>. QED BY <1>1, <1>2, TriesNextEncoding, TriesNextDetector, GivesUp

(***************************************************************************)
(* A call answers.                                                         *)
(***************************************************************************)
LEMMA AppendedItem ==
    ASSUME NEW s \in Seq(Comparison), NEW c \in Comparison,
           NEW i \in 1 .. Len(s) + 1
    PROVE  /\ i = Len(s) + 1 => Append(s, c)[i] = c
           /\ i # Len(s) + 1 => Append(s, c)[i] = s[i] /\ i \in DOMAIN s
OBVIOUS

LEMMA Compares ==
    ASSUME IInv, stage \in {"verify", "image_embedding"},
           NEW d \in Distance, NEW by \in {"library", "hand"}, Compared(d, by)
    PROVE  IInv'
<1>. DEFINE c == [image |-> image, distance |-> d, by |-> by]
            rs == Append(results, c)
<1>0. /\ TypeOK /\ StageFitsJob /\ ResultsInOrder
      /\ image \in Nat /\ image >= 1 /\ image <= job.images
      /\ job.images \in Nat /\ job.images <= MaxImages
      /\ job.detector \in Detectors
      /\ results \in Seq(Comparison)
  BY JobFacts DEF IInv, TypeOK
<1>1. c \in Comparison
  <2>1. image \in 1 .. MaxImages
    BY <1>0, WorkerAssumption
  <2>. QED BY <2>1 DEF Comparison
<1>2. /\ job.op \in {"verify", "find"}
      /\ because = "nothing" /\ error = "none"
      /\ Len(results) = image - 1
      /\ \A i \in DOMAIN results : results[i].image = i
  BY <1>0 DEF StageFitsJob, ResultsInOrder, Calls
<1>. HIDE DEF c
<1>3. rs \in Seq(Comparison) /\ Len(rs) = image
  BY <1>0, <1>1, <1>2
<1>. HIDE DEF rs
<1>4. \A i \in DOMAIN rs : rs[i].image = i
  <2>1. ASSUME NEW i \in 1 .. image PROVE rs[i].image = i
    <3>1. CASE i = image
      <4>1. rs[i] = c
        BY <1>0, <1>1, <1>2, <3>1, AppendedItem DEF rs
      <4>2. c.image = image
        BY DEF c
      <4>. QED BY <3>1, <4>1, <4>2
    <3>2. CASE i \in 1 .. image - 1
      <4>1. rs[i] = results[i] /\ i \in DOMAIN results
        BY <1>0, <1>1, <1>2, <3>2, AppendedItem DEF rs
      <4>. QED BY <1>2, <4>1
    <3>. QED BY <1>0, <3>1, <3>2
  <2>2. DOMAIN rs = 1 .. image
    BY <1>3, DistancesAreNumbers
  <2>. QED BY <2>1, <2>2
<1>5. /\ results' = rs
      /\ \/ NextImage
         \/ image = job.images /\ Finish(rs)
  BY DEF Compared, rs, c
<1>6. CASE NextImage
  <2>1. /\ image < job.images /\ image' = image + 1 /\ stage' = "image"
        /\ at' = 1 /\ encoding' = 1 /\ faceless' = FALSE /\ tried' = {}
        /\ UNCHANGED <<job, answer, error, because>>
    BY <1>6 DEF NextImage, Begin
  <2>2. TypeOK'
    <3>1. 1 \in Places(job.detector) /\ 1 \in Encodings
      BY <1>0, PreferredDetectors DEF Encodings
    <3>2. image' \in 1 .. job.images
      BY <1>0, <2>1
    <3>. QED BY <1>0, <1>3, <1>5, <2>1, <3>1, <3>2 DEF TypeOK
  <2>3. Walked' /\ Ahead' /\ OrderOfCalls' /\ StageFitsJob'
    BY <1>2, <2>1 DEF Walked, Ahead, OrderOfCalls, StageFitsJob, Calls
  <2>4. ResultsInOrder'
    <3>1. Len(results') = image' - 1 /\ \A i \in DOMAIN results' : results'[i].image = i
      BY <1>0, <1>3, <1>4, <1>5, <2>1
    <3>. QED BY <3>1 DEF ResultsInOrder
  <2>5. GivesUpLast' /\ RankingIsHonest'
    BY <1>2, <2>1 DEF GivesUpLast, RankingIsHonest
  <2>. QED BY <2>2, <2>3, <2>4, <2>5 DEF IInv
<1>7. CASE image = job.images /\ Finish(rs)
  BY <1>2, <1>3, <1>4, <1>5, <1>7, Finishes
<1>. QED BY <1>5, <1>6, <1>7

LEMMA EmbeddingQuery == IInv /\ EmbedsQuery => IInv'
<1>. SUFFICES ASSUME IInv, EmbedsQuery PROVE IInv'
  OBVIOUS
<1>0. /\ TypeOK /\ OrderOfCalls /\ StageFitsJob /\ ResultsInOrder
      /\ stage = "query_embedding" /\ job.op # "analyze"
      /\ because = "nothing" /\ error = "none"
      /\ tried \subseteq Attempts
      /\ job.op \in {"verify", "find", "analyze", "extract"}
      /\ job.detector \in Detectors
  BY JobFacts DEF IInv, TypeOK, EmbedsQuery, StageFitsJob
<1>1. CASE job.op = "extract"
  <2>1. \/ Raise("ValueError", "no_face") /\ UNCHANGED tried
        \/ Finish(<<>>) /\ UNCHANGED results
    BY <1>1 DEF EmbedsQuery
  <2>2. CASE Raise("ValueError", "no_face") /\ UNCHANGED tried
    BY <1>0, <2>2, Raises
  <2>3. CASE Finish(<<>>) /\ UNCHANGED results
    <3>1. <<>> \in Seq(Comparison) /\ results' \in Seq(Comparison)
      BY <1>0, <2>3 DEF TypeOK
    <3>. QED BY <1>0, <1>1, <2>3, <3>1, Finishes
  <2>. QED BY <2>1, <2>2, <2>3
<1>2. CASE job.op # "extract"
  <2>1. /\ stage' = "image_embedding" /\ at' = 1 /\ encoding' = 1
        /\ faceless' \in BOOLEAN
        /\ UNCHANGED <<job, image, results, answer, error, tried, because>>
    BY <1>2 DEF EmbedsQuery, Begin
  <2>2. \A a \in tried' : a.call # "image_embedding"
    BY <1>0, <2>1 DEF OrderOfCalls
  <2>3. TypeOK'
    <3>1. 1 \in Places(job.detector) /\ 1 \in Encodings
      BY <1>0, PreferredDetectors DEF Encodings
    <3>. QED BY <1>0, <2>1, <3>1 DEF TypeOK, Calls
  <2>4. Walked' /\ Ahead' /\ Fresh(job'.detector, at')
    BY <1>0, <2>1, <2>2, FreshStart DEF Calls
  <2>5. OrderOfCalls'
    BY <1>0, <1>2, <2>1 DEF OrderOfCalls, TriedAll
  <2>6. StageFitsJob' /\ ResultsInOrder'
    BY <1>0, <1>2, <2>1, <2>4 DEF StageFitsJob, ResultsInOrder, Calls
  <2>7. GivesUpLast' /\ RankingIsHonest'
    BY <1>0, <2>1 DEF GivesUpLast, RankingIsHonest
  <2>. QED BY <2>3, <2>4, <2>5, <2>6, <2>7 DEF IInv
<1>. QED BY <1>1, <1>2

LEMMA Working == IInv /\ Work => IInv'
<1>. SUFFICES ASSUME IInv, Work PROVE IInv'
  OBVIOUS
<1>0. /\ TypeOK /\ tried \subseteq Attempts /\ StageFitsJob
      /\ results \in Seq(Comparison)
  BY DEF IInv, TypeOK
<1>1. CASE Unreadable
  BY <1>0, <1>1, Raises DEF Unreadable
<1>2. CASE ReadQuery \/ ReadImage
  BY <1>2, Reading
<1>3. CASE CallFails
  BY <1>3, CallFailing
<1>4. CASE CallRaises
  BY <1>0, <1>4, Raises DEF CallRaises
<1>5. CASE Verifies
  BY <1>5, Compares DEF Verifies
<1>6. CASE Analyzes
  <2>1. /\ Finish(<<>>) /\ results' = results
        /\ job.op = "analyze" /\ because = "nothing"
    BY <1>0, <1>6 DEF Analyzes, StageFitsJob
  <2>2. <<>> \in Seq(Comparison)
    OBVIOUS
  <2>. QED BY <1>0, <2>1, <2>2, Finishes
<1>7. CASE EmbedsQuery
  BY <1>7, EmbeddingQuery
<1>8. CASE EmbedsImage
  <2>1. CASE Raise("IndexError", "no_face") /\ UNCHANGED tried
    BY <1>0, <2>1, Raises
  <2>2. CASE ~faceless /\ \E d \in Distance : Compared(d, "hand")
    BY <1>8, <2>2, Compares DEF EmbedsImage
  <2>. QED BY <1>8, <2>1, <2>2 DEF EmbedsImage
<1>. QED BY <1>1, <1>2, <1>3, <1>4, <1>5, <1>6, <1>7, <1>8 DEF Work

LEMMA Stutters == IInv /\ UNCHANGED vars => IInv'
<1>. SUFFICES ASSUME IInv, UNCHANGED vars PROVE IInv'
  OBVIOUS
<1>1. TypeOK'
  BY DEF IInv, TypeOK, vars
<1>2. Walked' /\ Ahead'
  BY DEF IInv, Walked, Ahead, Tried, vars
<1>3. OrderOfCalls' /\ StageFitsJob' /\ ResultsInOrder'
  BY DEF IInv, OrderOfCalls, StageFitsJob, ResultsInOrder, TriedAll, vars
<1>4. GivesUpLast' /\ RankingIsHonest'
  BY DEF IInv, GivesUpLast, RankingIsHonest, TriedAll, Verified, Threshold, vars
<1>. QED BY <1>1, <1>2, <1>3, <1>4 DEF IInv

LEMMA Inductive == Spec => []IInv
<1>1. IInv /\ [Next]_vars => IInv'
  <2>. SUFFICES ASSUME IInv, [Next]_vars PROVE IInv'
    OBVIOUS
  <2>1. CASE Return
    BY <2>1, Returns
  <2>2. CASE Work
    BY <2>2, Working
  <2>3. CASE \E j \in Job : Take(j)
    BY <2>3, Takes
  <2>4. CASE UNCHANGED vars
    BY <2>4, Stutters
  <2>. QED BY <2>1, <2>2, <2>3, <2>4 DEF Next
<1>. QED BY <1>1, Initially, PTL DEF Spec

-----------------------------------------------------------------------------
(***************************************************************************)
(* The worker's state keeps its types, through any list of detectors and   *)
(* any number of images.                                                   *)
(***************************************************************************)
THEOREM TypeCorrect == Spec => []TypeOK
<1>1. IInv => TypeOK
  BY DEF IInv
<1>. QED BY <1>1, Inductive, PTL

(***************************************************************************)
(* _verify_with_variants and _represent_with_variants fail only after      *)
(* every detector and every encoding.                                      *)
(***************************************************************************)
THEOREM GivesUpLastAlways == Spec => []GivesUpLast
<1>1. IInv => GivesUpLast
  BY DEF IInv
<1>. QED BY <1>1, Inductive, PTL

(***************************************************************************)
(* No way that failed is tried again, whichever of the detectors repeat.   *)
(***************************************************************************)
THEOREM NothingTriedTwiceAlways == Spec => []NothingTriedTwice
<1>1. IInv => NothingTriedTwice
  <2>. SUFFICES ASSUME IInv, stage \in Calls, Failed \in tried PROVE FALSE
    BY DEF NothingTriedTwice, Failed
  <2>1. /\ TypeOK /\ Ahead /\ job.detector \in Detectors /\ at \in Nat
        /\ at \in Places(job.detector) /\ Fresh(job.detector, at)
        /\ encoding \in Int
    BY JobFacts DEF IInv, TypeOK, StageFitsJob, Encodings
  <2>2. PICK i \in Places(job.detector) :
           /\ Preferred(job.detector)[at] = Preferred(job.detector)[i]
           /\ i < at \/ (i = at /\ encoding < encoding)
    BY <2>1, FailedFacts DEF Ahead
  <2>3. i < at
    BY <2>1, <2>2
  <2>. QED BY <2>1, <2>2, <2>3, FreshPlacesDiffer
<1>. QED BY <1>1, Inductive, PTL

(***************************************************************************)
(* find's answer is the whole list, sorted by distance, stably.            *)
(***************************************************************************)
THEOREM RankingIsHonestAlways == Spec => []RankingIsHonest
<1>1. IInv => RankingIsHonest
  BY DEF IInv
<1>. QED BY <1>1, Inductive, PTL

-----------------------------------------------------------------------------
(***************************************************************************)
(* The measure.  At any place of the two loops there is at least one way   *)
(* left, and never more than all of them.                                  *)
(***************************************************************************)
WayIsLeft == /\ Ways \in Nat
             /\ WaysLeft \in 1 .. Ways
             /\ PerImage = 1 + 3 * Ways

LEMMA TypeLeavesAWay == TypeOK => WayIsLeft
<1>. SUFFICES ASSUME TypeOK PROVE WayIsLeft
  OBVIOUS
<1>1. /\ at \in 1 .. Len(Preferred(job.detector)) /\ Len(Preferred(job.detector)) \in Nat
      /\ encoding \in 1 .. 3
  BY JobFacts, PreferredDetectors DEF TypeOK, Encodings
<1>. QED BY <1>1 DEF WayIsLeft, Ways, WaysLeft, PerImage

LeftByStage ==
    /\ stage = "query" => LeftOfImage = 1 + PerImage
    /\ stage = "image" => LeftOfImage = PerImage
    /\ stage = "verify" => LeftOfImage = WaysLeft + 2 * Ways
    /\ stage = "query_embedding" => LeftOfImage = WaysLeft + Ways
    /\ stage \in {"image_embedding", "analyze"} => LeftOfImage = WaysLeft
    /\ stage \in {"over", "idle"} => LeftOfImage = 0

LEMMA StageTellsWhatIsLeft == LeftByStage
<1>1. stage = "query" => LeftOfImage = 1 + PerImage
  BY DEF LeftOfImage
<1>2. stage = "image" => LeftOfImage = PerImage
  BY DEF LeftOfImage
<1>3. stage = "verify" => LeftOfImage = WaysLeft + 2 * Ways
  BY DEF LeftOfImage
<1>4. stage = "query_embedding" => LeftOfImage = WaysLeft + Ways
  BY DEF LeftOfImage
<1>5. stage \in {"image_embedding", "analyze"} => LeftOfImage = WaysLeft
  BY DEF LeftOfImage
<1>6. stage \in {"over", "idle"} => LeftOfImage = 0
  BY DEF LeftOfImage
<1>. QED BY <1>1, <1>2, <1>3, <1>4, <1>5, <1>6 DEF LeftByStage

LEMMA OneImageLess ==
    ASSUME NEW n \in Nat, NEW k \in Nat, NEW p \in Nat, k < n
    PROVE  /\ (n - k) * p \in Nat
           /\ (n - (k + 1)) * p \in Nat
           /\ (n - (k + 1)) * p + p = (n - k) * p
OBVIOUS

(***************************************************************************)
(* What each kind of step does to what is left: a step that keeps to the   *)
(* image, and one that goes on to the next.                                *)
(***************************************************************************)
LEMMA SameImage ==
    ASSUME TypeOK, WayIsLeft, job' = job, image' = image,
           LeftOfImage \in Nat, LeftOfImage' \in 0 .. LeftOfImage - 1
    PROVE  StepsLeft' \in 0 .. StepsLeft - 1
<1>1. PerImage' = PerImage
  BY DEF PerImage, Ways
<1>2. (job.images - image) * PerImage \in Nat
  <2>1. job.images - image \in Nat /\ PerImage \in Nat
    BY JobFacts DEF WayIsLeft
  <2>. QED BY <2>1
<1>. QED BY <1>1, <1>2 DEF StepsLeft

LEMMA ToTheNextImage ==
    ASSUME TypeOK, WayIsLeft, job' = job, image < job.images, image' = image + 1,
           LeftOfImage \in Nat, LeftOfImage >= 1, LeftOfImage' = PerImage'
    PROVE  StepsLeft' \in 0 .. StepsLeft - 1
<1>1. PerImage' = PerImage /\ PerImage \in Nat
  BY DEF PerImage, Ways, WayIsLeft
<1>. DEFINE now == (job.images - image) * PerImage
            then == (job.images - (image + 1)) * PerImage
<1>2. now \in Nat /\ then \in Nat /\ then + PerImage = now
  BY <1>1, JobFacts, OneImageLess
<1>3. StepsLeft = LeftOfImage + now /\ StepsLeft' = PerImage + then
  BY <1>1 DEF StepsLeft
<1>. HIDE DEF now, then
<1>. QED BY <1>1, <1>2, <1>3

LEMMA StageLeavesSteps ==
    ASSUME TypeOK, WayIsLeft, LeftByStage, stage \notin {"idle", "over"}
    PROVE  LeftOfImage \in Nat /\ LeftOfImage >= 1
BY DEF TypeOK, Calls, WayIsLeft, LeftByStage

(* A step that ends the job leaves nothing of the image.                   *)
LEMMA EndingRunsOut ==
    ASSUME TypeOK, WayIsLeft, LeftByStage, LeftByStage', stage \notin {"idle", "over"},
           stage' = "over", UNCHANGED <<job, image>>
    PROVE  StepsLeft' \in 0 .. StepsLeft - 1
<1>1. LeftOfImage' = 0
  BY DEF LeftByStage
<1>. QED BY <1>1, StageLeavesSteps, SameImage

LEMMA ComparingRunsOut ==
    ASSUME TypeOK, WayIsLeft, LeftByStage, LeftByStage', stage \notin {"idle", "over"},
           NEW d, NEW by, Compared(d, by)
    PROVE  StepsLeft' \in 0 .. StepsLeft - 1
<1>1. CASE NextImage
  <2>1. image < job.images /\ image' = image + 1 /\ job' = job /\ stage' = "image"
    BY <1>1 DEF NextImage, Begin
  <2>2. LeftOfImage' = PerImage'
    BY <2>1 DEF LeftByStage
  <2>. QED BY <2>1, <2>2, StageLeavesSteps, ToTheNextImage
<1>2. CASE Finish(results')
  BY <1>2, EndingRunsOut DEF Finish
<1>. QED BY <1>1, <1>2 DEF Compared

(* A failed call uses up its way: the next encoding, the next detector or  *)
(* the embeddings are further on.                                          *)
LEMMA FailingRunsOut ==
    ASSUME IInv, IInv', WayIsLeft, WayIsLeft', LeftByStage, LeftByStage', CallFails
    PROVE  StepsLeft' \in 0 .. StepsLeft - 1
<1>0. /\ TypeOK /\ stage \in Calls /\ StageFitsJob
      /\ at \in Nat /\ encoding \in 1 .. 3
  BY JobFacts DEF IInv, TypeOK, CallFails, Encodings
<1>a. /\ LeftOfImage \in Nat /\ LeftOfImage >= 1
      /\ stage \notin {"idle", "over"}
  BY <1>0, StageLeavesSteps DEF Calls
<1>1. ASSUME job' = job, image' = image, stage' = stage, WaysLeft' < WaysLeft
      PROVE  StepsLeft' \in 0 .. StepsLeft - 1
  <2>1. Ways' = Ways
    BY <1>1 DEF Ways
  <2>2. LeftOfImage' \in 0 .. LeftOfImage - 1
    BY <1>0, <1>1, <2>1 DEF LeftByStage, WayIsLeft, Calls
  <2>. QED BY <1>0, <1>1, <1>a, <2>2, SameImage
<1>2. CASE TryNextEncoding
  <2>1. /\ job' = job /\ image' = image /\ stage' = stage
        /\ at' = at /\ encoding' = encoding + 1
    BY <1>2 DEF TryNextEncoding
  <2>2. WaysLeft' < WaysLeft
    BY <1>0, <2>1 DEF WaysLeft, Ways, WayIsLeft
  <2>. QED BY <1>1, <2>1, <2>2
<1>3. CASE TryNextDetector
  <2>1. PICK i \in Left : at' = i
    BY <1>3 DEF TryNextDetector
  <2>2. /\ job' = job /\ image' = image /\ stage' = stage
        /\ encoding = 3 /\ encoding' = 1
    BY <1>3 DEF TryNextDetector
  <2>3. at' \in Nat /\ at' > at
    <3>1. i \in Places(job.detector) /\ i > at
      BY <2>1 DEF Left
    <3>. QED BY <1>0, <2>1, <3>1, JobFacts, PreferredDetectors
  <2>4. WaysLeft' < WaysLeft
    BY <1>0, <2>2, <2>3 DEF WaysLeft, Ways, WayIsLeft
  <2>. QED BY <1>1, <2>2, <2>4
<1>4. CASE GiveUp /\ stage = "verify"
  <2>1. /\ stage' = "query_embedding" /\ at' = 1 /\ encoding' = 1
        /\ job' = job /\ image' = image
    BY <1>4 DEF GiveUp, Begin
  <2>2. Ways' = Ways /\ WaysLeft' = Ways
    BY <2>1 DEF Ways, WaysLeft, WayIsLeft
  <2>3. LeftOfImage' = Ways + Ways /\ LeftOfImage = WaysLeft + 2 * Ways
    BY <1>4, <2>1, <2>2 DEF LeftByStage
  <2>4. LeftOfImage' \in 0 .. LeftOfImage - 1
    BY <2>3 DEF WayIsLeft
  <2>. QED BY <1>0, <1>a, <2>1, <2>4, SameImage
<1>5. CASE GiveUp /\ stage # "verify"
  <2>1. stage' = "over" /\ UNCHANGED <<job, image>>
    BY <1>5 DEF GiveUp, Raise
  <2>. QED BY <1>0, <1>a, <2>1, EndingRunsOut
<1>. QED BY <1>2, <1>3, <1>4, <1>5 DEF CallFails

LEMMA WorkingRunsOut ==
    ASSUME IInv, IInv', WayIsLeft, WayIsLeft', LeftByStage, LeftByStage', Work
    PROVE  StepsLeft' \in 0 .. StepsLeft - 1
<1>0. TypeOK /\ StageFitsJob /\ job.op \in {"verify", "find", "analyze", "extract"}
  BY JobFacts DEF IInv
<1>1. stage \notin {"idle", "over"}
  BY DEF Work, Unreadable, ReadQuery, ReadImage, CallFails, CallRaises, Verifies,
         Analyzes, EmbedsQuery, EmbedsImage, Calls
<1>a. LeftOfImage \in Nat /\ LeftOfImage >= 1
  BY <1>0, <1>1, StageLeavesSteps
<1>2. ASSUME stage' = "over", UNCHANGED <<job, image>>
      PROVE  StepsLeft' \in 0 .. StepsLeft - 1
  BY <1>0, <1>1, <1>2, EndingRunsOut
<1>3. CASE Unreadable \/ CallRaises
  <2>1. stage' = "over" /\ UNCHANGED <<job, image>>
    BY <1>3 DEF Unreadable, CallRaises, Raise
  <2>. QED BY <1>2, <2>1
<1>4. CASE ReadQuery
  <2>1. /\ stage = "query" /\ stage' \in {"analyze", "query_embedding", "image"}
        /\ UNCHANGED <<job, image>>
    BY <1>4 DEF ReadQuery, Reads
  <2>2. Ways' = Ways /\ PerImage' = PerImage
    BY <2>1 DEF Ways, PerImage
  <2>3. LeftOfImage' \in 0 .. LeftOfImage - 1
    BY <2>1, <2>2 DEF LeftByStage, WayIsLeft
  <2>. QED BY <1>0, <1>a, <2>1, <2>3, SameImage
<1>5. CASE ReadImage
  <2>1. stage = "image" /\ stage' = "verify" /\ UNCHANGED <<job, image>>
    BY <1>5 DEF ReadImage, Reads
  <2>2. Ways' = Ways
    BY <2>1 DEF Ways
  <2>3. /\ Ways \in Nat /\ WaysLeft' \in 1 .. Ways
        /\ LeftOfImage = 1 + 3 * Ways
        /\ LeftOfImage' = WaysLeft' + 2 * Ways
    BY <2>1, <2>2 DEF LeftByStage, WayIsLeft
  <2>4. ASSUME NEW w \in Nat, NEW x \in 1 .. w
        PROVE  x + 2 * w \in 0 .. (1 + 3 * w) - 1
    OBVIOUS
  <2>5. LeftOfImage' \in 0 .. LeftOfImage - 1
    BY <2>3, <2>4
  <2>. QED BY <1>0, <1>a, <2>1, <2>5, SameImage
<1>6. CASE CallFails
  BY <1>6, FailingRunsOut
<1>7. CASE Verifies
  BY <1>0, <1>1, <1>7, ComparingRunsOut DEF Verifies
<1>8. CASE Analyzes
  BY <1>2, <1>8 DEF Analyzes, Finish
<1>9. CASE EmbedsQuery
  <2>1. CASE job.op = "extract"
    <3>1. stage' = "over" /\ UNCHANGED <<job, image>>
      BY <1>9, <2>1 DEF EmbedsQuery, Raise, Finish
    <3>. QED BY <1>2, <3>1
  <2>2. CASE job.op # "extract"
    <3>1. /\ stage = "query_embedding" /\ stage' = "image_embedding"
          /\ UNCHANGED <<job, image>>
      BY <1>9, <2>2 DEF EmbedsQuery, Begin
    <3>2. Ways' = Ways
      BY <3>1 DEF Ways
    <3>3. LeftOfImage' \in 0 .. LeftOfImage - 1
      BY <3>1, <3>2 DEF LeftByStage, WayIsLeft
    <3>. QED BY <1>0, <1>a, <3>1, <3>3, SameImage
  <2>. QED BY <2>1, <2>2
<1>10. CASE EmbedsImage
  <2>1. CASE Raise("IndexError", "no_face")
    BY <1>2, <2>1 DEF Raise
  <2>2. CASE \E d \in Distance : Compared(d, "hand")
    BY <1>0, <1>1, <2>2, ComparingRunsOut
  <2>. QED BY <1>10, <2>1, <2>2 DEF EmbedsImage
<1>. QED BY <1>3, <1>4, <1>5, <1>6, <1>7, <1>8, <1>9, <1>10 DEF Work

(***************************************************************************)
(* Every job runs out of steps, for every list of fallbacks, repetitions   *)
(* included, and every number of images: what JobEnds needs besides that   *)
(* the calls of DeepFace end.                                              *)
(***************************************************************************)
THEOREM WorkRunsOutAlways == Spec => WorkRunsOut
<1>. DEFINE Less == stage \notin {"idle", "over"} => StepsLeft' \in 0 .. StepsLeft - 1
<1>1. IInv /\ IInv' /\ WayIsLeft /\ WayIsLeft' /\ LeftByStage /\ LeftByStage' /\ [Next]_vars
         => [Less]_vars
  <2>. SUFFICES ASSUME IInv, IInv', WayIsLeft, WayIsLeft', LeftByStage, LeftByStage',
                       Next, stage \notin {"idle", "over"}
                PROVE  StepsLeft' \in 0 .. StepsLeft - 1
    BY DEF vars
  <2>1. Work
    BY DEF Next, Return, Take
  <2>. QED BY <2>1, WorkingRunsOut
<1>2. IInv => WayIsLeft
  BY TypeLeavesAWay DEF IInv
<1>3. LeftByStage
  BY StageTellsWhatIsLeft
<1>. QED BY <1>1, <1>2, <1>3, Inductive, PTL DEF Spec, WorkRunsOut
=============================================================================
