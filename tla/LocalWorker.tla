---------------------------- MODULE LocalWorker ----------------------------
(***************************************************************************)
(* LocalWorker of app/tasks.py, which does the work of every backend: one  *)
(* job at a time over DeepFace, whose calls may answer, fail in a way the  *)
(* worker retries (AttributeError, TypeError, ValueError), or raise        *)
(* something else.  A failed call is tried again with the image in another *)
(* encoding, then with another detector; when verify has failed every way, *)
(* the two embeddings are computed and compared here.                      *)
(*                                                                         *)
(* verify compares the first image of the job, the query, with one other,  *)
(* find with each image of a list.                                         *)
(***************************************************************************)
EXTENDS Integers, Sequences, FiniteSets

CONSTANTS Detectors,         \* those a request may name
          Fallbacks,         \* those tried after it, in order
          MaxImages,         \* bound of the model: the images find is given
          MaxDistance,       \* bound of the model: distances are 0 .. MaxDistance
          LibraryThreshold,  \* what DeepFace.verify holds a distance against
          DefaultThreshold   \* _default_threshold

ASSUME WorkerAssumption ==
    /\ Fallbacks \in Seq(Detectors)
    /\ MaxImages \in Nat \ {0}
    /\ MaxDistance \in Nat /\ LibraryThreshold \in Nat /\ DefaultThreshold \in Nat

VARIABLES
    job,       \* what the worker was asked
    stage,     \* what it is at
    image,     \* the image compared with the query, by its place in the list
    at,        \* the place of the detector among those to try
    encoding,  \* how the image is handed over
    faceless,  \* the query's embedding came back as an empty list
    results,   \* the comparisons made
    answer,    \* the comparisons returned
    error,     \* the class of the exception raised
    tried,     \* history: the calls that failed on this image
    because    \* history: why the last call or conversion failed

vars == <<job, stage, image, at, encoding, faceless, results, answer, error,
          tried, because>>

Job == [op : {"verify", "find", "analyze", "extract"},
        detector : Detectors,
        images : 1 .. MaxImages]

Distance == 0 .. MaxDistance

Comparison == [image : 1 .. MaxImages, distance : Distance, by : {"library", "hand"}]

(* The BGR array, the RGB array and the base64 data URI.                   *)
Encodings == 1 .. 3

(* The stages in which DeepFace is called.                                 *)
Calls == {"verify", "query_embedding", "image_embedding", "analyze"}

(* preferred: a detector is tried at the first place it has there.         *)
Preferred(d) == <<d>> \o Fallbacks

(* Mutant: seen is forgotten.                                              *)
FreshAlways(d, i) == TRUE

Fresh(d, i) == \A j \in 1 .. i - 1 : Preferred(d)[j] # Preferred(d)[i]

Places(d) == 1 .. Len(Preferred(d))

Attempt(s, d, e) == [call |-> s, detector |-> d, encoding |-> e]

Attempts == [call : Calls, detector : Detectors, encoding : Encodings]

TypeOK ==
    /\ job \in Job
    /\ stage \in {"idle", "query", "image", "over"} \cup Calls
    /\ image \in 1 .. job.images
    /\ at \in Places(job.detector)
    /\ encoding \in Encodings
    /\ faceless \in BOOLEAN
    /\ results \in Seq(Comparison)
    /\ answer \in Seq(Comparison)
    /\ error \in {"none", "ValueError", "IndexError", "library"}
    /\ tried \subseteq Attempts
    /\ because \in {"nothing", "unreadable", "gave_up", "raised", "no_face"}

Init ==
    /\ job \in [op : {"verify"}, detector : Detectors, images : {1}]
    /\ stage = "idle"
    /\ image = 1 /\ at = 1 /\ encoding = 1
    /\ faceless = FALSE
    /\ results = <<>> /\ answer = <<>>
    /\ error = "none"
    /\ tried = {}
    /\ because = "nothing"

-----------------------------------------------------------------------------
Raise(class, why) ==
    /\ stage' = "over"
    /\ error' = class
    /\ because' = why
    /\ UNCHANGED <<job, image, at, encoding, faceless, results, answer>>

(* A job for the worker: every operation works on a query, find on several *)
(* images besides.                                                         *)
Take(j) ==
    /\ stage = "idle"
    /\ j.op = "find" \/ j.images = 1
    /\ job' = j
    /\ stage' = "query"
    /\ image' = 1 /\ at' = 1 /\ encoding' = 1
    /\ faceless' = FALSE
    /\ results' = <<>> /\ answer' = <<>>
    /\ error' = "none"
    /\ tried' = {}
    /\ because' = "nothing"

(* Its result or exception is passed on.                                   *)
Return == /\ stage = "over"
          /\ stage' = "idle"
          /\ UNCHANGED <<job, image, at, encoding, faceless, results, answer,
                         error, tried, because>>

(* _bytes_to_image_array.                                                  *)
Reads(next) == /\ stage' = next
               /\ UNCHANGED <<job, image, at, encoding, faceless, results,
                              answer, error, tried, because>>

Unreadable == /\ stage \in {"query", "image"}
              /\ Raise("ValueError", "unreadable")
              /\ UNCHANGED tried

ReadQuery == /\ stage = "query"
             /\ Reads(CASE job.op = "analyze" -> "analyze"
                        [] job.op = "extract" -> "query_embedding"
                        [] OTHER -> "image")

ReadImage == stage = "image" /\ Reads("verify")

-----------------------------------------------------------------------------
(* A call fails with AttributeError, TypeError or ValueError.              *)
Begin(s) == stage' = s /\ at' = 1 /\ encoding' = 1

(* The places of the detectors yet to try.  analyze keeps to its own.      *)
Left == IF stage = "analyze" THEN {}
        ELSE {i \in Places(job.detector) : i > at /\ Fresh(job.detector, i)}

(* Mutant: one encoding too many.                                          *)
TryNextEncodingOnceMore ==
    /\ encoding <= 3
    /\ encoding' = encoding + 1
    /\ UNCHANGED <<job, stage, image, at, faceless, results, answer, error, because>>

TryNextEncoding ==
    /\ encoding < 3
    /\ encoding' = encoding + 1
    /\ UNCHANGED <<job, stage, image, at, faceless, results, answer, error, because>>

(* Mutant: the next detector is looked up after the last one's name.       *)
TryNextDetectorByName ==
    /\ encoding = 3
    /\ Left # {}
    /\ \E i \in 1 .. at : /\ Fresh(job.detector, i)
                        /\ Preferred(job.detector)[i] = Preferred(job.detector)[at]
                        /\ at' = i + 1
    /\ encoding' = 1
    /\ UNCHANGED <<job, stage, image, faceless, results, answer, error, because>>

TryNextDetector ==
    /\ encoding = 3
    /\ \E i \in Left : /\ \A j \in Left : i <= j
                       /\ at' = i
    /\ encoding' = 1
    /\ UNCHANGED <<job, stage, image, faceless, results, answer, error, because>>

(* Every way has been tried: what is left for verify is the embeddings.    *)
GiveUp ==
    /\ encoding = 3
    /\ Left = {}
    /\ IF stage = "verify"
       THEN /\ Begin("query_embedding")
            /\ UNCHANGED <<job, image, faceless, results, answer, error, because>>
       ELSE Raise(IF stage = "analyze" THEN "library" ELSE "ValueError", "gave_up")

CallFails ==
    /\ stage \in Calls
    /\ tried' = tried \cup {Attempt(stage, Preferred(job.detector)[at], encoding)}
    /\ TryNextEncoding \/ TryNextDetector \/ GiveUp

(* A call raises anything else: no except clause takes it.                 *)
CallRaises == /\ stage \in Calls
              /\ Raise("library", "raised")
              /\ UNCHANGED tried

-----------------------------------------------------------------------------
(* A call answers.                                                         *)

(* The place of results[i] in the ranking of rs.  The sort is stable.      *)
(* Mutant: equal distances are put in reverse.                             *)
PlaceReversingTies(rs, i) ==
    Cardinality({j \in DOMAIN rs : \/ rs[j].distance < rs[i].distance
                                   \/ rs[j].distance = rs[i].distance /\ j >= i})

Place(rs, i) ==
    Cardinality({j \in DOMAIN rs : \/ rs[j].distance < rs[i].distance
                                   \/ rs[j].distance = rs[i].distance /\ j <= i})

Ranked(rs) == [p \in DOMAIN rs |-> rs[CHOOSE i \in DOMAIN rs : Place(rs, i) = p]]

Finish(rs) == /\ stage' = "over"
              /\ answer' = Ranked(rs)
              /\ UNCHANGED <<job, image, at, encoding, faceless, error, tried, because>>

(* Mutant: the next image begins with the way that worked for the last.    *)
NextImageGoingOn == /\ image < job.images
                    /\ image' = image + 1
                    /\ stage' = "image"
                    /\ tried' = {}
                    /\ UNCHANGED <<job, at, encoding, faceless, answer, error, because>>

NextImage == /\ image < job.images
             /\ image' = image + 1
             /\ Begin("image")
             /\ faceless' = FALSE
             /\ tried' = {}
             /\ UNCHANGED <<job, answer, error, because>>

Compared(distance, by) ==
    /\ results' = Append(results, [image |-> image, distance |-> distance, by |-> by])
    /\ \/ NextImage
       \/ image = job.images /\ Finish(results')

Verifies == stage = "verify" /\ \E d \in Distance : Compared(d, "library")

Analyzes == stage = "analyze" /\ Finish(<<>>) /\ UNCHANGED results

(* The embedding of extract, or of the query of a comparison.              *)
EmbedsQuery ==
    /\ stage = "query_embedding"
    /\ \E none \in BOOLEAN :
          IF job.op = "extract"
          THEN IF none THEN Raise("ValueError", "no_face") /\ UNCHANGED tried
                       ELSE Finish(<<>>) /\ UNCHANGED results
          ELSE /\ Begin("image_embedding")
               /\ faceless' = none
               /\ UNCHANGED <<job, image, results, answer, error, tried, because>>

(* Both embeddings are there; the first face of each is compared.          *)
EmbedsImage ==
    /\ stage = "image_embedding"
    /\ \/ Raise("IndexError", "no_face") /\ UNCHANGED tried
       \/ ~faceless /\ \E d \in Distance : Compared(d, "hand")

Work == \/ Unreadable \/ ReadQuery \/ ReadImage
        \/ CallFails \/ CallRaises
        \/ Verifies \/ Analyzes \/ EmbedsQuery \/ EmbedsImage

Next == Return \/ Work \/ \E j \in Job : Take(j)

Spec == Init /\ [][Next]_vars

(* A call of DeepFace ends, one way or another.                            *)
FairSpec == Spec /\ WF_vars(Work)

-----------------------------------------------------------------------------
TriedAll(s, ds) == \A d \in ds, e \in Encodings : Attempt(s, d, e) \in tried

Candidates(d) == {Preferred(d)[i] : i \in Places(d)}

(***************************************************************************)
(* A job is given up only when nothing is left to try: _verify_with_       *)
(* variants and _represent_with_variants have been through every detector  *)
(* and every encoding, the second for one of the images, after the first.  *)
(***************************************************************************)
GivesUpLast ==
    because = "gave_up" =>
        IF job.op = "analyze" THEN TriedAll("analyze", {job.detector})
        ELSE /\ \/ TriedAll("query_embedding", Candidates(job.detector))
                \/ TriedAll("image_embedding", Candidates(job.detector))
             /\ job.op # "extract" => TriedAll("verify", Candidates(job.detector))

(***************************************************************************)
(* No way that has failed on an image is tried again on it, although the   *)
(* detector asked for may be one of the fallbacks.                         *)
(***************************************************************************)
NothingTriedTwice ==
    stage \in Calls =>
        Attempt(stage, Preferred(job.detector)[at], encoding) \notin tried

Threshold(c) == IF c.by = "library" THEN LibraryThreshold ELSE DefaultThreshold

Verified(c) == c.distance <= Threshold(c)

(***************************************************************************)
(* What find returns is the whole list, in the order of the distances and, *)
(* for equal ones, in the order it was given; images compared in the same  *)
(* way are verified before those that are not.                             *)
(***************************************************************************)
RankingIsHonest ==
    stage = "over" /\ error = "none" /\ job.op \in {"verify", "find"} =>
        /\ Len(answer) = job.images
        /\ {answer[p].image : p \in DOMAIN answer} = 1 .. job.images
        /\ \A p, q \in DOMAIN answer :
              p < q => /\ answer[p].distance <= answer[q].distance
                       /\ answer[p].distance = answer[q].distance =>
                              answer[p].image < answer[q].image
                       /\ answer[p].by = answer[q].by /\ Verified(answer[q]) =>
                              Verified(answer[p])

(***************************************************************************)
(* The images to decode and the calls of DeepFace a job may still come to: *)
(* an image is decoded, and costs a verification and two embeddings, each  *)
(* with every detector and every encoding, before it is given up.          *)
(***************************************************************************)
Ways == 3 * Len(Preferred(job.detector))

WaysLeft == Ways - 3 * (at - 1) - (encoding - 1)

PerImage == 1 + 3 * Ways

LeftOfImage == CASE stage = "query"           -> 1 + PerImage
                 [] stage = "image"           -> PerImage
                 [] stage = "verify"          -> WaysLeft + 2 * Ways
                 [] stage = "query_embedding" -> WaysLeft + Ways
                 [] stage = "image_embedding" -> WaysLeft
                 [] stage = "analyze"         -> WaysLeft
                 [] OTHER                     -> 0

StepsLeft == LeftOfImage + (job.images - image) * PerImage

(***************************************************************************)
(* Whatever a worker does brings the job nearer to its end: no failure     *)
(* sends it back to a detector or an image it is done with, and with the   *)
(* four fallbacks of the code an image costs at most 45 calls of DeepFace. *)
(***************************************************************************)
WorkRunsOut ==
    [][stage \notin {"idle", "over"} => StepsLeft' \in 0 .. StepsLeft - 1]_vars

(***************************************************************************)
(* A job ends, however its calls turn out.                                 *)
(***************************************************************************)
JobEnds == stage = "query" ~> stage = "over"
=============================================================================
