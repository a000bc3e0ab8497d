------------------------- MODULE WorkerPool_proofs --------------------------
(***************************************************************************)
(* The round robin of get_worker is even for every number of actors.       *)
(***************************************************************************)
EXTENDS WorkerPool, TLAPS

(* After q full rounds, the actors before idx have been handed out once    *)
(* more than the others.                                                   *)
InRound(q) == picked = [w \in Workers |-> IF w < idx THEN q + 1 ELSE q]

(* PicksBalanced does not say which actors are ahead, so a step could not  *)
(* be seen to keep it: the inductive invariant says it is those before     *)
(* idx.                                                                    *)
IInv == TypeOK /\ \E q \in Nat : InRound(q)

(* One step of the rotation: the index wraps after the last actor.         *)
LEMMA NextIdxRotates ==
    ASSUME NEW i \in Workers
    PROVE  /\ i % NumWorkers = i
           /\ NextWorkerIdx(cfg, i, "ray") = IF i = NumWorkers - 1 THEN 0 ELSE i + 1
BY NumWorkersAssumption, WorkerPoolAssumption DEF NextWorkerIdx, cfg, Workers

LEMMA InitEstablishesIInv == Init => IInv
<1> SUFFICES ASSUME Init PROVE IInv
    OBVIOUS
<1>1. TypeOK
      BY NumWorkersAssumption, WorkerPoolAssumption DEF Init, TypeOK, Workers
<1>2. InRound(0)
      BY NumWorkersAssumption DEF Init, InRound, Workers
<1>3. QED
      BY <1>1, <1>2 DEF IInv

(* Handing out an actor keeps the shape of the round, or starts the next.  *)
LEMMA PickKeepsRound ==
    ASSUME TypeOK, NEW q \in Nat, InRound(q), Pick
    PROVE  /\ idx' \in Workers
           /\ picked' \in [Workers -> Nat]
           /\ \E r \in Nat : InRound(r)'
<1> USE NumWorkersAssumption, WorkerPoolAssumption
<1>1. /\ idx \in Workers
      /\ Picked = idx
      /\ idx' = IF idx = NumWorkers - 1 THEN 0 ELSE idx + 1
      BY NextIdxRotates DEF TypeOK, Pick, Picked
<1>2. idx' \in Workers
      BY <1>1 DEF Workers
<1>3. picked' = [w \in Workers |-> IF w < idx THEN q + 1
                                   ELSE IF w = idx THEN q + 1 ELSE q]
      BY <1>1 DEF Pick, InRound, Workers
<1>4. picked' \in [Workers -> Nat]
      BY <1>3
<1>5. CASE idx = NumWorkers - 1
  <2>1. picked' = [w \in Workers |-> IF w < 0 THEN q + 2 ELSE q + 1]
        BY <1>1, <1>3, <1>5 DEF Workers
  <2>2. InRound(q + 1)'
        BY <1>1, <1>5, <2>1 DEF InRound, Workers
  <2>3. QED
        BY <1>2, <1>4, <2>2
<1>6. CASE idx # NumWorkers - 1
  <2>1. picked' = [w \in Workers |-> IF w < idx + 1 THEN q + 1 ELSE q]
        BY <1>1, <1>3 DEF Workers
  <2>2. InRound(q)'
        BY <1>1, <1>6, <2>1 DEF InRound, Workers
  <2>3. QED
        BY <1>2, <1>4, <2>2
<1>7. QED
      BY <1>5, <1>6

LEMMA NextPreservesIInv == IInv /\ [Next]_vars => IInv'
<1> SUFFICES ASSUME TypeOK, NEW q \in Nat, InRound(q), [Next]_vars
             PROVE  IInv'
    BY DEF IInv
<1> USE DEF IInv, TypeOK
<1>1. CASE SubmitJob
  <2>1. jobs' \in [Workers -> Nat]
        BY <1>1, NextIdxRotates DEF SubmitJob, Picked
  <2>2. QED
        BY <1>1, <2>1, PickKeepsRound DEF SubmitJob
<1>2. CASE SkipInBatch
      BY <1>2, PickKeepsRound DEF SkipInBatch
<1>3. ASSUME NEW w \in Workers, ActorDies(w) PROVE IInv'
      BY <1>3 DEF ActorDies, InRound
<1>4. CASE ray_health
      BY <1>4 DEF ray_health, InRound
<1>5. CASE UNCHANGED vars
      BY <1>5 DEF vars, InRound
<1>6. QED
      BY <1>1, <1>2, <1>3, <1>4, <1>5 DEF Next

LEMMA IInvIsInvariant == Spec => []IInv
BY InitEstablishesIInv, NextPreservesIInv, PTL DEF Spec

(* No actor is handed out more than once more often than another, for      *)
(* every number of actors and any interleaving of requests, batches,       *)
(* health checks and deaths.                                               *)
THEOREM RoundRobinIsEven == Spec => []PicksBalanced
<1>1. IInv => PicksBalanced
      BY DEF IInv, InRound, PicksBalanced
<1>2. QED
      BY <1>1, IInvIsInvariant, PTL

LeastPickedIsNext == \A w \in Workers : picked[idx] <= picked[w]

(* The actor next in turn is always one of those handed out least often,   *)
(* which is how the rotation stays even.                                   *)
THEOREM NextInTurnIsLeastPicked == Spec => []LeastPickedIsNext
<1>1. IInv => LeastPickedIsNext
      BY DEF IInv, TypeOK, InRound, LeastPickedIsNext, Workers
<1>2. QED
      BY <1>1, IInvIsInvariant, PTL

(* Every reachable state has the declared type; idx stays a valid index.   *)
THEOREM TypeCorrect == Spec => []TypeOK
<1>1. IInv => TypeOK
      BY DEF IInv
<1>2. QED
      BY <1>1, IInvIsInvariant, PTL
=============================================================================
