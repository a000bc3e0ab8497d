--------------------------- MODULE TaskLifecycle ---------------------------
(***************************************************************************)
(* What GET /tasks/{task_id} promises a client about each task it was      *)
(* given, whatever runs the task.                                          *)
(*                                                                         *)
(* verdict is the fate of the job behind the task, told the status the     *)
(* client was given last.                                                  *)
(***************************************************************************)
EXTENDS Naturals

CONSTANTS Tasks,
          Honest      \* the tasks whose backend tells a failure from a success

VARIABLES verdict, told

vars == <<verdict, told>>

Verdict == {"undecided", "ok", "failed", "lost"}

Status == {"nothing", "pending", "success", "error", "not_found"}

(* A client may be told a later status, never an earlier one.              *)
Rank == [nothing |-> 0, pending |-> 1, success |-> 2, error |-> 3, not_found |-> 4]

Init == /\ verdict = [t \in Tasks |-> "undecided"]
        /\ told = [t \in Tasks |-> "nothing"]

(* The job ends well or badly.                                             *)
Decide(t) == /\ verdict[t] = "undecided"
             /\ \E v \in {"ok", "failed"} : verdict' = [verdict EXCEPT ![t] = v]
             /\ UNCHANGED told

(* The backend no longer has what the job left.                            *)
Lose(t) == /\ verdict[t] \in {"ok", "failed"}
           /\ verdict' = [verdict EXCEPT ![t] = "lost"]
           /\ UNCHANGED told

(* A client that asks again is told something at least as late: a success  *)
(* only of a job that ended, and ended well if its backend is honest; an   *)
(* error only of a job that failed or whose result is lost.                *)
Tell(t, status) ==
    /\ Rank[status] >= Rank[told[t]]
    /\ status = "success" /\ told[t] # "success" =>
           verdict[t] \in IF t \in Honest THEN {"ok"} ELSE {"ok", "failed"}
    /\ status = "error" /\ told[t] # "error" => verdict[t] \in {"failed", "lost"}
    /\ told' = [told EXCEPT ![t] = status]
    /\ UNCHANGED verdict

(* Work done within the request: the task is born finished.                *)
FinishAtOnce(t) == /\ verdict[t] = "undecided"
                   /\ told[t] = "nothing"
                   /\ verdict' = [verdict EXCEPT ![t] = "ok"]
                   /\ told' = [told EXCEPT ![t] = "success"]

Next == \E t \in Tasks : \/ Decide(t)
                         \/ FinishAtOnce(t)
                         \/ Lose(t)
                         \/ \E status \in Status \ {"nothing"} : Tell(t, status)

Spec == Init /\ [][Next]_vars
=============================================================================
