--------------------------- MODULE SlidingWindow ---------------------------
(***************************************************************************)
(* What a rate limiter promises: of the requests that share a key, at most *)
(* Limit are admitted in any stretch of time shorter than Window.  The     *)
(* state is a log of the youngest Limit admissions of each key, by their   *)
(* ages, oldest first; an admission past a full log waits until the oldest *)
(* entry has left the window.                                              *)
(***************************************************************************)
EXTENDS Integers, Sequences

CONSTANTS Keys,     \* what requests are counted by
          Limit,    \* admissions in a window
          Window    \* the length of the window, in ticks

VARIABLE recent

Older(age) == IF age <= Window THEN age + 1 ELSE age

Empty == [k \in Keys |-> <<>>]

Full(k) == Len(recent[k]) = Limit

Init == recent = Empty

Admit(k) == /\ Full(k) => Head(recent[k]) >= Window
            /\ recent' = [recent EXCEPT ![k] =
                             Append(IF Full(k) THEN Tail(@) ELSE @, 0)]

Elapse == recent' = [k \in Keys |-> [i \in DOMAIN recent[k] |-> Older(recent[k][i])]]

(* The promise does not outlive a limiter that keeps its counts in memory. *)
Forget == recent' = Empty

Next == (\E k \in Keys : Admit(k)) \/ Elapse \/ Forget

Spec == Init /\ [][Next]_recent
=============================================================================
