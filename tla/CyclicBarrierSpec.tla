------------------------- MODULE CyclicBarrierSpec -------------------------
(***************************************************************************)
(* What the comments of mango.locks.CyclicBarrier promise (CyclicBarrier.d *)
(* 107-111, 222-228, 245-279, 336-346): threads are held until parties of  *)
(* them wait and pass together; one failure of any kind makes every thread *)
(* that is still inside, also one that has been let through but has not    *)
(* resumed yet, leave abnormally; a reset restores the initial state.      *)
(***************************************************************************)
EXTENDS Integers, FiniteSets

CONSTANTS Threads, Parties

VARIABLES place,    \* of each thread: "out", "held", "pass" or "fail"
          broken    \* the barrier refuses arrivals

absVars == <<place, broken>>

Init ==
    /\ place = [t \in Threads |-> "out"]
    /\ broken = FALSE

\* A thread arrives at a barrier that is not broken.
Arrives(t) == place[t] = "out" /\ ~broken

\* All other parties wait.
LastMissing == Cardinality({t \in Threads : place[t] = "held"}) = Parties - 1

\* Everybody inside leaves abnormally.
Failed == [t \in Threads |-> IF place[t] = "out" THEN "out" ELSE "fail"]

Hold(t) ==
    /\ Arrives(t) /\ ~LastMissing
    /\ place' = [place EXCEPT ![t] = "held"]
    /\ UNCHANGED broken

\* The last of a group arrives: the held threads pass, and so does it.
Trip(t) ==
    /\ Arrives(t) /\ LastMissing
    /\ place' = [u \in Threads |-> IF place[u] = "held" THEN "pass" ELSE place[u]]
    /\ UNCHANGED broken

\* The same, and the barrier command fails.
TripFails(t) ==
    /\ Arrives(t) /\ LastMissing
    /\ place' = Failed
    /\ broken' = TRUE

\* A thread arrives whose time is over.
TimesOut(t) ==
    /\ Arrives(t) /\ ~LastMissing
    /\ place' = Failed
    /\ broken' = TRUE

Reset ==
    /\ place' = Failed
    /\ broken' = FALSE

Leave(t) ==
    /\ place[t] \in {"pass", "fail"}
    /\ place' = [place EXCEPT ![t] = "out"]
    /\ UNCHANGED broken

Next ==
    \/ Reset
    \/ \E t \in Threads : Hold(t) \/ Trip(t) \/ TripFails(t) \/ TimesOut(t) \/ Leave(t)

Spec == Init /\ [][Next]_absVars
=============================================================================
