---------------------------- MODULE BarrierSpec ----------------------------
(***************************************************************************)
(* "a barrier across which threads may only travel in groups of a specific *)
(* size" (barrier.d:40-41): the threads that have arrived stay until there *)
(* are Limit of them, then all of them, and only they, may leave.          *)
(***************************************************************************)
EXTENDS Naturals, FiniteSets

CONSTANTS Threads, Limit

VARIABLES arrived,   \* threads held at the barrier
          released   \* threads let through that have not returned yet

absVars == <<arrived, released>>

Init ==
    /\ arrived = {}
    /\ released = {}

Arrive(t) ==
    /\ t \notin arrived \cup released
    /\ Cardinality(arrived) + 1 < Limit
    /\ arrived' = arrived \cup {t}
    /\ UNCHANGED released

\* The thread that completes a group is let through with it.
Complete(t) ==
    /\ t \notin arrived \cup released
    /\ Cardinality(arrived) + 1 = Limit
    /\ arrived' = {}
    /\ released' = released \cup arrived \cup {t}

Leave(t) ==
    /\ t \in released
    /\ released' = released \ {t}
    /\ UNCHANGED arrived

Next == \E t \in Threads : Arrive(t) \/ Complete(t) \/ Leave(t)

Spec == Init /\ [][Next]_absVars
=============================================================================
