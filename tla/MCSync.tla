------------------------------- MODULE MCSync -------------------------------
\* Model values for ReadWriteMutex and Barrier, the two classes of rt/core/sync that
\* stand on Monitor. They share nothing: a behaviour is about one of them, and the
\* other one stays in its initial state, where no fairness obliges it to move.
EXTENDS ReadWriteMutex, Barrier

CONSTANTS t1, t2, t3, t4, t5

MCThreads4 == {t1, t2, t3, t4}
MCTravellers5 == {t1, t2, t3, t4, t5}

VARIABLE class    \* the class this behaviour is about

SyncInit == Init /\ BInit /\ class \in {"ReadWriteMutex", "Barrier"}

SyncNext ==
    \/ class = "ReadWriteMutex" /\ Next /\ UNCHANGED <<class, barrierVars>>
    \/ class = "Barrier" /\ BNext /\ UNCHANGED <<class, vars>>

SyncSpec == SyncInit /\ [][SyncNext]_<<class, vars, barrierVars>> /\ Fairness /\ BFairness
=============================================================================
