----------------------------- MODULE MCCondition -----------------------------
\* Model values for Condition.
EXTENDS Condition

CONSTANTS t1, t2, t3, t4

MCThreads == {t1, t2, t3, t4}
MCTwoWaiters == {t1, t2, t3}

MCn == {t3}
MC34 == {t3, t4}

\* Each thread of w calls the kinds of wait in k.
Use(w, k) == [t \in Threads |-> IF t \in w THEN k ELSE {}]

\* Three waiters without time-outs, of which t3 also notifies; or one that may
\* time out.
MCUsages == {Use({t1, t2, t3}, {FALSE}), Use({t1}, BOOLEAN)}

\* Two waiters that may time out.
MCTwoTimed == {Use({t1, t2}, BOOLEAN)}
=============================================================================
