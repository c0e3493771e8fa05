------------------------------ MODULE MCCritical ------------------------------
\* Model values for Critical.
EXTENDS Critical

CONSTANTS m, t1, t2, a, b

MCThreads == {m, t1, t2}
MCSections == {a, b}
MCMaxNest == [s \in MCSections |-> IF s = a THEN 2 ELSE 1]
=============================================================================
