-------------------------- MODULE MCCyclicBarrier --------------------------
\* Model values for CyclicBarrier.
EXTENDS CyclicBarrier

CONSTANTS t1, t2, t3, t4

MCThreads == {t1, t2, t3, t4}
MCMinGeneration == -4
MCMinCount == -1
=============================================================================
