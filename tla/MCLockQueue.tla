---------------------------- MODULE MCLockQueue ----------------------------
\* Small instances of LockQueue.
EXTENDS LockQueue, TLC

CONSTANTS t1, t2, t3

MCThreads == {t1, t2, t3}
MCCalls == t1 :> 2 @@ t2 :> 2 @@ t3 :> 1
MCHolds == t1 :> 2 @@ t2 :> 2 @@ t3 :> 1

MCTwoThreads == {t1, t2}
MCTwoCalls == t1 :> 2 @@ t2 :> 1
MCTwoHolds == t1 :> 1 @@ t2 :> 1

Symmetry == Permutations({t1, t2})
=============================================================================
