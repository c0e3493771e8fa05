---------------------------- MODULE MCThreadPool ----------------------------
\* Model values for ThreadPool.
EXTENDS ThreadPool, TLC

CONSTANTS w1, w2, c1, c2

MCWorkers2 == {w1, w2}
MCClients == {c1, c2}

\* One client calls everything, the other one only appends.
AllMethods == {"assign", "tryAssign", "append", "wait", "shutdown", "finish"}
MCAllOps == (c1 :> AllMethods) @@ (c2 :> {"append"})
=============================================================================
