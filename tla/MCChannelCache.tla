--------------------------- MODULE MCChannelCache ---------------------------
\* Model values for ChannelCache.
EXTENDS ChannelCache, TLC

CONSTANTS k1, k2, k3, k4, t1, t2, p1, p2, p3, p4

MCKeys == {k1, k2, k3, k4}
MCThreads == {t1, t2}
MCPayloads == {p1, p2, p3, p4}

MCTwoKeys == {k1, k2}
MCTwoPayloads == {p1, p2}
MCBoth == {"cache", "freelist"}
MCCacheOnly == {"cache"}

\* Keys, threads and payloads are only ever compared.
MCSymmetry == Permutations(MCKeys) \cup Permutations(MCThreads) \cup Permutations(MCPayloads)
=============================================================================
