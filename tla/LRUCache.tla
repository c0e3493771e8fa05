------------------------------ MODULE LRUCache ------------------------------
(***************************************************************************)
(* What QueuedCache promises (QueuedCache.d:47-59): a bounded cache that   *)
(* drops the entry that has not been used for longest, and only when it is *)
(* full.                                                                   *)
(***************************************************************************)
EXTENDS Naturals, Sequences

CONSTANTS Keys, Capacity

VARIABLE recent   \* the cached keys, the most recently used first

Init == recent = <<>>

Cached(k) == \E i \in 1..Len(recent) : recent[i] = k

\* A key is cached once at most.
Without(k) ==
    LET at == CHOOSE i \in 1..Len(recent) : recent[i] = k
    IN  IF Cached(k) THEN [n \in 1..(Len(recent) - 1) |-> recent[IF n < at THEN n ELSE n + 1]]
        ELSE recent

Get(k) == Cached(k) /\ recent' = <<k>> \o Without(k)

Put(k) ==
    LET kept == SubSeq(Without(k), 1, Capacity - 1)
    IN  recent' = <<k>> \o IF Len(Without(k)) < Capacity THEN Without(k) ELSE kept

Extract(k) == Cached(k) /\ recent' = Without(k)

Next == \E k \in Keys : Get(k) \/ Put(k) \/ Extract(k)

Spec == Init /\ [][Next]_recent
=============================================================================
