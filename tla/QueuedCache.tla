---------------------------- MODULE QueuedCache ----------------------------
(***************************************************************************)
(* mango.cache.QueuedCache over mango.cache.PlainCache: a hash map from    *)
(* keys to entries and a doubly linked list of the entries, the most       *)
(* recently used at its head.  The state is a record; its operations are   *)
(* operators on it, pointer by pointer.  The hash map is a function.       *)
(*                                                                         *)
(* An entry is named by the order in which it was created: entries are     *)
(* reused and never freed.                                                 *)
(***************************************************************************)
EXTENDS Integers, Sequences

CONSTANTS Keys, Payloads,
          Capacity,   \* capacity; put() asserts in the hash map if it is 0
          None        \* null

ASSUME CapacityPositive == Capacity \in Nat \ {0}

Entries == 1..Capacity

ASSUME NoneIsNull == None \notin Keys \cup Payloads \cup Entries

OrNone(S) == S \cup {None}

IsCache(q) == q \in
    [map : [Keys -> OrNone(Entries)], head : OrNone(Entries), tail : OrNone(Entries),
     entries : 0..Capacity, key : [Entries -> OrNone(Keys)],
     payload : [Entries -> OrNone(Payloads)],
     prev : [Entries -> OrNone(Entries)], next : [Entries -> OrNone(Entries)]]

EmptyCache ==
    LET null == [e \in Entries |-> None]
    IN  [map |-> [k \in Keys |-> None], head |-> None, tail |-> None, entries |-> 0,
         key |-> null, payload |-> null, prev |-> null, next |-> null]

\* f with f[x] = y; nothing if x is null.
Store(f, x, y) == IF x = None THEN f ELSE [f EXCEPT ![x] = y]

\* QueuedEntry.extract().
Unlinked(q, e) ==
    [q EXCEPT !.next = Store(Store(@, q.prev[e], q.next[e]), e, None),
              !.prev = Store(Store(@, q.next[e], q.prev[e]), e, None)]

\* e.prepend (q.head) and e.append (q.tail).
Prepended(q, e) ==
    [q EXCEPT !.next = Store(Store(@, q.prev[q.head], e), e, q.head),
              !.prev = Store(Store(@, e, q.prev[q.head]), q.head, e),
              !.head = e]

Appended(q, e) ==
    [q EXCEPT !.prev = Store(Store(@, q.next[q.tail], e), e, q.tail),
              !.next = Store(Store(@, e, q.next[q.tail]), q.tail, e),
              !.tail = e]

\* e becomes the most recently used entry, or the least.
ReReference(q, e) ==
    IF e = q.head THEN q
    ELSE Prepended(Unlinked([q EXCEPT !.tail = IF e = @ THEN q.prev[e] ELSE @], e), e)

DeReference(q, e) ==
    IF e = q.tail THEN q
    ELSE Appended(Unlinked([q EXCEPT !.head = IF e = @ THEN q.next[e] ELSE @], e), e)

\* QueuedEntry.set (k, p); the payload it destroys is q.payload[e].
SetTo(q, e, k, p) == [q EXCEPT !.payload[e] = p, !.key[e] = k]

\* get (k) of a key that is there.
Got(q, k) == ReReference(q, q.map[k])

\* put (k, p): of a key whose entry e is there, of a new one while there is room,
\* and of a new one at the cost of the entry at the tail.
Replaced(q, e, k, p) == ReReference(SetTo(q, e, k, p), e)

Added(q, k, p) ==
    LET e == q.entries + 1
        first(x) == IF q.entries = 0 THEN e ELSE x
        new == [SetTo(q, e, k, p) EXCEPT !.entries = e, !.head = first(@), !.tail = first(@)]
    IN  [ReReference(new, e) EXCEPT !.map[k] = e]

\* Definitions named X_Mistake are X with a mistake one could make in it; no
\* specification uses them, they show that the properties notice it.
NameDropped_Kept(q) == q.map

NameDropped(q) == Store(q.map, q.key[q.tail], None)

Reused(q, k, p) ==
    LET e == q.tail
        stolen == SetTo([q EXCEPT !.map = NameDropped(q)], e, k, p)
    IN  [ReReference(stolen, e) EXCEPT !.map[k] = e]

HasRoom(q) == q.entries < Capacity

\* put (k, p) after super.get (k) has returned e.
PutFound(q, e, k, p) ==
    IF e # None THEN Replaced(q, e, k, p)
    ELSE IF HasRoom(q) THEN Added(q, k, p)
    ELSE Reused(q, k, p)

\* The entry put overwrites, if any.
Overwritten(q, e) == IF e # None THEN e ELSE IF HasRoom(q) THEN None ELSE q.tail

\* The payload it destroys: what that entry has, unless it is p itself.
DestroyedByPut(q, e, p) ==
    LET f == Overwritten(q, e)
    IN  IF f = None \/ q.payload[f] = p THEN None ELSE q.payload[f]

Extracted_Forward(q, k) ==
    LET e == q.map[k]
    IN  SetTo(ReReference([q EXCEPT !.map[k] = None], e), e, None, None)

\* extract (k, timeLimit) of a key that is there.  PlainCache.extract compares
\* timeLimit with a time it reads through an object reference cast to an interface,
\* which is undefined: it can find any, and do this or nothing.
Extracted(q, k) ==
    LET e == q.map[k]
    IN  SetTo(DeReference([q EXCEPT !.map[k] = None], e), e, None, None)

-----------------------------------------------------------------------------
\* The entries from the head along next, as many as there should be.
Chain(q) ==
    LET at[n \in 1..q.entries] ==
            IF n = 1 THEN q.head
            ELSE IF at[n - 1] = None THEN None ELSE q.next[at[n - 1]]
    IN  at

\* The keys in order of use, up to the first entry that was extracted.
InOrder(q) ==
    LET chain == Chain(q)
        keyAt(n) == IF chain[n] = None THEN None ELSE q.key[chain[n]]
        held == CHOOSE m \in 0..q.entries :
                    /\ \A n \in 1..m : keyAt(n) # None
                    /\ m < q.entries => keyAt(m + 1) = None
    IN  [n \in 1..held |-> keyAt(n)]
=============================================================================
