---------------------------- MODULE ChannelCache ----------------------------
(***************************************************************************)
(* mango.cluster's ChannelCache: a QueuedCache of ClusterEntry payloads    *)
(* that come from a free list and go back to it when they are destroyed.   *)
(* ClusterThread serves one client each (Add, Copy, Remove) and the        *)
(* CacheInvalidatee extracts on a thread of its own.                       *)
(*                                                                         *)
(* Nothing in the code makes a call of the cache or of the free list       *)
(* exclude another one: the comment of CacheInvalidatee (CacheInvalidatee.d *)
(* 57-61) asks for a cache that is synchronized, and ChannelCache hands it *)
(* a bare QueuedCache.  Locked says which of the two somebody serializes;  *)
(* it is empty for the code as it stands.                                  *)
(*                                                                         *)
(* Grain.  put looks its key up and then changes the cache; create reads   *)
(* the head of the free list and then writes it, and so does destroy.      *)
(* These are steps; the pointers of the list are changed in one.           *)
(*                                                                         *)
(* A content is named by the key it was sent under.                        *)
(***************************************************************************)
EXTENDS QueuedCache

CONSTANTS Threads,
          Locked      \* what is serialized: the cache, the free list

ASSUME Serialized == Locked \subseteq {"cache", "freelist"}

VARIABLES cache,      \* the QueuedCache
          data,       \* ClusterEntry.data of each payload
          link,       \* ClusterEntry.next of each payload
          freelist,   \* ClusterEntry.freelist
          unused,     \* payloads that have not been created yet
          call        \* what each thread is doing, with which key and payload,
                      \* and the entry super.get() has found for put()

vars == <<cache, data, link, freelist, unused, call>>

Idle == [op |-> "idle", key |-> None, payload |-> None, entry |-> None]

Init ==
    /\ cache = EmptyCache
    /\ data = [p \in Payloads |-> None]
    /\ link = [p \in Payloads |-> None]
    /\ freelist = None
    /\ unused = Payloads
    /\ call = [t \in Threads |-> Idle]

Doing(op, k, p) == [op |-> op, key |-> k, payload |-> p, entry |-> None]

Becomes(t, c) == call' = [call EXCEPT ![t] = c]

\* Threads in a call of the cache, which may destroy a payload; and between the
\* reading of freelist and its change.
InCache == {t \in Threads : call[t].op \in {"store", "push", "extract"}}
InList  == {t \in Threads : call[t].op \in {"pop", "push", "extract"}}

CacheFree == "cache" \in Locked => InCache = {}
ListFree  == "freelist" \in Locked => InList = {}

-----------------------------------------------------------------------------
(* ClusterEntry *)

\* create() reads freelist, or makes a payload; setData().
Create(t, k) ==
    /\ call[t] = Idle
    /\ ListFree
    /\ \/ /\ freelist # None
          /\ Becomes(t, Doing("pop", k, freelist))
          /\ UNCHANGED <<data, unused>>
       \/ /\ freelist = None
          /\ \E p \in unused :
                /\ Becomes(t, Doing("put", k, p))
                /\ data' = [data EXCEPT ![p] = k]
                /\ unused' = unused \ {p}
    /\ UNCHANGED <<cache, link, freelist>>

FreelistAfterPop_Kept(p) == freelist

FreelistAfterPop(p) == link[p]

\* freelist = s.next; setData().
Pop(t) ==
    LET k == call[t].key
        p == call[t].payload
    IN
    /\ call[t].op = "pop"
    /\ freelist' = FreelistAfterPop(p)
    /\ data' = [data EXCEPT ![p] = k]
    /\ Becomes(t, Doing("put", k, p))
    /\ UNCHANGED <<cache, link, unused>>

\* destroy() of p, if there is one (QueuedCache.d:433-440), up to its last
\* statement, where the thread is at c; without one it goes on at d.
Destroy(t, p, c, d) ==
    IF p = None THEN Becomes(t, d) /\ UNCHANGED <<data, link>>
    ELSE /\ ListFree
         /\ data' = [data EXCEPT ![p] = None]
         /\ link' = [link EXCEPT ![p] = freelist]
         /\ Becomes(t, c)

\* freelist = this, and the end of the call of the cache; the caller of extract
\* goes on to read the payload.
Push(t) ==
    LET c == call[t] IN
    /\ c.op \in {"push", "extract"}
    /\ freelist' = c.payload
    /\ Becomes(t, IF c.op = "extract" THEN Doing("read", c.key, c.payload) ELSE Idle)
    /\ UNCHANGED <<cache, data, link, unused>>

-----------------------------------------------------------------------------
(* ChannelCache and CacheInvalidatee *)

\* cache.put (key, entry) looks the key up,
LookUp(t) ==
    /\ call[t].op = "put"
    /\ CacheFree
    /\ Becomes(t, [call[t] EXCEPT !.op = "store", !.entry = cache.map[call[t].key]])
    /\ UNCHANGED <<cache, data, link, freelist, unused>>

\* and overwrites, adds or reuses an entry.
PutEntry(t) ==
    LET c == call[t]
        p == DestroyedByPut(cache, c.entry, c.payload)
    IN
    /\ c.op = "store"
    /\ cache' = PutFound(cache, c.entry, c.key, c.payload)
    /\ Destroy(t, p, Doing("push", c.key, p), Idle)
    /\ UNCHANGED <<freelist, unused>>

\* A call of the cache by a thread outside, with a key that is there; with another
\* one it changes nothing.
Finds(t, k) == call[t] = Idle /\ CacheFree /\ cache.map[k] # None

\* cache.get (key).
GetEntry(t, k) ==
    /\ Finds(t, k)
    /\ cache' = Got(cache, k)
    /\ Becomes(t, Doing("read", k, cache.payload[cache.map[k]]))
    /\ UNCHANGED <<data, link, freelist, unused>>

\* cache.extract (key): of a client that goes on to read the payload, or of the
\* invalidation listener, which does not.
ExtractBy(t, k, op, after) ==
    LET p == cache.payload[cache.map[k]] IN
    /\ Finds(t, k)
    /\ cache' = Extracted(cache, k)
    /\ Destroy(t, p, Doing(op, k, p), after)
    /\ UNCHANGED <<freelist, unused>>

ExtractEntry(t, k) == ExtractBy(t, k, "extract", Idle)
Invalidate(t, k)   == ExtractBy(t, k, "push", Idle)

\* getData(), on a payload that may have been destroyed or reused meanwhile, by a
\* reference that has been cast from an interface: what it returns is undefined.
GetData(t) ==
    /\ call[t].op = "read"
    /\ Becomes(t, Idle)
    /\ UNCHANGED <<cache, data, link, freelist, unused>>

Next == \E t \in Threads :
    \/ Pop(t) \/ Push(t) \/ LookUp(t) \/ PutEntry(t) \/ GetData(t)
    \/ \E k \in Keys :
        Create(t, k) \/ GetEntry(t, k) \/ ExtractEntry(t, k) \/ Invalidate(t, k)

Spec == Init /\ [][Next]_vars

-----------------------------------------------------------------------------
\* Every variable has its type.
TypeOK ==
    /\ IsCache(cache)
    /\ data \in [Payloads -> OrNone(Keys)]
    /\ link \in [Payloads -> OrNone(Payloads)]
    /\ freelist \in OrNone(Payloads)
    /\ unused \subseteq Payloads
    /\ call \in [Threads -> [op : {"idle", "pop", "put", "store", "push", "extract", "read"},
                             key : OrNone(Keys), payload : OrNone(Payloads),
                             entry : OrNone(Entries)]]

\* The list has every entry once, ends at the tail, and reads the same both
\* ways (QueuedCache.d:197-233, 345-412).
ListSound ==
    LET chain == Chain(cache)
        n == cache.entries
    IN  /\ {chain[i] : i \in 1..n} = 1..n
        /\ n > 0 => /\ chain[n] = cache.tail
                    /\ cache.next[cache.tail] = None
                    /\ cache.prev[cache.head] = None
        /\ \A i \in 2..n : cache.prev[chain[i]] = chain[i - 1]

\* The hash map finds an entry by the key it holds, and every entry with a key
\* is found; entries that were extracted and wait for reuse, without key or
\* payload, are the ones the next reuse takes first (lines 165-168, 261-268).
MapMatchesList ==
    LET chain == Chain(cache)
    IN  /\ \A k \in Keys, e \in Entries : cache.map[k] = e <=> cache.key[e] = k
        /\ \A e \in Entries : cache.key[e] = None <=> cache.payload[e] = None
        /\ \A i, j \in 1..cache.entries :
            i < j /\ cache.key[chain[j]] # None => cache.key[chain[i]] # None

\* What the map and the list say of each other between the calls of a cache that
\* is serialized.
StructureSound == TypeOK /\ ListSound /\ MapMatchesList

\* "There can be only one entry for any particular key" (QueuedCache.d:112-113).
OneEntryPerKey ==
    \A e, f \in Entries : cache.key[e] # None /\ cache.key[e] = cache.key[f] => e = f

\* Threads that have created a payload and not put it yet.
Putting == {t \in Threads : call[t].op \in {"put", "store"}}

\* "Allocate an entry from a list" (ClusterCache.d:445): it is then on the list no
\* longer, and no other thread is given it.
CreatedApart ==
    \A t, u \in Putting : call[t].payload = call[u].payload => t = u

\* A payload is in one place: an entry, the hands of a thread that is about to put
\* it, the head of the free list (the one create() hands out next), or it does not
\* exist yet.
OnePlace ==
    LET stored == {e \in Entries : cache.payload[e] # None}
        inList == {cache.payload[e] : e \in stored}
        inHand == {call[t].payload : t \in Putting}
    IN  /\ \A e, f \in stored : cache.payload[e] = cache.payload[f] => e = f
        /\ inList \cap inHand = {}
        /\ (inList \cup inHand) \cap ({freelist} \cup unused) = {}
        /\ freelist \notin unused

\* A destroyed payload keeps no content alive, and a cached one has the content
\* of its key.
ContentMatches ==
    /\ freelist # None => data[freelist] = None
    /\ \A e \in Entries : cache.payload[e] # None => data[cache.payload[e]] = cache.key[e]

\* Where the cache and the free list are both serialized, payloads are reused,
\* never shared, and answer for the key they are found by.
PayloadsSound == CreatedApart /\ OnePlace /\ ContentMatches

\* Where it is serialized, the code implements the cache its comment describes,
\* the null key of an extracted entry and its reuse included.
LRU == INSTANCE LRUCache WITH recent <- InOrder(cache)

ImplementsLRUCache == LRU!Spec
=============================================================================
