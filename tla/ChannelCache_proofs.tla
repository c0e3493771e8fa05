------------------------ MODULE ChannelCache_proofs ------------------------
(***************************************************************************)
(* Proofs about ChannelCache, QueuedCache and LRUCache, for any capacity,  *)
(* any keys and payloads and any number of threads.                        *)
(*                                                                         *)
(* The model follows pointers from the head; the inductive invariant Inv   *)
(* names the list instead: there are a sequence s of the entries and a     *)
(* number m with Structure(cache, s, m), which says that the links are     *)
(* those of s (Order), that the map and the entries agree on the keys      *)
(* (Content), and that the first m entries of s and no others have a key   *)
(* (HeldFirst).  Each operation of the code becomes an operation on s and  *)
(* m; that Chain and InOrder compute s and the keys of its first m entries *)
(* is proved once.  This holds as soon as the cache is serialized.         *)
(*                                                                         *)
(* Where the free list is, too, Places and Contents say where every        *)
(* payload is and what it holds, and Listed that the free list links the   *)
(* payloads that are out of use, none twice.                               *)
(***************************************************************************)
EXTENDS ChannelCache, FiniteSetTheorems, SequenceTheorems, TLAPS

-----------------------------------------------------------------------------
(* Doubly linked lists: s lists the n entries from the head to the tail.   *)

Links == [Entries -> OrNone(Entries)]

Lists(s, n, head, tail, next, prev) ==
    /\ s \in [1..n -> Entries]
    /\ \A i, j \in 1..n : s[i] = s[j] => i = j
    /\ head = IF n = 0 THEN None ELSE s[1]
    /\ tail = IF n = 0 THEN None ELSE s[n]
    /\ \A i \in 1..n : next[s[i]] = IF i = n THEN None ELSE s[i + 1]
    /\ \A i \in 1..n : prev[s[i]] = IF i = 1 THEN None ELSE s[i - 1]

Outside(s, n, e) == \A i \in 1..n : s[i] # e

\* The links of the entries outside s are as they were, e excepted.
KeepsLinks(s, n, e, nx, pv, next, prev) ==
    \A f \in Entries : f # e /\ Outside(s, n, f) => nx[f] = next[f] /\ pv[f] = prev[f]

\* The head or the tail when e has left the list, given the links it follows.
EndWithout(end, links, e) == IF e = end THEN links[e] ELSE end

Dropped(s, n, p) == [i \in 1..(n - 1) |-> IF i < p THEN s[i] ELSE s[i + 1]]
InFront(s, n, e) == [i \in 1..(n + 1) |-> IF i = 1 THEN e ELSE s[i - 1]]
Behind(s, n, e) == [i \in 1..(n + 1) |-> IF i = n + 1 THEN e ELSE s[i]]

\* Storing through a null pointer does nothing.
LEMMA StoreType ==
    ASSUME NEW f \in Links, NEW x \in OrNone(Entries), NEW y \in OrNone(Entries)
    PROVE  /\ Store(f, x, y) \in Links
           /\ \A e : e \in Entries => Store(f, x, y)[e] = IF e = x THEN y ELSE f[e]
<1> None \notin Entries
  BY NoneIsNull
<1>1. CASE x = None
  BY <1>1 DEF Store
<1>2. CASE x # None
  BY <1>2 DEF Store, Links, OrNone
<1> QED
  BY <1>1, <1>2

\* The two assignments of extract().
Unlinks(nx, pv, next, prev, e) ==
    /\ nx \in Links /\ pv \in Links
    /\ \A f \in Entries :
        nx[f] = IF f = e THEN None ELSE IF f = prev[e] THEN next[e] ELSE next[f]
    /\ \A f \in Entries :
        pv[f] = IF f = e THEN None ELSE IF f = next[e] THEN prev[e] ELSE prev[f]

\* QueuedEntry.extract() is those assignments, the null pointers included.
LEMMA UnlinkFields ==
    ASSUME NEW next \in Links, NEW prev \in Links, NEW e \in Entries, NEW nx, NEW pv,
           nx = Store(Store(next, prev[e], next[e]), e, None),
           pv = Store(Store(prev, next[e], prev[e]), e, None)
    PROVE  Unlinks(nx, pv, next, prev, e)
<1>t. /\ e \in OrNone(Entries) /\ next[e] \in OrNone(Entries) /\ prev[e] \in OrNone(Entries)
      /\ None \in OrNone(Entries)
  BY DEF Links, OrNone
<1> DEFINE before == prev[e]
           after == next[e]
           nx1 == Store(next, before, after)
           pv1 == Store(prev, after, before)
<1>0. /\ before \in OrNone(Entries) /\ after \in OrNone(Entries)
      /\ nx = Store(nx1, e, None) /\ pv = Store(pv1, e, None)
  BY <1>t
<1> HIDE DEF before, after
<1>1. /\ nx1 \in Links
      /\ \A f \in Entries : nx1[f] = IF f = before THEN after ELSE next[f]
  BY <1>0, StoreType
<1>2. /\ pv1 \in Links
      /\ \A f \in Entries : pv1[f] = IF f = after THEN before ELSE prev[f]
  BY <1>0, StoreType
<1> HIDE DEF nx1, pv1
<1>u. e \in OrNone(Entries) /\ None \in OrNone(Entries)
  BY <1>t
<1>3. /\ nx \in Links
      /\ \A f \in Entries : nx[f] = IF f = e THEN None ELSE nx1[f]
  <2>1. /\ Store(nx1, e, None) \in Links
        /\ \A f \in Entries : Store(nx1, e, None)[f] = IF f = e THEN None ELSE nx1[f]
    BY <1>1, <1>u, StoreType
  <2> QED
    BY <2>1, <1>0
<1>4. /\ pv \in Links
      /\ \A f \in Entries : pv[f] = IF f = e THEN None ELSE pv1[f]
  <2>1. /\ Store(pv1, e, None) \in Links
        /\ \A f \in Entries : Store(pv1, e, None)[f] = IF f = e THEN None ELSE pv1[f]
    BY <1>2, <1>u, StoreType
  <2> QED
    BY <2>1, <1>0
<1>5. before = prev[e] /\ after = next[e]
  BY DEF before, after
<1> QED
  BY <1>1, <1>2, <1>3, <1>4, <1>5 DEF Unlinks

\* extract() takes the entry at p out of a list and clears its links.
LEMMA UnlinkLemma ==
    ASSUME NEW n \in Nat, NEW s, NEW head, NEW tail, NEW next \in Links, NEW prev \in Links,
           Lists(s, n, head, tail, next, prev), NEW p \in 1..n, n > 1,
           NEW e, e = s[p], NEW nx, NEW pv, Unlinks(nx, pv, next, prev, e)
    PROVE  /\ nx \in Links /\ pv \in Links
           /\ Lists(Dropped(s, n, p), n - 1, EndWithout(head, next, e),
                    EndWithout(tail, prev, e), nx, pv)
           /\ Outside(Dropped(s, n, p), n - 1, e)
           /\ KeepsLinks(s, n, e, nx, pv, next, prev)
<1> DEFINE d == Dropped(s, n, p)
<1>t. /\ e \in Entries /\ e \in OrNone(Entries) /\ next[e] \in OrNone(Entries)
            /\ prev[e] \in OrNone(Entries)
      /\ None \in OrNone(Entries) /\ None \notin Entries
  BY NoneIsNull DEF Lists, Links, OrNone
<1>1. /\ nx \in Links /\ pv \in Links
      /\ \A f \in Entries :
            nx[f] = IF f = e THEN None ELSE IF f = prev[e] THEN next[e] ELSE next[f]
      /\ \A f \in Entries :
            pv[f] = IF f = e THEN None ELSE IF f = next[e] THEN prev[e] ELSE prev[f]
  BY DEF Unlinks
<1>2. /\ d \in [1..(n - 1) -> Entries]
      /\ \A i \in 1..(n - 1) : d[i] = IF i < p THEN s[i] ELSE s[i + 1]
  BY DEF Lists, Dropped
<1>3. \A i \in 1..(n - 1) : d[i] # e
  BY <1>2 DEF Lists
<1>4. \A i, j \in 1..(n - 1) : d[i] = d[j] => i = j
  BY <1>2 DEF Lists
<1>5. next[e] = (IF p = n THEN None ELSE s[p + 1])
      /\ prev[e] = (IF p = 1 THEN None ELSE s[p - 1])
  BY DEF Lists
<1>6. EndWithout(head, next, e) = d[1]
  BY <1>2, <1>5 DEF Lists, EndWithout
<1>7. EndWithout(tail, prev, e) = d[n - 1]
  BY <1>2, <1>5 DEF Lists, EndWithout
<1>8. ASSUME NEW i \in 1..(n - 1)
      PROVE  nx[d[i]] = IF i = n - 1 THEN None ELSE d[i + 1]
  <2>1. nx[d[i]] = IF d[i] = prev[e] THEN next[e] ELSE next[d[i]]
    BY <1>1, <1>2, <1>3
  <2>2. CASE i < p - 1
    BY <2>1, <2>2, <1>2, <1>5, <1>t DEF Lists
  <2>3. CASE i = p - 1
    BY <2>1, <2>3, <1>2, <1>5, <1>t DEF Lists
  <2>4. CASE i > p - 1
    BY <2>1, <2>4, <1>2, <1>5, <1>t DEF Lists
  <2> QED
    BY <2>2, <2>3, <2>4
<1>9. ASSUME NEW i \in 1..(n - 1)
      PROVE  pv[d[i]] = IF i = 1 THEN None ELSE d[i - 1]
  <2>1. pv[d[i]] = IF d[i] = next[e] THEN prev[e] ELSE prev[d[i]]
    BY <1>1, <1>2, <1>3
  <2>2. CASE i < p
    BY <2>1, <2>2, <1>2, <1>5, <1>t DEF Lists
  <2>3. CASE i = p
    BY <2>1, <2>3, <1>2, <1>5, <1>t DEF Lists
  <2>4. CASE i > p
    BY <2>1, <2>4, <1>2, <1>5, <1>t DEF Lists
  <2> QED
    BY <2>2, <2>3, <2>4
<1>10. ASSUME NEW f \in Entries, \A i \in 1..n : s[i] # f
       PROVE  nx[f] = next[f] /\ pv[f] = prev[f]
  BY <1>10, <1>1, <1>5, <1>t
<1>11. Lists(d, n - 1, EndWithout(head, next, e), EndWithout(tail, prev, e), nx, pv)
  <2> HIDE DEF d
  <2> QED
    BY <1>2, <1>4, <1>6, <1>7, <1>8, <1>9 DEF Lists
<1> QED
  BY <1>1, <1>3, <1>10, <1>11 DEF Outside, KeepsLinks

\* prepend (head) of an entry that is in no list.
LEMMA PrependLemma ==
    ASSUME NEW n \in Nat, NEW s, NEW head, NEW tail, NEW next \in Links, NEW prev \in Links,
           Lists(s, n, head, tail, next, prev), n > 0,
           NEW e \in Entries, Outside(s, n, e), NEW nx, NEW pv,
           nx = Store(Store(next, prev[head], e), e, head),
           pv = Store(Store(prev, e, prev[head]), head, e)
    PROVE  /\ nx \in Links /\ pv \in Links
           /\ Lists(InFront(s, n, e), n + 1, e, tail, nx, pv)
           /\ KeepsLinks(s, n, e, nx, pv, next, prev)
<1> DEFINE d == InFront(s, n, e)
<1>t. /\ head \in Entries /\ head = s[1] /\ head # e /\ prev[head] = None
      /\ tail = s[n]
      /\ None \in OrNone(Entries) /\ None \notin Entries
      /\ e \in OrNone(Entries) /\ head \in OrNone(Entries)
  BY NoneIsNull DEF Lists, Links, OrNone, Outside
<1>1. /\ nx \in Links /\ pv \in Links
      /\ \A f \in Entries : nx[f] = IF f = e THEN head ELSE next[f]
      /\ \A f \in Entries : pv[f] = IF f = head THEN e ELSE IF f = e THEN None ELSE prev[f]
  <2> DEFINE nx1 == Store(next, None, e)
             pv1 == Store(prev, e, None)
  <2>0. nx = Store(nx1, e, head) /\ pv = Store(pv1, head, e)
    BY <1>t
  <2>1. /\ nx1 \in Links
        /\ \A f \in Entries : nx1[f] = next[f]
    BY <1>t, StoreType
  <2>2. /\ pv1 \in Links
        /\ \A f \in Entries : pv1[f] = IF f = e THEN None ELSE prev[f]
    BY <1>t, StoreType
  <2> HIDE DEF nx1, pv1
  <2>t. e \in OrNone(Entries) /\ head \in OrNone(Entries)
    BY <1>t
  <2>3. /\ nx \in Links
        /\ \A f \in Entries : nx[f] = IF f = e THEN head ELSE nx1[f]
    <3>1. /\ Store(nx1, e, head) \in Links
          /\ \A f \in Entries : Store(nx1, e, head)[f] = IF f = e THEN head ELSE nx1[f]
      BY <2>1, <2>t, StoreType
    <3> QED
      BY <2>0, <3>1
  <2>4. /\ pv \in Links
        /\ \A f \in Entries : pv[f] = IF f = head THEN e ELSE pv1[f]
    <3>1. /\ Store(pv1, head, e) \in Links
          /\ \A f \in Entries : Store(pv1, head, e)[f] = IF f = head THEN e ELSE pv1[f]
      BY <2>2, <2>t, StoreType
    <3> QED
      BY <2>0, <3>1
  <2> QED
    BY <2>1, <2>2, <2>3, <2>4
<1>2. /\ d \in [1..(n + 1) -> Entries]
      /\ \A i \in 1..(n + 1) : d[i] = IF i = 1 THEN e ELSE s[i - 1]
  BY DEF Lists, InFront
<1>3. \A i, j \in 1..(n + 1) : d[i] = d[j] => i = j
  BY <1>2 DEF Lists, Outside
<1>4. ASSUME NEW i \in 1..(n + 1)
      PROVE  nx[d[i]] = IF i = n + 1 THEN None ELSE d[i + 1]
  <2>1. CASE i = 1
    BY <2>1, <1>1, <1>2, <1>t
  <2>2. CASE i > 1
    <3>1. d[i] = s[i - 1] /\ i - 1 \in 1..n /\ d[i] # e /\ d[i] \in Entries
      BY <2>2, <1>2 DEF Outside
    <3>2. nx[d[i]] = next[s[i - 1]]
      BY <3>1, <1>1
    <3> QED
      BY <3>1, <3>2, <2>2, <1>2 DEF Lists
  <2> QED
    BY <2>1, <2>2
<1>5. ASSUME NEW i \in 1..(n + 1)
      PROVE  pv[d[i]] = IF i = 1 THEN None ELSE d[i - 1]
  <2>1. CASE i = 1
    BY <2>1, <1>1, <1>2, <1>t
  <2>2. CASE i = 2
    BY <2>2, <1>1, <1>2, <1>t
  <2>3. CASE i > 2
    <3>1. d[i] = s[i - 1] /\ i - 1 \in 2..n /\ d[i] # e /\ d[i] \in Entries
      BY <2>3, <1>2 DEF Outside
    <3>2. d[i] # head
      BY <3>1, <1>t DEF Lists
    <3>3. pv[d[i]] = prev[s[i - 1]]
      BY <3>1, <3>2, <1>1
    <3> QED
      BY <3>1, <3>3, <2>3, <1>2 DEF Lists
  <2> QED
    BY <2>1, <2>2, <2>3
<1>6. d[1] = e /\ d[n + 1] = tail
  BY <1>2, <1>t
<1>7. Lists(d, n + 1, e, tail, nx, pv)
  <2> HIDE DEF d
  <2> QED
    BY <1>2, <1>3, <1>4, <1>5, <1>6 DEF Lists
<1>8. ASSUME NEW f \in Entries, f # e, \A i \in 1..n : s[i] # f
      PROVE  nx[f] = next[f] /\ pv[f] = prev[f]
  BY <1>8, <1>1, <1>t
<1> QED
  BY <1>1, <1>7, <1>8 DEF Outside, KeepsLinks

\* append (tail) of an entry that is in no list.
LEMMA AppendLemma ==
    ASSUME NEW n \in Nat, NEW s, NEW head, NEW tail, NEW next \in Links, NEW prev \in Links,
           Lists(s, n, head, tail, next, prev), n > 0,
           NEW e \in Entries, Outside(s, n, e), NEW nx, NEW pv,
           pv = Store(Store(prev, next[tail], e), e, tail),
           nx = Store(Store(next, e, next[tail]), tail, e)
    PROVE  /\ nx \in Links /\ pv \in Links
           /\ Lists(Behind(s, n, e), n + 1, head, e, nx, pv)
           /\ KeepsLinks(s, n, e, nx, pv, next, prev)
<1> DEFINE d == Behind(s, n, e)
<1>t. /\ tail \in Entries /\ tail = s[n] /\ tail # e /\ next[tail] = None
      /\ head = s[1]
      /\ None \in OrNone(Entries) /\ None \notin Entries
      /\ e \in OrNone(Entries) /\ tail \in OrNone(Entries)
  BY NoneIsNull DEF Lists, Links, OrNone, Outside
<1>1. /\ nx \in Links /\ pv \in Links
      /\ \A f \in Entries : pv[f] = IF f = e THEN tail ELSE prev[f]
      /\ \A f \in Entries : nx[f] = IF f = tail THEN e ELSE IF f = e THEN None ELSE next[f]
  <2> DEFINE pv1 == Store(prev, None, e)
             nx1 == Store(next, e, None)
  <2>0. pv = Store(pv1, e, tail) /\ nx = Store(nx1, tail, e)
    BY <1>t
  <2>1. /\ pv1 \in Links
        /\ \A f \in Entries : pv1[f] = prev[f]
    BY <1>t, StoreType
  <2>2. /\ nx1 \in Links
        /\ \A f \in Entries : nx1[f] = IF f = e THEN None ELSE next[f]
    BY <1>t, StoreType
  <2> HIDE DEF nx1, pv1
  <2>t. e \in OrNone(Entries) /\ tail \in OrNone(Entries)
    BY <1>t
  <2>3. /\ pv \in Links
        /\ \A f \in Entries : pv[f] = IF f = e THEN tail ELSE pv1[f]
    <3>1. /\ Store(pv1, e, tail) \in Links
          /\ \A f \in Entries : Store(pv1, e, tail)[f] = IF f = e THEN tail ELSE pv1[f]
      BY <2>1, <2>t, StoreType
    <3> QED
      BY <2>0, <3>1
  <2>4. /\ nx \in Links
        /\ \A f \in Entries : nx[f] = IF f = tail THEN e ELSE nx1[f]
    <3>1. /\ Store(nx1, tail, e) \in Links
          /\ \A f \in Entries : Store(nx1, tail, e)[f] = IF f = tail THEN e ELSE nx1[f]
      BY <2>2, <2>t, StoreType
    <3> QED
      BY <2>0, <3>1
  <2> QED
    BY <2>1, <2>2, <2>3, <2>4
<1>2. /\ d \in [1..(n + 1) -> Entries]
      /\ \A i \in 1..(n + 1) : d[i] = IF i = n + 1 THEN e ELSE s[i]
  BY DEF Lists, Behind
<1>3. \A i, j \in 1..(n + 1) : d[i] = d[j] => i = j
  BY <1>2 DEF Lists, Outside
<1>4. ASSUME NEW i \in 1..(n + 1)
      PROVE  pv[d[i]] = IF i = 1 THEN None ELSE d[i - 1]
  <2>1. CASE i = n + 1
    BY <2>1, <1>1, <1>2, <1>t
  <2>2. CASE i < n + 1
    <3>1. d[i] = s[i] /\ i \in 1..n /\ d[i] # e /\ d[i] \in Entries
      BY <2>2, <1>2 DEF Outside
    <3>2. pv[d[i]] = prev[s[i]]
      BY <3>1, <1>1
    <3> QED
      BY <3>1, <3>2, <2>2, <1>2 DEF Lists
  <2> QED
    BY <2>1, <2>2
<1>5. ASSUME NEW i \in 1..(n + 1)
      PROVE  nx[d[i]] = IF i = n + 1 THEN None ELSE d[i + 1]
  <2>1. CASE i = n + 1
    BY <2>1, <1>1, <1>2, <1>t
  <2>2. CASE i = n
    BY <2>2, <1>1, <1>2, <1>t
  <2>3. CASE i < n
    <3>1. d[i] = s[i] /\ i \in 1..n /\ d[i] # e /\ d[i] \in Entries
      BY <2>3, <1>2 DEF Outside
    <3>2. d[i] # tail
      BY <3>1, <2>3, <1>t DEF Lists
    <3>3. nx[d[i]] = next[s[i]]
      BY <3>1, <3>2, <1>1
    <3> QED
      BY <3>1, <3>3, <2>3, <1>2 DEF Lists
  <2> QED
    BY <2>1, <2>2, <2>3
<1>6. d[n + 1] = e /\ d[1] = head
  BY <1>2, <1>t
<1>7. Lists(d, n + 1, head, e, nx, pv)
  <2> HIDE DEF d
  <2> QED
    BY <1>2, <1>3, <1>4, <1>5, <1>6 DEF Lists
<1>8. ASSUME NEW f \in Entries, f # e, \A i \in 1..n : s[i] # f
      PROVE  nx[f] = next[f] /\ pv[f] = prev[f]
  BY <1>8, <1>1, <1>t
<1> QED
  BY <1>1, <1>7, <1>8 DEF Outside, KeepsLinks

-----------------------------------------------------------------------------
(* The record: what the moves to the front and to the back do to its lists. *)

ListIs(q, s, n) == Lists(s, n, q.head, q.tail, q.next, q.prev)

\* r differs from q in its links only.
SameContent(q, r) ==
    /\ IsCache(r)
    /\ r.map = q.map /\ r.entries = q.entries /\ r.key = q.key /\ r.payload = q.payload

ToFront(s, n, p) ==
    [i \in 1..n |-> IF i = 1 THEN s[p] ELSE IF i <= p THEN s[i - 1] ELSE s[i]]
ToBack(s, n, p) ==
    [i \in 1..n |-> IF i = n THEN s[p] ELSE IF i < p THEN s[i] ELSE s[i + 1]]

\* Taking an entry out and putting it in again at an end moves it there.
LEMMA MovedLists ==
    ASSUME NEW n \in Nat, NEW s, s \in [1..n -> Entries], NEW p \in 1..n, n > 1
    PROVE  /\ ToFront(s, n, p) = InFront(Dropped(s, n, p), n - 1, s[p])
           /\ ToBack(s, n, p) = Behind(Dropped(s, n, p), n - 1, s[p])
<1>1. (n - 1) + 1 = n
  OBVIOUS
<1>2. \A i \in 1..(n - 1) : Dropped(s, n, p)[i] = IF i < p THEN s[i] ELSE s[i + 1]
  BY DEF Dropped
<1>3. \A i \in 1..n : ToFront(s, n, p)[i] = InFront(Dropped(s, n, p), n - 1, s[p])[i]
  BY <1>1, <1>2 DEF ToFront, InFront
<1>4. \A i \in 1..n : ToBack(s, n, p)[i] = Behind(Dropped(s, n, p), n - 1, s[p])[i]
  BY <1>1, <1>2 DEF ToBack, Behind
<1>5. /\ ToFront(s, n, p) = [i \in 1..n |-> ToFront(s, n, p)[i]]
      /\ ToBack(s, n, p) = [i \in 1..n |-> ToBack(s, n, p)[i]]
      /\ InFront(Dropped(s, n, p), n - 1, s[p])
           = [i \in 1..n |-> InFront(Dropped(s, n, p), n - 1, s[p])[i]]
      /\ Behind(Dropped(s, n, p), n - 1, s[p])
           = [i \in 1..n |-> Behind(Dropped(s, n, p), n - 1, s[p])[i]]
  BY <1>1 DEF ToFront, ToBack, InFront, Behind
<1> QED
  BY <1>3, <1>4, <1>5

\* The fields of an unlinked, a prepended and an appended entry's cache.
LEMMA UnlinkedRecord ==
    ASSUME NEW q, IsCache(q), NEW e \in Entries, NEW r, r = Unlinked(q, e)
    PROVE  /\ SameContent(q, r) /\ r.head = q.head /\ r.tail = q.tail
           /\ Unlinks(r.next, r.prev, q.next, q.prev, e)
<1>1. /\ r.next = Store(Store(q.next, q.prev[e], q.next[e]), e, None)
      /\ r.prev = Store(Store(q.prev, q.next[e], q.prev[e]), e, None)
      /\ r.head = q.head /\ r.tail = q.tail /\ r.map = q.map
      /\ r.entries = q.entries /\ r.key = q.key /\ r.payload = q.payload
  BY DEF Unlinked, IsCache
<1>2. q.next \in Links /\ q.prev \in Links
  BY DEF IsCache, Links
<1>3. Unlinks(r.next, r.prev, q.next, q.prev, e)
  BY <1>1, <1>2, UnlinkFields
<1>4. r = [map |-> r.map, head |-> r.head, tail |-> r.tail, entries |-> r.entries,
           key |-> r.key, payload |-> r.payload, prev |-> r.prev, next |-> r.next]
  BY DEF Unlinked, IsCache
<1>5. IsCache(r)
  BY <1>1, <1>3, <1>4 DEF IsCache, Unlinks, Links
<1> QED
  BY <1>1, <1>3, <1>5 DEF SameContent

\* What Prepended writes in the record of the cache.
LEMMA PrependedRecord ==
    ASSUME NEW q, IsCache(q), NEW n \in Nat, NEW s, ListIs(q, s, n), n > 0,
           NEW e \in Entries, Outside(s, n, e), NEW r, r = Prepended(q, e)
    PROVE  /\ SameContent(q, r) /\ ListIs(r, InFront(s, n, e), n + 1)
           /\ KeepsLinks(s, n, e, r.next, r.prev, q.next, q.prev)
<1>1. /\ r.next = Store(Store(q.next, q.prev[q.head], e), e, q.head)
      /\ r.prev = Store(Store(q.prev, e, q.prev[q.head]), q.head, e)
      /\ r.head = e /\ r.tail = q.tail /\ r.map = q.map
      /\ r.entries = q.entries /\ r.key = q.key /\ r.payload = q.payload
  BY DEF Prepended, IsCache
<1>2. q.next \in Links /\ q.prev \in Links
  BY DEF IsCache, Links
<1>3. Lists(s, n, q.head, q.tail, q.next, q.prev)
  BY DEF ListIs
<1>4. /\ r.next \in Links /\ r.prev \in Links
      /\ Lists(InFront(s, n, e), n + 1, e, q.tail, r.next, r.prev)
      /\ KeepsLinks(s, n, e, r.next, r.prev, q.next, q.prev)
  BY <1>1, <1>2, <1>3, PrependLemma
<1>5. r = [map |-> r.map, head |-> r.head, tail |-> r.tail, entries |-> r.entries,
           key |-> r.key, payload |-> r.payload, prev |-> r.prev, next |-> r.next]
  BY DEF Prepended, IsCache
<1>6. IsCache(r)
  BY <1>1, <1>4, <1>5 DEF IsCache, Links, OrNone
<1> QED
  BY <1>1, <1>4, <1>6 DEF SameContent, ListIs

\* What Appended writes in the record of the cache.
LEMMA AppendedRecord ==
    ASSUME NEW q, IsCache(q), NEW n \in Nat, NEW s, ListIs(q, s, n), n > 0,
           NEW e \in Entries, Outside(s, n, e), NEW r, r = Appended(q, e)
    PROVE  /\ SameContent(q, r) /\ ListIs(r, Behind(s, n, e), n + 1)
           /\ KeepsLinks(s, n, e, r.next, r.prev, q.next, q.prev)
<1>1. /\ r.prev = Store(Store(q.prev, q.next[q.tail], e), e, q.tail)
      /\ r.next = Store(Store(q.next, e, q.next[q.tail]), q.tail, e)
      /\ r.head = q.head /\ r.tail = e /\ r.map = q.map
      /\ r.entries = q.entries /\ r.key = q.key /\ r.payload = q.payload
  BY DEF Appended, IsCache
<1>2. q.next \in Links /\ q.prev \in Links
  BY DEF IsCache, Links
<1>3. Lists(s, n, q.head, q.tail, q.next, q.prev)
  BY DEF ListIs
<1>4. /\ r.next \in Links /\ r.prev \in Links
      /\ Lists(Behind(s, n, e), n + 1, q.head, e, r.next, r.prev)
      /\ KeepsLinks(s, n, e, r.next, r.prev, q.next, q.prev)
  BY <1>1, <1>2, <1>3, AppendLemma
<1>5. r = [map |-> r.map, head |-> r.head, tail |-> r.tail, entries |-> r.entries,
           key |-> r.key, payload |-> r.payload, prev |-> r.prev, next |-> r.next]
  BY DEF Appended, IsCache
<1>6. IsCache(r)
  BY <1>1, <1>4, <1>5 DEF IsCache, Links, OrNone
<1> QED
  BY <1>1, <1>4, <1>6 DEF SameContent, ListIs

\* No entry outside the list s has a link, the ones excepted that the move
\* gives one.
LEMMA ReReferenceMoves ==
    ASSUME NEW q, IsCache(q), NEW n \in Nat, NEW s, ListIs(q, s, n), NEW p \in 1..n,
           NEW r, r = ReReference(q, s[p])
    PROVE  /\ SameContent(q, r) /\ ListIs(r, ToFront(s, n, p), n)
           /\ KeepsLinks(s, n, s[p], r.next, r.prev, q.next, q.prev)
<1>t. s \in [1..n -> Entries] /\ q.head = s[1]
  BY DEF ListIs, Lists
<1>1. CASE p = 1
  <2>1. ToFront(s, n, p) = s
    BY <1>1, <1>t DEF ToFront
  <2>2. r = q
    BY <1>1, <1>t DEF ReReference
  <2> QED
    BY <2>1, <2>2 DEF SameContent, KeepsLinks
<1>2. CASE p # 1
  <2> DEFINE e == s[p]
             q1 == [q EXCEPT !.tail = IF e = @ THEN q.prev[e] ELSE @]
             q2 == Unlinked(q1, e)
             d == Dropped(s, n, p)
  <2>1. n > 1 /\ e \in Entries /\ e # q.head
    BY <1>2, <1>t DEF ListIs, Lists
  <2>2. r = Prepended(q2, e)
    BY <2>1 DEF ReReference
  <2>3. /\ IsCache(q1) /\ q1.next = q.next /\ q1.prev = q.prev /\ q1.head = q.head
        /\ q1.map = q.map /\ q1.entries = q.entries
        /\ q1.key = q.key /\ q1.payload = q.payload
        /\ q1.tail = IF e = q.tail THEN q.prev[e] ELSE q.tail
    BY <2>1 DEF IsCache
  <2> HIDE DEF q1
  <2>4. /\ SameContent(q1, q2) /\ q2.head = q.head /\ q2.tail = q1.tail
        /\ Unlinks(q2.next, q2.prev, q.next, q.prev, e)
    <3>1. /\ SameContent(q1, q2) /\ q2.head = q1.head /\ q2.tail = q1.tail
          /\ Unlinks(q2.next, q2.prev, q1.next, q1.prev, e)
      BY <2>1, <2>3, UnlinkedRecord
    <3> QED
      BY <3>1, <2>3
  <2> HIDE DEF q2
  <2>5. /\ q.next \in Links /\ q.prev \in Links
        /\ Lists(s, n, q.head, q.tail, q.next, q.prev)
    BY DEF IsCache, Links, ListIs
  <2>6. /\ Lists(d, n - 1, q2.head, q2.tail, q2.next, q2.prev)
        /\ Outside(d, n - 1, e)
        /\ KeepsLinks(s, n, e, q2.next, q2.prev, q.next, q.prev)
    <3>1. /\ q2.head = EndWithout(q.head, q.next, e)
          /\ q2.tail = EndWithout(q.tail, q.prev, e)
      BY <2>1, <2>3, <2>4 DEF EndWithout
    <3>2. Lists(d, n - 1, EndWithout(q.head, q.next, e), EndWithout(q.tail, q.prev, e),
          q2.next, q2.prev)
      BY <2>1, <2>4, <2>5, UnlinkLemma
    <3>3. Outside(d, n - 1, e)
      BY <2>1, <2>4, <2>5, UnlinkLemma
    <3>4. KeepsLinks(s, n, e, q2.next, q2.prev, q.next, q.prev)
      BY <2>1, <2>4, <2>5, UnlinkLemma
    <3> QED
      BY <3>1, <3>2, <3>3, <3>4
  <2>7. ListIs(q2, d, n - 1)
    BY <2>6 DEF ListIs
  <2>8. IsCache(q2) /\ n - 1 \in Nat /\ n - 1 > 0
    BY <2>1, <2>4 DEF SameContent
  <2>9. /\ SameContent(q2, r) /\ ListIs(r, InFront(d, n - 1, e), (n - 1) + 1)
        /\ KeepsLinks(d, n - 1, e, r.next, r.prev, q2.next, q2.prev)
    BY <2>1, <2>2, <2>6, <2>7, <2>8, PrependedRecord
  <2>10. ListIs(r, ToFront(s, n, p), n)
    BY <2>1, <2>9, <1>t, MovedLists
  <2>11. KeepsLinks(s, n, e, r.next, r.prev, q.next, q.prev)
    <3>1. ASSUME NEW f, Outside(s, n, f)
          PROVE  Outside(d, n - 1, f)
      BY <3>1, <1>t DEF Dropped, Outside
    <3> HIDE DEF d, e
    <3> QED
      BY <3>1, <2>6, <2>9 DEF KeepsLinks
  <2>12. SameContent(q, r)
    BY <2>3, <2>4, <2>9 DEF SameContent
  <2> QED
    BY <2>10, <2>11, <2>12
<1> QED
  BY <1>1, <1>2

\* deReference() moves the entry at p to the tail.
LEMMA DeReferenceMoves ==
    ASSUME NEW q, IsCache(q), NEW n \in Nat, NEW s, ListIs(q, s, n), NEW p \in 1..n,
           NEW r, r = DeReference(q, s[p])
    PROVE  /\ SameContent(q, r) /\ ListIs(r, ToBack(s, n, p), n)
           /\ KeepsLinks(s, n, s[p], r.next, r.prev, q.next, q.prev)
<1>t. s \in [1..n -> Entries] /\ q.tail = s[n]
  BY DEF ListIs, Lists
<1>1. CASE p = n
  <2>1. ToBack(s, n, p) = s
    BY <1>1, <1>t DEF ToBack
  <2>2. r = q
    BY <1>1, <1>t DEF DeReference
  <2> QED
    BY <2>1, <2>2 DEF SameContent, KeepsLinks
<1>2. CASE p # n
  <2> DEFINE e == s[p]
             q1 == [q EXCEPT !.head = IF e = @ THEN q.next[e] ELSE @]
             q2 == Unlinked(q1, e)
             d == Dropped(s, n, p)
  <2>1. n > 1 /\ e \in Entries /\ e # q.tail
    BY <1>2, <1>t DEF ListIs, Lists
  <2>2. r = Appended(q2, e)
    BY <2>1 DEF DeReference
  <2>3. /\ IsCache(q1) /\ q1.next = q.next /\ q1.prev = q.prev /\ q1.tail = q.tail
        /\ q1.map = q.map /\ q1.entries = q.entries
        /\ q1.key = q.key /\ q1.payload = q.payload
        /\ q1.head = IF e = q.head THEN q.next[e] ELSE q.head
    BY <2>1 DEF IsCache
  <2> HIDE DEF q1
  <2>4. /\ SameContent(q1, q2) /\ q2.tail = q.tail /\ q2.head = q1.head
        /\ Unlinks(q2.next, q2.prev, q.next, q.prev, e)
    <3>1. /\ SameContent(q1, q2) /\ q2.head = q1.head /\ q2.tail = q1.tail
          /\ Unlinks(q2.next, q2.prev, q1.next, q1.prev, e)
      BY <2>1, <2>3, UnlinkedRecord
    <3> QED
      BY <3>1, <2>3
  <2> HIDE DEF q2
  <2>5. /\ q.next \in Links /\ q.prev \in Links
        /\ Lists(s, n, q.head, q.tail, q.next, q.prev)
    BY DEF IsCache, Links, ListIs
  <2>6. /\ Lists(d, n - 1, q2.head, q2.tail, q2.next, q2.prev)
        /\ Outside(d, n - 1, e)
        /\ KeepsLinks(s, n, e, q2.next, q2.prev, q.next, q.prev)
    <3>1. /\ q2.head = EndWithout(q.head, q.next, e)
          /\ q2.tail = EndWithout(q.tail, q.prev, e)
      BY <2>1, <2>3, <2>4 DEF EndWithout
    <3>2. Lists(d, n - 1, EndWithout(q.head, q.next, e), EndWithout(q.tail, q.prev, e),
          q2.next, q2.prev)
      BY <2>1, <2>4, <2>5, UnlinkLemma
    <3>3. Outside(d, n - 1, e)
      BY <2>1, <2>4, <2>5, UnlinkLemma
    <3>4. KeepsLinks(s, n, e, q2.next, q2.prev, q.next, q.prev)
      BY <2>1, <2>4, <2>5, UnlinkLemma
    <3> QED
      BY <3>1, <3>2, <3>3, <3>4
  <2>7. ListIs(q2, d, n - 1)
    BY <2>6 DEF ListIs
  <2>8. IsCache(q2) /\ n - 1 \in Nat /\ n - 1 > 0
    BY <2>1, <2>4 DEF SameContent
  <2>9. /\ SameContent(q2, r) /\ ListIs(r, Behind(d, n - 1, e), (n - 1) + 1)
        /\ KeepsLinks(d, n - 1, e, r.next, r.prev, q2.next, q2.prev)
    BY <2>1, <2>2, <2>6, <2>7, <2>8, AppendedRecord
  <2>10. ListIs(r, ToBack(s, n, p), n)
    BY <2>1, <2>9, <1>t, MovedLists
  <2>11. KeepsLinks(s, n, e, r.next, r.prev, q.next, q.prev)
    <3>1. ASSUME NEW f, Outside(s, n, f)
          PROVE  Outside(d, n - 1, f)
      BY <3>1, <1>t DEF Dropped, Outside
    <3> HIDE DEF d, e
    <3> QED
      BY <3>1, <2>6, <2>9 DEF KeepsLinks
  <2>12. SameContent(q, r)
    BY <2>3, <2>4, <2>9 DEF SameContent
  <2> QED
    BY <2>10, <2>11, <2>12
<1> QED
  BY <1>1, <1>2

\* An entry without links, put in front of a list it is not in.
LEMMA ReReferenceAdds ==
    ASSUME NEW q, IsCache(q), NEW n \in Nat, NEW s, ListIs(q, s, n), n > 0,
           NEW e \in Entries, Outside(s, n, e), q.next[e] = None, q.prev[e] = None,
           NEW r, r = ReReference(q, e)
    PROVE  /\ SameContent(q, r) /\ ListIs(r, InFront(s, n, e), n + 1)
           /\ KeepsLinks(s, n, e, r.next, r.prev, q.next, q.prev)
<1> DEFINE q1 == [q EXCEPT !.tail = IF e = @ THEN q.prev[e] ELSE @]
           q2 == Unlinked(q1, e)
<1>1. e # q.head /\ e # q.tail
  BY DEF ListIs, Lists, Outside
<1>2. r = Prepended(q2, e)
  BY <1>1 DEF ReReference
<1>3. /\ IsCache(q1) /\ q1.next = q.next /\ q1.prev = q.prev
      /\ q1.head = q.head /\ q1.tail = q.tail
      /\ q1.map = q.map /\ q1.entries = q.entries
      /\ q1.key = q.key /\ q1.payload = q.payload
  BY <1>1 DEF IsCache
<1> HIDE DEF q1
<1>4. /\ SameContent(q1, q2) /\ q2.head = q.head /\ q2.tail = q.tail
      /\ Unlinks(q2.next, q2.prev, q.next, q.prev, e)
  <2>1. /\ SameContent(q1, q2) /\ q2.head = q1.head /\ q2.tail = q1.tail
        /\ Unlinks(q2.next, q2.prev, q1.next, q1.prev, e)
    BY <1>3, UnlinkedRecord
  <2> QED
    BY <2>1, <1>3
<1> HIDE DEF q2
<1>5. \A f \in Entries : q2.next[f] = q.next[f] /\ q2.prev[f] = q.prev[f]
  <2>1. None \notin Entries
    BY NoneIsNull
  <2> QED
    BY <2>1, <1>4 DEF Unlinks
<1>6. IsCache(q2) /\ ListIs(q2, s, n)
  BY <1>4, <1>5 DEF ListIs, Lists, SameContent
<1>7. /\ SameContent(q2, r) /\ ListIs(r, InFront(s, n, e), n + 1)
      /\ KeepsLinks(s, n, e, r.next, r.prev, q2.next, q2.prev)
  BY <1>2, <1>6, PrependedRecord
<1>8. SameContent(q, r)
  BY <1>3, <1>4, <1>7 DEF SameContent
<1>9. KeepsLinks(s, n, e, r.next, r.prev, q.next, q.prev)
  BY <1>5, <1>7 DEF KeepsLinks
<1> QED
  BY <1>7, <1>8, <1>9

-----------------------------------------------------------------------------
(* The order of use: s lists the entries that exist, those that do not     *)
(* have no links.                                                          *)

Order(q, s) ==
    /\ IsCache(q)
    /\ ListIs(q, s, q.entries)
    /\ \A i \in 1..q.entries : s[i] \in 1..q.entries
    /\ \A e \in 1..q.entries : \E i \in 1..q.entries : s[i] = e
    /\ \A e \in Entries : e > q.entries => q.next[e] = None /\ q.prev[e] = None

\* t and s list the same entries.
Permutes(t, s, n) ==
    /\ \A i \in 1..n : \E j \in 1..n : t[i] = s[j]
    /\ \A j \in 1..n : \E i \in 1..n : t[i] = s[j]

\* A list with one entry moved lists the same entries.
LEMMA MovedPermutes ==
    ASSUME NEW n \in Nat, NEW s, NEW p \in 1..n
    PROVE  Permutes(ToFront(s, n, p), s, n) /\ Permutes(ToBack(s, n, p), s, n)
<1> DEFINE f == ToFront(s, n, p)
           b == ToBack(s, n, p)
<1>1. /\ f[1] = s[p]
      /\ \A i \in 2..p : i \in 1..n /\ i - 1 \in 1..n /\ f[i] = s[i - 1]
      /\ \A i \in (p + 1)..n : i \in 1..n /\ f[i] = s[i]
      /\ 1 \in 1..n
  BY DEF ToFront
<1>2. /\ b[n] = s[p]
      /\ \A i \in 1..(p - 1) : i \in 1..n /\ b[i] = s[i]
      /\ \A i \in p..(n - 1) : i \in 1..n /\ i + 1 \in 1..n /\ b[i] = s[i + 1]
      /\ n \in 1..n
  BY DEF ToBack
<1> HIDE DEF f, b
<1>3. ASSUME NEW i \in 1..n
      PROVE  \E j \in 1..n : f[i] = s[j]
  <2>1. i = 1 \/ i \in 2..p \/ i \in (p + 1)..n
    OBVIOUS
  <2> QED
    BY <2>1, <1>1
<1>4. ASSUME NEW j \in 1..n
      PROVE  \E i \in 1..n : f[i] = s[j]
  <2>1. j = p \/ (j + 1 \in 2..p /\ (j + 1) - 1 = j) \/ j \in (p + 1)..n
    OBVIOUS
  <2> QED
    BY <2>1, <1>1
<1>5. ASSUME NEW i \in 1..n
      PROVE  \E j \in 1..n : b[i] = s[j]
  <2>1. i = n \/ i \in 1..(p - 1) \/ i \in p..(n - 1)
    OBVIOUS
  <2> QED
    BY <2>1, <1>2
<1>6. ASSUME NEW j \in 1..n
      PROVE  \E i \in 1..n : b[i] = s[j]
  <2>1. j = p \/ j \in 1..(p - 1) \/ (j - 1 \in p..(n - 1) /\ (j - 1) + 1 = j)
    OBVIOUS
  <2> QED
    BY <2>1, <1>2
<1> QED
  BY <1>3, <1>4, <1>5, <1>6 DEF f, b, Permutes

\* A permuted list is an order of use if the other entries keep their links.
LEMMA OrderMoved ==
    ASSUME NEW q, NEW s, Order(q, s), NEW p \in 1..q.entries, NEW r, NEW t,
           SameContent(q, r), ListIs(r, t, q.entries),
           KeepsLinks(s, q.entries, s[p], r.next, r.prev, q.next, q.prev),
           Permutes(t, s, q.entries)
    PROVE  Order(r, t)
<1>1. IsCache(r) /\ r.entries = q.entries /\ q.entries \in Nat
  BY DEF SameContent, Order, IsCache
<1> DEFINE n == q.entries
<1>2. /\ n \in Nat /\ Permutes(t, s, n)
      /\ \A i \in 1..n : s[i] \in 1..n
      /\ \A e \in 1..n : \E i \in 1..n : s[i] = e
      /\ KeepsLinks(s, n, s[p], r.next, r.prev, q.next, q.prev)
  BY <1>1 DEF Order
<1> HIDE DEF n
<1>3. \A i \in 1..n : t[i] \in 1..n
  BY <1>2 DEF Permutes
<1>4. ASSUME NEW e \in 1..n
      PROVE  \E i \in 1..n : t[i] = e
  <2>1. PICK j \in 1..n : s[j] = e
    BY <1>2
  <2>2. PICK i \in 1..n : t[i] = s[j]
    BY <1>2, <2>1 DEF Permutes
  <2> QED
    BY <2>1, <2>2
<1>5. ASSUME NEW e \in Entries, e > n
      PROVE  r.next[e] = None /\ r.prev[e] = None
  <2>1. \A i \in 1..n : s[i] # e
    BY <1>2, <1>5 DEF Entries
  <2>2. s[p] # e
    BY <2>1 DEF n
  <2>3. q.next[e] = None /\ q.prev[e] = None
    BY <1>5 DEF Order, n
  <2> QED
    BY <2>1, <2>2, <2>3, <1>2 DEF KeepsLinks, Outside
<1> QED
  BY <1>1, <1>3, <1>4, <1>5 DEF Order, n

\* reReference() puts the entry at the head of the order of use.
LEMMA OrderToFront ==
    ASSUME NEW q, NEW s, Order(q, s), NEW p \in 1..q.entries,
           NEW r, r = ReReference(q, s[p])
    PROVE  SameContent(q, r) /\ Order(r, ToFront(s, q.entries, p))
<1>1. IsCache(q) /\ ListIs(q, s, q.entries) /\ q.entries \in Nat
  BY DEF Order, IsCache
<1>2. /\ SameContent(q, r) /\ ListIs(r, ToFront(s, q.entries, p), q.entries)
      /\ KeepsLinks(s, q.entries, s[p], r.next, r.prev, q.next, q.prev)
  BY <1>1, ReReferenceMoves
<1>3. Permutes(ToFront(s, q.entries, p), s, q.entries)
  BY <1>1, MovedPermutes
<1> QED
  BY <1>2, <1>3, OrderMoved

\* deReference() puts the entry at the tail of the order of use.
LEMMA OrderToBack ==
    ASSUME NEW q, NEW s, Order(q, s), NEW p \in 1..q.entries,
           NEW r, r = DeReference(q, s[p])
    PROVE  SameContent(q, r) /\ Order(r, ToBack(s, q.entries, p))
<1>1. IsCache(q) /\ ListIs(q, s, q.entries) /\ q.entries \in Nat
  BY DEF Order, IsCache
<1>2. /\ SameContent(q, r) /\ ListIs(r, ToBack(s, q.entries, p), q.entries)
      /\ KeepsLinks(s, q.entries, s[p], r.next, r.prev, q.next, q.prev)
  BY <1>1, DeReferenceMoves
<1>3. Permutes(ToBack(s, q.entries, p), s, q.entries)
  BY <1>1, MovedPermutes
<1> QED
  BY <1>2, <1>3, OrderMoved

-----------------------------------------------------------------------------
(* What the map, the keys and the payloads say of each other, and the m    *)
(* entries with a key before the ones without.                             *)

Content(q) ==
    /\ \A k \in Keys, e \in Entries : q.map[k] = e <=> q.key[e] = k
    /\ \A e \in Entries : q.key[e] = None <=> q.payload[e] = None
    /\ \A e \in Entries : e > q.entries => q.key[e] = None

HeldFirst(q, s, m) ==
    /\ m \in 0..q.entries
    /\ \A i \in 1..q.entries : q.key[s[i]] # None <=> i <= m

Structure(q, s, m) == Order(q, s) /\ Content(q) /\ HeldFirst(q, s, m)

\* r differs from q in its map, keys and payloads only.
SameOrder(q, r) ==
    /\ IsCache(r)
    /\ r.head = q.head /\ r.tail = q.tail /\ r.entries = q.entries
    /\ r.prev = q.prev /\ r.next = q.next

\* Maps, keys and payloads do not matter to the order.
LEMMA SameOrderKeepsOrder ==
    ASSUME NEW q, NEW s, Order(q, s), NEW r, SameOrder(q, r)
    PROVE  Order(r, s)
BY DEF Order, SameOrder, ListIs

\* What QueuedEntry.set() writes in the record of the cache.
LEMMA SetToRecord ==
    ASSUME NEW q, IsCache(q), NEW e \in Entries, NEW k \in OrNone(Keys),
           NEW p \in OrNone(Payloads), NEW r, r = SetTo(q, e, k, p)
    PROVE  /\ SameOrder(q, r) /\ r.map = q.map
           /\ r.key = [q.key EXCEPT ![e] = k] /\ r.payload = [q.payload EXCEPT ![e] = p]
<1>1. /\ r.head = q.head /\ r.tail = q.tail /\ r.entries = q.entries
      /\ r.prev = q.prev /\ r.next = q.next /\ r.map = q.map
      /\ r.key = [q.key EXCEPT ![e] = k] /\ r.payload = [q.payload EXCEPT ![e] = p]
  BY DEF SetTo, IsCache
<1>2. r = [map |-> r.map, head |-> r.head, tail |-> r.tail, entries |-> r.entries,
           key |-> r.key, payload |-> r.payload, prev |-> r.prev, next |-> r.next]
  BY DEF SetTo, IsCache
<1>3. r.key \in [Entries -> OrNone(Keys)] /\ r.payload \in [Entries -> OrNone(Payloads)]
  BY <1>1 DEF IsCache
<1>4. IsCache(r)
  BY <1>1, <1>2, <1>3 DEF IsCache
<1> QED
  BY <1>1, <1>4 DEF SameOrder

MapSet(q, k, x) == [q EXCEPT !.map[k] = x]

\* What an assignment to the map writes in the record of the cache.
LEMMA MapRecord ==
    ASSUME NEW q, IsCache(q), NEW k \in Keys, NEW x \in OrNone(Entries),
           NEW r, r = MapSet(q, k, x)
    PROVE  /\ SameOrder(q, r) /\ r.map = [q.map EXCEPT ![k] = x]
           /\ r.key = q.key /\ r.payload = q.payload
<1>1. /\ r.head = q.head /\ r.tail = q.tail /\ r.entries = q.entries
      /\ r.prev = q.prev /\ r.next = q.next /\ r.map = [q.map EXCEPT ![k] = x]
      /\ r.key = q.key /\ r.payload = q.payload
  BY DEF IsCache, MapSet
<1>2. r = [map |-> r.map, head |-> r.head, tail |-> r.tail, entries |-> r.entries,
           key |-> r.key, payload |-> r.payload, prev |-> r.prev, next |-> r.next]
  BY DEF IsCache, MapSet
<1>3. r.map \in [Keys -> OrNone(Entries)]
  BY <1>1 DEF IsCache
<1>4. IsCache(r)
  BY <1>1, <1>2, <1>3 DEF IsCache
<1> QED
  BY <1>1, <1>4 DEF SameOrder

\* A key that is there is held by one of the first m entries.
LEMMA HeldAt ==
    ASSUME NEW q, NEW s, NEW m, Structure(q, s, m), NEW k \in Keys, q.map[k] # None
    PROVE  \E p \in 1..m : /\ p \in 1..q.entries /\ s[p] = q.map[k] /\ s[p] \in Entries
                           /\ q.key[s[p]] = k
<1> DEFINE e == q.map[k]
<1>1. e \in Entries /\ q.entries \in Nat /\ None \notin Keys
  BY NoneIsNull DEF Structure, Order, IsCache, OrNone
<1>2. q.key[e] = k
  BY <1>1 DEF Structure, Content
<1>3. e \in 1..q.entries
  BY <1>1, <1>2 DEF Structure, Content, Entries
<1>4. PICK p \in 1..q.entries : s[p] = e
  BY <1>3 DEF Structure, Order
<1>5. p <= m /\ m \in Nat
  BY <1>1, <1>2, <1>4 DEF Structure, HeldFirst
<1>6. p \in 1..m
  BY <1>4, <1>5
<1> QED
  BY <1>1, <1>2, <1>4, <1>6

\* An entry with a key can move to the front of those with one.
LEMMA HeldToFront ==
    ASSUME NEW q, NEW s, NEW m, HeldFirst(q, s, m), q.entries \in Nat, NEW p \in 1..m,
           NEW r, r.entries = q.entries, r.key = q.key
    PROVE  HeldFirst(r, ToFront(s, q.entries, p), m)
<1> DEFINE n == q.entries
           t == ToFront(s, n, p)
<1>1. n \in Nat /\ m \in 0..n
  BY DEF HeldFirst
<1>2. \A i \in 1..n : q.key[s[i]] # None <=> i <= m
  BY DEF HeldFirst
<1> HIDE DEF n
<1>3. ASSUME NEW i \in 1..n
      PROVE  q.key[t[i]] # None <=> i <= m
  <2>1. CASE i = 1
    BY <1>1, <1>2, <2>1 DEF ToFront
  <2>2. CASE i # 1 /\ i <= p
    <3>1. t[i] = s[i - 1] /\ i - 1 \in 1..n /\ i - 1 <= m /\ i <= m
      BY <1>1, <2>2 DEF ToFront
    <3> QED
      BY <3>1, <1>2
  <2>3. CASE i > p
    <3>1. t[i] = s[i]
      BY <1>1, <2>3 DEF ToFront
    <3> QED
      BY <3>1, <1>2
  <2> QED
    BY <1>1, <2>1, <2>2, <2>3
<1> HIDE DEF t
<1>4. HeldFirst(r, t, m)
  BY <1>1, <1>3 DEF HeldFirst, n
<1> QED
  BY <1>4 DEF t, n

\* get() moves the entry of the key to the front and changes nothing else.
LEMMA GotLemma ==
    ASSUME NEW q, NEW s, NEW m, Structure(q, s, m), NEW k \in Keys, q.map[k] # None,
           NEW r, r = Got(q, k)
    PROVE  \E p \in 1..m : /\ q.key[s[p]] = k /\ SameContent(q, r)
                           /\ Structure(r, ToFront(s, q.entries, p), m)
<1>1. PICK p \in 1..m : p \in 1..q.entries /\ s[p] = q.map[k] /\ q.key[s[p]] = k
  BY HeldAt
<1>2. Order(q, s) /\ r = ReReference(q, s[p])
  BY <1>1 DEF Structure, Got
<1>3. SameContent(q, r) /\ Order(r, ToFront(s, q.entries, p))
  BY <1>1, <1>2, OrderToFront
<1>4. Content(r)
  BY <1>3 DEF Structure, Content, SameContent
<1>5. HeldFirst(r, ToFront(s, q.entries, p), m)
  <2>1. HeldFirst(q, s, m) /\ q.entries \in Nat /\ r.entries = q.entries /\ r.key = q.key
    BY <1>3 DEF Structure, Order, IsCache, SameContent
  <2> QED
    BY <2>1, HeldToFront
<1> QED
  BY <1>1, <1>3, <1>4, <1>5 DEF Structure

\* extract() moves the entry of the key behind all entries with a key and
\* empties it.
LEMMA ExtractedLemma ==
    ASSUME NEW q, NEW s, NEW m, Structure(q, s, m), NEW k \in Keys, q.map[k] # None,
           NEW r, r = Extracted(q, k)
    PROVE  \E p \in 1..m :
             /\ p \in 1..q.entries /\ s[p] = q.map[k] /\ s[p] \in Entries /\ q.key[s[p]] = k
             /\ r.entries = q.entries
             /\ r.key = [q.key EXCEPT ![s[p]] = None]
             /\ r.payload = [q.payload EXCEPT ![s[p]] = None]
             /\ Structure(r, ToBack(s, q.entries, p), m - 1)
<1>1. PICK p \in 1..m : /\ p \in 1..q.entries /\ s[p] = q.map[k] /\ s[p] \in Entries
                        /\ q.key[s[p]] = k
  BY HeldAt
<1> DEFINE e == s[p]
           n == q.entries
           t == ToBack(s, n, p)
           q1 == [q EXCEPT !.map[k] = None]
           q2 == DeReference(q1, e)
<1>2. /\ Order(q, s) /\ IsCache(q) /\ n \in Nat
      /\ None \notin Keys /\ None \notin Entries
  BY NoneIsNull DEF Structure, Order, IsCache
<1>3. /\ SameOrder(q, q1) /\ q1.map = [q.map EXCEPT ![k] = None]
      /\ q1.key = q.key /\ q1.payload = q.payload
  <2>1. None \in OrNone(Entries) /\ q1 = MapSet(q, k, None)
    BY DEF OrNone, MapSet
  <2> HIDE DEF q1
  <2> QED
    BY <2>1, <1>2, MapRecord
<1>4. r = SetTo(q2, e, None, None)
  BY <1>1 DEF Extracted
<1> HIDE DEF q1
<1>5. Order(q1, s) /\ p \in 1..q1.entries /\ q1.entries = n
  BY <1>1, <1>2, <1>3, SameOrderKeepsOrder DEF SameOrder
<1>6. SameContent(q1, q2) /\ Order(q2, t)
  <2>1. SameContent(q1, q2) /\ Order(q2, ToBack(s, q1.entries, p))
    BY <1>5, OrderToBack
  <2> QED
    BY <2>1, <1>5
<1> HIDE DEF q2
<1>7. /\ SameOrder(q2, r) /\ r.map = q2.map
      /\ r.key = [q2.key EXCEPT ![e] = None] /\ r.payload = [q2.payload EXCEPT ![e] = None]
  BY <1>1, <1>4, <1>6, SetToRecord DEF SameContent, OrNone
<1>8. /\ r.map = [q.map EXCEPT ![k] = None] /\ r.entries = n
      /\ r.key = [q.key EXCEPT ![e] = None] /\ r.payload = [q.payload EXCEPT ![e] = None]
  BY <1>3, <1>5, <1>6, <1>7 DEF SameContent, SameOrder
<1>9. Order(r, t)
  BY <1>6, <1>7, SameOrderKeepsOrder
<1>10. Content(r)
  <2>1. /\ q.map \in [Keys -> OrNone(Entries)] /\ q.key \in [Entries -> OrNone(Keys)]
        /\ q.payload \in [Entries -> OrNone(Payloads)]
    BY <1>2 DEF IsCache
  <2>2. Content(q) /\ q.map[k] = e
    BY <1>1 DEF Structure
  <2> HIDE DEF e
  <2>3. ASSUME NEW l \in Keys, NEW f \in Entries
        PROVE  r.map[l] = f <=> r.key[f] = l
    BY <1>1, <1>2, <1>8, <2>1, <2>2 DEF Content, OrNone
  <2>4. ASSUME NEW f \in Entries
        PROVE  r.key[f] = None <=> r.payload[f] = None
    BY <1>8, <2>1, <2>2 DEF Content
  <2>5. ASSUME NEW f \in Entries, f > r.entries
        PROVE  r.key[f] = None
    BY <1>8, <2>1, <2>2, <2>5 DEF Content
  <2> QED
    BY <2>3, <2>4, <2>5 DEF Content
<1>11. HeldFirst(r, t, m - 1)
  <2>1. m \in 0..n /\ \A i \in 1..n : q.key[s[i]] # None <=> i <= m
    BY DEF Structure, HeldFirst
  <2>2. q.key \in [Entries -> OrNone(Keys)]
    BY <1>2 DEF IsCache
  <2>3. /\ s \in [1..n -> Entries]
        /\ \A i, j \in 1..n : s[i] = s[j] => i = j
    BY <1>2 DEF Order, ListIs, Lists
  <2>4. p \in 1..m /\ n \in Nat
    BY <1>1, <1>2
  <2> HIDE DEF n
  <2>5. ASSUME NEW i \in 1..n
        PROVE  r.key[t[i]] # None <=> i <= m - 1
    <3>1. CASE i = n
      BY <3>1, <2>1, <2>2, <2>3, <2>4, <1>8 DEF ToBack
    <3>2. CASE i # n /\ i < p
      <4>1. t[i] = s[i] /\ s[i] # e /\ s[i] \in Entries /\ i <= m - 1 /\ i <= m
        BY <3>2, <2>1, <2>3, <2>4 DEF ToBack
      <4> QED
        BY <4>1, <2>1, <2>2, <1>8
    <3>3. CASE i # n /\ i >= p
      <4>1. /\ t[i] = s[i + 1] /\ i + 1 \in 1..n /\ s[i + 1] # e /\ s[i + 1] \in Entries
            /\ i + 1 <= m <=> i <= m - 1
        BY <3>3, <2>1, <2>3, <2>4 DEF ToBack
      <4> QED
        BY <4>1, <2>1, <2>2, <1>8
    <3> QED
      BY <3>1, <3>2, <3>3, <2>4
  <2>6. r.entries = n /\ m - 1 \in 0..n
    BY <1>8, <2>1, <2>4
  <2> HIDE DEF t
  <2> QED
    BY <2>5, <2>6 DEF HeldFirst
<1>12. /\ r.entries = q.entries /\ r.key = [q.key EXCEPT ![s[p]] = None]
       /\ r.payload = [q.payload EXCEPT ![s[p]] = None]
       /\ Structure(r, ToBack(s, q.entries, p), m - 1)
  BY <1>8, <1>9, <1>10, <1>11 DEF Structure
<1> QED
  BY <1>1, <1>12

\* put() of a key that is there moves its entry to the front with the new
\* payload.
LEMMA ReplacedLemma ==
    ASSUME NEW q, NEW s, NEW m, Structure(q, s, m), NEW k \in Keys, q.map[k] # None,
           NEW pl \in Payloads, NEW r, r = Replaced(q, q.map[k], k, pl)
    PROVE  \E p \in 1..m :
             /\ p \in 1..q.entries /\ s[p] = q.map[k] /\ s[p] \in Entries /\ q.key[s[p]] = k
             /\ r.entries = q.entries
             /\ r.key = [q.key EXCEPT ![s[p]] = k]
             /\ r.payload = [q.payload EXCEPT ![s[p]] = pl]
             /\ Structure(r, ToFront(s, q.entries, p), m)
<1>1. PICK p \in 1..m : /\ p \in 1..q.entries /\ s[p] = q.map[k] /\ s[p] \in Entries
                        /\ q.key[s[p]] = k
  BY HeldAt
<1> DEFINE e == s[p]
           n == q.entries
           t == ToFront(s, n, p)
           q1 == SetTo(q, e, k, pl)
<1>2. /\ Order(q, s) /\ IsCache(q) /\ n \in Nat
      /\ None \notin Keys /\ None \notin Entries /\ None \notin Payloads
      /\ k \in OrNone(Keys) /\ pl \in OrNone(Payloads)
  BY NoneIsNull DEF Structure, Order, IsCache, OrNone
<1>3. /\ SameOrder(q, q1) /\ q1.map = q.map
      /\ q1.key = [q.key EXCEPT ![e] = k] /\ q1.payload = [q.payload EXCEPT ![e] = pl]
  BY <1>1, <1>2, SetToRecord
<1>4. r = ReReference(q1, e)
  BY <1>1 DEF Replaced
<1> HIDE DEF q1
<1>5. Order(q1, s) /\ p \in 1..q1.entries /\ q1.entries = n
  BY <1>1, <1>2, <1>3, SameOrderKeepsOrder DEF SameOrder
<1>6. SameContent(q1, r) /\ Order(r, t)
  <2>1. SameContent(q1, r) /\ Order(r, ToFront(s, q1.entries, p))
    BY <1>4, <1>5, OrderToFront
  <2> QED
    BY <2>1, <1>5
<1>7. /\ r.map = q.map /\ r.entries = n
      /\ r.key = [q.key EXCEPT ![e] = k] /\ r.payload = [q.payload EXCEPT ![e] = pl]
  BY <1>3, <1>5, <1>6 DEF SameContent
<1>8. r.key = q.key
  BY <1>1, <1>2, <1>7 DEF IsCache
<1>9. Content(r)
  <2>1. /\ q.payload \in [Entries -> OrNone(Payloads)] /\ Content(q) /\ q.key[e] = k
    BY <1>1, <1>2 DEF IsCache, Structure
  <2> QED
    BY <2>1, <1>2, <1>7, <1>8 DEF Content
<1>10. HeldFirst(r, t, m)
  <2>1. HeldFirst(q, s, m)
    BY DEF Structure
  <2> QED
    BY <2>1, <1>2, <1>7, <1>8, HeldToFront
<1>11. /\ r.entries = q.entries /\ r.key = [q.key EXCEPT ![s[p]] = k]
       /\ r.payload = [q.payload EXCEPT ![s[p]] = pl]
       /\ Structure(r, ToFront(s, q.entries, p), m)
  BY <1>6, <1>7, <1>9, <1>10 DEF Structure
<1> QED
  BY <1>1, <1>11

\* The map finds the entry e, which had the key old, by the key k afterwards.
LEMMA ContentPut ==
    ASSUME NEW q, IsCache(q), Content(q), NEW k \in Keys, NEW pl \in Payloads,
           NEW e \in Entries, q.map[k] = None, NEW r, e <= r.entries,
           q.entries <= r.entries,
           q.entries \in Nat, r.entries \in Nat,
           r.key = [q.key EXCEPT ![e] = k], r.payload = [q.payload EXCEPT ![e] = pl],
           r.map = [Store(q.map, q.key[e], None) EXCEPT ![k] = e]
    PROVE  Content(r)
<1>1. /\ q.map \in [Keys -> OrNone(Entries)] /\ q.key \in [Entries -> OrNone(Keys)]
      /\ q.payload \in [Entries -> OrNone(Payloads)]
  BY DEF IsCache
<1>2. None \notin Keys /\ None \notin Entries /\ None \notin Payloads
  BY NoneIsNull
<1>3. \A f \in Entries : q.key[f] # k
  BY <1>2 DEF Content
<1>4. ASSUME NEW l \in Keys
      PROVE  r.map[l] = IF l = k THEN e ELSE IF l = q.key[e] THEN None ELSE q.map[l]
  <2>1. CASE q.key[e] = None
    BY <2>1, <1>1, <1>2 DEF Store
  <2>2. CASE q.key[e] # None
    BY <2>2, <1>1, <1>2 DEF Store, OrNone
  <2> QED
    BY <2>1, <2>2
<1>5. ASSUME NEW l \in Keys, NEW f \in Entries
      PROVE  r.map[l] = f <=> r.key[f] = l
  <2>1. q.map[l] = f <=> q.key[f] = l
    BY DEF Content
  <2>2. q.map[l] = e <=> q.key[e] = l
    BY DEF Content
  <2>3. r.key[f] = IF f = e THEN k ELSE q.key[f]
    BY <1>1
  <2> QED
    BY <1>2, <1>3, <1>4, <2>1, <2>2, <2>3
<1>6. ASSUME NEW f \in Entries
      PROVE  r.key[f] = None <=> r.payload[f] = None
  BY <1>1, <1>2 DEF Content
<1>7. ASSUME NEW f \in Entries, f > r.entries
      PROVE  r.key[f] = None
  BY <1>1, <1>7 DEF Content, Entries
<1> QED
  BY <1>5, <1>6, <1>7 DEF Content

\* put() into a full cache moves the tail to the front with the new key.
LEMMA ReusedLemma ==
    ASSUME NEW q, NEW s, NEW m, Structure(q, s, m), NEW k \in Keys, q.map[k] = None,
           NEW pl \in Payloads, q.entries = Capacity, NEW r, r = Reused(q, k, pl)
    PROVE  /\ q.entries \in 1..q.entries /\ s[q.entries] = q.tail /\ q.tail \in Entries
           /\ r.entries = q.entries
           /\ r.key = [q.key EXCEPT ![q.tail] = k]
           /\ r.payload = [q.payload EXCEPT ![q.tail] = pl]
           /\ Structure(r, ToFront(s, q.entries, q.entries),
                        IF m = q.entries THEN m ELSE m + 1)
<1> DEFINE n == q.entries
           e == q.tail
           t == ToFront(s, n, n)
           q0 == [q EXCEPT !.map = NameDropped(q)]
           q1 == SetTo(q0, e, k, pl)
           q2 == ReReference(q1, e)
<1>1. /\ Order(q, s) /\ IsCache(q) /\ Content(q) /\ HeldFirst(q, s, m) /\ n \in Nat
      /\ None \notin Keys /\ None \notin Entries /\ None \notin Payloads
      /\ k \in OrNone(Keys) /\ pl \in OrNone(Payloads) /\ None \in OrNone(Entries)
  BY NoneIsNull DEF Structure, Order, IsCache, OrNone
<1>2. n \in 1..n /\ s[n] = e /\ e \in Entries /\ e \in OrNone(Entries)
  BY <1>1, CapacityPositive DEF Order, ListIs, Lists, OrNone
<1>3. /\ SameOrder(q, q0) /\ q0.map = NameDropped(q) /\ q0.key = q.key
            /\ q0.payload = q.payload
  <2>1. /\ q0.head = q.head /\ q0.tail = q.tail /\ q0.entries = q.entries
        /\ q0.prev = q.prev /\ q0.next = q.next /\ q0.map = NameDropped(q)
        /\ q0.key = q.key /\ q0.payload = q.payload
    BY <1>1 DEF IsCache
  <2>2. q0 = [map |-> q0.map, head |-> q0.head, tail |-> q0.tail, entries |-> q0.entries,
              key |-> q0.key, payload |-> q0.payload, prev |-> q0.prev, next |-> q0.next]
    BY <1>1 DEF IsCache
  <2>3. NameDropped(q) \in [Keys -> OrNone(Entries)]
    <3>1. /\ q.map \in [Keys -> OrNone(Entries)] /\ q.key[e] \in OrNone(Keys)
      BY <1>1, <1>2 DEF IsCache
    <3>2. CASE q.key[e] = None
      BY <3>1, <3>2 DEF NameDropped, Store
    <3>3. CASE q.key[e] # None
      BY <3>1, <3>3, <1>1 DEF NameDropped, Store, OrNone
    <3> QED
      BY <3>2, <3>3
  <2> HIDE DEF q0
  <2>4. IsCache(q0)
    BY <2>1, <2>2, <2>3, <1>1 DEF IsCache
  <2> QED
    BY <2>1, <2>4 DEF SameOrder
<1>4. r = MapSet(q2, k, e)
  BY DEF Reused, MapSet
<1> HIDE DEF q0
<1>5. /\ SameOrder(q0, q1) /\ q1.map = q0.map
      /\ q1.key = [q0.key EXCEPT ![e] = k] /\ q1.payload = [q0.payload EXCEPT ![e] = pl]
  <2>1. IsCache(q0)
    BY <1>3 DEF SameOrder
  <2> QED
    BY <2>1, <1>1, <1>2, SetToRecord
<1> HIDE DEF q1
<1>6. /\ SameOrder(q, q1) /\ q1.map = NameDropped(q)
      /\ q1.key = [q.key EXCEPT ![e] = k] /\ q1.payload = [q.payload EXCEPT ![e] = pl]
  BY <1>3, <1>5 DEF SameOrder
<1>7. Order(q1, s) /\ n \in 1..q1.entries /\ q1.entries = n
  BY <1>1, <1>2, <1>6, SameOrderKeepsOrder DEF SameOrder
<1>8. SameContent(q1, q2) /\ Order(q2, t)
  <2>1. SameContent(q1, ReReference(q1, s[n]))
        /\ Order(ReReference(q1, s[n]), ToFront(s, q1.entries, n))
    BY <1>7, OrderToFront
  <2> QED
    BY <2>1, <1>2, <1>7
<1> HIDE DEF q2
<1>9. /\ SameOrder(q2, r) /\ r.map = [q2.map EXCEPT ![k] = e]
      /\ r.key = q2.key /\ r.payload = q2.payload
  BY <1>2, <1>4, <1>8, MapRecord DEF SameContent
<1>10. /\ r.map = [Store(q.map, q.key[e], None) EXCEPT ![k] = e] /\ r.entries = n
       /\ r.key = [q.key EXCEPT ![e] = k] /\ r.payload = [q.payload EXCEPT ![e] = pl]
  BY <1>6, <1>7, <1>8, <1>9 DEF SameContent, SameOrder, NameDropped
<1>11. Order(r, t)
  BY <1>8, <1>9, SameOrderKeepsOrder
<1>12. Content(r)
  <2>1. e <= r.entries /\ q.entries <= r.entries /\ r.entries \in Nat
    BY <1>1, <1>2, <1>10 DEF Entries
  <2> QED
    BY <2>1, <1>1, <1>2, <1>10, ContentPut
<1>13. HeldFirst(r, t, IF m = n THEN m ELSE m + 1)
  <2>1. m \in 0..n /\ \A i \in 1..n : q.key[s[i]] # None <=> i <= m
    BY <1>1 DEF HeldFirst
  <2>2. /\ q.key \in [Entries -> OrNone(Keys)] /\ s \in [1..n -> Entries]
        /\ \A i, j \in 1..n : s[i] = s[j] => i = j
    BY <1>1 DEF IsCache, Order, ListIs, Lists
  <2> HIDE DEF n, e
  <2>3. ASSUME NEW i \in 1..n
        PROVE  r.key[t[i]] # None <=> i <= (IF m = n THEN m ELSE m + 1)
    <3>1. CASE i = 1
      BY <3>1, <1>1, <1>2, <1>10, <2>1, <2>2 DEF ToFront
    <3>2. CASE i # 1
      <4>1. /\ t[i] = s[i - 1] /\ i - 1 \in 1..n /\ s[i - 1] # e /\ s[i - 1] \in Entries
            /\ i - 1 <= m <=> i <= (IF m = n THEN m ELSE m + 1)
        BY <3>2, <1>1, <1>2, <2>1, <2>2 DEF ToFront
      <4> QED
        BY <4>1, <2>1, <2>2, <1>10
    <3> QED
      BY <3>1, <3>2
  <2>4. (IF m = n THEN m ELSE m + 1) \in 0..n
    BY <1>1, <2>1
  <2> HIDE DEF t
  <2> QED
    BY <2>3, <2>4, <1>10 DEF HeldFirst
<1> QED
  BY <1>2, <1>10, <1>11, <1>12, <1>13 DEF Structure

\* put() into a cache with room puts a new entry in front.
LEMMA AddedLemma ==
    ASSUME NEW q, NEW s, NEW m, Structure(q, s, m), NEW k \in Keys, q.map[k] = None,
           NEW pl \in Payloads, q.entries < Capacity, NEW r, r = Added(q, k, pl)
    PROVE  /\ q.entries + 1 \in Entries /\ q.payload[q.entries + 1] = None
           /\ r.entries = q.entries + 1
           /\ r.key = [q.key EXCEPT ![q.entries + 1] = k]
           /\ r.payload = [q.payload EXCEPT ![q.entries + 1] = pl]
           /\ Structure(r, InFront(s, q.entries, q.entries + 1), m + 1)
<1> DEFINE n == q.entries
           e == q.entries + 1
           t == InFront(s, n, e)
           q0 == SetTo(q, e, k, pl)
           head == IF n = 0 THEN e ELSE q0.head
           tail == IF n = 0 THEN e ELSE q0.tail
           q1 == [q0 EXCEPT !.entries = e, !.head = head, !.tail = tail]
           q2 == ReReference(q1, e)
<1>1. /\ Order(q, s) /\ IsCache(q) /\ Content(q) /\ HeldFirst(q, s, m) /\ n \in Nat
      /\ None \notin Keys /\ None \notin Entries /\ None \notin Payloads
      /\ k \in OrNone(Keys) /\ pl \in OrNone(Payloads) /\ None \in OrNone(Entries)
  BY NoneIsNull DEF Structure, Order, IsCache, OrNone
<1>2. /\ e \in Entries /\ e \in OrNone(Entries) /\ e > n /\ e = n + 1
      /\ q.next[e] = None /\ q.prev[e] = None /\ q.key[e] = None /\ q.payload[e] = None
  <2>1. e \in Entries /\ e > n
    BY <1>1, CapacityPositive DEF Entries
  <2> HIDE DEF e
  <2>2. q.next[e] = None /\ q.prev[e] = None
    BY <2>1, <1>1 DEF Order
  <2>3. q.key[e] = None /\ q.payload[e] = None
    BY <2>1, <1>1 DEF Content
  <2> QED
    BY <2>1, <2>2, <2>3 DEF OrNone, e
<1>3. /\ SameOrder(q, q0) /\ q0.map = q.map
      /\ q0.key = [q.key EXCEPT ![e] = k] /\ q0.payload = [q.payload EXCEPT ![e] = pl]
  <2> HIDE DEF e
  <2> QED
    BY <1>1, <1>2, SetToRecord
<1>4. r = MapSet(q2, k, e)
  BY DEF Added, MapSet
<1> HIDE DEF e, q0
<1>5. /\ IsCache(q1) /\ q1.map = q.map /\ q1.next = q.next /\ q1.prev = q.prev
      /\ q1.entries = e /\ q1.head = (IF n = 0 THEN e ELSE q.head)
      /\ q1.tail = (IF n = 0 THEN e ELSE q.tail)
      /\ q1.key = [q.key EXCEPT ![e] = k] /\ q1.payload = [q.payload EXCEPT ![e] = pl]
  <2>1. /\ IsCache(q0) /\ q0.head = q.head /\ q0.tail = q.tail
        /\ q0.next = q.next /\ q0.prev = q.prev
    BY <1>3 DEF SameOrder
  <2> HIDE DEF head, tail
  <2>2. /\ q1.map = q0.map /\ q1.next = q0.next /\ q1.prev = q0.prev
        /\ q1.entries = e /\ q1.head = head /\ q1.tail = tail
        /\ q1.key = q0.key /\ q1.payload = q0.payload
    BY <2>1 DEF IsCache
  <2>3. q1 = [map |-> q1.map, head |-> q1.head, tail |-> q1.tail, entries |-> q1.entries,
              key |-> q1.key, payload |-> q1.payload, prev |-> q1.prev, next |-> q1.next]
    <3> DEFINE a == [q0 EXCEPT !.entries = e]
               b == [a EXCEPT !.head = head]
    <3>1. a = [map |-> a.map, head |-> a.head, tail |-> a.tail, entries |-> a.entries,
               key |-> a.key, payload |-> a.payload, prev |-> a.prev, next |-> a.next]
      BY <2>1 DEF IsCache
    <3>2. q1 = [b EXCEPT !.tail = tail]
      BY <2>1 DEF IsCache
    <3> HIDE DEF a, q1
    <3>3. b = [map |-> b.map, head |-> b.head, tail |-> b.tail, entries |-> b.entries,
               key |-> b.key, payload |-> b.payload, prev |-> b.prev, next |-> b.next]
      BY <3>1
    <3> HIDE DEF b
    <3> QED
      BY <3>2, <3>3
  <2>4. e \in 0..Capacity
    BY <1>2, CapacityPositive DEF Entries
  <2> HIDE DEF q1
  <2>5. q1.head \in OrNone(Entries) /\ q1.tail \in OrNone(Entries)
    BY <2>1, <2>2, <1>2 DEF IsCache, head, tail
  <2>6. IsCache(q1)
    BY <2>1, <2>2, <2>3, <2>4, <2>5 DEF IsCache
  <2> QED
    BY <2>1, <2>2, <2>6, <1>3 DEF head, tail
<1> HIDE DEF q1
<1>6. /\ \A i \in 1..n : s[i] \in 1..n
      /\ \A f \in 1..n : \E i \in 1..n : s[i] = f
      /\ ListIs(q, s, n) /\ s \in [1..n -> Entries]
      /\ \A f \in Entries : f > n => q.next[f] = None /\ q.prev[f] = None
  BY <1>1 DEF Order, ListIs, Lists
<1>7. Outside(s, n, e)
  BY <1>1, <1>2, <1>6 DEF Outside
<1>8. /\ SameContent(q1, q2) /\ ListIs(q2, t, n + 1)
      /\ KeepsLinks(s, n, e, q2.next, q2.prev, q.next, q.prev)
  <2>1. CASE n = 0
    <3>1. q2 = q1 /\ q1.head = e /\ q1.tail = e
      BY <2>1, <1>5 DEF ReReference
    <3>2. t \in [1..1 -> Entries] /\ t[1] = e
      BY <2>1, <1>2 DEF InFront
    <3> HIDE DEF t
    <3>3. ListIs(q1, t, n + 1)
      BY <3>1, <3>2, <2>1, <1>2, <1>5 DEF ListIs, Lists
    <3> QED
      BY <3>1, <3>3, <1>5 DEF SameContent, KeepsLinks
  <2>2. CASE n # 0
    <3>1. ListIs(q1, s, n) /\ n > 0
      BY <2>2, <1>1, <1>5, <1>6 DEF ListIs
    <3>2. q1.next[e] = None /\ q1.prev[e] = None
      BY <1>2, <1>5
    <3>3. /\ SameContent(q1, q2) /\ ListIs(q2, t, n + 1)
          /\ KeepsLinks(s, n, e, q2.next, q2.prev, q1.next, q1.prev)
      BY <3>1, <3>2, <1>1, <1>2, <1>5, <1>7, ReReferenceAdds
    <3> QED
      BY <3>3, <1>5
  <2> QED
    BY <2>1, <2>2
<1> HIDE DEF q2
<1>9. /\ SameOrder(q2, r) /\ r.map = [q2.map EXCEPT ![k] = e]
      /\ r.key = q2.key /\ r.payload = q2.payload
  BY <1>2, <1>4, <1>8, MapRecord DEF SameContent
<1>10. /\ r.map = [q.map EXCEPT ![k] = e] /\ r.entries = e
       /\ r.key = [q.key EXCEPT ![e] = k] /\ r.payload = [q.payload EXCEPT ![e] = pl]
  BY <1>5, <1>8, <1>9 DEF SameContent, SameOrder
<1>11. Order(r, t)
  <2> HIDE DEF n
  <2>1. \A i \in 1..(n + 1) : t[i] = IF i = 1 THEN e ELSE s[i - 1]
    BY DEF InFront
  <2> HIDE DEF t
  <2>2. ASSUME NEW i \in 1..e
        PROVE  t[i] \in 1..e
    <3>1. CASE i = 1
      BY <3>1, <2>1, <1>1, <1>2
    <3>2. CASE i # 1
      <4>1. i - 1 \in 1..n /\ t[i] = s[i - 1]
        BY <3>2, <2>1, <1>1, <1>2
      <4> QED
        BY <4>1, <1>1, <1>2, <1>6
    <3> QED
      BY <3>1, <3>2
  <2>3. ASSUME NEW f \in 1..e
        PROVE  \E i \in 1..e : t[i] = f
    <3>1. CASE f = e
      BY <3>1, <2>1, <1>1, <1>2
    <3>2. CASE f # e
      <4>1. PICK i \in 1..n : s[i] = f
        BY <3>2, <1>1, <1>2, <1>6
      <4>2. i + 1 \in 1..e /\ t[i + 1] = s[i]
        BY <4>1, <2>1, <1>1, <1>2
      <4> QED
        BY <4>1, <4>2
    <3> QED
      BY <3>1, <3>2
  <2>4. ASSUME NEW f \in Entries, f > e
        PROVE  q2.next[f] = None /\ q2.prev[f] = None
    <3>1. f > n /\ f # e /\ Outside(s, n, f)
      BY <2>4, <1>1, <1>2, <1>6 DEF Outside, Entries
    <3> QED
      BY <3>1, <1>6, <1>8 DEF KeepsLinks
  <2>5. IsCache(q2) /\ q2.entries = e
    BY <1>5, <1>8 DEF SameContent
  <2>6. Order(q2, t)
    BY <2>2, <2>3, <2>4, <2>5, <1>2, <1>8 DEF Order
  <2> QED
    BY <2>6, <1>9, SameOrderKeepsOrder
<1>12. Content(r)
  <2>1. e <= r.entries /\ q.entries <= r.entries /\ r.entries \in Nat
    BY <1>1, <1>2, <1>10 DEF Entries
  <2>2. r.map = [Store(q.map, q.key[e], None) EXCEPT ![k] = e]
    BY <1>2, <1>10 DEF Store
  <2> QED
    BY <2>1, <2>2, <1>1, <1>2, <1>10, ContentPut
<1>13. HeldFirst(r, t, m + 1)
  <2>1. m \in 0..n /\ \A i \in 1..n : q.key[s[i]] # None <=> i <= m
    BY <1>1 DEF HeldFirst
  <2>2. q.key \in [Entries -> OrNone(Keys)]
    BY <1>1 DEF IsCache
  <2> HIDE DEF n
  <2>3. ASSUME NEW i \in 1..(n + 1)
        PROVE  r.key[t[i]] # None <=> i <= m + 1
    <3>1. CASE i = 1
      BY <3>1, <1>1, <1>2, <1>10, <2>1, <2>2 DEF InFront
    <3>2. CASE i # 1
      <4>1. /\ t[i] = s[i - 1] /\ i - 1 \in 1..n /\ s[i - 1] # e /\ s[i - 1] \in Entries
            /\ i - 1 <= m <=> i <= m + 1
        BY <3>2, <1>1, <1>2, <1>6, <1>7, <2>1 DEF InFront, Outside
      <4> QED
        BY <4>1, <2>1, <2>2, <1>10
    <3> QED
      BY <3>1, <3>2
  <2>4. m + 1 \in 0..(n + 1)
    BY <1>1, <2>1
  <2> HIDE DEF t
  <2> QED
    BY <2>3, <2>4, <1>2, <1>10 DEF HeldFirst
<1>14. /\ r.entries = q.entries + 1
       /\ r.key = [q.key EXCEPT ![q.entries + 1] = k]
       /\ r.payload = [q.payload EXCEPT ![q.entries + 1] = pl]
       /\ Structure(r, InFront(s, q.entries, q.entries + 1), m + 1)
  BY <1>10, <1>11, <1>12, <1>13 DEF Structure, e
<1>15. q.entries + 1 \in Entries /\ q.payload[q.entries + 1] = None
  BY <1>2 DEF e
<1> QED
  BY <1>14, <1>15

-----------------------------------------------------------------------------
(* The cache of LRUCache: sequences of different keys.                     *)

WithoutKey(a, k) ==
    LET at == CHOOSE i \in 1..Len(a) : a[i] = k
    IN  IF \E i \in 1..Len(a) : a[i] = k
        THEN [n \in 1..(Len(a) - 1) |-> a[IF n < at THEN n ELSE n + 1]]
        ELSE a

LRUGet(a, b, k) == (\E i \in 1..Len(a) : a[i] = k) /\ b = <<k>> \o WithoutKey(a, k)

LRUExtract(a, b, k) == (\E i \in 1..Len(a) : a[i] = k) /\ b = WithoutKey(a, k)

LRUPut(a, b, k) ==
    LET kept == SubSeq(WithoutKey(a, k), 1, Capacity - 1)
    IN  b = <<k>> \o IF Len(WithoutKey(a, k)) < Capacity THEN WithoutKey(a, k) ELSE kept

\* A function on 1..n is a sequence.
LEMMA FunctionIsSeq ==
    ASSUME NEW S, NEW n \in Nat, NEW f \in [1..n -> S]
    PROVE  f \in Seq(S) /\ Len(f) = n
BY SMT

\* The key k put in front of the first of a.
LEMMA PushedIs ==
    ASSUME NEW n \in Nat, NEW k \in Keys, NEW a \in [1..n -> Keys], NEW m \in 0..n, NEW b,
           b \in [1..(m + 1) -> Keys], b[1] = k, \A i \in 2..(m + 1) : b[i] = a[i - 1]
    PROVE  b = <<k>> \o SubSeq(a, 1, m)
<1>1. a \in Seq(Keys) /\ Len(a) = n /\ b \in Seq(Keys) /\ Len(b) = m + 1
  BY FunctionIsSeq
<1>2. <<k>> \in Seq(Keys) /\ Len(<<k>>) = 1 /\ <<k>>[1] = k
  OBVIOUS
<1>3. /\ SubSeq(a, 1, m) \in Seq(Keys) /\ Len(SubSeq(a, 1, m)) = m
      /\ \A i \in 1..m : SubSeq(a, 1, m)[i] = a[i]
  BY <1>1, SubSeqProperties
<1> DEFINE c == SubSeq(a, 1, m)
           d == <<k>>
<1>4. c \in Seq(Keys) /\ Len(c) = m /\ \A i \in 1..m : c[i] = a[i]
  BY <1>3
<1>5. d \in Seq(Keys) /\ Len(d) = 1 /\ d[1] = k
  BY <1>2
<1> HIDE DEF c, d
<1>6. /\ d \o c \in Seq(Keys) /\ Len(d \o c) = m + 1
      /\ (d \o c)[1] = k /\ \A i \in 2..(m + 1) : (d \o c)[i] = c[i - 1]
  <2>1. /\ d \o c \in Seq(Keys) /\ Len(d \o c) = Len(d) + Len(c)
        /\ \A i \in 1..(Len(d) + Len(c)) :
              (d \o c)[i] = IF i <= Len(d) THEN d[i] ELSE c[i - Len(d)]
    BY <1>4, <1>5, ConcatProperties
  <2>2. Len(d) + Len(c) = m + 1
    BY <1>4, <1>5
  <2>3. (d \o c)[1] = d[1]
    BY <2>1, <2>2, <1>5
  <2>4. \A i \in 2..(m + 1) : (d \o c)[i] = c[i - 1]
    BY <2>1, <2>2, <1>5
  <2> QED
    BY <2>1, <2>2, <2>3, <2>4, <1>5
<1>7. ASSUME NEW i \in 1..(m + 1)
      PROVE  b[i] = (d \o c)[i]
  <2>1. CASE i = 1
    BY <2>1, <1>6
  <2>2. CASE i > 1
    <3>1. i \in 2..(m + 1) /\ i - 1 \in 1..m
      BY <2>2
    <3>2. b[i] = a[i - 1] /\ c[i - 1] = a[i - 1]
      BY <3>1, <1>4
    <3>3. (d \o c)[i] = c[i - 1]
      BY <3>1, <1>6
    <3> QED
      BY <3>2, <3>3
  <2>3. i = 1 \/ i > 1
    OBVIOUS
  <2> QED
    BY <2>1, <2>2, <2>3, Zenon
<1>8. b = d \o c
  BY <1>1, <1>6, <1>7, SeqEqual
<1> QED
  BY <1>8 DEF c, d

\* Dropping the key at position p.
LEMMA WithoutKeyIs ==
    ASSUME NEW m \in Nat, NEW k \in Keys, NEW a \in [1..m -> Keys],
           \A i, j \in 1..m : a[i] = a[j] => i = j
    PROVE  /\ \A p \in 1..m : a[p] = k =>
                WithoutKey(a, k) = [n \in 1..(m - 1) |-> a[IF n < p THEN n ELSE n + 1]]
           /\ (\A i \in 1..m : a[i] # k) => WithoutKey(a, k) = a
<1>1. Len(a) = m
  BY FunctionIsSeq
<1>2. ASSUME NEW p \in 1..m, a[p] = k
      PROVE  WithoutKey(a, k) = [n \in 1..(m - 1) |-> a[IF n < p THEN n ELSE n + 1]]
  <2>1. p = CHOOSE i \in 1..m : a[i] = k
    BY <1>2
  <2> QED
    BY <2>1, <1>1, <1>2 DEF WithoutKey
<1>3. ASSUME \A i \in 1..m : a[i] # k
      PROVE  WithoutKey(a, k) = a
  BY <1>1, <1>3 DEF WithoutKey
<1> QED
  BY <1>2, <1>3

\* Moving the key at position p to the front is a get, and a put in a cache
\* with room.
LEMMA GetIs ==
    ASSUME NEW m \in Nat, NEW k \in Keys, NEW a \in [1..m -> Keys],
           \A i, j \in 1..m : a[i] = a[j] => i = j,
           NEW p \in 1..m, a[p] = k, NEW b \in [1..m -> Keys], b[1] = k,
           \A i \in 2..p : b[i] = a[i - 1], \A i \in (p + 1)..m : b[i] = a[i]
    PROVE  LRUGet(a, b, k) /\ (m <= Capacity => LRUPut(a, b, k))
<1> DEFINE w == WithoutKey(a, k)
<1>1. w = [n \in 1..(m - 1) |-> a[IF n < p THEN n ELSE n + 1]]
  BY WithoutKeyIs
<1> HIDE DEF w
<1>2. /\ w \in [1..(m - 1) -> Keys] /\ m - 1 \in Nat
      /\ \A n \in 1..(m - 1) : w[n] = a[IF n < p THEN n ELSE n + 1]
  BY <1>1
<1>3. w \in Seq(Keys) /\ Len(w) = m - 1 /\ Len(a) = m
  BY <1>2, FunctionIsSeq
<1>4. SubSeq(w, 1, m - 1) = w
  <2>1. /\ SubSeq(w, 1, m - 1) \in Seq(Keys) /\ Len(SubSeq(w, 1, m - 1)) = m - 1
        /\ \A i \in 1..(m - 1) : SubSeq(w, 1, m - 1)[i] = w[i]
    BY <1>3, <1>2, SubSeqProperties
  <2> QED
    BY <2>1, <1>3, SeqEqual
<1>5. ASSUME NEW i \in 2..m
      PROVE  b[i] = w[i - 1]
  <2>1. CASE i <= p
    BY <2>1, <1>2
  <2>2. CASE i > p
    BY <2>2, <1>2
  <2> QED
    BY <2>1, <2>2
<1>6. b = <<k>> \o w
  <2>1. m - 1 \in 0..(m - 1) /\ (m - 1) + 1 = m
    BY <1>2
  <2> QED
    BY <2>1, <1>2, <1>4, <1>5, PushedIs
<1>7. LRUGet(a, b, k)
  BY <1>3, <1>6 DEF LRUGet, w
<1>8. ASSUME m <= Capacity
      PROVE  LRUPut(a, b, k)
  <2>1. Len(w) < Capacity
    BY <1>3, <1>8, CapacityPositive
  <2> QED
    BY <2>1, <1>6 DEF LRUPut, w
<1> QED
  BY <1>7, <1>8

\* A key put in front of fewer keys than the capacity.
LEMMA PutIs ==
    ASSUME NEW m \in Nat, NEW k \in Keys, NEW a \in [1..m -> Keys],
           \A i, j \in 1..m : a[i] = a[j] => i = j, \A i \in 1..m : a[i] # k, m < Capacity,
           NEW b \in [1..(m + 1) -> Keys], b[1] = k, \A i \in 2..(m + 1) : b[i] = a[i - 1]
    PROVE  LRUPut(a, b, k)
<1>1. WithoutKey(a, k) = a
  BY WithoutKeyIs
<1>2. a \in Seq(Keys) /\ Len(a) = m
  BY FunctionIsSeq
<1>3. SubSeq(a, 1, m) = a
  <2>1. /\ SubSeq(a, 1, m) \in Seq(Keys) /\ Len(SubSeq(a, 1, m)) = m
        /\ \A i \in 1..m : SubSeq(a, 1, m)[i] = a[i]
    BY <1>2, SubSeqProperties
  <2> QED
    BY <2>1, <1>2, SeqEqual
<1>4. m \in 0..m
  OBVIOUS
<1>5. b = <<k>> \o SubSeq(a, 1, m)
  BY <1>4, PushedIs
<1> QED
  BY <1>1, <1>2, <1>3, <1>5 DEF LRUPut

\* A key put in front of all but the last of a full cache.
LEMMA PutFullIs ==
    ASSUME NEW m \in Nat, NEW k \in Keys, NEW a \in [1..m -> Keys],
           \A i, j \in 1..m : a[i] = a[j] => i = j, \A i \in 1..m : a[i] # k, m = Capacity,
           NEW b \in [1..m -> Keys], b[1] = k, \A i \in 2..m : b[i] = a[i - 1]
    PROVE  LRUPut(a, b, k)
<1>1. WithoutKey(a, k) = a
  BY WithoutKeyIs
<1>2. a \in Seq(Keys) /\ Len(a) = m
  BY FunctionIsSeq
<1>3. Capacity - 1 \in 0..m /\ (Capacity - 1) + 1 = m
  BY CapacityPositive
<1>4. b = <<k>> \o SubSeq(a, 1, Capacity - 1)
  BY <1>3, PushedIs
<1>5. ~(Len(a) < Capacity)
  BY <1>2, CapacityPositive
<1> QED
  BY <1>1, <1>4, <1>5 DEF LRUPut

\* Dropping the key at position p is an extraction.
LEMMA ExtractIs ==
    ASSUME NEW m \in Nat, NEW k \in Keys, NEW a \in [1..m -> Keys],
           \A i, j \in 1..m : a[i] = a[j] => i = j,
           NEW p \in 1..m, a[p] = k, NEW b \in [1..(m - 1) -> Keys],
           \A i \in 1..(p - 1) : b[i] = a[i], \A i \in p..(m - 1) : b[i] = a[i + 1]
    PROVE  LRUExtract(a, b, k)
<1>1. WithoutKey(a, k) = [n \in 1..(m - 1) |-> a[IF n < p THEN n ELSE n + 1]]
  BY WithoutKeyIs
<1>2. ASSUME NEW i \in 1..(m - 1)
      PROVE  b[i] = a[IF i < p THEN i ELSE i + 1]
  <2>1. CASE i < p
    BY <2>1
  <2>2. CASE i >= p
    BY <2>2
  <2> QED
    BY <2>1, <2>2
<1>3. b = WithoutKey(a, k)
  BY <1>1, <1>2
<1>4. Len(a) = m
  BY FunctionIsSeq
<1> QED
  BY <1>3, <1>4 DEF LRUExtract

-----------------------------------------------------------------------------
(* The keys in order of use, and what the operations do to them.           *)

Recent(q, s, m) == [i \in 1..m |-> q.key[s[i]]]

\* The keys in order of use are different keys, at most as many as entries.
LEMMA RecentType ==
    ASSUME NEW q, NEW s, NEW m, Structure(q, s, m)
    PROVE  /\ m \in Nat /\ m <= q.entries /\ q.entries \in Nat /\ q.entries <= Capacity
           /\ Recent(q, s, m) \in [1..m -> Keys]
           /\ \A i \in 1..m : Recent(q, s, m)[i] = q.key[s[i]] /\ i \in 1..q.entries
           /\ \A i, j \in 1..m : Recent(q, s, m)[i] = Recent(q, s, m)[j] => i = j
<1> DEFINE n == q.entries
<1>1. n \in Nat /\ n <= Capacity /\ m \in Nat /\ m <= n
  BY CapacityPositive DEF Structure, Order, IsCache, HeldFirst
<1>2. /\ s \in [1..n -> Entries] /\ \A i, j \in 1..n : s[i] = s[j] => i = j
  BY DEF Structure, Order, ListIs, Lists
<1>3. q.key \in [Entries -> OrNone(Keys)] /\ \A i \in 1..n : q.key[s[i]] # None <=> i <= m
  BY DEF Structure, Order, IsCache, HeldFirst
<1>4. \A k \in Keys, e \in Entries : q.map[k] = e <=> q.key[e] = k
  BY DEF Structure, Content
<1> HIDE DEF n
<1>5. ASSUME NEW i \in 1..m
      PROVE  i \in 1..n /\ q.key[s[i]] \in Keys /\ s[i] \in Entries
  BY <1>1, <1>2, <1>3 DEF OrNone
<1>6. ASSUME NEW i \in 1..m, NEW j \in 1..m, q.key[s[i]] = q.key[s[j]]
      PROVE  i = j
  <2>1. /\ q.key[s[i]] \in Keys /\ s[i] \in Entries /\ s[j] \in Entries
        /\ i \in 1..n /\ j \in 1..n
    BY <1>5
  <2>2. s[i] = s[j]
    BY <2>1, <1>4, <1>6
  <2> QED
    BY <2>1, <2>2, <1>2
<1>7. \A i \in 1..m : Recent(q, s, m)[i] = q.key[s[i]]
  BY DEF Recent
<1>8. Recent(q, s, m) \in [1..m -> Keys]
  BY <1>5 DEF Recent
<1> QED
  BY <1>1, <1>5, <1>6, <1>7, <1>8 DEF n

\* get() is the get of LRUCache.
LEMMA GetStep ==
    ASSUME NEW q, NEW s, NEW m, Structure(q, s, m), NEW k \in Keys, q.map[k] # None
    PROVE  \E t, l : /\ Structure(Got(q, k), t, l)
                     /\ LRUGet(Recent(q, s, m), Recent(Got(q, k), t, l), k)
<1>1. PICK r : r = Got(q, k)
  OBVIOUS
<1>2. PICK p \in 1..m : /\ q.key[s[p]] = k /\ SameContent(q, r)
                        /\ Structure(r, ToFront(s, q.entries, p), m)
  BY <1>1, GotLemma
<1> DEFINE n == q.entries
           t == ToFront(s, n, p)
           a == Recent(q, s, m)
           b == Recent(r, t, m)
<1>3. /\ m \in Nat /\ m <= n /\ n \in Nat
      /\ a \in [1..m -> Keys] /\ \A i \in 1..m : a[i] = q.key[s[i]] /\ i \in 1..n
      /\ \A i, j \in 1..m : a[i] = a[j] => i = j
  BY RecentType
<1>4. b \in [1..m -> Keys] /\ \A i \in 1..m : b[i] = q.key[t[i]]
  <2>1. r.key = q.key
    BY <1>2 DEF SameContent
  <2> QED
    BY <2>1, <1>2, RecentType
<1> HIDE DEF n, a, b
<1>5. p \in 1..m /\ q.key[s[p]] = k
  BY <1>2
<1>6. /\ t[1] = s[p] /\ 1 \in 1..m
      /\ \A i \in 2..p : t[i] = s[i - 1] /\ i \in 1..m /\ i - 1 \in 1..m
      /\ \A i \in (p + 1)..m : t[i] = s[i] /\ i \in 1..m
  BY <1>3, <1>5 DEF ToFront
<1> HIDE DEF t
<1>7. a[p] = k /\ b[1] = k
  BY <1>3, <1>4, <1>5, <1>6
<1>8. ASSUME NEW i \in 2..p
      PROVE  b[i] = a[i - 1]
  <2>1. t[i] = s[i - 1] /\ i \in 1..m /\ i - 1 \in 1..m
    BY <1>6
  <2>2. b[i] = q.key[s[i - 1]] /\ a[i - 1] = q.key[s[i - 1]]
    BY <2>1, <1>3, <1>4
  <2> QED
    BY <2>2
<1>9. ASSUME NEW i \in (p + 1)..m
      PROVE  b[i] = a[i]
  <2>1. t[i] = s[i] /\ i \in 1..m
    BY <1>6
  <2> QED
    BY <2>1, <1>3, <1>4
<1>10. LRUGet(a, b, k)
  <2>1. m \in Nat /\ a \in [1..m -> Keys] /\ b \in [1..m -> Keys]
    BY <1>3, <1>4
  <2>2. \A i, j \in 1..m : a[i] = a[j] => i = j
    BY <1>3
  <2> QED
    BY <2>1, <2>2, <1>5, <1>7, <1>8, <1>9, GetIs
<1> QED
  BY <1>1, <1>2, <1>10 DEF n, t, a, b

\* What extract() does.
Extracts(q, s, m, k, r, e) ==
    /\ q.map[k] = e
    /\ r.key = [q.key EXCEPT ![e] = None] /\ r.payload = [q.payload EXCEPT ![e] = None]
    /\ \E t, l : Structure(r, t, l) /\ LRUExtract(Recent(q, s, m), Recent(r, t, l), k)

\* extract() is the extract of LRUCache.
LEMMA ExtractStep ==
    ASSUME NEW q, NEW s, NEW m, Structure(q, s, m), NEW k \in Keys, q.map[k] # None
    PROVE  \E e \in Entries : Extracts(q, s, m, k, Extracted(q, k), e)
<1>0. PICK r : r = Extracted(q, k)
  OBVIOUS
<1>1. PICK p \in 1..m :
             /\ p \in 1..q.entries /\ s[p] = q.map[k] /\ s[p] \in Entries /\ q.key[s[p]] = k
             /\ r.entries = q.entries
             /\ r.key = [q.key EXCEPT ![s[p]] = None]
             /\ r.payload = [q.payload EXCEPT ![s[p]] = None]
             /\ Structure(r, ToBack(s, q.entries, p), m - 1)
  BY <1>0, ExtractedLemma
<1> DEFINE n == q.entries
           t == ToBack(s, n, p)
           a == Recent(q, s, m)
           b == Recent(r, t, m - 1)
<1>2. /\ m \in Nat /\ m <= n /\ n \in Nat
      /\ a \in [1..m -> Keys] /\ \A i \in 1..m : a[i] = q.key[s[i]] /\ i \in 1..n
      /\ \A i, j \in 1..m : a[i] = a[j] => i = j
  BY RecentType
<1>3. b \in [1..(m - 1) -> Keys] /\ \A i \in 1..(m - 1) : b[i] = r.key[t[i]]
  <2>1. Structure(r, t, m - 1)
    BY <1>1
  <2> HIDE DEF t
  <2> QED
    BY <2>1, RecentType
<1>4. p \in 1..m /\ q.key[s[p]] = k
  BY <1>1
<1>5. \A i \in 1..m : i # p => r.key[s[i]] = q.key[s[i]]
  <2>1. q.key \in [Entries -> OrNone(Keys)]
    BY DEF Structure, Order, IsCache
  <2>2. s \in [1..n -> Entries] /\ \A i, j \in 1..n : s[i] = s[j] => i = j
    BY DEF Structure, Order, ListIs, Lists
  <2>3. r.key = [q.key EXCEPT ![s[p]] = None] /\ p \in 1..n
    BY <1>1
  <2> HIDE DEF n, t, a, b
  <2> QED
    BY <2>1, <2>2, <2>3, <1>2
<1> HIDE DEF n, a, b
<1>6. /\ \A i \in 1..(p - 1) : t[i] = s[i] /\ i \in 1..m /\ i \in 1..(m - 1) /\ i # p
      /\ \A i \in p..(m - 1) :
            t[i] = s[i + 1] /\ i \in 1..(m - 1) /\ i + 1 \in 1..m /\ i + 1 # p
  BY <1>2, <1>4 DEF ToBack
<1> HIDE DEF t
<1>7. /\ \A i \in 1..(p - 1) : b[i] = a[i]
      /\ \A i \in p..(m - 1) : b[i] = a[i + 1]
  <2>1. ASSUME NEW i \in 1..(p - 1)
        PROVE  b[i] = a[i]
    <3>1. t[i] = s[i] /\ i \in 1..m /\ i \in 1..(m - 1) /\ i # p
      BY <1>6
    <3>2. b[i] = r.key[s[i]] /\ a[i] = q.key[s[i]]
      BY <3>1, <1>2, <1>3
    <3> QED
      BY <3>1, <3>2, <1>5
  <2>2. ASSUME NEW i \in p..(m - 1)
        PROVE  b[i] = a[i + 1]
    <3>1. t[i] = s[i + 1] /\ i \in 1..(m - 1) /\ i + 1 \in 1..m /\ i + 1 # p
      BY <1>6
    <3>2. b[i] = r.key[s[i + 1]] /\ a[i + 1] = q.key[s[i + 1]]
      BY <3>1, <1>2, <1>3
    <3> QED
      BY <3>1, <3>2, <1>5
  <2> QED
    BY <2>1, <2>2
<1>8. a[p] = k
  BY <1>2, <1>4
<1>9. LRUExtract(a, b, k)
  <2>1. m \in Nat /\ a \in [1..m -> Keys] /\ b \in [1..(m - 1) -> Keys] /\ p \in 1..m
    BY <1>2, <1>3, <1>4
  <2>2. \A i, j \in 1..m : a[i] = a[j] => i = j
    BY <1>2
  <2> QED
    BY <2>1, <2>2, <1>7, <1>8, ExtractIs
<1>10. \E u, l : Structure(r, u, l) /\ LRUExtract(Recent(q, s, m), Recent(r, u, l), k)
  BY <1>1, <1>9 DEF n, t, a, b
<1>11. Extracts(q, s, m, k, r, s[p])
  BY <1>1, <1>10 DEF Extracts
<1> QED
  BY <1>0, <1>1, <1>11

\* What put() does, in each of its cases.
Puts(q, s, m, k, pl, r, e) ==
    /\ r.key = [q.key EXCEPT ![e] = k] /\ r.payload = [q.payload EXCEPT ![e] = pl]
    /\ DestroyedByPut(q, q.map[k], pl) = IF q.payload[e] = pl THEN None ELSE q.payload[e]
    /\ \E t, l : Structure(r, t, l) /\ LRUPut(Recent(q, s, m), Recent(r, t, l), k)

\* put() of a key that is there is the put of LRUCache.
LEMMA ReplaceStep ==
    ASSUME NEW q, NEW s, NEW m, Structure(q, s, m), NEW k \in Keys, q.map[k] # None,
           NEW pl \in Payloads, NEW r, r = Replaced(q, q.map[k], k, pl)
    PROVE  \E e \in Entries : Puts(q, s, m, k, pl, r, e)
<1>1. PICK p \in 1..m :
             /\ p \in 1..q.entries /\ s[p] = q.map[k] /\ s[p] \in Entries /\ q.key[s[p]] = k
             /\ r.entries = q.entries
             /\ r.key = [q.key EXCEPT ![s[p]] = k]
             /\ r.payload = [q.payload EXCEPT ![s[p]] = pl]
             /\ Structure(r, ToFront(s, q.entries, p), m)
  BY ReplacedLemma
<1> DEFINE n == q.entries
           t == ToFront(s, n, p)
           a == Recent(q, s, m)
           b == Recent(r, t, m)
<1>2. /\ m \in Nat /\ m <= n /\ n \in Nat /\ n <= Capacity
      /\ a \in [1..m -> Keys] /\ \A i \in 1..m : a[i] = q.key[s[i]] /\ i \in 1..n
      /\ \A i, j \in 1..m : a[i] = a[j] => i = j
  BY RecentType
<1>3. r.key = q.key
  <2>1. q.key \in [Entries -> OrNone(Keys)]
    BY DEF Structure, Order, IsCache
  <2> QED
    BY <2>1, <1>1
<1>4. b \in [1..m -> Keys] /\ \A i \in 1..m : b[i] = q.key[t[i]]
  BY <1>1, <1>3, RecentType
<1> HIDE DEF n, a, b
<1>5. p \in 1..m /\ q.key[s[p]] = k
  BY <1>1
<1>6. /\ t[1] = s[p] /\ 1 \in 1..m
      /\ \A i \in 2..p : t[i] = s[i - 1] /\ i \in 1..m /\ i - 1 \in 1..m
      /\ \A i \in (p + 1)..m : t[i] = s[i] /\ i \in 1..m
  BY <1>2, <1>5 DEF ToFront
<1> HIDE DEF t
<1>7. a[p] = k /\ b[1] = k
  BY <1>2, <1>4, <1>5, <1>6
<1>8. /\ \A i \in 2..p : b[i] = a[i - 1]
      /\ \A i \in (p + 1)..m : b[i] = a[i]
  <2>1. ASSUME NEW i \in 2..p
        PROVE  b[i] = a[i - 1]
    <3>1. t[i] = s[i - 1] /\ i \in 1..m /\ i - 1 \in 1..m
      BY <1>6
    <3> QED
      BY <3>1, <1>2, <1>4
  <2>2. ASSUME NEW i \in (p + 1)..m
        PROVE  b[i] = a[i]
    <3>1. t[i] = s[i] /\ i \in 1..m
      BY <1>6
    <3> QED
      BY <3>1, <1>2, <1>4
  <2> QED
    BY <2>1, <2>2
<1>9. LRUPut(a, b, k)
  <2>1. m <= Capacity
    BY <1>2, CapacityPositive
  <2> QED
    BY <2>1, <1>2, <1>4, <1>5, <1>7, <1>8, GetIs
<1>10. DestroyedByPut(q, q.map[k], pl)
         = IF q.payload[s[p]] = pl THEN None ELSE q.payload[s[p]]
  BY <1>1 DEF DestroyedByPut, Overwritten
<1>11. \E u, l : Structure(r, u, l) /\ LRUPut(Recent(q, s, m), Recent(r, u, l), k)
  BY <1>1, <1>9 DEF n, t, a, b
<1> QED
  BY <1>1, <1>10, <1>11 DEF Puts

\* A key that is not in the map is not among the keys in use.
LEMMA NotRecent ==
    ASSUME NEW q, NEW s, NEW m, Structure(q, s, m), NEW k \in Keys, q.map[k] = None
    PROVE  /\ \A i \in 1..m : Recent(q, s, m)[i] # k
           /\ Overwritten(q, q.map[k]) = IF HasRoom(q) THEN None ELSE q.tail
<1>1. \A e \in Entries : q.key[e] # k
  <2>1. None \notin Entries
    BY NoneIsNull
  <2> QED
    BY <2>1 DEF Structure, Content
<1>2. ASSUME NEW i \in 1..m
      PROVE  Recent(q, s, m)[i] # k
  <2>1. i \in 1..q.entries /\ Recent(q, s, m)[i] = q.key[s[i]]
    BY RecentType
  <2>2. s[i] \in Entries
    BY <2>1 DEF Structure, Order, ListIs, Lists
  <2> QED
    BY <2>1, <2>2, <1>1
<1> QED
  BY <1>2 DEF Overwritten

\* put() of a new key into a cache with room is the put of LRUCache.
LEMMA AddStep ==
    ASSUME NEW q, NEW s, NEW m, Structure(q, s, m), NEW k \in Keys, q.map[k] = None,
           HasRoom(q), NEW pl \in Payloads, NEW r, r = Added(q, k, pl)
    PROVE  \E e \in Entries : Puts(q, s, m, k, pl, r, e)
<1> DEFINE n == q.entries
           e == q.entries + 1
           t == InFront(s, n, e)
           a == Recent(q, s, m)
           b == Recent(r, t, m + 1)
<1>1. /\ e \in Entries /\ q.payload[e] = None
      /\ r.key = [q.key EXCEPT ![e] = k] /\ r.payload = [q.payload EXCEPT ![e] = pl]
      /\ Structure(r, t, m + 1)
  <2>1. q.entries < Capacity
    BY DEF HasRoom
  <2> QED
    BY <2>1, AddedLemma
<1>2. /\ m \in Nat /\ m <= n /\ n \in Nat /\ n <= Capacity
      /\ a \in [1..m -> Keys] /\ \A i \in 1..m : a[i] = q.key[s[i]] /\ i \in 1..n
      /\ \A i, j \in 1..m : a[i] = a[j] => i = j
  BY RecentType
<1> HIDE DEF t
<1>3. b \in [1..(m + 1) -> Keys] /\ \A i \in 1..(m + 1) : b[i] = r.key[t[i]]
  <2>1. Structure(r, t, m + 1)
    BY <1>1
  <2> QED
    BY <2>1, RecentType
<1>4. /\ \A i \in 1..m : a[i] # k
      /\ Overwritten(q, q.map[k]) = None
  BY NotRecent
<1>5. /\ q.key \in [Entries -> OrNone(Keys)] /\ s \in [1..n -> Entries]
      /\ \A i \in 1..n : s[i] # e
  <2>1. q.entries \in Nat /\ \A i \in 1..n : s[i] \in 1..q.entries
    BY DEF Structure, Order, IsCache
  <2>2. \A i \in 1..n : s[i] # e
    BY <2>1
  <2>3. q.key \in [Entries -> OrNone(Keys)] /\ s \in [1..n -> Entries]
    BY DEF Structure, Order, IsCache, ListIs, Lists
  <2> QED
    BY <2>2, <2>3
<1>6. t[1] = e /\ \A i \in 2..(m + 1) : /\ t[i] = s[i - 1] /\ i \in 1..(m + 1)
                                        /\ i - 1 \in 1..m /\ i - 1 \in 1..n
  <2> HIDE DEF n, e
  <2> QED
    BY <1>2 DEF InFront, t
<1> HIDE DEF n, e, a, b
<1>7. b[1] = k
  BY <1>1, <1>2, <1>3, <1>5, <1>6
<1>8. ASSUME NEW i \in 2..(m + 1)
      PROVE  b[i] = a[i - 1]
  <2>1. t[i] = s[i - 1] /\ i \in 1..(m + 1) /\ i - 1 \in 1..m /\ i - 1 \in 1..n
    BY <1>6
  <2> QED
    BY <2>1, <1>1, <1>2, <1>3, <1>5
<1>9. LRUPut(a, b, k)
  <2>1. m < Capacity
    BY <1>2, CapacityPositive DEF HasRoom, n
  <2>2. m \in Nat /\ a \in [1..m -> Keys] /\ b \in [1..(m + 1) -> Keys]
    BY <1>2, <1>3
  <2>3. \A i, j \in 1..m : a[i] = a[j] => i = j
    BY <1>2
  <2>4. \A i \in 1..m : a[i] # k
    BY <1>4
  <2> QED
    BY <2>1, <2>2, <2>3, <2>4, <1>7, <1>8, PutIs
<1>10. \E u, l : Structure(r, u, l) /\ LRUPut(Recent(q, s, m), Recent(r, u, l), k)
  BY <1>1, <1>9 DEF a, b
<1>11. DestroyedByPut(q, q.map[k], pl) = IF q.payload[e] = pl THEN None ELSE q.payload[e]
  BY <1>1, <1>4 DEF DestroyedByPut
<1> QED
  BY <1>1, <1>10, <1>11 DEF Puts

\* put() of a new key into a full cache is the put of LRUCache: it drops the
\* least recently used key, or none if the tail is an extracted entry.
LEMMA ReuseStep ==
    ASSUME NEW q, NEW s, NEW m, Structure(q, s, m), NEW k \in Keys, q.map[k] = None,
           ~HasRoom(q), NEW pl \in Payloads, NEW r, r = Reused(q, k, pl)
    PROVE  \E e \in Entries : Puts(q, s, m, k, pl, r, e)
<1> DEFINE n == q.entries
           e == q.tail
           t == ToFront(s, n, n)
           l == IF m = n THEN m ELSE m + 1
           a == Recent(q, s, m)
           b == Recent(r, t, l)
<1>1. /\ n \in 1..n /\ s[n] = e /\ e \in Entries
      /\ r.key = [q.key EXCEPT ![e] = k] /\ r.payload = [q.payload EXCEPT ![e] = pl]
      /\ Structure(r, t, l)
  <2>1. q.entries = Capacity
    BY CapacityPositive DEF HasRoom, Structure, Order, IsCache
  <2> QED
    BY <2>1, ReusedLemma
<1>2. /\ m \in Nat /\ m <= n /\ n \in Nat /\ n <= Capacity
      /\ a \in [1..m -> Keys] /\ \A i \in 1..m : a[i] = q.key[s[i]] /\ i \in 1..n
      /\ \A i, j \in 1..m : a[i] = a[j] => i = j
  BY RecentType
<1> HIDE DEF t, l
<1>3. l \in Nat /\ b \in [1..l -> Keys] /\ \A i \in 1..l : b[i] = r.key[t[i]]
  <2>1. Structure(r, t, l)
    BY <1>1
  <2> QED
    BY <2>1, RecentType
<1>4. /\ \A i \in 1..m : a[i] # k
      /\ Overwritten(q, q.map[k]) = e
  BY NotRecent
<1>5. /\ q.key \in [Entries -> OrNone(Keys)] /\ s \in [1..n -> Entries]
      /\ \A i, j \in 1..n : s[i] = s[j] => i = j
  BY DEF Structure, Order, IsCache, ListIs, Lists
<1>6. n = Capacity
  BY <1>2, CapacityPositive DEF HasRoom
<1> HIDE DEF n, e, a, b
<1>7. /\ t[1] = s[n] /\ 1 \in 1..l
      /\ \A i \in 2..l : t[i] = s[i - 1] /\ i \in 1..l /\ i - 1 \in 1..m
            /\ i - 1 \in 1..n /\ i - 1 # n
  BY <1>1, <1>2 DEF ToFront, t, l
<1>8. b[1] = k
  BY <1>1, <1>3, <1>5, <1>7
<1>9. \A i \in 2..l : b[i] = a[i - 1]
  BY <1>1, <1>2, <1>3, <1>5, <1>7
<1>10. LRUPut(a, b, k)
  <2>1. m \in Nat /\ a \in [1..m -> Keys]
    BY <1>2
  <2>2. \A i, j \in 1..m : a[i] = a[j] => i = j
    BY <1>2
  <2>3. \A i \in 1..m : a[i] # k
    BY <1>4
  <2>4. CASE m = n
    <3>1. l = m /\ m = Capacity
      BY <2>4, <1>6 DEF l
    <3>2. b \in [1..m -> Keys] /\ \A i \in 2..m : b[i] = a[i - 1]
      BY <3>1, <1>3, <1>9
    <3> QED
      BY <2>1, <2>2, <2>3, <3>1, <3>2, <1>8, PutFullIs
  <2>5. CASE m < n
    <3>1. l = m + 1 /\ m < Capacity
      BY <2>5, <1>2, <1>6 DEF l
    <3>2. b \in [1..(m + 1) -> Keys] /\ \A i \in 2..(m + 1) : b[i] = a[i - 1]
      BY <3>1, <1>3, <1>9
    <3> QED
      BY <2>1, <2>2, <2>3, <3>1, <3>2, <1>8, PutIs
  <2>6. m = n \/ m < n
    BY <1>2
  <2> QED
    BY <2>4, <2>5, <2>6
<1>11. \E u, v : Structure(r, u, v) /\ LRUPut(Recent(q, s, m), Recent(r, u, v), k)
  BY <1>1, <1>10 DEF a, b
<1>12. DestroyedByPut(q, q.map[k], pl) = IF q.payload[e] = pl THEN None ELSE q.payload[e]
  BY <1>1, <1>4, NoneIsNull DEF DestroyedByPut
<1> QED
  BY <1>1, <1>11, <1>12 DEF Puts, e

\* put(), in each case.
LEMMA PutStep ==
    ASSUME NEW q, NEW s, NEW m, Structure(q, s, m), NEW k \in Keys, NEW pl \in Payloads
    PROVE  \E e \in Entries : Puts(q, s, m, k, pl, PutFound(q, q.map[k], k, pl), e)
<1>1. CASE q.map[k] # None
  <2>1. PutFound(q, q.map[k], k, pl) = Replaced(q, q.map[k], k, pl)
    BY <1>1 DEF PutFound
  <2> QED
    BY <2>1, <1>1, ReplaceStep
<1>2. CASE q.map[k] = None /\ HasRoom(q)
  <2>1. PutFound(q, q.map[k], k, pl) = Added(q, k, pl)
    BY <1>2 DEF PutFound
  <2> QED
    BY <2>1, <1>2, AddStep
<1>3. CASE q.map[k] = None /\ ~HasRoom(q)
  <2>1. PutFound(q, q.map[k], k, pl) = Reused(q, k, pl)
    BY <1>3 DEF PutFound
  <2> QED
    BY <2>1, <1>3, ReuseStep
<1> QED
  BY <1>1, <1>2, <1>3

-----------------------------------------------------------------------------
(* The witnesses s and m are what Chain and InOrder compute.               *)

\* Of two different sequences, a first index at which they differ.
LEMMA LeastIndex ==
    ASSUME NEW n \in Nat, NEW S \in SUBSET (1..n), S # {}
    PROVE  \E i \in S : \A j \in S : i <= j
<1> DEFINE below(i) == {j \in S : j < i}
           B == {below(i) : i \in S}
<1>1. B \subseteq FiniteSubsetsOf(1..n) /\ B # {}
  <2>1. IsFiniteSet(1..n)
    BY FS_Interval
  <2>2. \A X \in SUBSET S : X \in FiniteSubsetsOf(1..n)
    BY <2>1, FS_Subset DEF FiniteSubsetsOf
  <2> QED
    BY <2>2
<1>2. PICK b \in B : \A c \in B : <<c, b>> \notin StrictSubsetOrdering(1..n)
  <2> HIDE DEF B
  <2> QED
    BY <1>1, FS_StrictSubsetOrderingWellFounded, WFMin
<1>3. PICK i \in S : b = below(i)
  OBVIOUS
<1>4. ASSUME NEW j \in S, j < i
      PROVE  FALSE
  <2>1. (\A m \in S : m < j => m < i) /\ ~(j < j)
    BY <1>3, <1>4
  <2>2. below(j) \subseteq below(i) /\ j \in below(i) /\ j \notin below(j)
    BY <1>3, <1>4, <2>1
  <2>3. below(j) \in SUBSET (1..n) /\ below(i) \in SUBSET (1..n)
    OBVIOUS
  <2> HIDE DEF below
  <2> QED
    BY <1>2, <1>3, <2>2, <2>3 DEF StrictSubsetOrdering
<1>5. \A j \in S : i <= j
  BY <1>4
<1> QED
  BY <1>3, <1>5

IsChain(q, f) ==
    f = [n \in 1..q.entries |-> IF n = 1 THEN q.head
                                ELSE IF f[n - 1] = None THEN None ELSE q.next[f[n - 1]]]

\* Following the links from the head gives the list.
LEMMA ChainIs ==
    ASSUME NEW q, NEW s, Order(q, s)
    PROVE  Chain(q) = s
<1> DEFINE n == q.entries
           c == Chain(q)
<1>1. /\ n \in Nat /\ s \in [1..n -> Entries] /\ None \notin Entries
      /\ \A i \in 1..n : q.next[s[i]] = IF i = n THEN None ELSE s[i + 1]
      /\ n > 0 => q.head = s[1]
  BY NoneIsNull DEF Order, IsCache, ListIs, Lists
<1>2. IsChain(q, s)
  <2>1. ASSUME NEW i \in 1..n
        PROVE  s[i] = IF i = 1 THEN q.head
                      ELSE IF s[i - 1] = None THEN None ELSE q.next[s[i - 1]]
    <3>1. CASE i = 1
      BY <3>1, <1>1
    <3>2. CASE i # 1
      <4>1. i - 1 \in 1..n /\ i - 1 # n /\ (i - 1) + 1 = i
        BY <3>2, <1>1
      <4>2. s[i - 1] # None
        BY <4>1, <1>1
      <4>3. q.next[s[i - 1]] = s[(i - 1) + 1]
        BY <4>1, <1>1
      <4> QED
        BY <4>1, <4>2, <4>3, <3>2
    <3> QED
      BY <3>1, <3>2
  <2> QED
    BY <2>1, <1>1 DEF IsChain
<1>3. IsChain(q, c)
  BY <1>2, Zenon DEF IsChain, Chain
<1> HIDE DEF c
<1>4. \A i \in 1..n : c[i] = s[i]
  <2> DEFINE D == {i \in 1..n : c[i] # s[i]}
  <2>1. SUFFICES ASSUME D # {} PROVE FALSE
    OBVIOUS
  <2>2. PICK i \in D : \A j \in D : i <= j
    BY <2>1, <1>1, LeastIndex
  <2>3. CASE i = 1
    BY <2>2, <2>3, <1>2, <1>3 DEF IsChain
  <2>4. CASE i # 1
    <3>1. i \in 1..n /\ i - 1 \in 1..n /\ i - 1 \notin D
      BY <2>2, <2>4, <1>1
    <3>2. c[i - 1] = s[i - 1]
      BY <3>1
    <3>3. c[i] = IF c[i - 1] = None THEN None ELSE q.next[c[i - 1]]
      BY <3>1, <2>4, <1>3 DEF IsChain
    <3>4. s[i] = IF s[i - 1] = None THEN None ELSE q.next[s[i - 1]]
      BY <3>1, <2>4, <1>2 DEF IsChain
    <3> QED
      BY <3>2, <3>3, <3>4, <2>2
  <2> QED
    BY <2>3, <2>4
<1>5. c = [i \in 1..n |-> c[i]] /\ s = [i \in 1..n |-> s[i]]
  BY <1>1, <1>3 DEF IsChain
<1> QED
  BY <1>4, <1>5 DEF c

\* InOrder gives the keys of the list up to the first extracted entry.
LEMMA InOrderIs ==
    ASSUME NEW q, NEW s, NEW m, Structure(q, s, m)
    PROVE  InOrder(q) = Recent(q, s, m)
<1> DEFINE n == q.entries
           chain == Chain(q)
           keyAt(i) == IF chain[i] = None THEN None ELSE q.key[chain[i]]
           IsHeld(h) == (\A i \in 1..h : keyAt(i) # None) /\ (h < n => keyAt(h + 1) = None)
           held == CHOOSE h \in 0..n : IsHeld(h)
<1>1. InOrder(q) = [i \in 1..held |-> keyAt(i)]
  BY DEF InOrder
<1>2. chain = s
  BY ChainIs DEF Structure
<1>3. /\ n \in Nat /\ m \in 0..n /\ s \in [1..n -> Entries] /\ None \notin Entries
      /\ \A i \in 1..n : q.key[s[i]] # None <=> i <= m
  BY NoneIsNull DEF Structure, Order, IsCache, ListIs, Lists, HeldFirst
<1> HIDE DEF chain, n
<1>4. \A i \in 1..n : keyAt(i) = q.key[s[i]]
  BY <1>2, <1>3
<1> HIDE DEF keyAt
<1>5. IsHeld(m)
  BY <1>3, <1>4
<1>6. ASSUME NEW h \in 0..n, IsHeld(h)
      PROVE  h = m
  <2>1. CASE h < m
    <3>1. h + 1 \in 1..n /\ h + 1 <= m /\ keyAt(h + 1) = None
      BY <2>1, <1>3, <1>6
    <3> QED
      BY <3>1, <1>3, <1>4
  <2>2. CASE h > m
    <3>1. m + 1 \in 1..n /\ m + 1 \in 1..h /\ ~(m + 1 <= m) /\ keyAt(m + 1) # None
      BY <2>2, <1>3, <1>6
    <3> QED
      BY <3>1, <1>3, <1>4
  <2> QED
    BY <2>1, <2>2, <1>3
<1> HIDE DEF IsHeld
<1>7. held = m
  BY <1>3, <1>5, <1>6
<1> HIDE DEF held
<1>8. \A i \in 1..m : i \in 1..n
  BY <1>3
<1> QED
  BY <1>1, <1>4, <1>7, <1>8 DEF Recent

\* What StructureSound says follows.
LEMMA StructureIsSound ==
    ASSUME TypeOK, NEW s, NEW m, Structure(cache, s, m)
    PROVE  StructureSound
<1> DEFINE n == cache.entries
<1>1. Chain(cache) = s
  BY ChainIs DEF Structure
<1>2. /\ n \in Nat /\ s \in [1..n -> Entries]
      /\ cache.head = (IF n = 0 THEN None ELSE s[1])
      /\ cache.tail = (IF n = 0 THEN None ELSE s[n])
      /\ \A i \in 1..n : cache.next[s[i]] = IF i = n THEN None ELSE s[i + 1]
      /\ \A i \in 1..n : cache.prev[s[i]] = IF i = 1 THEN None ELSE s[i - 1]
      /\ \A i \in 1..n : s[i] \in 1..n
      /\ \A e \in 1..n : \E i \in 1..n : s[i] = e
  BY DEF Structure, Order, IsCache, ListIs, Lists
<1>3. \A i \in 1..n : cache.key[s[i]] # None <=> i <= m
  BY DEF Structure, HeldFirst
<1>4. m \in Nat
  BY <1>2 DEF Structure, HeldFirst
<1>n. n \in Nat
  BY <1>2
<1> HIDE DEF n
<1>5. ListSound
  <2>1. {s[i] : i \in 1..n} = 1..n
    <3>1. /\ \A i \in 1..n : s[i] \in 1..n
          /\ \A e \in 1..n : \E i \in 1..n : s[i] = e
      BY <1>2
    <3> QED
      BY <3>1
  <2>2. ASSUME n > 0
        PROVE  /\ s[n] = cache.tail
               /\ cache.next[cache.tail] = None /\ cache.prev[cache.head] = None
    <3>1. 1 \in 1..n /\ n \in 1..n /\ n # 0
      BY <2>2, <1>n
    <3>2. cache.head = s[1] /\ cache.tail = s[n]
      BY <3>1, <1>2
    <3>3. cache.next[s[n]] = None /\ cache.prev[s[1]] = None
      BY <3>1, <1>2
    <3> QED
      BY <3>2, <3>3
  <2>3. ASSUME NEW i \in 2..n
        PROVE  cache.prev[s[i]] = s[i - 1]
    <3>1. i \in 1..n /\ i # 1
      BY <1>n
    <3> QED
      BY <3>1, <1>2
  <2>4. {Chain(cache)[i] : i \in 1..n} = 1..n
    BY <1>1, <2>1
  <2> QED
    BY <1>1, <2>2, <2>3, <2>4 DEF ListSound, n
<1>6. MapMatchesList
  <2>1. ASSUME NEW i \in 1..n, NEW j \in 1..n, i < j, cache.key[s[j]] # None
        PROVE  cache.key[s[i]] # None
    BY <2>1, <1>3, <1>4
  <2>2. Content(cache)
    BY DEF Structure
  <2> QED
    BY <1>1, <2>1, <2>2 DEF MapMatchesList, Content, n
<1> QED
  BY <1>5, <1>6 DEF StructureSound

-----------------------------------------------------------------------------
(* The cache, once it is serialized.                                       *)

CallRecords ==
    [op : {"idle", "pop", "put", "store", "push", "extract", "read"},
     key : OrNone(Keys), payload : OrNone(Payloads), entry : OrNone(Entries)]

\* Every call but one that only reads has a key and a payload.
Equipped(x) ==
    x.op \in {"pop", "put", "store", "push", "extract"} =>
        x.key \in Keys /\ x.payload \in Payloads

Inside(x) == x.op \in {"store", "push", "extract"}

\* The inductive invariant: one thread is in a call of the cache, and what put()
\* has found is still there.
CacheInv ==
    /\ TypeOK
    /\ \E s, m : Structure(cache, s, m)
    /\ \A t \in Threads : Equipped(call[t])
    /\ \A t, u \in Threads : Inside(call[t]) /\ Inside(call[u]) => t = u
    /\ \A t \in Threads : call[t].op = "store" => call[t].entry = cache.map[call[t].key]

\* The call of t becomes x, and the variables keep their types.
Moves(t, x) ==
    /\ x \in CallRecords /\ Equipped(x) /\ call' = [call EXCEPT ![t] = x]
    /\ data' \in [Payloads -> OrNone(Keys)] /\ link' \in [Payloads -> OrNone(Payloads)]
    /\ freelist' \in OrNone(Payloads) /\ unused' \subseteq Payloads

\* The constructor establishes the invariant.
LEMMA InitCache == Init => CacheInv
<1> SUFFICES ASSUME Init PROVE CacheInv
  OBVIOUS
<1>1. /\ 0 \in 0..Capacity /\ None \notin Keys /\ None \notin Entries
            /\ None \notin Payloads
  BY NoneIsNull, CapacityPositive
<1>2. IsCache(EmptyCache)
  BY <1>1 DEF EmptyCache, IsCache, OrNone
<1>3. TypeOK
  <2>1. data \in [Payloads -> OrNone(Keys)] /\ link \in [Payloads -> OrNone(Payloads)]
    BY DEF Init, OrNone
  <2>2. Idle \in CallRecords
    BY DEF Idle, CallRecords, OrNone
  <2>3. call \in [Threads -> CallRecords]
    BY <2>2 DEF Init
  <2>4. freelist \in OrNone(Payloads) /\ unused \subseteq Payloads
    BY DEF Init, OrNone
  <2> QED
    BY <2>1, <2>3, <2>4, <1>2 DEF Init, TypeOK, CallRecords
<1>4. Structure(cache, [i \in 1..0 |-> 1], 0)
  <2> DEFINE s == [i \in 1..0 |-> 1]
  <2>1. s \in [1..0 -> Entries] /\ 1..0 = {}
    OBVIOUS
  <2>2. /\ cache.head = None /\ cache.tail = None /\ cache.entries = 0
        /\ cache.map = [k \in Keys |-> None] /\ cache.key = [e \in Entries |-> None]
        /\ cache.payload = [e \in Entries |-> None]
        /\ cache.next = [e \in Entries |-> None] /\ cache.prev = [e \in Entries |-> None]
    BY DEF Init, EmptyCache
  <2> HIDE DEF s
  <2>3. Order(cache, s)
    BY <2>1, <2>2, <1>2 DEF Init, Order, ListIs, Lists
  <2>4. Content(cache)
    BY <2>2, <1>1 DEF Content
  <2>5. HeldFirst(cache, s, 0)
    BY <2>1, <2>2 DEF HeldFirst
  <2> QED
    BY <2>3, <2>4, <2>5 DEF Structure, s
<1>5. \A t \in Threads : call[t].op = "idle"
  BY DEF Init, Idle
<1> QED
  BY <1>3, <1>4, <1>5 DEF CacheInv, Equipped, Inside

\* A thread that is alone in the cache, or does not touch it, keeps the invariant.
LEMMA MovesInv ==
    ASSUME CacheInv, NEW t \in Threads, NEW x, Moves(t, x), IsCache(cache'),
           \E s, m : Structure(cache', s, m),
           Inside(x) => \A u \in Threads : Inside(call[u]) => u = t,
           cache' = cache \/ \A u \in Threads : Inside(call[u]) => u = t,
           x.op = "store" => x.entry = cache'.map[x.key]
    PROVE  CacheInv'
<1>1. /\ x \in CallRecords /\ Equipped(x)
      /\ call \in [Threads -> CallRecords] /\ call' = [call EXCEPT ![t] = x]
  BY DEF CacheInv, TypeOK, CallRecords, Moves
<1>2. /\ call' \in [Threads -> CallRecords]
      /\ \A u \in Threads : call'[u] = IF u = t THEN x ELSE call[u]
  BY <1>1
<1>3. TypeOK'
  BY <1>2 DEF TypeOK, Moves, CallRecords
<1>4. \A u \in Threads : Equipped(call'[u])
  BY <1>1, <1>2 DEF CacheInv
<1>5. ASSUME NEW u \in Threads, NEW v \in Threads, Inside(call'[u]), Inside(call'[v])
      PROVE  u = v
  BY <1>2, <1>5 DEF CacheInv
<1>6. ASSUME NEW u \in Threads, call'[u].op = "store"
      PROVE  call'[u].entry = cache'.map[call'[u].key]
  <2>1. CASE u = t
    BY <2>1, <1>2, <1>6
  <2>2. CASE u # t
    <3>1. call'[u] = call[u] /\ Inside(call[u])
      BY <2>2, <1>2, <1>6 DEF Inside
    <3>2. cache' = cache
      BY <3>1, <2>2
    <3> QED
      BY <3>1, <3>2, <1>6 DEF CacheInv
  <2> QED
    BY <2>1, <2>2
<1> QED
  BY <1>3, <1>4, <1>5, <1>6 DEF CacheInv

\* The types of the parts of the state.
LEMMA CacheTypes ==
    ASSUME CacheInv
    PROVE  /\ IsCache(cache)
           /\ cache.map \in [Keys -> OrNone(Entries)]
           /\ cache.payload \in [Entries -> OrNone(Payloads)]
           /\ data \in [Payloads -> OrNone(Keys)] /\ link \in [Payloads -> OrNone(Payloads)]
           /\ freelist \in OrNone(Payloads) /\ unused \subseteq Payloads
           /\ call \in [Threads -> CallRecords]
           /\ Idle \in CallRecords /\ Equipped(Idle) /\ ~Inside(Idle)
           /\ None \notin Keys /\ None \notin Payloads /\ None \notin Entries
BY NoneIsNull DEF CacheInv, TypeOK, IsCache, CallRecords, Idle, Equipped, Inside, OrNone

\* A call with a key and a payload.
LEMMA DoingIs ==
    ASSUME NEW op \in {"pop", "put", "push", "extract", "read"}, NEW k \in Keys,
           NEW p \in OrNone(Payloads)
    PROVE  /\ Doing(op, k, p) \in CallRecords
           /\ p \in Payloads \/ op = "read" => Equipped(Doing(op, k, p))
           /\ Doing(op, k, p).op = op /\ Doing(op, k, p).payload = p
           /\ Doing(op, k, p).key = k
BY DEF Doing, CallRecords, Equipped, OrNone

\* A step that does not touch the cache.
LEMMA Elsewhere ==
    ASSUME CacheInv, NEW t \in Threads, NEW x, Moves(t, x), cache' = cache,
           Inside(x) => Inside(call[t]), x.op # "store"
    PROVE  CacheInv'
<1>1. Inside(x) => \A u \in Threads : Inside(call[u]) => u = t
  BY DEF CacheInv
<1>2. IsCache(cache') /\ \E s, m : Structure(cache', s, m)
  BY CacheTypes DEF CacheInv
<1> QED
  BY <1>1, <1>2, MovesInv

\* create(), its two steps.
LEMMA CreateCache ==
    ASSUME CacheInv, NEW t \in Threads, NEW k \in Keys, Create(t, k)
    PROVE  CacheInv'
<1>t. /\ data \in [Payloads -> OrNone(Keys)] /\ link \in [Payloads -> OrNone(Payloads)]
      /\ freelist \in OrNone(Payloads) /\ unused \subseteq Payloads /\ k \in OrNone(Keys)
      /\ None \notin Payloads
  BY CacheTypes DEF OrNone
<1>1. cache' = cache /\ link' = link /\ freelist' = freelist
  BY DEF Create
<1>2. CASE /\ freelist # None
           /\ Becomes(t, Doing("pop", k, freelist))
           /\ UNCHANGED <<data, unused>>
  <2> DEFINE x == Doing("pop", k, freelist)
  <2>1. x \in CallRecords /\ Equipped(x) /\ x.op = "pop"
    BY <1>2, <1>t, DoingIs DEF OrNone
  <2> HIDE DEF x
  <2>2. Moves(t, x)
    BY <2>1, <1>1, <1>2, <1>t DEF Moves, Becomes, x
  <2> QED
    BY <2>1, <2>2, <1>1, Elsewhere DEF Inside
<1>3. ASSUME NEW p \in unused,
             Becomes(t, Doing("put", k, p)),
             data' = [data EXCEPT ![p] = k],
             unused' = unused \ {p}
      PROVE  CacheInv'
  <2> DEFINE x == Doing("put", k, p)
  <2>1. x \in CallRecords /\ Equipped(x) /\ x.op = "put"
    BY <1>3, <1>t, DoingIs DEF OrNone
  <2> HIDE DEF x
  <2>2. Moves(t, x)
    BY <2>1, <1>1, <1>3, <1>t DEF Moves, Becomes, x
  <2> QED
    BY <2>1, <2>2, <1>1, Elsewhere DEF Inside
<1> QED
  BY <1>2, <1>3 DEF Create

LEMMA PopCache ==
    ASSUME CacheInv, NEW t \in Threads, Pop(t)
    PROVE  CacheInv'
<1> DEFINE k == call[t].key
           p == call[t].payload
           x == Doing("put", k, p)
<1>1. /\ call[t].op = "pop" /\ freelist' = link[p] /\ data' = [data EXCEPT ![p] = k]
      /\ call' = [call EXCEPT ![t] = x] /\ UNCHANGED <<cache, link, unused>>
  BY DEF Pop, FreelistAfterPop, Becomes
<1>2. k \in Keys /\ p \in Payloads
  BY <1>1 DEF CacheInv, Equipped
<1> HIDE DEF k, p
<1>t. /\ data \in [Payloads -> OrNone(Keys)] /\ link \in [Payloads -> OrNone(Payloads)]
      /\ unused \subseteq Payloads /\ k \in OrNone(Keys) /\ p \in OrNone(Payloads)
  BY <1>2, CacheTypes DEF OrNone
<1>3. x \in CallRecords /\ Equipped(x) /\ x.op = "put"
  BY <1>2, <1>t, DoingIs
<1> HIDE DEF x
<1>4. Moves(t, x)
  BY <1>1, <1>2, <1>3, <1>t DEF Moves
<1> QED
  BY <1>1, <1>3, <1>4, Elsewhere DEF Inside

\* The end of destroy().
LEMMA PushCache ==
    ASSUME CacheInv, NEW t \in Threads, Push(t)
    PROVE  CacheInv'
<1> DEFINE c == call[t]
           x == IF c.op = "extract" THEN Doing("read", c.key, c.payload) ELSE Idle
<1>1. /\ c.op \in {"push", "extract"} /\ freelist' = c.payload
      /\ call' = [call EXCEPT ![t] = x] /\ UNCHANGED <<cache, data, link, unused>>
  BY DEF Push, Becomes
<1>2. c.key \in Keys /\ c.payload \in Payloads
  BY <1>1 DEF CacheInv, Equipped
<1>3. c.payload \in OrNone(Payloads)
  BY <1>2 DEF OrNone
<1>4. x \in CallRecords /\ Equipped(x) /\ x.op \in {"read", "idle"}
  BY <1>2, <1>3, DoingIs, CacheTypes DEF Idle
<1> HIDE DEF c, x
<1>5. Moves(t, x)
  BY <1>1, <1>3, <1>4, CacheTypes DEF Moves
<1> QED
  BY <1>1, <1>4, <1>5, Elsewhere DEF Inside

LEMMA GetDataCache ==
    ASSUME CacheInv, NEW t \in Threads, GetData(t)
    PROVE  CacheInv'
<1>1. Moves(t, Idle) /\ cache' = cache
  BY CacheTypes DEF GetData, Becomes, Moves
<1> QED
  BY <1>1, CacheTypes, Elsewhere DEF Idle

\* A cache that is free has nobody inside.
LEMMA NobodyInside ==
    ASSUME "cache" \in Locked, CacheFree
    PROVE  \A u \in Threads : ~Inside(call[u])
BY DEF CacheFree, InCache, Inside

\* put() looks its key up.
LEMMA LookUpCache ==
    ASSUME "cache" \in Locked, CacheInv, NEW t \in Threads, LookUp(t)
    PROVE  CacheInv'
<1> DEFINE x == [call[t] EXCEPT !.op = "store", !.entry = cache.map[call[t].key]]
<1>1. /\ call[t].op = "put" /\ CacheFree /\ call' = [call EXCEPT ![t] = x]
      /\ UNCHANGED <<cache, data, link, freelist, unused>>
  BY DEF LookUp, Becomes
<1>2. call[t].key \in Keys /\ call[t].payload \in Payloads /\ call[t] \in CallRecords
  BY <1>1, CacheTypes DEF CacheInv, Equipped
<1>3. cache.map[call[t].key] \in OrNone(Entries)
  BY <1>2, CacheTypes
<1>4. /\ x \in CallRecords /\ Equipped(x)
      /\ x.op = "store" /\ x.entry = cache.map[x.key]
  BY <1>2, <1>3 DEF CallRecords, Equipped
<1> HIDE DEF x
<1>5. Moves(t, x)
  BY <1>1, <1>4, CacheTypes DEF Moves
<1>6. \A u \in Threads : Inside(call[u]) => u = t
  BY <1>1, NobodyInside
<1>7. IsCache(cache') /\ \E s, m : Structure(cache', s, m)
  BY <1>1, CacheTypes DEF CacheInv
<1> QED
  BY <1>1, <1>4, <1>5, <1>6, <1>7, MovesInv

\* destroy(), but for its last statement.
LEMMA DestroyMoves ==
    ASSUME CacheInv, NEW t \in Threads, NEW p \in OrNone(Payloads), NEW k \in Keys,
           NEW op \in {"push", "extract"}, Destroy(t, p, Doing(op, k, p), Idle),
           UNCHANGED <<freelist, unused>>
    PROVE  Moves(t, IF p = None THEN Idle ELSE Doing(op, k, p))
<1>t. /\ data \in [Payloads -> OrNone(Keys)] /\ link \in [Payloads -> OrNone(Payloads)]
      /\ freelist \in OrNone(Payloads) /\ unused \subseteq Payloads
      /\ Idle \in CallRecords /\ Equipped(Idle) /\ None \in OrNone(Keys)
  BY CacheTypes DEF OrNone
<1>1. CASE p = None
  BY <1>1, <1>t DEF Destroy, Becomes, Moves
<1>2. CASE p # None
  <2>1. /\ data' = [data EXCEPT ![p] = None] /\ link' = [link EXCEPT ![p] = freelist]
        /\ call' = [call EXCEPT ![t] = Doing(op, k, p)] /\ p \in Payloads
    BY <1>2 DEF Destroy, Becomes, OrNone
  <2>2. Doing(op, k, p) \in CallRecords /\ Equipped(Doing(op, k, p))
    BY <2>1, DoingIs
  <2> QED
    BY <1>2, <1>t, <2>1, <2>2 DEF Moves
<1> QED
  BY <1>1, <1>2

\* The rest of put(): the entry e holds k and the payload afterwards, and the one
\* it held is destroyed, if it is another.
Stores(t, e, s, m) ==
    LET k == call[t].key
        pl == call[t].payload
        p == IF cache.payload[e] = pl THEN None ELSE cache.payload[e]
    IN  /\ call[t].op = "store" /\ k \in Keys /\ pl \in Payloads /\ p \in OrNone(Payloads)
        /\ Puts(cache, s, m, k, pl, cache', e)
        /\ Destroy(t, p, Doing("push", k, p), Idle)
        /\ UNCHANGED <<freelist, unused>>

LEMMA PutEntryIs ==
    ASSUME CacheInv, NEW t \in Threads, PutEntry(t), NEW s, NEW m, Structure(cache, s, m)
    PROVE  \E e \in Entries : Stores(t, e, s, m)
<1> DEFINE k == call[t].key
           pl == call[t].payload
<1>1. /\ call[t].op = "store" /\ k \in Keys /\ pl \in Payloads
      /\ call[t].entry = cache.map[k] /\ cache' = PutFound(cache, cache.map[k], k, pl)
  BY DEF PutEntry, CacheInv, Equipped
<1>2. PICK e \in Entries : Puts(cache, s, m, k, pl, cache', e)
  BY <1>1, PutStep
<1>3. cache.payload[e] \in OrNone(Payloads) /\ None \in OrNone(Payloads)
  BY CacheTypes DEF OrNone
<1>4. DestroyedByPut(cache, call[t].entry, pl)
         = IF cache.payload[e] = pl THEN None ELSE cache.payload[e]
  BY <1>1, <1>2 DEF Puts
<1>5. Stores(t, e, s, m)
  BY <1>1, <1>2, <1>3, <1>4 DEF Stores, PutEntry
<1> QED
  BY <1>5

LEMMA PutEntryCache ==
    ASSUME CacheInv, NEW t \in Threads, PutEntry(t)
    PROVE  CacheInv'
<1>1. PICK s, m : Structure(cache, s, m)
  BY DEF CacheInv
<1>2. PICK e \in Entries : Stores(t, e, s, m)
  BY <1>1, PutEntryIs
<1> DEFINE k == call[t].key
           p == IF cache.payload[e] = call[t].payload THEN None ELSE cache.payload[e]
           x == IF p = None THEN Idle ELSE Doing("push", k, p)
<1>3. /\ call[t].op = "store" /\ k \in Keys /\ p \in OrNone(Payloads)
      /\ Destroy(t, p, Doing("push", k, p), Idle) /\ UNCHANGED <<freelist, unused>>
  BY <1>2 DEF Stores
<1>4. \E s1, m1 : Structure(cache', s1, m1)
  BY <1>2 DEF Stores, Puts
<1>5. IsCache(cache')
  BY <1>4 DEF Structure, Order
<1> HIDE DEF p, k
<1>6. x.op # "store"
  BY <1>3, DoingIs DEF Idle
<1> HIDE DEF x
<1>7. Moves(t, x)
  BY <1>3, DestroyMoves DEF x
<1>8. \A u \in Threads : Inside(call[u]) => u = t
  BY <1>3 DEF CacheInv, Inside
<1> QED
  BY <1>4, <1>5, <1>6, <1>7, <1>8, MovesInv

\* get() and extract() of a key that is there.
LEMMA GetEntryCache ==
    ASSUME "cache" \in Locked, CacheInv, NEW t \in Threads, NEW k \in Keys, GetEntry(t, k)
    PROVE  CacheInv'
<1> DEFINE p == cache.payload[cache.map[k]]
           x == Doing("read", k, p)
<1>1. /\ cache.map[k] # None /\ CacheFree /\ cache' = Got(cache, k)
      /\ call' = [call EXCEPT ![t] = x] /\ UNCHANGED <<data, link, freelist, unused>>
  BY DEF GetEntry, Finds, Becomes
<1>2. PICK s, m : Structure(cache, s, m)
  BY DEF CacheInv
<1>3. \E s1, m1 : Structure(cache', s1, m1)
  BY <1>1, <1>2, GotLemma
<1>4. IsCache(cache')
  BY <1>3 DEF Structure, Order
<1>5. p \in OrNone(Payloads)
  BY <1>1, CacheTypes DEF OrNone
<1>6. x \in CallRecords /\ Equipped(x) /\ x.op = "read"
  BY <1>5, DoingIs
<1> HIDE DEF p, x
<1>7. Moves(t, x)
  BY <1>1, <1>6, CacheTypes DEF Moves
<1>8. \A u \in Threads : Inside(call[u]) => u = t
  BY <1>1, NobodyInside
<1> QED
  BY <1>3, <1>4, <1>6, <1>7, <1>8, MovesInv

\* The payload extract() destroys is the one of the entry that it finds.
LEMMA ExtractByIs ==
    ASSUME CacheInv, NEW t \in Threads, NEW k \in Keys, NEW op, ExtractBy(t, k, op, Idle),
           NEW s, NEW m, Structure(cache, s, m)
    PROVE  \E e \in Entries :
             /\ Extracts(cache, s, m, k, cache', e)
             /\ cache.payload[e] \in OrNone(Payloads)
             /\ Destroy(t, cache.payload[e], Doing(op, k, cache.payload[e]), Idle)
<1>1. /\ cache.map[k] # None /\ cache' = Extracted(cache, k)
      /\ Destroy(t, cache.payload[cache.map[k]], Doing(op, k, cache.payload[cache.map[k]]), Idle)
  BY DEF ExtractBy, Finds
<1>2. cache.map[k] # None
  BY <1>1
<1>3. PICK e \in Entries : Extracts(cache, s, m, k, cache', e)
  BY <1>1, <1>2, ExtractStep
<1>4. cache.map[k] = e
  BY <1>3 DEF Extracts
<1>5. cache.payload[e] \in OrNone(Payloads)
  BY CacheTypes
<1>6. Destroy(t, cache.payload[e], Doing(op, k, cache.payload[e]), Idle)
  BY <1>1, <1>4
<1> QED
  BY <1>3, <1>5, <1>6

LEMMA ExtractCache ==
    ASSUME "cache" \in Locked, CacheInv, NEW t \in Threads, NEW k \in Keys,
           NEW op \in {"push", "extract"}, ExtractBy(t, k, op, Idle)
    PROVE  CacheInv'
<1>1. PICK s, m : Structure(cache, s, m)
  BY DEF CacheInv
<1>2. PICK e \in Entries :
             /\ Extracts(cache, s, m, k, cache', e)
             /\ cache.payload[e] \in OrNone(Payloads)
             /\ Destroy(t, cache.payload[e], Doing(op, k, cache.payload[e]), Idle)
  BY <1>1, ExtractByIs
<1> DEFINE p == cache.payload[e]
           x == IF p = None THEN Idle ELSE Doing(op, k, p)
<1>3. CacheFree /\ UNCHANGED <<freelist, unused>>
  BY DEF ExtractBy, Finds
<1>4. \E s1, m1 : Structure(cache', s1, m1)
  BY <1>2 DEF Extracts
<1>5. IsCache(cache')
  BY <1>4 DEF Structure, Order
<1>p. p \in OrNone(Payloads) /\ Destroy(t, p, Doing(op, k, p), Idle)
  BY <1>2
<1> HIDE DEF p
<1>6. x.op # "store"
  BY <1>p, DoingIs DEF Idle
<1> HIDE DEF x
<1>7. Moves(t, x)
  BY <1>p, <1>3, DestroyMoves DEF x
<1>8. \A u \in Threads : Inside(call[u]) => u = t
  BY <1>3, NobodyInside
<1> QED
  BY <1>4, <1>5, <1>6, <1>7, <1>8, MovesInv

\* A step of any thread keeps the invariant.
LEMMA NextCache ==
    ASSUME "cache" \in Locked, CacheInv, [Next]_vars
    PROVE  CacheInv'
<1>1. ASSUME NEW t \in Threads, Pop(t) \/ Push(t) \/ LookUp(t) \/ PutEntry(t) \/ GetData(t)
      PROVE  CacheInv'
  BY <1>1, PopCache, PushCache, LookUpCache, PutEntryCache, GetDataCache
<1>2. ASSUME NEW t \in Threads, NEW k \in Keys, Create(t, k)
      PROVE  CacheInv'
  BY <1>2, CreateCache
<1>3. ASSUME NEW t \in Threads, NEW k \in Keys, GetEntry(t, k)
      PROVE  CacheInv'
  BY <1>3, GetEntryCache
<1>4. ASSUME NEW t \in Threads, NEW k \in Keys, ExtractEntry(t, k)
      PROVE  CacheInv'
  BY <1>4, ExtractCache DEF ExtractEntry
<1>5. ASSUME NEW t \in Threads, NEW k \in Keys, Invalidate(t, k)
      PROVE  CacheInv'
  BY <1>5, ExtractCache DEF Invalidate
<1>6. CASE UNCHANGED vars
  BY <1>6 DEF vars, CacheInv, TypeOK, Equipped, Inside
<1> QED
  BY <1>1, <1>2, <1>3, <1>4, <1>5, <1>6 DEF Next

\* The inductive invariant of a serialized cache holds.
THEOREM CacheCorrect ==
    ASSUME "cache" \in Locked
    PROVE  Spec => []CacheInv
<1>1. Init => CacheInv
  BY InitCache
<1>2. CacheInv /\ [Next]_vars => CacheInv'
  BY NextCache
<1> QED
  BY <1>1, <1>2, PTL DEF Spec

\* The invariant gives the structure of list and map.
LEMMA CacheStructure == CacheInv => StructureSound
<1> SUFFICES ASSUME CacheInv PROVE StructureSound
  OBVIOUS
<1>1. PICK s, m : Structure(cache, s, m)
  BY DEF CacheInv
<1> QED
  BY <1>1, StructureIsSound DEF CacheInv

\* Where the cache is serialized, the list, the map and the entries agree after
\* every call (QueuedCache.d:99-274), for every capacity, every number of keys,
\* threads and payloads, whatever becomes of the payloads.
THEOREM StructureCorrect ==
    ASSUME "cache" \in Locked
    PROVE  Spec => []StructureSound
BY CacheCorrect, CacheStructure, PTL

-----------------------------------------------------------------------------
(* Payloads, once the free list is serialized too: where they are, and what *)
(* they hold.  pay and key are those of the entries, c the calls of the     *)
(* threads, free the payloads out of use and new those that do not exist    *)
(* yet.                                                                     *)

Holds(c, t) == c[t].op \in {"put", "store"}
Pushes(c, t) == c[t].op \in {"push", "extract"}

Places(pay, c, free, new) ==
    /\ \A e, f \in Entries : pay[e] # None /\ pay[e] = pay[f] => e = f
    /\ \A t, u \in Threads :
        Holds(c, t) /\ Holds(c, u) /\ c[t].payload = c[u].payload => t = u
    /\ \A e \in Entries, t \in Threads : Holds(c, t) => pay[e] # c[t].payload
    /\ \A e \in Entries : pay[e] \notin free /\ pay[e] \notin new
    /\ \A t \in Threads :
        Holds(c, t) => c[t].payload \notin free /\ c[t].payload \notin new
    /\ free \cap new = {}

Contents(key, pay, c, free, dat) ==
    /\ \A p \in free : dat[p] = None
    /\ \A e \in Entries : pay[e] # None => dat[pay[e]] = key[e]
    /\ \A t \in Threads : Holds(c, t) =>
        /\ c[t].key \in Keys /\ c[t].payload \in Payloads
        /\ dat[c[t].payload] = c[t].key

Typed(q, dat, free, new) ==
    /\ IsCache(q) /\ dat \in [Payloads -> OrNone(Keys)]
    /\ free \subseteq Payloads /\ new \subseteq Payloads

\* F is the free list: its head is in it, the links stay inside it, and no two
\* lead to the same payload, nor one to the head.
Listed(F, head, lnk) ==
    /\ F \subseteq Payloads /\ head \in OrNone(F)
    /\ \A p \in F : lnk[p] \in OrNone(F) /\ (lnk[p] # None => lnk[p] # head)
    /\ \A p, q \in F : lnk[p] # None /\ lnk[p] = lnk[q] => p = q

\* One thread is between the reading and the change of its head: it takes the head,
\* or adds a payload that leads to it.
Linking(F, head, lnk, c) ==
    /\ \A t, u \in Threads : c[t].op \in {"pop", "push", "extract"}
                             /\ c[u].op \in {"pop", "push", "extract"} => t = u
    /\ \A t \in Threads : c[t].op = "pop" => c[t].payload = head /\ head \in F
    /\ \A t \in Threads : Pushes(c, t) =>
        c[t].payload \in Payloads /\ c[t].payload \notin F /\ lnk[c[t].payload] = head

OutOfUse(F, c) == F \cup {c[t].payload : t \in {u \in Threads : Pushes(c, u)}}

Shared(F) ==
    /\ Listed(F, freelist, link) /\ Linking(F, freelist, link, call)
    /\ Places(cache.payload, call, OutOfUse(F, call), unused)
    /\ Contents(cache.key, cache.payload, call, OutOfUse(F, call), data)

\* The inductive invariant.
Inv == CacheInv /\ \E F : Shared(F)

\* An entry exchanges its key and its payload for k and pl, and the payload it
\* had is destroyed.
Exchanges(q, r, e, k, pl, dat, dat1, free, free1) ==
    /\ r.key = [q.key EXCEPT ![e] = k] /\ r.payload = [q.payload EXCEPT ![e] = pl]
    /\ dat1 = Store(dat, q.payload[e], None)
    /\ free1 = free \cup ({q.payload[e]} \ {None})

\* No call becomes a put; one that was and is has its key and its payload.
NoNewPut(c, c1) ==
    \A u \in Threads : Holds(c1, u) =>
        Holds(c, u) /\ c1[u].payload = c[u].payload /\ c1[u].key = c[u].key

\* pl is the payload that t put, or none.
HandsOver(c, c1, t, k, pl) ==
    pl = None \/ (Holds(c, t) /\ c[t].payload = pl /\ c[t].key = k /\ ~Holds(c1, t))

\* The entry e exchanges its payload for pl, the payload it had is destroyed,
\* and t is not about to put any more.
LEMMA Exchange ==
    ASSUME NEW q, NEW r, NEW dat, NEW free, NEW new, NEW c,
           Typed(q, dat, free, new), IsCache(r),
           Places(q.payload, c, free, new), Contents(q.key, q.payload, c, free, dat),
           NEW e \in Entries, NEW k \in OrNone(Keys), NEW pl \in OrNone(Payloads),
           NEW dat1, NEW free1, Exchanges(q, r, e, k, pl, dat, dat1, free, free1),
           NEW c1, NoNewPut(c, c1), NEW t \in Threads, HandsOver(c, c1, t, k, pl)
    PROVE  /\ Typed(r, dat1, free1, new)
           /\ Places(r.payload, c1, free1, new)
           /\ Contents(r.key, r.payload, c1, free1, dat1)
<1>0. PICK old : old = q.payload[e]
  OBVIOUS
<1>a. /\ r.key = [q.key EXCEPT ![e] = k] /\ r.payload = [q.payload EXCEPT ![e] = pl]
      /\ dat1 = Store(dat, old, None) /\ free1 = free \cup ({old} \ {None})
  BY <1>0 DEF Exchanges
<1>b. \A u \in Threads : Holds(c1, u) =>
        Holds(c, u) /\ c1[u].payload = c[u].payload /\ c1[u].key = c[u].key
  BY DEF NoNewPut
<1>c. pl = None \/ (Holds(c, t) /\ c[t].payload = pl /\ c[t].key = k /\ ~Holds(c1, t))
  BY DEF HandsOver
<1>1. /\ q.payload \in [Entries -> OrNone(Payloads)] /\ q.key \in [Entries -> OrNone(Keys)]
      /\ dat \in [Payloads -> OrNone(Keys)] /\ free \subseteq Payloads
            /\ new \subseteq Payloads
      /\ None \notin Payloads /\ None \notin Keys /\ old \in OrNone(Payloads)
      /\ None \in OrNone(Keys)
  BY <1>0, NoneIsNull DEF Typed, IsCache, OrNone
<1>2. \A f \in Entries : /\ r.payload[f] = IF f = e THEN pl ELSE q.payload[f]
                         /\ r.key[f] = IF f = e THEN k ELSE q.key[f]
  BY <1>a, <1>1
<1>3. /\ dat1 \in [Payloads -> OrNone(Keys)]
      /\ \A p \in Payloads : p # old => dat1[p] = dat[p]
      /\ old # None => dat1[old] = None
  <2>1. CASE old = None
    BY <1>a, <2>1, <1>1 DEF Store
  <2>2. CASE old # None
    BY <1>a, <2>2, <1>1 DEF Store, OrNone
  <2> QED
    BY <2>1, <2>2
<1>4. free1 \subseteq Payloads /\ \A p : p \in free1 <=> p \in free \/ (p = old /\ p # None)
  BY <1>a, <1>1 DEF OrNone
<1>5. /\ \A f, g \in Entries : q.payload[f] # None /\ q.payload[f] = q.payload[g] => f = g
      /\ \A u, v \in Threads :
            Holds(c, u) /\ Holds(c, v) /\ c[u].payload = c[v].payload => u = v
      /\ \A f \in Entries, u \in Threads : Holds(c, u) => q.payload[f] # c[u].payload
      /\ \A f \in Entries : q.payload[f] \notin free /\ q.payload[f] \notin new
      /\ \A u \in Threads :
            Holds(c, u) => c[u].payload \notin free /\ c[u].payload \notin new
      /\ free \cap new = {}
  BY DEF Places
<1>6. /\ \A p \in free : dat[p] = None
      /\ \A f \in Entries : q.payload[f] # None => dat[q.payload[f]] = q.key[f]
      /\ \A u \in Threads : Holds(c, u) =>
            /\ c[u].key \in Keys /\ c[u].payload \in Payloads
            /\ dat[c[u].payload] = c[u].key
  BY DEF Contents
<1>7. Typed(r, dat1, free1, new)
  BY <1>b, <1>1, <1>3, <1>4 DEF Typed
<1>8. Places(r.payload, c1, free1, new)
  <2>1. ASSUME NEW f \in Entries, NEW g \in Entries, r.payload[f] # None,
               r.payload[f] = r.payload[g]
        PROVE  f = g
    BY <1>c, <2>1, <1>2, <1>5
  <2>2. ASSUME NEW u \in Threads, NEW v \in Threads, Holds(c1, u), Holds(c1, v),
               c1[u].payload = c1[v].payload
        PROVE  u = v
    BY <1>b, <2>2, <1>5
  <2>3. ASSUME NEW f \in Entries, NEW u \in Threads, Holds(c1, u)
        PROVE  r.payload[f] # c1[u].payload
    <3>1. Holds(c, u) /\ c1[u].payload = c[u].payload /\ c1[u].key = c[u].key /\ c[u].payload \in Payloads
      BY <1>b, <2>3, <1>6
    <3> QED
      BY <1>0, <1>c, <3>1, <2>3, <1>1, <1>2, <1>5
  <2>4. ASSUME NEW f \in Entries
        PROVE  r.payload[f] \notin free1 /\ r.payload[f] \notin new
    <3>1. CASE f = e
      BY <1>0, <1>c, <3>1, <1>1, <1>2, <1>4, <1>5
    <3>2. CASE f # e
      BY <1>0, <1>c, <3>2, <1>1, <1>2, <1>4, <1>5
    <3> QED
      BY <3>1, <3>2
  <2>5. ASSUME NEW u \in Threads, Holds(c1, u)
        PROVE  c1[u].payload \notin free1 /\ c1[u].payload \notin new
    <3>1. Holds(c, u) /\ c1[u].payload = c[u].payload /\ c1[u].key = c[u].key
      BY <1>b, <2>5
    <3> QED
      BY <1>0, <3>1, <1>4, <1>5
  <2>6. free1 \cap new = {}
    BY <1>0, <1>4, <1>5
  <2> QED
    BY <2>1, <2>2, <2>3, <2>4, <2>5, <2>6 DEF Places
<1>9. Contents(r.key, r.payload, c1, free1, dat1)
  <2>1. ASSUME NEW p \in free1
        PROVE  dat1[p] = None
    <3>1. CASE p = old /\ p # None
      BY <1>0, <3>1, <1>3
    <3>2. CASE p \in free
      <4>1. p \in Payloads /\ p # old
        BY <1>0, <3>2, <1>1, <1>5
      <4> QED
        BY <4>1, <3>2, <1>3, <1>6
    <3> QED
      BY <3>1, <3>2, <1>4
  <2>2. ASSUME NEW f \in Entries, r.payload[f] # None
        PROVE  dat1[r.payload[f]] = r.key[f]
    <3>1. CASE f = e
      <4>1. pl # None /\ pl \in Payloads /\ r.payload[f] = pl /\ r.key[f] = k
        BY <3>1, <2>2, <1>2 DEF OrNone
      <4>2. pl # old /\ dat[pl] = k
        BY <1>0, <1>c, <4>1, <1>5, <1>6
      <4> QED
        BY <4>1, <4>2, <1>3
    <3>2. CASE f # e
      <4>1. r.payload[f] = q.payload[f] /\ r.key[f] = q.key[f] /\ q.payload[f] \in Payloads
        BY <3>2, <2>2, <1>1, <1>2 DEF OrNone
      <4>2. q.payload[f] # old
        BY <1>0, <4>1, <3>2, <1>1, <1>5
      <4> QED
        BY <4>1, <4>2, <1>1, <1>3, <1>6
    <3> QED
      BY <3>1, <3>2
  <2>3. ASSUME NEW u \in Threads, Holds(c1, u)
        PROVE  /\ c1[u].key \in Keys /\ c1[u].payload \in Payloads
               /\ dat1[c1[u].payload] = c1[u].key
    <3>1. Holds(c, u) /\ c1[u].payload = c[u].payload /\ c1[u].key = c[u].key
      BY <1>b, <2>3
    <3>2. c[u].payload # old
      BY <1>0, <3>1, <1>5
    <3> QED
      BY <3>1, <3>2, <1>3, <1>6
  <2> QED
    BY <2>1, <2>2, <2>3 DEF Contents
<1> QED
  BY <1>7, <1>8, <1>9

-----------------------------------------------------------------------------
(* The steps.                                                              *)

\* The constructor establishes the invariant.
LEMMA InitInv == Init => Inv
<1> SUFFICES ASSUME Init PROVE Inv
  OBVIOUS
<1>1. \A t \in Threads : ~Holds(call, t) /\ ~Pushes(call, t) /\ call[t].op = "idle"
  BY DEF Init, Idle, Holds, Pushes
<1>2. \A e \in Entries : cache.payload[e] = None
  BY DEF Init, EmptyCache
<1>3. freelist = None /\ unused = Payloads /\ None \notin Payloads
  BY NoneIsNull DEF Init
<1>4. OutOfUse({}, call) = {}
  BY <1>1 DEF OutOfUse
<1>5. Listed({}, freelist, link) /\ Linking({}, freelist, link, call)
  BY <1>1, <1>3 DEF Listed, Linking, OrNone
<1>6. Places(cache.payload, call, {}, unused)
  BY <1>1, <1>2, <1>3 DEF Places
<1>7. Contents(cache.key, cache.payload, call, {}, data)
  BY <1>1, <1>2 DEF Contents
<1>8. Shared({})
  BY <1>4, <1>5, <1>6, <1>7 DEF Shared
<1> QED
  BY <1>8, InitCache DEF Inv

\* The call of t becomes x, the others stay.
LEMMA CallIs ==
    ASSUME CacheInv, NEW t \in Threads, NEW x, call' = [call EXCEPT ![t] = x]
    PROVE  \A u \in Threads : call'[u] = IF u = t THEN x ELSE call[u]
BY CacheTypes

\* A list that is free has nobody linking.
LEMMA NobodyLinks ==
    ASSUME "freelist" \in Locked, ListFree
    PROVE  \A u \in Threads : call[u].op \notin {"pop", "push", "extract"}
BY DEF ListFree, InList

\* No payload moves and no content changes; t may have begun to take the head.
LEMMA ReadInv ==
    ASSUME CacheInv, NEW F, Shared(F), NEW t \in Threads, NEW x,
           call' = [call EXCEPT ![t] = x], NoNewPut(call, call'),
           UNCHANGED <<data, link, freelist, unused>>,
           cache'.key = cache.key, cache'.payload = cache.payload,
           ~Pushes(call, t), x.op \notin {"push", "extract"},
           x.op = "pop" =>
             /\ \A u \in Threads : call[u].op \notin {"pop", "push", "extract"}
             /\ x.payload = freelist /\ freelist # None
    PROVE  Shared(F)'
<1>1. \A u \in Threads : call'[u] = IF u = t THEN x ELSE call[u]
  BY CallIs
<1>2. \A u \in Threads : Pushes(call', u) <=> Pushes(call, u)
  BY <1>1 DEF Pushes
<1>3. \A u \in Threads : Pushes(call, u) => call'[u] = call[u]
  BY <1>1
<1>4. OutOfUse(F, call') = OutOfUse(F, call)
  BY <1>2, <1>3 DEF OutOfUse
<1>5. Listed(F, freelist, link) /\ Linking(F, freelist, link, call)
  BY DEF Shared
<1>6. Linking(F, freelist, link, call')
  <2>1. ASSUME NEW u \in Threads, NEW v \in Threads,
               call'[u].op \in {"pop", "push", "extract"},
               call'[v].op \in {"pop", "push", "extract"}
        PROVE  u = v
    BY <2>1, <1>1, <1>5 DEF Linking
  <2>2. ASSUME NEW u \in Threads, call'[u].op = "pop"
        PROVE  call'[u].payload = freelist /\ freelist \in F
    BY <2>2, <1>1, <1>5 DEF Linking, Listed, OrNone
  <2>3. ASSUME NEW u \in Threads, Pushes(call', u)
        PROVE  /\ call'[u].payload \in Payloads /\ call'[u].payload \notin F
               /\ link[call'[u].payload] = freelist
    BY <2>3, <1>2, <1>3, <1>5 DEF Linking
  <2> QED
    BY <2>1, <2>2, <2>3 DEF Linking
<1>7. Places(cache.payload, call', OutOfUse(F, call), unused)
  <2>1. Places(cache.payload, call, OutOfUse(F, call), unused)
    BY DEF Shared
  <2>2. ASSUME NEW u \in Threads, NEW v \in Threads, Holds(call', u), Holds(call', v),
               call'[u].payload = call'[v].payload
        PROVE  u = v
    BY <2>1, <2>2 DEF Places, NoNewPut
  <2>3. ASSUME NEW e \in Entries, NEW u \in Threads, Holds(call', u)
        PROVE  cache.payload[e] # call'[u].payload
    BY <2>1, <2>3 DEF Places, NoNewPut
  <2>4. ASSUME NEW u \in Threads, Holds(call', u)
        PROVE  call'[u].payload \notin OutOfUse(F, call) /\ call'[u].payload \notin unused
    BY <2>1, <2>4 DEF Places, NoNewPut
  <2> QED
    BY <2>1, <2>2, <2>3, <2>4 DEF Places
<1>8. Contents(cache.key, cache.payload, call', OutOfUse(F, call), data)
  <2>1. Contents(cache.key, cache.payload, call, OutOfUse(F, call), data)
    BY DEF Shared
  <2> QED
    BY <2>1 DEF Contents, NoNewPut
<1> QED
  BY <1>4, <1>5, <1>6, <1>7, <1>8 DEF Shared

\* A payload that is out of use or new goes to t alone, with the content of its key.
LEMMA HandOut ==
    ASSUME CacheInv, NEW free, NEW free1, free \subseteq Payloads,
           Places(cache.payload, call, free, unused),
           Contents(cache.key, cache.payload, call, free, data),
           NEW t \in Threads, NEW k \in Keys, NEW p \in Payloads,
           p \in free \/ p \in unused, ~Holds(call, t),
           call' = [call EXCEPT ![t] = Doing("put", k, p)],
           data' = [data EXCEPT ![p] = k], free1 = free \ {p}, unused' = unused \ {p},
           cache' = cache
    PROVE  /\ Places(cache'.payload, call', free1, unused')
           /\ Contents(cache'.key, cache'.payload, call', free1, data')
<1>1. /\ cache.payload \in [Entries -> OrNone(Payloads)]
      /\ data \in [Payloads -> OrNone(Keys)] /\ None \notin Payloads
  BY CacheTypes
<1>4. /\ Holds(call', t) /\ call'[t].key = k /\ call'[t].payload = p
      /\ \A u \in Threads : u # t => call'[u] = call[u] /\ (Holds(call', u) <=> Holds(call, u))
  <2>1. PICK x : x = Doing("put", k, p)
    OBVIOUS
  <2>4. call' = [call EXCEPT ![t] = x]
    BY <2>1
  <2>2. \A u \in Threads : call'[u] = IF u = t THEN x ELSE call[u]
    BY <2>4, CallIs
  <2>3. x.op = "put" /\ x.key = k /\ x.payload = p
    BY <2>1 DEF Doing
  <2> QED
    BY <2>2, <2>3 DEF Holds
<1>5. /\ data' \in [Payloads -> OrNone(Keys)] /\ data'[p] = k
      /\ \A o \in Payloads : o # p => data'[o] = data[o]
  BY <1>1 DEF OrNone
<1>7. /\ \A e, f \in Entries :
            cache.payload[e] # None /\ cache.payload[e] = cache.payload[f] => e = f
      /\ \A u, v \in Threads :
            Holds(call, u) /\ Holds(call, v) /\ call[u].payload = call[v].payload => u = v
      /\ \A e \in Entries, u \in Threads : Holds(call, u) =>
              cache.payload[e] # call[u].payload
      /\ \A e \in Entries : cache.payload[e] \notin free /\ cache.payload[e] \notin unused
      /\ \A u \in Threads :
            Holds(call, u) => call[u].payload \notin free /\ call[u].payload \notin unused
      /\ free \cap unused = {}
  BY DEF Places
<1>8. /\ \A o \in free : data[o] = None
      /\ \A e \in Entries : cache.payload[e] # None => data[cache.payload[e]] = cache.key[e]
      /\ \A u \in Threads : Holds(call, u) =>
            /\ call[u].key \in Keys /\ call[u].payload \in Payloads
            /\ data[call[u].payload] = call[u].key
  BY DEF Contents
<1>9. \A u \in Threads : Holds(call, u) => call[u].payload # p
  BY <1>7
<1>10. \A e \in Entries : cache.payload[e] # p
  BY <1>7
<1>11. Places(cache.payload, call', free1, unused')
  <2>1. ASSUME NEW u \in Threads, NEW v \in Threads, Holds(call', u), Holds(call', v),
               call'[u].payload = call'[v].payload
        PROVE  u = v
    BY <2>1, <1>4, <1>7, <1>9
  <2>2. ASSUME NEW e \in Entries, NEW u \in Threads, Holds(call', u)
        PROVE  cache.payload[e] # call'[u].payload
    <3>1. CASE u = t
      BY <3>1, <1>4, <1>10
    <3>2. CASE u # t
      <4>1. Holds(call, u) /\ call'[u] = call[u]
        BY <3>2, <2>2, <1>4
      <4> QED
        BY <4>1, <1>7
    <3> QED
      BY <3>1, <3>2
  <2>3. ASSUME NEW u \in Threads, Holds(call', u)
        PROVE  call'[u].payload \notin free1 /\ call'[u].payload \notin unused'
    <3>1. CASE u = t
      BY <3>1, <1>4
    <3>2. CASE u # t
      <4>1. Holds(call, u) /\ call'[u] = call[u]
        BY <3>2, <2>3, <1>4
      <4> QED
        BY <4>1, <1>7
    <3> QED
      BY <3>1, <3>2
  <2>4. \A e \in Entries : cache.payload[e] \notin free1 /\ cache.payload[e] \notin unused'
    BY <1>7
  <2>5. free1 \cap unused' = {}
    BY <1>7
  <2> QED
    BY <2>1, <2>2, <2>3, <2>4, <2>5, <1>7 DEF Places
<1>12. Contents(cache.key, cache.payload, call', free1, data')
  <2>1. \A o \in free1 : data'[o] = None
    BY <1>5, <1>8
  <2>2. ASSUME NEW e \in Entries, cache.payload[e] # None
        PROVE  data'[cache.payload[e]] = cache.key[e]
    <3>1. cache.payload[e] \in Payloads
      BY <2>2, <1>1 DEF OrNone
    <3> QED
      BY <3>1, <2>2, <1>5, <1>8, <1>10
  <2>3. ASSUME NEW u \in Threads, Holds(call', u)
        PROVE  /\ call'[u].key \in Keys /\ call'[u].payload \in Payloads
               /\ data'[call'[u].payload] = call'[u].key
    <3>1. CASE u = t
      BY <3>1, <1>4, <1>5
    <3>2. CASE u # t
      BY <3>2, <2>3, <1>4, <1>5, <1>8, <1>9
    <3> QED
      BY <3>1, <3>2
  <2> QED
    BY <2>1, <2>2, <2>3 DEF Contents
<1> QED
  BY <1>11, <1>12

\* The payloads out of use are payloads.
LEMMA OutOfUseType ==
    ASSUME NEW F, NEW head, NEW lnk, NEW c, Listed(F, head, lnk), Linking(F, head, lnk, c)
    PROVE  OutOfUse(F, c) \subseteq Payloads
BY DEF OutOfUse, Listed, Linking

\* create() reads the head of the free list, or makes a payload.
LEMMA CreateInv ==
    ASSUME "freelist" \in Locked, CacheInv, NEW F, Shared(F),
           NEW t \in Threads, NEW k \in Keys, Create(t, k)
    PROVE  Shared(F)'
<1>1. /\ call[t].op = "idle" /\ cache' = cache /\ link' = link /\ freelist' = freelist
      /\ \A u \in Threads : call[u].op \notin {"pop", "push", "extract"}
  BY NobodyLinks DEF Create, Idle
<1>2. CASE /\ freelist # None
           /\ Becomes(t, Doing("pop", k, freelist))
           /\ UNCHANGED <<data, unused>>
  <2> DEFINE x == Doing("pop", k, freelist)
  <2>1. x.op = "pop" /\ x.payload = freelist /\ call' = [call EXCEPT ![t] = x]
    BY <1>2 DEF Doing, Becomes
  <2> HIDE DEF x
  <2>2. NoNewPut(call, call')
    BY <2>1, CallIs DEF NoNewPut, Holds
  <2>3. ~Pushes(call, t)
    BY <1>1 DEF Pushes
  <2> QED
    BY <1>1, <1>2, <2>1, <2>2, <2>3, ReadInv
<1>3. ASSUME NEW p \in unused,
             Becomes(t, Doing("put", k, p)),
             data' = [data EXCEPT ![p] = k],
             unused' = unused \ {p}
      PROVE  Shared(F)'
  <2>1. p \in Payloads /\ ~Holds(call, t) /\ call' = [call EXCEPT ![t] = Doing("put", k, p)]
    BY <1>1, <1>3, CacheTypes DEF Holds, Becomes
  <2>2. Listed(F, freelist, link) /\ Linking(F, freelist, link, call)
    BY DEF Shared
  <2>3. OutOfUse(F, call) \subseteq Payloads
    BY <2>2, OutOfUseType
  <2>4. /\ Places(cache.payload, call, OutOfUse(F, call), unused)
        /\ Contents(cache.key, cache.payload, call, OutOfUse(F, call), data)
    BY DEF Shared
  <2>5. OutOfUse(F, call) = OutOfUse(F, call) \ {p}
    BY <2>4, <1>3 DEF Places
  <2>6. /\ Places(cache'.payload, call', OutOfUse(F, call), unused')
        /\ Contents(cache'.key, cache'.payload, call', OutOfUse(F, call), data')
    BY <1>1, <1>3, <2>1, <2>3, <2>4, <2>5, HandOut
  <2>7. \A u \in Threads : call'[u].op \notin {"pop", "push", "extract"}
    BY <1>1, <2>1, CallIs DEF Doing
  <2>8. OutOfUse(F, call') = OutOfUse(F, call)
    BY <1>1, <2>7 DEF OutOfUse, Pushes
  <2>9. Linking(F, freelist, link, call')
    BY <2>7 DEF Linking, Pushes
  <2> QED
    BY <1>1, <2>2, <2>6, <2>8, <2>9 DEF Shared
<1> QED
  BY <1>2, <1>3 DEF Create

\* create() takes the head, which its link replaces.
LEMMA PopInv ==
    ASSUME CacheInv, NEW F, Shared(F), NEW t \in Threads, Pop(t),
           NEW G, G = F \ {freelist}
    PROVE  Shared(G)'
<1> DEFINE k == call[t].key
           p == call[t].payload
<1>1. /\ call[t].op = "pop" /\ freelist' = link[p] /\ data' = [data EXCEPT ![p] = k]
      /\ call' = [call EXCEPT ![t] = Doing("put", k, p)] /\ UNCHANGED <<cache, link, unused>>
  BY DEF Pop, FreelistAfterPop, Becomes
<1>2. Listed(F, freelist, link) /\ Linking(F, freelist, link, call)
  BY DEF Shared
<1>3. /\ k \in Keys /\ p \in Payloads /\ p = freelist /\ p \in F /\ G = F \ {p} /\ None \notin Payloads
      /\ \A u \in Threads : call[u].op \in {"pop", "push", "extract"} => u = t
  BY <1>1, <1>2, CacheTypes DEF CacheInv, Equipped, Linking
<1> HIDE DEF k, p
<1>4. \A u \in Threads : ~Pushes(call, u)
  BY <1>1, <1>3 DEF Pushes
<1>5. /\ call'[t].op = "put"
      /\ \A u \in Threads : u # t => call'[u] = call[u]
      /\ \A u \in Threads : call'[u].op \notin {"pop", "push", "extract"}
  <2>1. PICK x : x = Doing("put", k, p)
    OBVIOUS
  <2>4. call' = [call EXCEPT ![t] = x]
    BY <1>1, <2>1
  <2>2. \A u \in Threads : call'[u] = IF u = t THEN x ELSE call[u]
    BY <2>4, CallIs
  <2>3. x.op = "put"
    BY <2>1 DEF Doing
  <2> QED
    BY <1>3, <2>2, <2>3
<1>6. OutOfUse(F, call) = F /\ OutOfUse(G, call') = G
  BY <1>4, <1>5 DEF OutOfUse, Pushes
<1>7. /\ F \subseteq Payloads
      /\ \A o \in F : link[o] \in OrNone(F) /\ (link[o] # None => link[o] # p)
      /\ \A o, q \in F : link[o] # None /\ link[o] = link[q] => o = q
  BY <1>2, <1>3 DEF Listed
<1>8. Listed(G, link[p], link)
  <2>1. \A o \in F : link[o] \in OrNone(G)
    BY <1>3, <1>7 DEF OrNone
  <2>2. \A o \in G : link[o] # None => link[o] # link[p]
    BY <1>3, <1>7
  <2> QED
    BY <2>1, <2>2, <1>3, <1>7 DEF Listed
<1>9. Linking(G, link[p], link, call')
  BY <1>5 DEF Linking, Pushes
<1>10. Places(cache.payload, call, F, unused) /\ Contents(cache.key, cache.payload, call, F, data)
  BY <1>6 DEF Shared
<1>11. unused = unused \ {p}
  BY <1>3, <1>10 DEF Places
<1>12. ~Holds(call, t)
  BY <1>1 DEF Holds
<1>13. /\ Places(cache'.payload, call', G, unused')
       /\ Contents(cache'.key, cache'.payload, call', G, data')
  BY <1>1, <1>3, <1>7, <1>10, <1>11, <1>12, HandOut
<1> QED
  BY <1>1, <1>6, <1>8, <1>9, <1>13 DEF Shared

\* The end of destroy(): the payload becomes the head.
LEMMA PushInv ==
    ASSUME CacheInv, NEW F, Shared(F), NEW t \in Threads, Push(t),
           NEW G, G = F \cup {call[t].payload}
    PROVE  Shared(G)'
<1> DEFINE p == call[t].payload
           x == IF call[t].op = "extract" THEN Doing("read", call[t].key, p) ELSE Idle
<1>1. /\ Pushes(call, t) /\ freelist' = p /\ call' = [call EXCEPT ![t] = x]
      /\ x.op \in {"read", "idle"} /\ UNCHANGED <<cache, data, link, unused>>
  BY DEF Push, Becomes, Doing, Idle, Pushes
<1> HIDE DEF x
<1>2. Listed(F, freelist, link) /\ Linking(F, freelist, link, call)
  BY DEF Shared
<1>3. /\ p \in Payloads /\ p \notin F /\ link[p] = freelist
      /\ \A u \in Threads : call[u].op \in {"pop", "push", "extract"} => u = t
  BY <1>1, <1>2 DEF Linking, Pushes
<1>4. /\ \A u \in Threads : call'[u] = IF u = t THEN x ELSE call[u]
      /\ \A u \in Threads : call'[u].op \notin {"pop", "push", "extract"}
  <2>1. \A u \in Threads : call'[u] = IF u = t THEN x ELSE call[u]
    BY <1>1, CallIs
  <2>2. x.op \notin {"pop", "push", "extract"}
    BY <1>1
  <2> QED
    BY <1>3, <2>1, <2>2
<1>5. OutOfUse(F, call) = F \cup {p} /\ OutOfUse(G, call') = G /\ G = F \cup {p}
  BY <1>1, <1>3, <1>4 DEF OutOfUse, Pushes
<1> HIDE DEF p
<1>6. /\ F \subseteq Payloads /\ freelist \in OrNone(F)
      /\ \A o \in F : link[o] \in OrNone(F) /\ (link[o] # None => link[o] # freelist)
      /\ \A o, q \in F : link[o] # None /\ link[o] = link[q] => o = q
      /\ None \notin Payloads
  BY <1>2, CacheTypes DEF Listed
<1>7. Listed(G, p, link)
  <2>1. G \subseteq Payloads /\ p \in OrNone(G)
    BY <1>3, <1>5, <1>6 DEF OrNone
  <2>2. ASSUME NEW o \in G
        PROVE  link[o] \in OrNone(G) /\ (link[o] # None => link[o] # p)
    BY <1>3, <1>5, <1>6 DEF OrNone
  <2>3. ASSUME NEW o \in G, NEW q \in G, link[o] # None, link[o] = link[q]
        PROVE  o = q
    BY <2>3, <1>3, <1>5, <1>6
  <2> QED
    BY <2>1, <2>2, <2>3 DEF Listed
<1>8. Linking(G, p, link, call')
  BY <1>4 DEF Linking, Pushes
<1>9. Places(cache.payload, call, G, unused) /\ Contents(cache.key, cache.payload, call, G, data)
  BY <1>5 DEF Shared
<1>10. \A u \in Threads : Holds(call', u) => call'[u] = call[u]
  BY <1>1, <1>4 DEF Holds
<1>11. \A u \in Threads : Holds(call', u) => Holds(call, u)
  BY <1>10 DEF Holds
<1>12. Places(cache.payload, call', G, unused)
  BY <1>9, <1>10, <1>11 DEF Places
<1>13. Contents(cache.key, cache.payload, call', G, data)
  BY <1>9, <1>10, <1>11 DEF Contents
<1> QED
  BY <1>1, <1>5, <1>7, <1>8, <1>12, <1>13 DEF Shared

\* The entry e exchanges its key and payload for k and pl, and its payload is
\* destroyed, but for the last statement.
LEMMA DestroyInv ==
    ASSUME "freelist" \in Locked, CacheInv, NEW F, Shared(F), NEW t \in Threads,
           NEW e \in Entries, NEW k \in OrNone(Keys), NEW pl \in OrNone(Payloads),
           NEW l, NEW op \in {"push", "extract"},
           IsCache(cache'), cache'.key = [cache.key EXCEPT ![e] = k],
           cache'.payload = [cache.payload EXCEPT ![e] = pl],
           NEW p, p = cache.payload[e], Destroy(t, p, Doing(op, l, p), Idle),
           UNCHANGED <<freelist, unused>>,
           call[t].op \in {"idle", "store"},
           pl = None \/ (Holds(call, t) /\ call[t].payload = pl /\ call[t].key = k)
    PROVE  Shared(F)'
<1> DEFINE free == OutOfUse(F, call)
           free1 == OutOfUse(F, call')
           x == IF p = None THEN Idle ELSE Doing(op, l, p)
<1>1. /\ call' = [call EXCEPT ![t] = x] /\ data' = Store(data, p, None)
      /\ x.op \notin {"put", "store", "pop"} /\ (p # None => x.op = op /\ x.payload = p)
      /\ (p = None => x.op = "idle")
  BY DEF Destroy, Becomes, Doing, Idle, Store
<1> HIDE DEF x
<1>2. Listed(F, freelist, link) /\ Linking(F, freelist, link, call)
  BY DEF Shared
<1>3. Places(cache.payload, call, free, unused) /\ Contents(cache.key, cache.payload, call, free, data)
  BY DEF Shared
<1>4. free \subseteq Payloads /\ F \subseteq free
  BY <1>2, OutOfUseType DEF OutOfUse
<1>5. p \in OrNone(Payloads) /\ None \notin Payloads /\ p \notin F
  BY <1>3, <1>4, CacheTypes DEF Places
<1>6. /\ \A u \in Threads : call'[u] = IF u = t THEN x ELSE call[u]
      /\ ~Pushes(call, t)
  BY <1>1, CallIs DEF Pushes
<1>7. free1 = free \cup ({p} \ {None})
  <2>1. CASE p = None
    <3>1. \A u \in Threads : Pushes(call', u) <=> Pushes(call, u)
      BY <2>1, <1>1, <1>6 DEF Pushes
    <3>2. \A u \in Threads : Pushes(call, u) => call'[u] = call[u]
      BY <1>6
    <3> QED
      BY <3>1, <3>2, <2>1 DEF OutOfUse
  <2>2. CASE p # None
    <3>1. \A u \in Threads : Pushes(call', u) <=> Pushes(call, u) \/ u = t
      BY <2>2, <1>1, <1>6 DEF Pushes
    <3>2. \A u \in Threads : Pushes(call, u) => call'[u] = call[u]
      BY <1>6
    <3>3. call'[t].payload = p
      BY <2>2, <1>1, <1>6
    <3> QED
      BY <3>1, <3>2, <3>3, <2>2 DEF OutOfUse
  <2> QED
    BY <2>1, <2>2
<1> HIDE DEF free, free1
<1>8. Typed(cache, data, free, unused)
  BY <1>4, CacheTypes DEF Typed
<1>9. Exchanges(cache, cache', e, k, pl, data, data', free, free1)
  BY <1>1, <1>7 DEF Exchanges
<1>10. NoNewPut(call, call') /\ ~Holds(call', t)
  BY <1>1, <1>6 DEF NoNewPut, Holds
<1>11. HandsOver(call, call', t, k, pl)
  BY <1>10 DEF HandsOver
<1>12. /\ Places(cache'.payload, call', free1, unused)
       /\ Contents(cache'.key, cache'.payload, call', free1, data')
  BY <1>3, <1>8, <1>9, <1>10, <1>11, Exchange
<1>13. Listed(F, freelist, link') /\ Linking(F, freelist, link', call')
  <2>1. CASE p = None
    <3>1. link' = link
      BY <2>1 DEF Destroy
    <3>2. \A u \in Threads : call'[u].op \in {"pop", "push", "extract"} => call'[u] = call[u]
      BY <2>1, <1>1, <1>6
    <3>3. Linking(F, freelist, link, call')
      BY <3>2, <1>2 DEF Linking, Pushes
    <3> QED
      BY <3>1, <3>3, <1>2
  <2>2. CASE p # None
    <3>1. /\ link' = [link EXCEPT ![p] = freelist] /\ p \in Payloads
          /\ \A u \in Threads : call[u].op \notin {"pop", "push", "extract"}
      BY <2>2, <1>5, NobodyLinks DEF Destroy, OrNone
    <3>2. /\ link'[p] = freelist
          /\ \A o \in F : link'[o] = link[o]
      BY <3>1, <1>5, CacheTypes
    <3>3. Listed(F, freelist, link')
      BY <3>2, <1>2 DEF Listed
    <3>4. /\ \A u \in Threads : call'[u].op \in {"pop", "push", "extract"} => u = t
          /\ call'[t].payload = p /\ call'[t].op # "pop"
      BY <3>1, <2>2, <1>1, <1>6
    <3>5. Linking(F, freelist, link', call')
      BY <3>1, <3>2, <3>4, <1>5 DEF Linking, Pushes
    <3> QED
      BY <3>3, <3>5
  <2> QED
    BY <2>1, <2>2
<1> QED
  BY <1>12, <1>13 DEF Shared, free1

\* The payload of the thread goes to the entry, the one it replaces out of use.
LEMMA PutEntryInv ==
    ASSUME "freelist" \in Locked, CacheInv, NEW F, Shared(F), NEW t \in Threads, PutEntry(t)
    PROVE  Shared(F)'
<1>1. PICK s, m : Structure(cache, s, m)
  BY DEF CacheInv
<1>2. PICK e \in Entries : Stores(t, e, s, m)
  BY <1>1, PutEntryIs
<1>3. PICK k, pl, p : k = call[t].key /\ pl = call[t].payload /\ p = cache.payload[e]
  OBVIOUS
<1>4. /\ call[t].op = "store" /\ k \in Keys /\ pl \in Payloads
      /\ Puts(cache, s, m, k, pl, cache', e) /\ UNCHANGED <<freelist, unused>>
  BY <1>2, <1>3 DEF Stores
<1>5. Holds(call, t)
  BY <1>4 DEF Holds
<1>6. p # pl
  <2>1. Places(cache.payload, call, OutOfUse(F, call), unused)
    BY DEF Shared
  <2> QED
    BY <2>1, <1>3, <1>5 DEF Places
<1>7. Destroy(t, p, Doing("push", k, p), Idle)
  BY <1>2, <1>3, <1>6 DEF Stores
<1>8. /\ cache'.key = [cache.key EXCEPT ![e] = k]
      /\ cache'.payload = [cache.payload EXCEPT ![e] = pl] /\ IsCache(cache')
  BY <1>4 DEF Puts, Structure, Order
<1>9. k \in OrNone(Keys) /\ pl \in OrNone(Payloads)
  BY <1>4 DEF OrNone
<1> QED
  BY <1>3, <1>4, <1>5, <1>7, <1>8, <1>9, DestroyInv

\* The payload of an extracted entry goes out of use.
LEMMA ExtractInv ==
    ASSUME "freelist" \in Locked, CacheInv, NEW F, Shared(F), NEW t \in Threads,
           NEW k \in Keys, NEW op \in {"push", "extract"}, ExtractBy(t, k, op, Idle)
    PROVE  Shared(F)'
<1>1. PICK s, m : Structure(cache, s, m)
  BY DEF CacheInv
<1>2. PICK e \in Entries :
             /\ Extracts(cache, s, m, k, cache', e)
             /\ cache.payload[e] \in OrNone(Payloads)
             /\ Destroy(t, cache.payload[e], Doing(op, k, cache.payload[e]), Idle)
  BY <1>1, ExtractByIs
<1>3. PICK p : p = cache.payload[e]
  OBVIOUS
<1>4. Destroy(t, p, Doing(op, k, p), Idle)
  BY <1>2, <1>3
<1>5. call[t].op = "idle" /\ UNCHANGED <<freelist, unused>>
  BY DEF ExtractBy, Finds, Idle
<1>6. /\ cache'.key = [cache.key EXCEPT ![e] = None]
      /\ cache'.payload = [cache.payload EXCEPT ![e] = None] /\ IsCache(cache')
  BY <1>2 DEF Extracts, Structure, Order
<1>7. None \in OrNone(Keys) /\ None \in OrNone(Payloads)
  BY DEF OrNone
<1> QED
  BY <1>3, <1>4, <1>5, <1>6, <1>7, DestroyInv

\* get() moves an entry and no payload.
LEMMA GetEntryInv ==
    ASSUME CacheInv, NEW F, Shared(F), NEW t \in Threads, NEW k \in Keys, GetEntry(t, k)
    PROVE  Shared(F)'
<1> DEFINE x == Doing("read", k, cache.payload[cache.map[k]])
<1>1. /\ call[t].op = "idle" /\ cache.map[k] # None /\ cache' = Got(cache, k)
      /\ call' = [call EXCEPT ![t] = x] /\ x.op = "read"
      /\ UNCHANGED <<data, link, freelist, unused>>
  BY DEF GetEntry, Finds, Becomes, Idle, Doing
<1> HIDE DEF x
<1>2. PICK s, m : Structure(cache, s, m)
  BY DEF CacheInv
<1>3. SameContent(cache, cache')
  BY <1>1, <1>2, GotLemma
<1>4. cache'.key = cache.key /\ cache'.payload = cache.payload
  BY <1>3 DEF SameContent
<1>5. NoNewPut(call, call') /\ ~Pushes(call, t)
  BY <1>1, CallIs DEF NoNewPut, Holds, Pushes
<1> QED
  BY <1>1, <1>4, <1>5, ReadInv

\* Looking a key up, and reading a payload, whoever has it now.
LEMMA QuietInv ==
    ASSUME CacheInv, NEW F, Shared(F), NEW t \in Threads, LookUp(t) \/ GetData(t)
    PROVE  Shared(F)'
<1>1. CASE LookUp(t)
  <2> DEFINE x == [call[t] EXCEPT !.op = "store", !.entry = cache.map[call[t].key]]
  <2>1. /\ call[t].op = "put" /\ call' = [call EXCEPT ![t] = x]
        /\ UNCHANGED <<cache, data, link, freelist, unused>>
    BY <1>1 DEF LookUp, Becomes
  <2>2. x.op = "store" /\ x.payload = call[t].payload /\ x.key = call[t].key
    BY CacheTypes DEF CallRecords
  <2> HIDE DEF x
  <2>3. NoNewPut(call, call') /\ ~Pushes(call, t)
    BY <2>1, <2>2, CallIs DEF NoNewPut, Holds, Pushes
  <2> QED
    BY <2>1, <2>2, <2>3, ReadInv
<1>2. CASE GetData(t)
  <2>1. /\ call[t].op = "read" /\ call' = [call EXCEPT ![t] = Idle] /\ Idle.op = "idle"
        /\ UNCHANGED <<cache, data, link, freelist, unused>>
    BY <1>2 DEF GetData, Becomes, Idle
  <2>2. NoNewPut(call, call') /\ ~Pushes(call, t)
    BY <2>1, CallIs DEF NoNewPut, Holds, Pushes
  <2> QED
    BY <2>1, <2>2, ReadInv
<1> QED
  BY <1>1, <1>2

\* A step of any thread keeps the invariant.
LEMMA NextInv ==
    ASSUME {"cache", "freelist"} \subseteq Locked, Inv, [Next]_vars
    PROVE  Inv'
<1>0. CacheInv' /\ CacheInv /\ "freelist" \in Locked
  BY NextCache DEF Inv
<1>f. PICK F : Shared(F)
  BY DEF Inv
<1> SUFFICES \E G : Shared(G)'
  BY <1>0 DEF Inv
<1>1. ASSUME NEW t \in Threads, LookUp(t) \/ GetData(t)
      PROVE  \E G : Shared(G)'
  BY <1>0, <1>f, <1>1, QuietInv
<1>2. ASSUME NEW t \in Threads, PutEntry(t)
      PROVE  \E G : Shared(G)'
  BY <1>0, <1>f, <1>2, PutEntryInv
<1>3. ASSUME NEW t \in Threads, Pop(t)
      PROVE  \E G : Shared(G)'
  <2>1. PICK G : G = F \ {freelist}
    OBVIOUS
  <2> QED
    BY <2>1, <1>0, <1>f, <1>3, PopInv
<1>4. ASSUME NEW t \in Threads, Push(t)
      PROVE  \E G : Shared(G)'
  <2>1. PICK G : G = F \cup {call[t].payload}
    OBVIOUS
  <2> QED
    BY <2>1, <1>0, <1>f, <1>4, PushInv
<1>5. ASSUME NEW t \in Threads, NEW k \in Keys, Create(t, k)
      PROVE  \E G : Shared(G)'
  BY <1>0, <1>f, <1>5, CreateInv
<1>6. ASSUME NEW t \in Threads, NEW k \in Keys, GetEntry(t, k)
      PROVE  \E G : Shared(G)'
  BY <1>0, <1>f, <1>6, GetEntryInv
<1>7. ASSUME NEW t \in Threads, NEW k \in Keys, ExtractEntry(t, k)
      PROVE  \E G : Shared(G)'
  BY <1>0, <1>f, <1>7, ExtractInv DEF ExtractEntry
<1>8. ASSUME NEW t \in Threads, NEW k \in Keys, Invalidate(t, k)
      PROVE  \E G : Shared(G)'
  BY <1>0, <1>f, <1>8, ExtractInv DEF Invalidate
<1>9. CASE UNCHANGED vars
  <2>1. Shared(F)'
    BY <1>f, <1>9 DEF Shared, vars
  <2> QED
    BY <2>1
<1> QED
  BY <1>1, <1>2, <1>3, <1>4, <1>5, <1>6, <1>7, <1>8, <1>9 DEF Next, Inv

\* The invariant gives the places and contents of the payloads.
LEMMA InvPayloads == Inv => PayloadsSound
<1> SUFFICES ASSUME Inv PROVE PayloadsSound
  OBVIOUS
<1>f. PICK F : Shared(F)
  BY DEF Inv
<1>1. /\ Places(cache.payload, call, OutOfUse(F, call), unused)
      /\ Contents(cache.key, cache.payload, call, OutOfUse(F, call), data)
      /\ freelist \in OrNone(F) /\ F \subseteq OutOfUse(F, call)
      /\ None \notin Payloads /\ unused \subseteq Payloads
      /\ cache.payload \in [Entries -> OrNone(Payloads)]
  BY <1>f, CacheTypes DEF Shared, Listed, OutOfUse, Inv
<1>2. freelist # None => freelist \in OutOfUse(F, call)
  BY <1>1 DEF OrNone
<1>3. \A t \in Putting : Holds(call, t) /\ t \in Threads /\ call[t].payload \in Payloads
  BY <1>1 DEF Putting, Holds, Contents
<1>4. CreatedApart
  BY <1>1, <1>3 DEF Places, CreatedApart
<1>5. OnePlace
  <2>1. \A e, f \in Entries :
            cache.payload[e] # None /\ cache.payload[e] = cache.payload[f] => e = f
    BY <1>1 DEF Places
  <2>2. \A e \in Entries, t \in Putting : cache.payload[e] # call[t].payload
    BY <1>1, <1>3 DEF Places
  <2>3. \A e \in Entries : cache.payload[e] # None =>
            cache.payload[e] # freelist /\ cache.payload[e] \notin unused
    BY <1>1, <1>2 DEF Places
  <2>4. \A t \in Putting : call[t].payload # freelist /\ call[t].payload \notin unused
    BY <1>1, <1>2, <1>3 DEF Places
  <2>5. freelist \notin unused
    BY <1>1, <1>2 DEF Places
  <2> QED
    BY <2>1, <2>2, <2>3, <2>4, <2>5 DEF OnePlace
<1>6. ContentMatches
  BY <1>1, <1>2 DEF Contents, ContentMatches
<1> QED
  BY <1>4, <1>5, <1>6 DEF PayloadsSound

\* The inductive invariant of a serialized cache with a serialized free list.
THEOREM InvCorrect ==
    ASSUME {"cache", "freelist"} \subseteq Locked
    PROVE  Spec => []Inv
<1>1. Init => Inv
  BY InitInv
<1>2. Inv /\ [Next]_vars => Inv'
  BY NextInv
<1> QED
  BY <1>1, <1>2, PTL DEF Spec

\* Where the cache and the free list are serialized, no payload is given to two
\* threads or is in two places, and every cached one has its key's content
\* (ClusterCache.d:449-474, QueuedCache.d:316-324).
THEOREM PayloadsCorrect ==
    ASSUME {"cache", "freelist"} \subseteq Locked
    PROVE  Spec => []PayloadsSound
BY InvCorrect, InvPayloads, PTL

-----------------------------------------------------------------------------
(* The refinement: InOrder(cache) behaves as LRUCache.                     *)

\* The actions of LRUCache on InOrder(cache).
LEMMA LRUIs ==
    ASSUME NEW k \in Keys
    PROVE  /\ LRU!Get(k) <=> LRUGet(InOrder(cache), InOrder(cache'), k)
           /\ LRU!Put(k) <=> LRUPut(InOrder(cache), InOrder(cache'), k)
           /\ LRU!Extract(k) <=> LRUExtract(InOrder(cache), InOrder(cache'), k)
<1>1. InOrder(cache)' = InOrder(cache')
  BY DEF InOrder, Chain
<1>2. LRU!Without(k) = WithoutKey(InOrder(cache), k)
  BY DEF LRU!Without, LRU!Cached, WithoutKey
<1>3. LRU!Cached(k) <=> \E i \in 1..Len(InOrder(cache)) : InOrder(cache)[i] = k
  BY DEF LRU!Cached
<1>4. LRU!Get(k) <=> LRUGet(InOrder(cache), InOrder(cache'), k)
  BY <1>1, <1>2, <1>3, Zenon DEF LRU!Get, LRUGet
<1>5. LRU!Put(k) <=> LRUPut(InOrder(cache), InOrder(cache'), k)
  BY <1>1, <1>2, Zenon DEF LRU!Put, LRUPut
<1>6. LRU!Extract(k) <=> LRUExtract(InOrder(cache), InOrder(cache'), k)
  BY <1>1, <1>2, <1>3, Zenon DEF LRU!Extract, LRUExtract
<1> QED
  BY <1>4, <1>5, <1>6

\* An empty cache is an empty LRUCache.
LEMMA InitRefines ==
    ASSUME Init
    PROVE  LRU!Init
<1>1. cache.entries = 0
  BY DEF Init, EmptyCache
<1>2. PICK s, m : Structure(cache, s, m)
  BY InitCache DEF CacheInv
<1>3. m = 0 /\ InOrder(cache) = Recent(cache, s, m)
  BY <1>1, <1>2, InOrderIs DEF Structure, HeldFirst
<1>4. InOrder(cache) = <<>>
  <2>1. InOrder(cache) \in [1..0 -> Keys]
    BY <1>2, <1>3, RecentType
  <2>2. InOrder(cache) \in Seq(Keys) /\ Len(InOrder(cache)) = 0
    BY <2>1, FunctionIsSeq
  <2> QED
    BY <2>2, EmptySeq
<1> QED
  BY <1>4 DEF LRU!Init

\* A step is a step of LRUCache or leaves its state alone.
LEMMA NextRefines ==
    ASSUME CacheInv, [Next]_vars
    PROVE  [LRU!Next]_(InOrder(cache))
<1>1. PICK s, m : Structure(cache, s, m)
  BY DEF CacheInv
<1>2. InOrder(cache) = Recent(cache, s, m)
  BY <1>1, InOrderIs
<1>3. ASSUME NEW t \in Threads, PutEntry(t)
      PROVE  LRU!Next
  <2> DEFINE k == call[t].key
             pl == call[t].payload
  <2>2. PICK e \in Entries : Stores(t, e, s, m)
    BY <1>1, <1>3, PutEntryIs
  <2>1. k \in Keys /\ Puts(cache, s, m, k, pl, cache', e)
    BY <2>2 DEF Stores
  <2>3. PICK s1, m1 : /\ Structure(cache', s1, m1)
                      /\ LRUPut(Recent(cache, s, m), Recent(cache', s1, m1), k)
    BY <2>1 DEF Puts
  <2>4. InOrder(cache') = Recent(cache', s1, m1)
    BY <2>3, InOrderIs
  <2> HIDE DEF k, pl
  <2>5. LRUPut(InOrder(cache), InOrder(cache'), k)
    BY <2>3, <2>4, <1>2
  <2>6. LRU!Put(k)
    BY <2>1, <2>5, LRUIs
  <2> QED
    BY <2>1, <2>6 DEF LRU!Next
<1>4. ASSUME NEW t \in Threads, NEW k \in Keys, GetEntry(t, k)
      PROVE  LRU!Next
  <2>1. cache.map[k] # None /\ cache' = Got(cache, k)
    BY <1>4 DEF GetEntry, Finds
  <2>2. PICK s1, m1 : /\ Structure(cache', s1, m1)
                      /\ LRUGet(Recent(cache, s, m), Recent(cache', s1, m1), k)
    BY <1>1, <2>1, GetStep
  <2>3. InOrder(cache') = Recent(cache', s1, m1)
    BY <2>2, InOrderIs
  <2>4. LRUGet(InOrder(cache), InOrder(cache'), k)
    BY <2>2, <2>3, <1>2
  <2>5. LRU!Get(k)
    BY <2>4, LRUIs
  <2> QED
    BY <2>5 DEF LRU!Next
<1>5. ASSUME NEW t \in Threads, NEW k \in Keys, NEW op, ExtractBy(t, k, op, Idle)
      PROVE  LRU!Next
  <2>3. PICK e \in Entries : Extracts(cache, s, m, k, cache', e)
    BY <1>1, <1>5, ExtractByIs
  <2>4. PICK s1, m1 : /\ Structure(cache', s1, m1)
                      /\ LRUExtract(Recent(cache, s, m), Recent(cache', s1, m1), k)
    BY <2>3 DEF Extracts
  <2>5. InOrder(cache') = Recent(cache', s1, m1)
    BY <2>4, InOrderIs
  <2>6. LRUExtract(InOrder(cache), InOrder(cache'), k)
    BY <2>4, <2>5, <1>2
  <2>7. LRU!Extract(k)
    BY <2>6, LRUIs
  <2> QED
    BY <2>7 DEF LRU!Next
<1>6. ASSUME cache' = cache
      PROVE  UNCHANGED InOrder(cache)
  BY <1>6
<1>7. ASSUME NEW t \in Threads, Pop(t) \/ Push(t) \/ LookUp(t) \/ GetData(t)
      PROVE  cache' = cache
  BY <1>7 DEF Pop, Push, LookUp, GetData
<1>8. ASSUME NEW t \in Threads, NEW k \in Keys, Create(t, k)
      PROVE  cache' = cache
  BY <1>8 DEF Create
<1>9. ASSUME NEW t \in Threads, NEW k \in Keys, ExtractEntry(t, k) \/ Invalidate(t, k)
      PROVE  LRU!Next
  BY <1>5, <1>9 DEF ExtractEntry, Invalidate
<1>10. CASE UNCHANGED vars
  BY <1>10, <1>6 DEF vars
<1> QED
  BY <1>3, <1>4, <1>6, <1>7, <1>8, <1>9, <1>10 DEF Next

\* Where the cache is serialized, each call of it is the call of LRUCache on the
\* keys in order of use, whatever becomes of the payloads (QueuedCache.d:99-172).
THEOREM Refinement ==
    ASSUME "cache" \in Locked
    PROVE  Spec => ImplementsLRUCache
<1>1. Init => LRU!Init
  BY InitRefines
<1>2. CacheInv /\ [Next]_vars => [LRU!Next]_(InOrder(cache))
  BY NextRefines
<1> QED
  BY <1>1, <1>2, CacheCorrect, PTL DEF Spec, ImplementsLRUCache, LRU!Spec
=============================================================================
