--------------------------- MODULE WeakPointer_proofs ---------------------------
(***************************************************************************)
(* Proofs about WeakPointer, for any sets of threads, weak pointers and    *)
(* Monitor structs, and any growth of the array of events.                 *)
(*                                                                         *)
(* Nothing in the code says who may be where while an object is disposed   *)
(* of; IInv does.  Its parts say what a thread is about to do with the     *)
(* object (Doing), that the statements and attachments of the program are  *)
(* over when disposal begins (UsesAlive), that one thread disposes         *)
(* (OneDisposer), that a thread that tests a weak pointer and detaches its *)
(* event keeps gcLock from the one to the other (GCHeld), and so that the  *)
(* event it looks for is in the array, or in a list whose owner cannot     *)
(* call it (DetachPending).  Then the monitor cannot be freed under such a *)
(* thread, which is the case that a lock alone does not exclude.           *)
(***************************************************************************)
EXTENDS WeakPointer, FiniteSetTheorems, TLAPS

\* What a thread does to the object, or is to do when it has its lock.
Doing(t) == IF pc[t] \in {"enter", "create", "lock"} THEN then[t] ELSE pc[t]

Entering == \A t \in Threads :
    pc[t] \in {"enter", "create", "lock"} => then[t] \in {"body", "attach", "detach", "take"}

\* The lock belongs to the thread inside it.
LockHeld == \A t \in Inside : monitor # Null /\ owner[monitor] = t

\* A thread uses the object only while the object is alive.
UsesAlive == \A t \in Threads :
    Doing(t) \in {"body", "malloc", "leave", "attach"} => obj = "alive" /\ t \in strong

Disposing(t) == Doing(t) \in {"take", "call", "release", "end"}

\* One thread disposes of the object, from delete or collection to the end.
OneDisposer ==
    /\ \A t, u \in Threads : Disposing(t) /\ Disposing(u) => t = u
    /\ (\E t \in Threads : Disposing(t)) <=> obj \in {"deleting", "collecting", "sweeping"}

\* A call has a weak pointer as long as it uses it, and to itself.
ArgOwned ==
    /\ \A t \in Threads :
        arg[t] # Null <=> Doing(t) \in {"attach", "destroy", "detach", "unlockGC", "free"}
    /\ \A t, u \in Threads : arg[t] # Null /\ arg[t] = arg[u] => t = u
    /\ \A t \in Threads : arg[t] # Null =>
        wp[arg[t]] = "set" \/ (wp[arg[t]] = "null" /\ Doing(t) # "attach")

\* gcLock is held from the test of a reference to unlockGC, and by the
\* collector until the object is collected.
GCHeld == \A t \in Threads :
    /\ Doing(t) \in {"detach", "unlockGC"} => gcOwner = t
    /\ Disposing(t) /\ obj = "collecting" => gcOwner = t

InList(w, l) == \E i \in 1..Len(l) : l[i] = w
Listed(w)    == InList(w, devt) \/ \E t \in Threads : InList(w, events[t])

\* The lists are empty outside their time.
ListsEmpty ==
    /\ monitor = Null \/ obj \in {"deleted", "collected", "swept"} => devt = <<>>
    /\ \A t \in Threads : Doing(t) \in {"call", "release", "end"} => devt = <<>>
    /\ \A t \in Threads : pc[t] # "call" => events[t] = <<>>

\* No event of a weak pointer is listed before it is attached.
Fresh == \A w \in Pointers :
    wp[w] = "unborn" \/ (\E t \in Threads : arg[t] = w /\ Doing(t) = "attach") => ~Listed(w)

\* The event of a weak pointer that refers to the object is listed, or is just
\* being attached, or has just been detached.
SetListed == \A w \in Pointers :
    wp[w] = "set" =>
        \/ Listed(w)
        \/ \E t \in Threads : arg[t] = w /\ Doing(t) \in {"attach", "unlockGC", "free"}

\* The event a thread is to detach is listed.
DetachPending == \A t \in Threads : Doing(t) = "detach" => Listed(arg[t])

Once(l) == \A i, j \in 1..Len(l) : l[i] # Null /\ l[i] = l[j] => i = j

\* As long as no event was detached from an array without a gap and the object
\* is not ended without gcLock: an event is listed once, and not at all when it has been
\* called or detached.
Clean == ~crowded /\ obj \notin {"deleting", "deleted", "sweeping", "swept"}

NotDangling ==
    Clean =>
        /\ Once(devt) /\ \A t \in Threads : Once(events[t])
        /\ \A w \in Pointers : wp[w] \in {"null", "freed"} => ~Listed(w)
        /\ \A t \in Threads : Doing(t) \in {"unlockGC", "free"} => ~Listed(arg[t])
        /\ dangling = {}

NotStale == obj \notin {"deleting", "deleted", "sweeping", "swept"} => stale = {}

IInv == /\ TypeOK /\ Entering /\ LockHeld /\ UsesAlive /\ OneDisposer /\ ArgOwned
        /\ GCHeld /\ ListsEmpty /\ Fresh /\ SetListed /\ DetachPending
        /\ NotDangling /\ NotStale

-----------------------------------------------------------------------------
(* Lists of events *)

\* A set of slots that is not empty has a first one.
LEMMA LeastExists ==
    ASSUME NEW S \in SUBSET Nat, S # {}
    PROVE  Least(S) \in S /\ \A j \in S : Least(S) <= j
<1> DEFINE Upto == {0..i : i \in S}
<1>1. Upto \subseteq FiniteSubsetsOf(Nat) /\ Upto # {}
  <2>1. \A i \in S : 0..i \in SUBSET Nat /\ IsFiniteSet(0..i)
    BY FS_Interval
  <2> QED
    BY <2>1 DEF FiniteSubsetsOf
<1>2. PICK b \in Upto : \A c \in Upto : <<c, b>> \notin StrictSubsetOrdering(Nat)
  <2> HIDE DEF Upto
  <2> QED
    BY <1>1, FS_StrictSubsetOrderingWellFounded, WFMin
<1>3. PICK i \in S : b = 0..i
  OBVIOUS
<1>4. ASSUME NEW j \in S PROVE i <= j
  <2>1. ~((0..j) \subseteq (0..i) /\ 0..j # 0..i)
    <3>1. <<0..j, 0..i>> \notin StrictSubsetOrdering(Nat)
      BY <1>2, <1>3
    <3>2. <<0..j, 0..i>> \in (SUBSET Nat) \X (SUBSET Nat)
      OBVIOUS
    <3> QED
      BY <3>1, <3>2 DEF StrictSubsetOrdering
  <2> SUFFICES ASSUME j < i PROVE FALSE
    OBVIOUS
  <2>2. i \in 0..i /\ i \notin 0..j /\ (0..j) \subseteq (0..i)
    OBVIOUS
  <2> QED
    BY <2>1, <2>2
<1> QED
  BY <1>4 DEF Least

Slots == Pointers \cup {Null}

\* What attaching an event does to the array.
LEMMA AttachedList ==
    ASSUME TypeOK, NEW w \in Pointers
    PROVE  /\ Attached(w) \in Seq(Slots)
           /\ \E k \in 0..Len(Attached(w)) : Len(Attached(w)) = Grow * k
           /\ \A v \in Pointers : InList(v, Attached(w)) <=> InList(v, devt) \/ v = w
           /\ Once(devt) /\ ~InList(w, devt) => Once(Attached(w))
<1> DEFINE n == Len(devt)
           d == Attached(w)
<1>0. /\ devt \in Seq(Slots) /\ n \in Nat /\ DOMAIN devt = 1..n
      /\ \A i \in 1..n : devt[i] \in Slots
      /\ Grow \in Nat \ {0} /\ Null \notin Pointers /\ w \in Slots
  BY Locks, GrowPositive DEF TypeOK, Slots
<1>1. PICK k \in 0..n : n = Grow * k
  BY DEF TypeOK, Grown
<1>2. CASE Taken(w) # {}
  <2> DEFINE p == Least(Taken(w))
  <2>1. p \in 1..n /\ devt[p] \in {Null, w}
    <3>1. Taken(w) \in SUBSET Nat
      BY <1>0 DEF Taken
    <3>2. p \in Taken(w)
      BY <1>2, <3>1, LeastExists
    <3> QED
      BY <3>2 DEF Taken
  <2>2. d = [devt EXCEPT ![p] = w]
    BY <1>2 DEF Attached
  <2> HIDE DEF p
  <2>3. d \in Seq(Slots) /\ Len(d) = n /\ d[p] = w /\ \A i \in 1..n : i # p => d[i] = devt[i]
    BY <1>0, <2>1, <2>2
  <2> HIDE DEF d
  <2>4. ASSUME NEW v \in Pointers PROVE InList(v, d) <=> InList(v, devt) \/ v = w
    BY <1>0, <2>1, <2>3, <2>4 DEF InList
  <2>5. Once(devt) /\ ~InList(w, devt) => Once(d)
    BY <1>0, <2>1, <2>3 DEF Once, InList
  <2> QED
    BY <1>0, <1>1, <2>3, <2>4, <2>5 DEF d
<1>3. CASE Taken(w) = {}
  <2> DEFINE e == [i \in 1..(Grow - 1) |-> Null]
  <2>1. e \in Seq(Slots) /\ Len(e) = Grow - 1 /\ \A i \in 1..(Grow - 1) : e[i] = Null
    BY <1>0 DEF Slots
  <2>2. d = devt \o <<w>> \o e
    BY <1>3 DEF Attached
  <2> HIDE DEF e
  <2>3. /\ devt \o <<w>> \in Seq(Slots) /\ Len(devt \o <<w>>) = n + 1
        /\ (devt \o <<w>>)[n + 1] = w
        /\ \A i \in 1..n : (devt \o <<w>>)[i] = devt[i]
    BY <1>0
  <2>4. /\ d \in Seq(Slots) /\ Len(d) = n + Grow
        /\ \A i \in 1..n : d[i] = devt[i]
        /\ d[n + 1] = w
        /\ \A i \in (n + 2)..(n + Grow) : d[i] = Null
    <3> DEFINE dw == devt \o <<w>>
    <3>1. dw \in Seq(Slots) /\ Len(dw) = n + 1
      BY <2>3
    <3>2. d = dw \o e
      BY <2>2
    <3> HIDE DEF dw, d
    <3>3. d \in Seq(Slots) /\ Len(d) = n + Grow
      <4>1. e \in Seq(Slots) /\ dw \in Seq(Slots)
        BY <2>1, <3>1
      <4>2. d \in Seq(Slots)
        BY <3>2, <4>1
      <4>3. Len(d) = Len(dw) + Len(e)
        BY <3>2, <4>1
      <4>4. (n + 1) + (Grow - 1) = n + Grow
        BY <1>0
      <4> QED
        BY <2>1, <3>1, <4>2, <4>3, <4>4
    <3>4. ASSUME NEW i \in 1..(n + 1) PROVE d[i] = dw[i]
      BY <1>0, <2>1, <3>1, <3>2
    <3>5. ASSUME NEW i \in (n + 2)..(n + Grow) PROVE d[i] = Null
      <4>1. i \in 1..(Len(dw) + Len(e)) /\ i > Len(dw) /\ i - Len(dw) \in 1..(Grow - 1)
        BY <1>0, <2>1, <3>1
      <4>2. d[i] = e[i - Len(dw)]
        BY <2>1, <3>1, <3>2, <4>1
      <4> QED
        BY <2>1, <4>1, <4>2
    <3>6. \A i \in 1..n : d[i] = devt[i]
      <4>1. \A i \in 1..n : i \in 1..(n + 1) /\ dw[i] = devt[i]
        BY <1>0, <2>3 DEF dw
      <4> QED
        BY <3>4, <4>1
    <3>7. d[n + 1] = w
      <4>1. n + 1 \in 1..(n + 1) /\ dw[n + 1] = w
        BY <1>0, <2>3 DEF dw
      <4> QED
        BY <3>4, <4>1
    <3> QED
      BY <3>3, <3>5, <3>6, <3>7
  <2>5. \E m \in 0..Len(d) : Len(d) = Grow * m
    <3>1. Grow * k + Grow = Grow * (k + 1) /\ k + 1 \in 0..(n + Grow)
      BY <1>0, <1>1
    <3> QED
      BY <1>1, <2>4, <3>1
  <2> HIDE DEF d
  <2>6. \A i \in 1..Len(d) : i \in 1..n \/ i = n + 1 \/ i \in (n + 2)..(n + Grow)
    BY <1>0, <2>4
  <2>7. ASSUME NEW v \in Pointers PROVE InList(v, d) <=> InList(v, devt) \/ v = w
    BY <1>0, <2>4, <2>6 DEF InList
  <2>8. Once(devt) /\ ~InList(w, devt) => Once(d)
    BY <1>0, <2>4, <2>6 DEF Once, InList
  <2> QED
    BY <2>4, <2>5, <2>7, <2>8 DEF d
<1> QED
  BY <1>2, <1>3

\* What detaching the event in slot p does to the array.
LEMMA RemovedList ==
    ASSUME TypeOK, NEW w \in Pointers, NEW p \in 1..Len(devt), devt[p] = w
    PROVE  /\ Removed(p) \in Seq(Slots)
           /\ Len(Removed(p)) = Len(devt)
           /\ \A v \in Pointers : InList(v, Removed(p)) => InList(v, devt)
           /\ \A v \in Pointers : v # w /\ InList(v, devt) => InList(v, Removed(p))
           /\ Once(devt) /\ devt[Len(devt)] = Null =>
                Once(Removed(p)) /\ ~InList(w, Removed(p))
<1> DEFINE n == Len(devt)
           d == Removed(p)
<1>0. /\ n \in Nat /\ \A i \in 1..n : devt[i] \in Slots
      /\ Null \notin Pointers
  BY Locks DEF TypeOK, Slots
<1>1. /\ d \in Seq(Slots) /\ Len(d) = n
      /\ \A i \in 1..n : i < p \/ i = n => d[i] = devt[i]
      /\ \A i \in 1..n : ~(i < p \/ i = n) => d[i] = devt[i + 1] /\ i + 1 \in 1..n
  <2>1. \A i \in 1..n : ~(i < p \/ i = n) => i + 1 \in 1..n
    BY <1>0
  <2>2. d \in [1..n -> Slots]
    BY <1>0, <2>1 DEF Removed
  <2> QED
    BY <1>0, <2>1, <2>2 DEF Removed
<1> HIDE DEF d
<1>2. ASSUME NEW v \in Pointers, InList(v, d) PROVE InList(v, devt)
  BY <1>0, <1>1, <1>2 DEF InList
<1>3. ASSUME NEW v \in Pointers, v # w, InList(v, devt) PROVE InList(v, d)
  <2>1. PICK i \in 1..n : devt[i] = v
    BY <1>3 DEF InList
  <2>2. CASE i < p
    BY <1>0, <1>1, <2>1, <2>2 DEF InList
  <2>3. CASE i > p
    <3>1. i - 1 \in 1..n /\ ~(i - 1 < p \/ i - 1 = n)
      BY <1>0, <2>3
    <3>2. d[i - 1] = v
      BY <1>0, <1>1, <2>1, <3>1
    <3> QED
      BY <1>1, <3>1, <3>2 DEF InList
  <2> QED
    BY <1>0, <1>3, <2>1, <2>2, <2>3
<1>4. ASSUME Once(devt), devt[n] = Null PROVE Once(d) /\ ~InList(w, d)
  <2>0. Once(devt) /\ devt[n] = Null /\ n \in 1..n
    BY <1>0, <1>4
  <2>1. \A i \in 1..n : d[i] # Null => i < n
    BY <1>0, <1>1, <2>0
  <2>2. ~InList(w, d)
    BY <1>0, <1>1, <2>0, <2>1 DEF Once, InList
  <2>3. Once(d)
    BY <1>0, <1>1, <2>0, <2>1 DEF Once
  <2> QED
    BY <2>2, <2>3
<1> QED
  BY <1>1, <1>2, <1>3, <1>4 DEF d

\* What calling the first event of a list does to it.
LEMMA CalledList ==
    ASSUME NEW l \in Seq(Slots), ToCall(l) # {}
    PROVE  LET i == Least(ToCall(l))
               r == [l EXCEPT ![i] = Null]
           IN  /\ i \in 1..Len(l) /\ l[i] \in Pointers /\ InList(l[i], l)
               /\ r \in Seq(Slots)
               /\ \A v \in Pointers : InList(v, r) => InList(v, l)
               /\ \A v \in Pointers : v # l[i] /\ InList(v, l) => InList(v, r)
               /\ Once(l) => Once(r) /\ ~InList(l[i], r)
<1> DEFINE i == Least(ToCall(l))
           r == [l EXCEPT ![i] = Null]
<1>0. Len(l) \in Nat /\ Null \notin Pointers /\ \A j \in 1..Len(l) : l[j] \in Slots
  BY Locks DEF Slots
<1>1. i \in ToCall(l)
  <2>1. ToCall(l) \in SUBSET Nat
    BY <1>0 DEF ToCall
  <2> QED
    BY <2>1, LeastExists
<1>2. i \in 1..Len(l) /\ l[i] \in Pointers
  BY <1>0, <1>1 DEF ToCall, Slots
<1> HIDE DEF i
<1>3. /\ r \in Seq(Slots) /\ Len(r) = Len(l) /\ r[i] = Null
      /\ \A j \in 1..Len(l) : j # i => r[j] = l[j]
  BY <1>0, <1>2 DEF Slots
<1> HIDE DEF r
<1>4. InList(l[i], l)
  BY <1>2 DEF InList
<1>5. /\ \A v \in Pointers : InList(v, r) => InList(v, l)
      /\ \A v \in Pointers : v # l[i] /\ InList(v, l) => InList(v, r)
  BY <1>0, <1>2, <1>3 DEF InList
<1>6. Once(l) => Once(r) /\ ~InList(l[i], r)
  BY <1>0, <1>2, <1>3 DEF InList, Once
<1> QED
  BY <1>2, <1>3, <1>4, <1>5, <1>6 DEF i, r

\* A step that does not touch the array.
LEMMA GrownSame == Grown /\ devt' = devt => Grown'
  BY DEF Grown

-----------------------------------------------------------------------------
(* Steps that leave a part of IInv as it is *)

\* OneDisposer depends on the object and on who disposes.
LEMMA OneDisposerSame ==
    ASSUME OneDisposer, obj' = obj, \A u \in Threads : Disposing(u)' <=> Disposing(u)
    PROVE  OneDisposer'
  BY DEF OneDisposer

\* SetListed survives while pointers stay listed.
LEMMA SetListedSame ==
    ASSUME SetListed, \A w \in Pointers : wp'[w] = "set" => wp[w] = "set",
           \A w \in Pointers : Listed(w) => Listed(w)',
           \A u \in Threads : Doing(u) \in {"attach", "unlockGC", "free"} =>
               arg'[u] = arg[u] /\ Doing(u)' \in {"attach", "unlockGC", "free"}
    PROVE  SetListed'
<1> SUFFICES ASSUME NEW w \in Pointers, wp'[w] = "set", ~Listed(w)'
             PROVE  \E u \in Threads :
                        arg'[u] = w /\ Doing(u)' \in {"attach", "unlockGC", "free"}
  BY DEF SetListed
<1>1. PICK u \in Threads : arg[u] = w /\ Doing(u) \in {"attach", "unlockGC", "free"}
  BY DEF SetListed
<1> QED
  BY <1>1

\* DetachPending survives while pointers stay listed.
LEMMA DetachPendingSame ==
    ASSUME TypeOK, ArgOwned, DetachPending,
           \A w \in Pointers : Listed(w) => Listed(w)',
           \A u \in Threads : Doing(u)' = "detach" =>
               arg'[u] = arg[u] /\ Doing(u) = "detach"
    PROVE  DetachPending'
<1> SUFFICES ASSUME NEW u \in Threads, Doing(u)' = "detach" PROVE Listed(arg[u])'
  BY DEF DetachPending
<1>1. Doing(u) = "detach" /\ arg'[u] = arg[u] /\ arg[u] \in Pointers
  BY DEF TypeOK, ArgOwned
<1> QED
  BY <1>1 DEF DetachPending

\* Who has no event in its list, as nobody has but the one who calls them.
LEMMA ListedInArray ==
    ASSUME ListsEmpty, \A t \in Threads : pc[t] # "call"
    PROVE  \A w \in Pointers : Listed(w) <=> InList(w, devt)
  BY DEF ListsEmpty, Listed, InList

\* ArgOwned survives while arguments stay and no pointer is set.
LEMMA ArgOwnedSame ==
    ASSUME TypeOK, ArgOwned, arg' = arg,
           \A w \in Pointers : wp[w] = "set" \/ wp[w] = "null" =>
               wp'[w] = wp[w] \/ (wp'[w] = "null" /\ \A u \in Threads : Doing(u)' # "attach"),
           \A u \in Threads :
               /\ Doing(u)' \in {"attach", "destroy", "detach", "unlockGC", "free"}
                    <=> Doing(u) \in {"attach", "destroy", "detach", "unlockGC", "free"}
               /\ Doing(u)' = "attach" => Doing(u) = "attach"
    PROVE  ArgOwned'
<1>1. \A u \in Threads : arg[u] # Null => arg[u] \in Pointers
  BY DEF TypeOK
<1> QED
  BY <1>1 DEF ArgOwned

\* Every list has an event once.
AllOnce == Once(devt) /\ \A t \in Threads : Once(events[t])

\* NotDangling survives steps that set no pointer dangling.
LEMMA NotDanglingSame ==
    ASSUME NotDangling, Clean' => Clean, Clean' => dangling' = dangling,
           Clean' /\ AllOnce => AllOnce',
           Clean' => \A w \in Pointers :
               wp'[w] \in {"null", "freed"} /\ Listed(w)' =>
                   wp[w] \in {"null", "freed"} /\ Listed(w),
           Clean' => \A u \in Threads :
               Doing(u)' \in {"unlockGC", "free"} /\ Listed(arg[u])' =>
                   /\ arg[u] \in Pointers /\ arg'[u] = arg[u] /\ Listed(arg[u])
                   /\ Doing(u) \in {"unlockGC", "free"} \/ wp[arg[u]] \in {"null", "freed"}
    PROVE  NotDangling'
<1> SUFFICES ASSUME Clean'
             PROVE  /\ AllOnce'
                    /\ \A w \in Pointers : wp'[w] \in {"null", "freed"} => ~Listed(w)'
                    /\ \A u \in Threads : Doing(u)' \in {"unlockGC", "free"} => ~Listed(arg[u])'
                    /\ dangling' = {}
  BY DEF NotDangling, AllOnce
<1> QED
  BY DEF NotDangling, AllOnce

-----------------------------------------------------------------------------
\* IInv is inductive.
LEMMA NextInv == IInv /\ [Next]_vars => IInv'
<1> SUFFICES ASSUME IInv, [Next]_vars PROVE IInv'
  OBVIOUS
<1> USE DEF locks, locals, history
<1>1. ASSUME NEW t \in Threads, Statement(t) PROVE IInv'
  <2>1. /\ Doing(t) = "idle" /\ Doing(t)' = "body"
        /\ \A u \in Threads : u # t => Doing(u)' = Doing(u)
    BY <1>1 DEF IInv, TypeOK, Entering, Doing, Statement, Uses, Enter, Goto
  <2>2. \A w \in Pointers : Listed(w)' <=> Listed(w)
    BY <1>1 DEF Listed, InList, Statement, Uses, Enter, Goto
  <2>3. TypeOK'
    BY <1>1, GrownSame, Locks DEF IInv, TypeOK, Pcs, Statement, Enter, Goto, Uses
  <2>4. Entering' /\ LockHeld'
    BY <1>1, Locks
    DEF IInv, TypeOK, Entering, Statement, Enter, Goto, Uses, LockHeld, Inside
  <2>5. UsesAlive' /\ GCHeld' /\ NotStale'
    BY <1>1, <2>1, Locks
    DEF IInv, TypeOK, UsesAlive, OneDisposer, Disposing, Statement, Enter, Goto, Uses,
       GCHeld, NotStale
  <2>6. OneDisposer'
    BY <1>1, <2>1, OneDisposerSame DEF IInv, Disposing, Statement
  <2>7. ArgOwned'
    BY <1>1, <2>1, ArgOwnedSame DEF IInv, Statement
  <2>8. ListsEmpty'
    BY <1>1, <2>1, <2>2, Locks
    DEF IInv, TypeOK, ListsEmpty, OneDisposer, Disposing, UsesAlive, LockHeld, Inside,
       Statement, Enter, Goto, Uses
  <2>9. Fresh'
    BY <1>1, <2>1, <2>2, Locks
    DEF IInv, TypeOK, Fresh, ArgOwned, Statement, Enter, Goto, Uses
  <2>10. SetListed' /\ DetachPending'
    BY <1>1, <2>1, <2>2, SetListedSame, DetachPendingSame DEF IInv, TypeOK, Statement
  <2>11. NotDangling'
    <3>1. ASSUME NEW u \in Threads, Doing(u)' \in {"unlockGC", "free"}
          PROVE  /\ arg'[u] = arg[u] /\ arg[u] \in Pointers
                 /\ Doing(u) \in {"unlockGC", "free"} \/ wp[arg[u]] \in {"null", "freed"}
      BY <1>1, <2>1, <3>1 DEF IInv, TypeOK, ArgOwned, Statement
    <3>2. UNCHANGED <<wp, devt, events, dangling>> /\ (Clean' => Clean)
      BY <1>1 DEF Clean, Statement
    <3>3. AllOnce => AllOnce'
      BY <3>2 DEF AllOnce
    <3> QED
      BY <2>2, <3>1, <3>2, <3>3, NotDanglingSame DEF IInv
  <2> QED
    BY <2>3, <2>4, <2>5, <2>6, <2>7, <2>8, <2>9, <2>10, <2>11 DEF IInv
<1>2. ASSUME NEW t \in Threads, Drop(t) PROVE IInv'
  <2>1. /\ Doing(t) = "idle" /\ \A u \in Threads : Doing(u)' = Doing(u)
    BY <1>2 DEF IInv, TypeOK, Entering, Doing, Drop, Goto
  <2>2. \A w \in Pointers : Listed(w)' <=> Listed(w)
    BY <1>2 DEF Listed, InList, Drop, Goto
  <2>3. TypeOK'
    BY <1>2, GrownSame, Locks DEF IInv, TypeOK, Pcs, Drop, Goto
  <2>4. Entering' /\ LockHeld'
    BY <1>2, Locks DEF IInv, TypeOK, Entering, Drop, Goto, LockHeld, Inside
  <2>5. UsesAlive' /\ GCHeld' /\ NotStale'
    BY <1>2, <2>1, Locks
    DEF IInv, TypeOK, UsesAlive, OneDisposer, Disposing, Drop, Goto, GCHeld, NotStale
  <2>6. OneDisposer'
    BY <1>2, <2>1, OneDisposerSame DEF IInv, Disposing, Drop
  <2>7. ArgOwned'
    BY <1>2, <2>1, ArgOwnedSame DEF IInv, Drop
  <2>8. ListsEmpty'
    BY <1>2, <2>1, <2>2, Locks
    DEF IInv, TypeOK, ListsEmpty, OneDisposer, Disposing, UsesAlive, LockHeld, Inside,
       Drop, Goto
  <2>9. Fresh'
    BY <1>2, <2>1, <2>2, Locks DEF IInv, TypeOK, Fresh, ArgOwned, Drop, Goto
  <2>10. SetListed' /\ DetachPending'
    BY <1>2, <2>1, <2>2, SetListedSame, DetachPendingSame DEF IInv, TypeOK, Drop
  <2>11. NotDangling'
    BY <1>2, <2>1, <2>2, Locks
    DEF IInv, TypeOK, NotDangling, Clean, ArgOwned, OneDisposer, Disposing, GCHeld,
       Drop, Goto
  <2> QED
    BY <2>3, <2>4, <2>5, <2>6, <2>7, <2>8, <2>9, <2>10, <2>11 DEF IInv
<1>3. ASSUME NEW t \in Threads, WeakpointerCreate(t) PROVE IInv'
  <2>1. /\ Doing(t) = "idle" /\ Doing(t)' = "attach"
        /\ \A u \in Threads : u # t => Doing(u)' = Doing(u)
    BY <1>3 DEF IInv, TypeOK, Entering, Doing, WeakpointerCreate, Uses, Enter, Goto
  <2>2. \A w \in Pointers : Listed(w)' <=> Listed(w)
    BY <1>3 DEF Listed, InList, WeakpointerCreate, Uses, Enter, Goto
  <2>3. TypeOK'
    BY <1>3, GrownSame, Locks DEF IInv, TypeOK, Pcs, WeakpointerCreate, Enter, Goto, Uses
  <2>4. Entering' /\ LockHeld'
    BY <1>3, Locks
    DEF IInv, TypeOK, Entering, WeakpointerCreate, Enter, Goto, Uses, LockHeld, Inside
  <2>5. UsesAlive' /\ GCHeld' /\ NotStale'
    BY <1>3, <2>1, Locks
    DEF IInv, TypeOK, UsesAlive, OneDisposer, Disposing, WeakpointerCreate, Enter, Goto,
       Uses, GCHeld, NotStale
  <2>6. OneDisposer'
    BY <1>3, <2>1, OneDisposerSame DEF IInv, Disposing, WeakpointerCreate
  <2>7. ArgOwned'
    <3>1. PICK w \in Pointers : /\ wp[w] = "unborn" /\ wp' = [wp EXCEPT ![w] = "set"]
                                /\ arg' = [arg EXCEPT ![t] = w]
      BY <1>3 DEF WeakpointerCreate
    <3>2. \A u \in Threads : arg[u] # w
      BY <3>1, Locks DEF IInv, TypeOK, ArgOwned
    <3> QED
      BY <2>1, <3>1, <3>2, Locks DEF IInv, TypeOK, ArgOwned
  <2>8. ListsEmpty'
    BY <1>3, <2>1, <2>2, Locks
    DEF IInv, TypeOK, ListsEmpty, OneDisposer, Disposing, UsesAlive, LockHeld, Inside,
       WeakpointerCreate, Enter, Goto, Uses
  <2>9. Fresh'
    BY <1>3, <2>1, <2>2, Locks
    DEF IInv, TypeOK, Fresh, ArgOwned, WeakpointerCreate, Enter, Goto, Uses
  <2>10. SetListed'
    <3> SUFFICES ASSUME NEW w \in Pointers, wp'[w] = "set", ~Listed(w)'
                 PROVE  \E u \in Threads :
                            arg'[u] = w /\ Doing(u)' \in {"attach", "unlockGC", "free"}
      BY DEF SetListed
    <3>1. CASE wp[w] = "set"
      <4>1. PICK u \in Threads : arg[u] = w /\ Doing(u) \in {"attach", "unlockGC", "free"}
        BY <2>2, <3>1 DEF IInv, SetListed
      <4> QED
        BY <1>3, <2>1, <4>1 DEF IInv, TypeOK, WeakpointerCreate
    <3>2. CASE wp[w] # "set"
      <4>1. arg'[t] = w
        BY <1>3, <3>2 DEF IInv, TypeOK, WeakpointerCreate
      <4> QED
        BY <2>1, <4>1
    <3> QED
      BY <3>1, <3>2
  <2>11. DetachPending'
    BY <1>3, <2>1, <2>2, DetachPendingSame DEF IInv, TypeOK, WeakpointerCreate
  <2>12. NotDangling'
    BY <1>3, <2>1, <2>2, Locks
    DEF IInv, TypeOK, NotDangling, Clean, ArgOwned, OneDisposer, Disposing, GCHeld,
       WeakpointerCreate, Enter, Goto, Uses
  <2> QED
    BY <2>3, <2>4, <2>5, <2>6, <2>7, <2>8, <2>9, <2>10, <2>11, <2>12 DEF IInv
<1>4. ASSUME NEW t \in Threads, WeakpointerDestroy(t) PROVE IInv'
  <2>1. /\ Doing(t) = "idle" /\ Doing(t)' = "destroy"
        /\ \A u \in Threads : u # t => Doing(u)' = Doing(u)
    BY <1>4 DEF IInv, TypeOK, Entering, Doing, WeakpointerDestroy, Goto
  <2>2. \A w \in Pointers : Listed(w)' <=> Listed(w)
    BY <1>4 DEF Listed, InList, WeakpointerDestroy, Goto
  <2>3. TypeOK'
    BY <1>4, GrownSame, Locks DEF IInv, TypeOK, Pcs, WeakpointerDestroy, Goto
  <2>4. Entering' /\ LockHeld'
    BY <1>4, Locks DEF IInv, TypeOK, Entering, WeakpointerDestroy, Goto, LockHeld, Inside
  <2>5. UsesAlive' /\ GCHeld' /\ NotStale'
    BY <1>4, <2>1, Locks
    DEF IInv, TypeOK, UsesAlive, OneDisposer, Disposing, WeakpointerDestroy, Goto,
       GCHeld, NotStale
  <2>6. OneDisposer'
    BY <1>4, <2>1, OneDisposerSame DEF IInv, Disposing, WeakpointerDestroy
  <2>7. ArgOwned'
    BY <1>4, <2>1, Locks
    DEF IInv, TypeOK, ArgOwned, UsesAlive, OneDisposer, Disposing, WeakpointerDestroy,
       Goto
  <2>8. ListsEmpty'
    BY <1>4, <2>1, <2>2, Locks
    DEF IInv, TypeOK, ListsEmpty, OneDisposer, Disposing, UsesAlive, LockHeld, Inside,
       WeakpointerDestroy, Goto
  <2>9. Fresh'
    BY <1>4, <2>1, <2>2, Locks DEF IInv, TypeOK, Fresh, ArgOwned, WeakpointerDestroy, Goto
  <2>10. SetListed' /\ DetachPending'
    BY <1>4, <2>1, <2>2, SetListedSame, DetachPendingSame
    DEF IInv, TypeOK, WeakpointerDestroy
  <2>11. NotDangling'
    BY <1>4, <2>1, <2>2, Locks
    DEF IInv, TypeOK, NotDangling, Clean, ArgOwned, OneDisposer, Disposing, GCHeld,
       WeakpointerDestroy, Goto
  <2> QED
    BY <2>3, <2>4, <2>5, <2>6, <2>7, <2>8, <2>9, <2>10, <2>11 DEF IInv
<1>5. ASSUME NEW t \in Threads, WeakpointerGet(t) PROVE IInv'
  <2>1. /\ Doing(t) = "idle" /\ \A u \in Threads : Doing(u)' = Doing(u)
    BY <1>5 DEF IInv, TypeOK, Entering, Doing, WeakpointerGet
  <2>2. \A w \in Pointers : Listed(w)' <=> Listed(w)
    BY <1>5 DEF Listed, InList, WeakpointerGet
  <2>3. TypeOK'
    BY <1>5, GrownSame, Locks DEF IInv, TypeOK, Pcs, WeakpointerGet
  <2>4. Entering' /\ LockHeld'
    BY <1>5, Locks DEF IInv, TypeOK, Entering, WeakpointerGet, LockHeld, Inside
  <2>5. UsesAlive'
    BY <1>5, <2>1, Locks
    DEF IInv, TypeOK, UsesAlive, OneDisposer, Disposing, WeakpointerGet
  <2>6. GCHeld'
    BY <1>5, <2>1, Locks DEF IInv, TypeOK, GCHeld, OneDisposer, Disposing, WeakpointerGet
  <2>7. NotStale'
    <3> SUFFICES ASSUME obj \notin {"deleting", "deleted", "sweeping", "swept"} PROVE obj = "alive"
      BY <1>5 DEF IInv, NotStale, WeakpointerGet
    <3>1. PICK w \in Pointers : wp[w] = "set" /\ \A u \in Threads : arg[u] # w
      BY <1>5 DEF WeakpointerGet
    <3>2. Listed(w)
      BY <3>1 DEF IInv, SetListed
    <3>3. obj # "collecting"
      BY <1>5, Locks DEF IInv, OneDisposer, GCHeld, WeakpointerGet
    <3>4. ASSUME obj = "collected" PROVE FALSE
      <4>1. devt = <<>> /\ \A u \in Threads : ~Disposing(u)
        BY <3>4 DEF IInv, ListsEmpty, OneDisposer
      <4>2. \A u \in Threads : pc[u] # "call"
        BY <4>1 DEF Disposing, Doing
      <4> QED
        BY <3>2, <4>1, <4>2 DEF IInv, ListsEmpty, Listed, InList
    <3> QED
      BY <3>3, <3>4 DEF IInv, TypeOK
  <2>8. OneDisposer'
    BY <1>5, <2>1, OneDisposerSame DEF IInv, Disposing, WeakpointerGet
  <2>9. ArgOwned'
    BY <1>5, <2>1, ArgOwnedSame DEF IInv, WeakpointerGet
  <2>10. ListsEmpty'
    BY <1>5, <2>1, <2>2, Locks
    DEF IInv, TypeOK, ListsEmpty, OneDisposer, Disposing, UsesAlive, LockHeld, Inside,
       WeakpointerGet
  <2>11. Fresh'
    BY <1>5, <2>1, <2>2, Locks DEF IInv, TypeOK, Fresh, ArgOwned, WeakpointerGet
  <2>12. SetListed' /\ DetachPending'
    BY <1>5, <2>1, <2>2, SetListedSame, DetachPendingSame DEF IInv, TypeOK, WeakpointerGet
  <2>13. NotDangling'
    BY <1>5, <2>1, <2>2, Locks
    DEF IInv, TypeOK, NotDangling, Clean, ArgOwned, OneDisposer, Disposing, GCHeld,
       WeakpointerGet
  <2> QED
    BY <2>3, <2>4, <2>5, <2>6, <2>7, <2>8, <2>9, <2>10, <2>11, <2>12, <2>13 DEF IInv
<1>6. ASSUME NEW t \in Threads, Delete(t) PROVE IInv'
  <2>1. /\ Doing(t) = "idle" /\ Doing(t)' \in {"take", "release", "end"}
        /\ Doing(t)' # "take" => devt = <<>>
        /\ \A u \in Threads : u # t => Doing(u)' = Doing(u)
    BY <1>6
    DEF IInv, TypeOK, Entering, Doing, Delete, Uses, Dispose, Enter, Goto, ListsEmpty
  <2>2. \A w \in Pointers : Listed(w)' <=> Listed(w)
    BY <1>6 DEF Listed, InList, Delete, Uses, Dispose, Enter, Goto
  <2>3. TypeOK'
    <3>1. obj' = "deleting" /\ gcOwner' \in Threads \cup {Null}
      BY <1>6 DEF IInv, TypeOK, Delete
    <3>2. PICK l \in {"end", "release", "enter"} : pc' = [pc EXCEPT ![t] = l]
      BY <1>6 DEF Delete, Dispose, Enter, Goto
    <3>3. then' = then \/ then' = [then EXCEPT ![t] = "take"]
      BY <1>6 DEF Delete, Dispose, Enter
    <3>4. /\ pc' \in [Threads -> Pcs]
          /\ then' \in [Threads -> {"idle", "body", "attach", "detach", "take"}]
      BY <3>2, <3>3 DEF IInv, TypeOK, Pcs
    <3> QED
      BY <1>6, <3>1, <3>4, GrownSame DEF IInv, TypeOK, Delete
  <2>4. Entering'
    BY <1>6, Locks DEF IInv, TypeOK, Entering, Delete, Dispose, Enter, Goto, Uses
  <2>5. LockHeld'
    BY <1>6, Locks
    DEF IInv, TypeOK, LockHeld, Inside, Entering, Delete, Dispose, Enter, Goto, Uses
  <2>6. UsesAlive' /\ GCHeld' /\ NotStale'
    BY <1>6, <2>1, Locks
    DEF IInv, TypeOK, UsesAlive, OneDisposer, Disposing, Delete, Dispose, Enter, Goto,
       Uses, GCHeld, NotStale
  <2>7. OneDisposer'
    BY <1>6, <2>1, Locks
    DEF IInv, TypeOK, OneDisposer, Disposing, UsesAlive, Delete, Dispose, Enter, Goto,
       Uses
  <2>8. ArgOwned'
    BY <1>6, <2>1, ArgOwnedSame DEF IInv, Delete
  <2>9. ListsEmpty'
    BY <1>6, <2>1, <2>2, Locks
    DEF IInv, TypeOK, ListsEmpty, OneDisposer, Disposing, UsesAlive, LockHeld, Inside,
       Delete, Dispose, Enter, Goto, Uses
  <2>10. Fresh'
    BY <1>6, <2>1, <2>2, Locks
    DEF IInv, TypeOK, Fresh, ArgOwned, Delete, Dispose, Enter, Goto, Uses
  <2>11. SetListed' /\ DetachPending'
    BY <1>6, <2>1, <2>2, SetListedSame, DetachPendingSame DEF IInv, TypeOK, Delete
  <2>12. NotDangling'
    BY <1>6, <2>1, <2>2, Locks
    DEF IInv, TypeOK, NotDangling, Clean, ArgOwned, OneDisposer, Disposing, GCHeld,
       Delete, Dispose, Enter, Goto, Uses
  <2> QED
    BY <2>3, <2>4, <2>5, <2>6, <2>7, <2>8, <2>9, <2>10, <2>11, <2>12 DEF IInv
<1>7. ASSUME NEW t \in Threads, Collect(t) PROVE IInv'
  <2>1. /\ Doing(t) = "idle" /\ Doing(t)' \in {"take", "release", "end"}
        /\ Doing(t)' # "take" => devt = <<>>
        /\ \A u \in Threads : u # t => Doing(u)' = Doing(u)
    BY <1>7
    DEF IInv, TypeOK, Entering, Doing, Collect, Collector, Dispose, Enter, Goto,
       ListsEmpty
  <2>2. \A w \in Pointers : Listed(w)' <=> Listed(w)
    BY <1>7 DEF Listed, InList, Collect, Collector, Dispose, Enter, Goto
  <2>3. TypeOK'
    <3>1. obj' = "collecting" /\ gcOwner' \in Threads \cup {Null}
      BY <1>7 DEF IInv, TypeOK, Collect, Collector
    <3>2. PICK l \in {"end", "release", "enter"} : pc' = [pc EXCEPT ![t] = l]
      BY <1>7 DEF Collect, Dispose, Enter, Goto
    <3>3. then' = then \/ then' = [then EXCEPT ![t] = "take"]
      BY <1>7 DEF Collect, Dispose, Enter
    <3>4. /\ pc' \in [Threads -> Pcs]
          /\ then' \in [Threads -> {"idle", "body", "attach", "detach", "take"}]
      BY <3>2, <3>3 DEF IInv, TypeOK, Pcs
    <3> QED
      BY <1>7, <3>1, <3>4, GrownSame DEF IInv, TypeOK, Collect
  <2>4. Entering'
    BY <1>7, Locks DEF IInv, TypeOK, Entering, Collect, Collector, Dispose, Enter, Goto
  <2>5. LockHeld'
    BY <1>7, Locks
    DEF IInv, TypeOK, LockHeld, Inside, Entering, Collect, Collector, Dispose, Enter,
       Goto
  <2>6. UsesAlive' /\ GCHeld' /\ NotStale'
    BY <1>7, <2>1, Locks
    DEF IInv, TypeOK, UsesAlive, OneDisposer, Disposing, Collect, Collector, Dispose,
       Enter, Goto, GCHeld, NotStale
  <2>7. OneDisposer'
    BY <1>7, <2>1, Locks
    DEF IInv, TypeOK, OneDisposer, Disposing, UsesAlive, Collect, Collector, Dispose,
       Enter, Goto
  <2>8. ArgOwned'
    BY <1>7, <2>1, ArgOwnedSame DEF IInv, Collect
  <2>9. ListsEmpty'
    BY <1>7, <2>1, <2>2, Locks
    DEF IInv, TypeOK, ListsEmpty, OneDisposer, Disposing, UsesAlive, LockHeld, Inside,
       Collect, Collector, Dispose, Enter, Goto
  <2>10. Fresh'
    BY <1>7, <2>1, <2>2, Locks
    DEF IInv, TypeOK, Fresh, ArgOwned, Collect, Collector, Dispose, Enter, Goto
  <2>11. SetListed' /\ DetachPending'
    BY <1>7, <2>1, <2>2, SetListedSame, DetachPendingSame DEF IInv, TypeOK, Collect
  <2>12. NotDangling'
    <3>1. ASSUME NEW u \in Threads, Doing(u)' \in {"unlockGC", "free"}
          PROVE  /\ arg'[u] = arg[u] /\ arg[u] \in Pointers
                 /\ Doing(u) \in {"unlockGC", "free"} \/ wp[arg[u]] \in {"null", "freed"}
      BY <1>7, <2>1, <3>1 DEF IInv, TypeOK, ArgOwned, Collect
    <3>2. UNCHANGED <<wp, devt, events, dangling>> /\ (Clean' => Clean)
      BY <1>7 DEF Clean, Collect
    <3>3. AllOnce => AllOnce'
      BY <3>2 DEF AllOnce
    <3> QED
      BY <2>2, <3>1, <3>2, <3>3, NotDanglingSame DEF IInv
  <2> QED
    BY <2>3, <2>4, <2>5, <2>6, <2>7, <2>8, <2>9, <2>10, <2>11, <2>12 DEF IInv
<1>8. ASSUME NEW t \in Threads, Allocate(t) PROVE IInv'
  <2>1. /\ Doing(t) = "body" /\ Doing(t)' = "malloc"
        /\ \A u \in Threads : u # t => Doing(u)' = Doing(u)
    BY <1>8 DEF IInv, TypeOK, Entering, Doing, Allocate, Goto
  <2>2. \A w \in Pointers : Listed(w)' <=> Listed(w)
    BY <1>8 DEF Listed, InList, Allocate, Goto
  <2>3. TypeOK'
    BY <1>8, GrownSame, Locks DEF IInv, TypeOK, Pcs, Allocate, Goto
  <2>4. Entering' /\ LockHeld'
    BY <1>8, Locks DEF IInv, TypeOK, Entering, Allocate, Goto, LockHeld, Inside
  <2>5. UsesAlive' /\ GCHeld' /\ NotStale'
    BY <1>8, <2>1, Locks
    DEF IInv, TypeOK, UsesAlive, OneDisposer, Disposing, Allocate, Goto, GCHeld,
       NotStale
  <2>6. OneDisposer'
    BY <1>8, <2>1, OneDisposerSame DEF IInv, Disposing, Allocate
  <2>7. ArgOwned'
    BY <1>8, <2>1, ArgOwnedSame DEF IInv, Allocate
  <2>8. ListsEmpty'
    BY <1>8, <2>1, <2>2, Locks
    DEF IInv, TypeOK, ListsEmpty, OneDisposer, Disposing, UsesAlive, LockHeld, Inside,
       Allocate, Goto
  <2>9. Fresh'
    BY <1>8, <2>1, <2>2, Locks DEF IInv, TypeOK, Fresh, ArgOwned, Allocate, Goto
  <2>10. SetListed' /\ DetachPending'
    BY <1>8, <2>1, <2>2, SetListedSame, DetachPendingSame DEF IInv, TypeOK, Allocate
  <2>11. NotDangling'
    <3>1. ASSUME NEW u \in Threads, Doing(u)' \in {"unlockGC", "free"}
          PROVE  /\ arg'[u] = arg[u] /\ arg[u] \in Pointers
                 /\ Doing(u) \in {"unlockGC", "free"} \/ wp[arg[u]] \in {"null", "freed"}
      BY <1>8, <2>1, <3>1 DEF IInv, TypeOK, ArgOwned, Allocate
    <3>2. UNCHANGED <<wp, devt, events, dangling>> /\ (Clean' => Clean)
      BY <1>8 DEF Clean, Allocate
    <3>3. AllOnce => AllOnce'
      BY <3>2 DEF AllOnce
    <3> QED
      BY <2>2, <3>1, <3>2, <3>3, NotDanglingSame DEF IInv
  <2> QED
    BY <2>3, <2>4, <2>5, <2>6, <2>7, <2>8, <2>9, <2>10, <2>11 DEF IInv
<1>9. ASSUME NEW t \in Threads, ReadMonitor(t) PROVE IInv'
  <2>1. /\ \A u \in Threads : Doing(u)' = Doing(u)
    BY <1>9 DEF IInv, TypeOK, Entering, Doing, ReadMonitor, Goto
  <2>2. \A w \in Pointers : Listed(w)' <=> Listed(w)
    BY <1>9 DEF Listed, InList, ReadMonitor, Goto
  <2>3. TypeOK'
    BY <1>9, GrownSame, Locks DEF IInv, TypeOK, Pcs, ReadMonitor, Goto
  <2>4. Entering' /\ LockHeld'
    BY <1>9, Locks DEF IInv, TypeOK, Entering, ReadMonitor, Goto, LockHeld, Inside
  <2>5. UsesAlive' /\ GCHeld' /\ NotStale'
    BY <1>9, <2>1, Locks
    DEF IInv, TypeOK, UsesAlive, OneDisposer, Disposing, ReadMonitor, Goto, GCHeld,
       NotStale
  <2>6. OneDisposer'
    BY <1>9, <2>1, OneDisposerSame DEF IInv, Disposing, ReadMonitor
  <2>7. ArgOwned'
    BY <1>9, <2>1, ArgOwnedSame DEF IInv, ReadMonitor
  <2>8. ListsEmpty'
    BY <1>9, <2>1, <2>2, Locks
    DEF IInv, TypeOK, ListsEmpty, OneDisposer, Disposing, UsesAlive, LockHeld, Inside,
       ReadMonitor, Goto
  <2>9. Fresh'
    BY <1>9, <2>1, <2>2, Locks DEF IInv, TypeOK, Fresh, ArgOwned, ReadMonitor, Goto
  <2>10. SetListed' /\ DetachPending'
    BY <1>9, <2>1, <2>2, SetListedSame, DetachPendingSame DEF IInv, TypeOK, ReadMonitor
  <2>11. NotDangling'
    BY <1>9, <2>1, <2>2, Locks
    DEF IInv, TypeOK, NotDangling, Clean, ArgOwned, OneDisposer, Disposing, GCHeld,
       ReadMonitor, Goto
  <2> QED
    BY <2>3, <2>4, <2>5, <2>6, <2>7, <2>8, <2>9, <2>10, <2>11 DEF IInv
<1>10. ASSUME NEW t \in Threads, CreateMonitor(t) PROVE IInv'
  <2>1. /\ \A u \in Threads : Doing(u)' = Doing(u)
    BY <1>10 DEF IInv, TypeOK, Entering, Doing, CreateMonitor, Created, Goto
  <2>2. \A w \in Pointers : Listed(w)' <=> Listed(w)
    BY <1>10 DEF Listed, InList, CreateMonitor, Created, Goto
  <2>3. TypeOK'
    BY <1>10, GrownSame, Locks DEF IInv, TypeOK, Pcs, CreateMonitor, Created, Goto
  <2>4. Entering' /\ LockHeld'
    BY <1>10, Locks
    DEF IInv, TypeOK, Entering, CreateMonitor, Created, Goto, LockHeld, Inside
  <2>5. UsesAlive' /\ GCHeld' /\ NotStale'
    BY <1>10, <2>1, Locks
    DEF IInv, TypeOK, UsesAlive, OneDisposer, Disposing, CreateMonitor, Created, Goto,
       GCHeld, NotStale
  <2>6. OneDisposer'
    BY <1>10, <2>1, OneDisposerSame DEF IInv, Disposing, CreateMonitor
  <2>7. ArgOwned'
    BY <1>10, <2>1, ArgOwnedSame DEF IInv, CreateMonitor
  <2>8. ListsEmpty'
    BY <1>10, <2>1, <2>2, Locks
    DEF IInv, TypeOK, ListsEmpty, OneDisposer, Disposing, UsesAlive, LockHeld, Inside,
       CreateMonitor, Created, Goto
  <2>9. Fresh'
    BY <1>10, <2>1, <2>2, Locks
    DEF IInv, TypeOK, Fresh, ArgOwned, CreateMonitor, Created, Goto
  <2>10. SetListed' /\ DetachPending'
    BY <1>10, <2>1, <2>2, SetListedSame, DetachPendingSame DEF IInv, TypeOK, CreateMonitor
  <2>11. NotDangling'
    BY <1>10, <2>1, <2>2, Locks
    DEF IInv, TypeOK, NotDangling, Clean, ArgOwned, OneDisposer, Disposing, GCHeld,
       CreateMonitor, Created, Goto
  <2> QED
    BY <2>3, <2>4, <2>5, <2>6, <2>7, <2>8, <2>9, <2>10, <2>11 DEF IInv
<1>11. ASSUME NEW t \in Threads, LockMonitor(t) PROVE IInv'
  <2>1. /\ \A u \in Threads : Doing(u)' = Doing(u)
    BY <1>11 DEF IInv, TypeOK, Entering, Doing, LockMonitor, Goto
  <2>2. \A w \in Pointers : Listed(w)' <=> Listed(w)
    BY <1>11 DEF Listed, InList, LockMonitor, Goto
  <2>3. TypeOK'
    BY <1>11, GrownSame, Locks DEF IInv, TypeOK, Pcs, LockMonitor, Goto
  <2>4. Entering' /\ LockHeld'
    BY <1>11, Locks DEF IInv, TypeOK, Entering, LockMonitor, Goto, LockHeld, Inside
  <2>5. UsesAlive' /\ GCHeld' /\ NotStale'
    BY <1>11, <2>1, Locks
    DEF IInv, TypeOK, UsesAlive, OneDisposer, Disposing, LockMonitor, Goto, GCHeld,
       NotStale
  <2>6. OneDisposer'
    BY <1>11, <2>1, OneDisposerSame DEF IInv, Disposing, LockMonitor
  <2>7. ArgOwned'
    BY <1>11, <2>1, ArgOwnedSame DEF IInv, LockMonitor
  <2>8. ListsEmpty'
    BY <1>11, <2>1, <2>2, Locks
    DEF IInv, TypeOK, ListsEmpty, OneDisposer, Disposing, UsesAlive, LockHeld, Inside,
       LockMonitor, Goto
  <2>9. Fresh'
    BY <1>11, <2>1, <2>2, Locks DEF IInv, TypeOK, Fresh, ArgOwned, LockMonitor, Goto
  <2>10. SetListed' /\ DetachPending'
    BY <1>11, <2>1, <2>2, SetListedSame, DetachPendingSame DEF IInv, TypeOK, LockMonitor
  <2>11. NotDangling'
    BY <1>11, <2>1, <2>2, Locks
    DEF IInv, TypeOK, NotDangling, Clean, ArgOwned, OneDisposer, Disposing, GCHeld,
       LockMonitor, Goto
  <2> QED
    BY <2>3, <2>4, <2>5, <2>6, <2>7, <2>8, <2>9, <2>10, <2>11 DEF IInv
<1>12. ASSUME NEW t \in Threads, Malloc(t) PROVE IInv'
  <2>1. /\ Doing(t) = "malloc" /\ Doing(t)' = "leave"
        /\ \A u \in Threads : u # t => Doing(u)' = Doing(u)
    BY <1>12 DEF IInv, TypeOK, Entering, Doing, Malloc, Goto
  <2>2. \A w \in Pointers : Listed(w)' <=> Listed(w)
    BY <1>12 DEF Listed, InList, Malloc, Goto
  <2>3. TypeOK'
    BY <1>12, GrownSame, Locks DEF IInv, TypeOK, Pcs, Malloc, Goto
  <2>4. Entering' /\ LockHeld'
    BY <1>12, Locks DEF IInv, TypeOK, Entering, Malloc, Goto, LockHeld, Inside
  <2>5. UsesAlive' /\ GCHeld' /\ NotStale'
    BY <1>12, <2>1, Locks
    DEF IInv, TypeOK, UsesAlive, OneDisposer, Disposing, Malloc, Goto, GCHeld, NotStale
  <2>6. OneDisposer'
    BY <1>12, <2>1, OneDisposerSame DEF IInv, Disposing, Malloc
  <2>7. ArgOwned'
    BY <1>12, <2>1, ArgOwnedSame DEF IInv, Malloc
  <2>8. ListsEmpty'
    BY <1>12, <2>1, <2>2, Locks
    DEF IInv, TypeOK, ListsEmpty, OneDisposer, Disposing, UsesAlive, LockHeld, Inside,
       Malloc, Goto
  <2>9. Fresh'
    BY <1>12, <2>1, <2>2, Locks DEF IInv, TypeOK, Fresh, ArgOwned, Malloc, Goto
  <2>10. SetListed' /\ DetachPending'
    BY <1>12, <2>1, <2>2, SetListedSame, DetachPendingSame DEF IInv, TypeOK, Malloc
  <2>11. NotDangling'
    <3>1. ASSUME NEW u \in Threads, Doing(u)' \in {"unlockGC", "free"}
          PROVE  /\ arg'[u] = arg[u] /\ arg[u] \in Pointers
                 /\ Doing(u) \in {"unlockGC", "free"} \/ wp[arg[u]] \in {"null", "freed"}
      BY <1>12, <2>1, <3>1 DEF IInv, TypeOK, ArgOwned, Malloc
    <3>2. UNCHANGED <<wp, devt, events, dangling>> /\ (Clean' => Clean)
      BY <1>12 DEF Clean, Malloc
    <3>3. AllOnce => AllOnce'
      BY <3>2 DEF AllOnce
    <3> QED
      BY <2>2, <3>1, <3>2, <3>3, NotDanglingSame DEF IInv
  <2> QED
    BY <2>3, <2>4, <2>5, <2>6, <2>7, <2>8, <2>9, <2>10, <2>11 DEF IInv
<1>13. ASSUME NEW t \in Threads, Leave(t) PROVE IInv'
  <2>1. /\ Doing(t) \in {"body", "leave"} /\ Doing(t)' = "idle"
        /\ \A u \in Threads : u # t => Doing(u)' = Doing(u)
    BY <1>13 DEF IInv, TypeOK, Entering, Doing, Leave, Exit, Goto
  <2>2. \A w \in Pointers : Listed(w)' <=> Listed(w)
    BY <1>13 DEF Listed, InList, Leave, Exit, Goto
  <2>3. TypeOK'
    BY <1>13, GrownSame, Locks DEF IInv, TypeOK, Pcs, Leave, Exit, Goto
  <2>4. Entering' /\ LockHeld'
    BY <1>13, Locks DEF IInv, TypeOK, Entering, Leave, Exit, Goto, LockHeld, Inside
  <2>5. UsesAlive' /\ GCHeld' /\ NotStale'
    BY <1>13, <2>1, Locks
    DEF IInv, TypeOK, UsesAlive, OneDisposer, Disposing, Leave, Exit, Goto, GCHeld,
       NotStale
  <2>6. OneDisposer'
    BY <1>13, <2>1, OneDisposerSame DEF IInv, Disposing, Leave
  <2>7. ArgOwned'
    BY <1>13, <2>1, ArgOwnedSame DEF IInv, Leave
  <2>8. ListsEmpty'
    BY <1>13, <2>1, <2>2, Locks
    DEF IInv, TypeOK, ListsEmpty, OneDisposer, Disposing, UsesAlive, LockHeld, Inside,
       Leave, Exit, Goto
  <2>9. Fresh'
    BY <1>13, <2>1, <2>2, Locks DEF IInv, TypeOK, Fresh, ArgOwned, Leave, Exit, Goto
  <2>10. SetListed' /\ DetachPending'
    BY <1>13, <2>1, <2>2, SetListedSame, DetachPendingSame DEF IInv, TypeOK, Leave
  <2>11. NotDangling'
    <3>1. ASSUME NEW u \in Threads, Doing(u)' \in {"unlockGC", "free"}
          PROVE  /\ arg'[u] = arg[u] /\ arg[u] \in Pointers
                 /\ Doing(u) \in {"unlockGC", "free"} \/ wp[arg[u]] \in {"null", "freed"}
      BY <1>13, <2>1, <3>1 DEF IInv, TypeOK, ArgOwned, Leave
    <3>2. UNCHANGED <<wp, devt, events, dangling>> /\ (Clean' => Clean)
      BY <1>13 DEF Clean, Leave
    <3>3. AllOnce => AllOnce'
      BY <3>2 DEF AllOnce
    <3> QED
      BY <2>2, <3>1, <3>2, <3>3, NotDanglingSame DEF IInv
  <2> QED
    BY <2>3, <2>4, <2>5, <2>6, <2>7, <2>8, <2>9, <2>10, <2>11 DEF IInv
<1>14. ASSUME NEW t \in Threads, AttachDisposeEvent(t) PROVE IInv'
  <2>1. /\ Doing(t) = "attach" /\ Doing(t)' = "idle"
        /\ \A u \in Threads : u # t => Doing(u)' = Doing(u)
    BY <1>14 DEF IInv, TypeOK, Entering, Doing, AttachDisposeEvent, Exit, Goto
  <2>2. arg[t] \in Pointers /\ \A w \in Pointers : Listed(w)' <=> Listed(w) \/ w = arg[t]
    <3>1. arg[t] \in Pointers
      BY <2>1 DEF IInv, TypeOK, ArgOwned
    <3>2. \A w \in Pointers : InList(w, devt') <=> InList(w, devt) \/ w = arg[t]
      BY <1>14, <3>1, AttachedList DEF IInv, AttachDisposeEvent
    <3> QED
      BY <1>14, <3>1, <3>2 DEF Listed, InList, AttachDisposeEvent
  <2>3. TypeOK'
    <3>1. devt' \in Seq(Pointers \cup {Null}) /\ Grown'
      BY <1>14, <2>2, AttachedList DEF IInv, AttachDisposeEvent, Slots, Grown
    <3> QED
      BY <1>14, <3>1 DEF IInv, TypeOK, Pcs, AttachDisposeEvent, Exit, Goto
  <2>4. Entering' /\ LockHeld'
    BY <1>14, Locks
    DEF IInv, TypeOK, Entering, AttachDisposeEvent, Exit, Goto, LockHeld, Inside
  <2>5. UsesAlive' /\ GCHeld' /\ NotStale'
    BY <1>14, <2>1, Locks
    DEF IInv, TypeOK, UsesAlive, OneDisposer, Disposing, AttachDisposeEvent, Exit, Goto,
       GCHeld, NotStale
  <2>6. OneDisposer'
    BY <1>14, <2>1, OneDisposerSame DEF IInv, Disposing, AttachDisposeEvent
  <2>7. ArgOwned'
    BY <1>14, <2>1, Locks
    DEF IInv, TypeOK, ArgOwned, UsesAlive, OneDisposer, Disposing, AttachDisposeEvent,
       Exit, Goto
  <2>8. ListsEmpty'
    BY <1>14, <2>1, <2>2, Locks
    DEF IInv, TypeOK, ListsEmpty, OneDisposer, Disposing, UsesAlive, LockHeld, Inside,
       AttachDisposeEvent, Exit, Goto
  <2>9. Fresh'
    BY <1>14, <2>1, <2>2, Locks
    DEF IInv, TypeOK, Fresh, ArgOwned, AttachDisposeEvent, Exit, Goto
  <2>10. SetListed'
    <3> SUFFICES ASSUME NEW w \in Pointers, wp[w] = "set", ~Listed(w), w # arg[t]
                 PROVE  \E u \in Threads :
                            arg'[u] = w /\ Doing(u)' \in {"attach", "unlockGC", "free"}
      BY <1>14, <2>2 DEF SetListed, AttachDisposeEvent
    <3>1. PICK u \in Threads : arg[u] = w /\ Doing(u) \in {"attach", "unlockGC", "free"}
      BY DEF IInv, SetListed
    <3> QED
      BY <1>14, <2>1, <3>1 DEF IInv, TypeOK, AttachDisposeEvent
  <2>11. DetachPending'
    BY <1>14, <2>1, <2>2, DetachPendingSame DEF IInv, TypeOK, AttachDisposeEvent
  <2>12. NotDangling'
    <3>1. /\ wp[arg[t]] = "set" /\ wp' = wp /\ Clean' = Clean /\ dangling' = dangling
          /\ ~Listed(arg[t])
      BY <1>14, <2>1, <2>2 DEF IInv, ArgOwned, Fresh, Clean, AttachDisposeEvent
    <3>2. AllOnce => AllOnce'
      <4>1. ~InList(arg[t], devt)
        BY <3>1 DEF Listed
      <4> QED
        BY <1>14, <2>2, <4>1, AttachedList DEF IInv, AllOnce, AttachDisposeEvent
    <3>3. ASSUME NEW u \in Threads, Doing(u)' \in {"unlockGC", "free"}
          PROVE  /\ Doing(u) \in {"unlockGC", "free"} /\ arg'[u] = arg[u]
                 /\ arg[u] \in Pointers /\ arg[u] # arg[t]
      BY <1>14, <2>1, <2>2, <3>3 DEF IInv, TypeOK, ArgOwned, AttachDisposeEvent
    <3> QED
      BY <2>2, <3>1, <3>2, <3>3, NotDanglingSame DEF IInv
  <2> QED
    BY <2>3, <2>4, <2>5, <2>6, <2>7, <2>8, <2>9, <2>10, <2>11, <2>12 DEF IInv
<1>15. ASSUME NEW t \in Threads, TestReference(t) PROVE IInv'
  <2>1. /\ Doing(t) = "destroy" /\ Doing(t)' \in {"detach", "unlockGC"}
        /\ (Doing(t)' = "detach" <=> wp[arg[t]] = "set")
        /\ \A u \in Threads : u # t => Doing(u)' = Doing(u)
    BY <1>15 DEF IInv, TypeOK, Entering, Doing, TestReference, MustDetach, Enter, Goto
  <2>2. \A w \in Pointers : Listed(w)' <=> Listed(w)
    BY <1>15 DEF Listed, InList, TestReference, MustDetach, Enter, Goto
  <2>3. TypeOK'
    <3>1. pc' = [pc EXCEPT ![t] = "enter"] \/ pc' = [pc EXCEPT ![t] = "unlockGC"]
      BY <1>15 DEF TestReference, Enter, Goto
    <3>2. then' = then \/ then' = [then EXCEPT ![t] = "detach"]
      BY <1>15 DEF TestReference, Enter
    <3>3. /\ pc' \in [Threads -> Pcs]
          /\ then' \in [Threads -> {"idle", "body", "attach", "detach", "take"}]
      BY <3>1, <3>2 DEF IInv, TypeOK, Pcs
    <3> QED
      BY <1>15, <3>3, GrownSame DEF IInv, TypeOK, TestReference
  <2>4. Entering'
    <3>1. \/ pc' = [pc EXCEPT ![t] = "enter"] /\ then' = [then EXCEPT ![t] = "detach"]
          \/ pc' = [pc EXCEPT ![t] = "unlockGC"] /\ then' = then
      BY <1>15 DEF TestReference, Enter, Goto
    <3> QED
      BY <3>1 DEF IInv, TypeOK, Entering
  <2>5. LockHeld'
    BY <1>15, Locks
    DEF IInv, TypeOK, LockHeld, Inside, Entering, TestReference, Enter, Goto, MustDetach
  <2>6. UsesAlive' /\ GCHeld' /\ NotStale'
    BY <1>15, <2>1, Locks
    DEF IInv, TypeOK, UsesAlive, OneDisposer, Disposing, TestReference, Enter, Goto,
       MustDetach, GCHeld, NotStale
  <2>7. OneDisposer'
    BY <1>15, <2>1, OneDisposerSame DEF IInv, Disposing, TestReference
  <2>8. ArgOwned'
    BY <1>15, <2>1, ArgOwnedSame DEF IInv, TestReference
  <2>9. ListsEmpty'
    BY <1>15, <2>1, <2>2, Locks
    DEF IInv, TypeOK, ListsEmpty, OneDisposer, Disposing, UsesAlive, LockHeld, Inside,
       TestReference, Enter, Goto, MustDetach
  <2>10. Fresh'
    BY <1>15, <2>1, <2>2, Locks
    DEF IInv, TypeOK, Fresh, ArgOwned, TestReference, Enter, Goto, MustDetach
  <2>11. SetListed'
    BY <1>15, <2>1, <2>2, SetListedSame DEF IInv, TypeOK, TestReference
  <2>12. DetachPending'
    <3> SUFFICES ASSUME NEW u \in Threads, Doing(u)' = "detach" PROVE Listed(arg[u])'
      BY DEF DetachPending
    <3>1. arg' = arg /\ arg[u] \in Pointers
      BY <1>15, <2>1 DEF IInv, TypeOK, ArgOwned, TestReference
    <3>2. CASE u = t
      <4>1. wp[arg[t]] = "set"
        BY <2>1, <3>2
      <4>2. Listed(arg[t])
        BY <2>1, <3>1, <3>2, <4>1 DEF IInv, SetListed, ArgOwned
      <4> QED
        BY <2>2, <3>1, <3>2, <4>2
    <3>3. CASE u # t
      BY <2>1, <2>2, <3>1, <3>3 DEF IInv, DetachPending
    <3> QED
      BY <3>2, <3>3
  <2>13. NotDangling'
    <3>1. ASSUME NEW u \in Threads, Doing(u)' \in {"unlockGC", "free"}
          PROVE  /\ arg'[u] = arg[u] /\ arg[u] \in Pointers
                 /\ Doing(u) \in {"unlockGC", "free"} \/ wp[arg[u]] \in {"null", "freed"}
      BY <1>15, <2>1, <3>1 DEF IInv, TypeOK, ArgOwned, TestReference
    <3>2. UNCHANGED <<wp, devt, events, dangling>> /\ (Clean' => Clean)
      BY <1>15 DEF Clean, TestReference
    <3>3. AllOnce => AllOnce'
      BY <3>2 DEF AllOnce
    <3> QED
      BY <2>2, <3>1, <3>2, <3>3, NotDanglingSame DEF IInv
  <2> QED
    BY <2>3, <2>4, <2>5, <2>6, <2>7, <2>8, <2>9, <2>10, <2>11, <2>12, <2>13 DEF IInv
<1>16. ASSUME NEW t \in Threads, DetachDisposeEvent(t) PROVE IInv'
  <2>1. /\ Doing(t) = "detach" /\ Doing(t)' = "unlockGC"
        /\ \A u \in Threads : u # t => Doing(u)' = Doing(u)
    BY <1>16 DEF IInv, TypeOK, Entering, Doing, DetachDisposeEvent, Exit, Goto
  <2> DEFINE at == {i \in 1..Len(devt) : devt[i] = arg[t]}
  <2>0. /\ arg[t] \in Pointers
        /\ at # {} => Least(at) \in 1..Len(devt) /\ devt[Least(at)] = arg[t]
    <3>1. at \in SUBSET Nat
      OBVIOUS
    <3>2. at # {} => Least(at) \in at
      BY <3>1, LeastExists
    <3> QED
      BY <2>1, <3>2 DEF IInv, TypeOK, ArgOwned
  <2>2. \A w \in Pointers : /\ Listed(w)' => Listed(w)
                            /\ w # arg[t] /\ Listed(w) => Listed(w)'
    <3>1. CASE at = {}
      BY <1>16, <3>1 DEF Listed, InList, DetachDisposeEvent
    <3>2. CASE at # {}
      <4>1. devt' = Removed(Least(at))
        BY <1>16, <3>2 DEF DetachDisposeEvent
      <4>2. \A w \in Pointers : /\ InList(w, devt') => InList(w, devt)
                                /\ w # arg[t] /\ InList(w, devt) => InList(w, devt')
        BY <2>0, <3>2, <4>1, RemovedList DEF IInv
      <4>3. events' = events
        BY <1>16 DEF DetachDisposeEvent
      <4> QED
        BY <4>2, <4>3 DEF Listed
    <3> QED
      BY <3>1, <3>2
  <2>3. TypeOK'
    <3>1. devt' \in Seq(Pointers \cup {Null}) /\ Grown'
      <4>1. CASE at = {}
        BY <1>16, <4>1, GrownSame DEF IInv, TypeOK, DetachDisposeEvent
      <4>2. CASE at # {}
        <5>1. devt' = Removed(Least(at))
          BY <1>16, <4>2 DEF DetachDisposeEvent
        <5>2. devt' \in Seq(Slots) /\ Len(devt') = Len(devt)
          BY <2>0, <4>2, <5>1, RemovedList DEF IInv
        <5> QED
          BY <5>2 DEF IInv, TypeOK, Grown, Slots
      <4> QED
        BY <4>1, <4>2
    <3>2. crowded' \in BOOLEAN
      BY <1>16 DEF IInv, TypeOK, DetachDisposeEvent
    <3> QED
      BY <1>16, <3>1, <3>2 DEF IInv, TypeOK, Pcs, DetachDisposeEvent, Exit, Goto
  <2>4. Entering' /\ LockHeld'
    BY <1>16, Locks
    DEF IInv, TypeOK, Entering, DetachDisposeEvent, Exit, Goto, LockHeld, Inside
  <2>5. UsesAlive' /\ GCHeld' /\ NotStale'
    BY <1>16, <2>1, Locks
    DEF IInv, TypeOK, UsesAlive, OneDisposer, Disposing, DetachDisposeEvent, Exit, Goto,
       GCHeld, NotStale
  <2>6. OneDisposer'
    BY <1>16, <2>1, OneDisposerSame DEF IInv, Disposing, DetachDisposeEvent
  <2>7. ArgOwned'
    BY <1>16, <2>1, ArgOwnedSame DEF IInv, DetachDisposeEvent
  <2>8. ListsEmpty'
    BY <1>16, <2>1, <2>2, Locks
    DEF IInv, TypeOK, ListsEmpty, OneDisposer, Disposing, UsesAlive, LockHeld, Inside,
       DetachDisposeEvent, Exit, Goto
  <2>9. Fresh'
    BY <1>16, <2>1, <2>2, Locks
    DEF IInv, TypeOK, Fresh, ArgOwned, DetachDisposeEvent, Exit, Goto
  <2>10. SetListed'
    <3> SUFFICES ASSUME NEW w \in Pointers, wp[w] = "set", ~Listed(w)'
                 PROVE  \E u \in Threads :
                            arg[u] = w /\ Doing(u)' \in {"attach", "unlockGC", "free"}
      BY <1>16 DEF SetListed, DetachDisposeEvent
    <3>1. CASE w = arg[t]
      BY <2>1, <3>1
    <3>2. CASE w # arg[t]
      <4>1. PICK u \in Threads : arg[u] = w /\ Doing(u) \in {"attach", "unlockGC", "free"}
        BY <2>2, <3>2 DEF IInv, SetListed
      <4> QED
        BY <2>1, <4>1
    <3> QED
      BY <3>1, <3>2
  <2>11. DetachPending'
    <3>1. \A u \in Threads : Doing(u)' # "detach"
      BY <2>1 DEF IInv, GCHeld
    <3> QED
      BY <3>1 DEF DetachPending
  <2>12. NotDangling'
    <3>0. arg' = arg /\ wp' = wp /\ events' = events /\ dangling' = dangling
      BY <1>16 DEF DetachDisposeEvent
    <3>1. Clean' => Clean /\ (at = {} \/ devt[Len(devt)] = Null)
      BY <1>16 DEF Clean, DetachDisposeEvent
    <3>2. ASSUME Clean, NEW u \in Threads PROVE events[u] = <<>>
      <4>1. pc[u] = "call" => Disposing(u)
        BY DEF Disposing, Doing
      <4>2. ~Disposing(u)
        BY <2>1, <3>2 DEF IInv, OneDisposer, GCHeld, Clean, Disposing
      <4> QED
        BY <4>1, <4>2 DEF IInv, ListsEmpty
    <3>3. ASSUME Clean', AllOnce PROVE Once(devt') /\ ~InList(arg[t], devt')
      <4>1. CASE at = {}
        BY <1>16, <3>3, <4>1 DEF AllOnce, InList, DetachDisposeEvent
      <4>2. CASE at # {}
        <5>1. devt' = Removed(Least(at))
          BY <1>16, <4>2 DEF DetachDisposeEvent
        <5> QED
          BY <2>0, <3>1, <3>3, <4>2, <5>1, RemovedList DEF IInv, AllOnce
      <4> QED
        BY <4>1, <4>2
    <3>4. Clean' /\ AllOnce => AllOnce'
      BY <3>0, <3>3 DEF AllOnce, Once
    <3>5. Clean' => ~Listed(arg[t])'
      <4> SUFFICES ASSUME Clean' PROVE ~Listed(arg[t])'
        OBVIOUS
      <4>1. AllOnce /\ \A u \in Threads : events[u] = <<>>
        BY <3>1, <3>2 DEF IInv, NotDangling, AllOnce
      <4>2. ~InList(arg[t], devt')
        BY <3>3, <4>1
      <4> QED
        BY <3>0, <4>1, <4>2 DEF Listed, InList
    <3>6. ASSUME NEW u \in Threads, u # t, Doing(u)' \in {"unlockGC", "free"}
          PROVE  Doing(u) \in {"unlockGC", "free"} /\ arg[u] \in Pointers
      BY <2>1, <3>6 DEF IInv, TypeOK, ArgOwned
    <3> QED
      BY <2>2, <3>0, <3>1, <3>4, <3>5, <3>6, NotDanglingSame DEF IInv
  <2> QED
    BY <2>3, <2>4, <2>5, <2>6, <2>7, <2>8, <2>9, <2>10, <2>11, <2>12 DEF IInv
<1>17. ASSUME NEW t \in Threads, UnlockGC(t) PROVE IInv'
  <2>1. /\ Doing(t) = "unlockGC" /\ Doing(t)' = "free"
        /\ \A u \in Threads : u # t => Doing(u)' = Doing(u)
    BY <1>17 DEF IInv, TypeOK, Entering, Doing, UnlockGC, AfterUnlock, Goto
  <2>2. \A w \in Pointers : Listed(w)' <=> Listed(w)
    BY <1>17 DEF Listed, InList, UnlockGC, AfterUnlock, Goto
  <2>3. TypeOK'
    BY <1>17, GrownSame, Locks DEF IInv, TypeOK, Pcs, UnlockGC, AfterUnlock, Goto
  <2>4. Entering' /\ LockHeld'
    BY <1>17, Locks
    DEF IInv, TypeOK, Entering, UnlockGC, AfterUnlock, Goto, LockHeld, Inside
  <2>5. UsesAlive' /\ GCHeld' /\ NotStale'
    BY <1>17, <2>1, Locks
    DEF IInv, TypeOK, UsesAlive, OneDisposer, Disposing, UnlockGC, AfterUnlock, Goto,
       GCHeld, NotStale
  <2>6. OneDisposer'
    BY <1>17, <2>1, OneDisposerSame DEF IInv, Disposing, UnlockGC
  <2>7. ArgOwned'
    BY <1>17, <2>1, ArgOwnedSame DEF IInv, UnlockGC
  <2>8. ListsEmpty'
    BY <1>17, <2>1, <2>2, Locks
    DEF IInv, TypeOK, ListsEmpty, OneDisposer, Disposing, UsesAlive, LockHeld, Inside,
       UnlockGC, AfterUnlock, Goto
  <2>9. Fresh'
    BY <1>17, <2>1, <2>2, Locks
    DEF IInv, TypeOK, Fresh, ArgOwned, UnlockGC, AfterUnlock, Goto
  <2>10. SetListed' /\ DetachPending'
    BY <1>17, <2>1, <2>2, SetListedSame, DetachPendingSame DEF IInv, TypeOK, UnlockGC
  <2>11. NotDangling'
    <3>1. ASSUME NEW u \in Threads, Doing(u)' \in {"unlockGC", "free"}
          PROVE  /\ arg'[u] = arg[u] /\ arg[u] \in Pointers
                 /\ Doing(u) \in {"unlockGC", "free"} \/ wp[arg[u]] \in {"null", "freed"}
      BY <1>17, <2>1, <3>1 DEF IInv, TypeOK, ArgOwned, UnlockGC
    <3>2. UNCHANGED <<wp, devt, events, dangling>> /\ (Clean' => Clean)
      BY <1>17 DEF Clean, UnlockGC
    <3>3. AllOnce => AllOnce'
      BY <3>2 DEF AllOnce
    <3> QED
      BY <2>2, <3>1, <3>2, <3>3, NotDanglingSame DEF IInv
  <2> QED
    BY <2>3, <2>4, <2>5, <2>6, <2>7, <2>8, <2>9, <2>10, <2>11 DEF IInv
<1>18. ASSUME NEW t \in Threads, FreePointer(t) PROVE IInv'
  <2>1. /\ Doing(t) = "free" /\ Doing(t)' = "idle"
        /\ \A u \in Threads : u # t => Doing(u)' = Doing(u)
    BY <1>18 DEF IInv, TypeOK, Entering, Doing, FreePointer, Goto
  <2>2. \A w \in Pointers : Listed(w)' <=> Listed(w)
    BY <1>18 DEF Listed, InList, FreePointer, Goto
  <2>3. TypeOK'
    BY <1>18, GrownSame, Locks DEF IInv, TypeOK, Pcs, FreePointer, Goto
  <2>4. Entering' /\ LockHeld'
    BY <1>18, Locks DEF IInv, TypeOK, Entering, FreePointer, Goto, LockHeld, Inside
  <2>5. UsesAlive' /\ GCHeld' /\ NotStale'
    BY <1>18, <2>1, Locks
    DEF IInv, TypeOK, UsesAlive, OneDisposer, Disposing, FreePointer, Goto, GCHeld,
       NotStale
  <2>6. OneDisposer'
    BY <1>18, <2>1, OneDisposerSame DEF IInv, Disposing, FreePointer
  <2>7. ArgOwned'
    BY <1>18, <2>1, Locks
    DEF IInv, TypeOK, ArgOwned, UsesAlive, OneDisposer, Disposing, FreePointer, Goto
  <2>8. ListsEmpty'
    BY <1>18, <2>1, <2>2, Locks
    DEF IInv, TypeOK, ListsEmpty, OneDisposer, Disposing, UsesAlive, LockHeld, Inside,
       FreePointer, Goto
  <2>9. Fresh'
    BY <1>18, <2>1, <2>2, Locks DEF IInv, TypeOK, Fresh, ArgOwned, FreePointer, Goto
  <2>10. SetListed'
    <3> SUFFICES ASSUME NEW w \in Pointers, wp[w] = "set", w # arg[t], ~Listed(w)
                 PROVE  \E u \in Threads :
                            arg'[u] = w /\ Doing(u)' \in {"attach", "unlockGC", "free"}
      BY <1>18, <2>2 DEF IInv, TypeOK, SetListed, FreePointer
    <3>1. PICK u \in Threads : arg[u] = w /\ Doing(u) \in {"attach", "unlockGC", "free"}
      BY DEF IInv, SetListed
    <3> QED
      BY <1>18, <2>1, <3>1 DEF IInv, TypeOK, FreePointer
  <2>11. DetachPending'
    BY <1>18, <2>1, <2>2, DetachPendingSame DEF IInv, TypeOK, FreePointer
  <2>12. NotDangling'
    BY <1>18, <2>1, <2>2, Locks
    DEF IInv, TypeOK, NotDangling, Clean, ArgOwned, OneDisposer, Disposing, GCHeld,
       FreePointer, Goto
  <2> QED
    BY <2>3, <2>4, <2>5, <2>6, <2>7, <2>8, <2>9, <2>10, <2>11, <2>12 DEF IInv
<1>19. ASSUME NEW t \in Threads, TakeEvents(t) PROVE IInv'
  <2>1. /\ Doing(t) = "take" /\ Doing(t)' = "call"
        /\ \A u \in Threads : u # t => Doing(u)' = Doing(u)
    BY <1>19 DEF IInv, TypeOK, Entering, Doing, TakeEvents, Exit, Goto
  <2>2. \A w \in Pointers : Listed(w)' <=> Listed(w)
    <3>1. events[t] = <<>> /\ events' = [events EXCEPT ![t] = devt] /\ devt' = <<>>
      BY <1>19 DEF IInv, ListsEmpty, TakeEvents
    <3>2. events'[t] = devt /\ \A u \in Threads : u # t => events'[u] = events[u]
      BY <3>1 DEF IInv, TypeOK
    <3> QED
      BY <3>1, <3>2 DEF Listed, InList
  <2>3. TypeOK'
    <3>1. devt' = <<>> /\ Len(devt') = 0 /\ devt' \in Seq(Pointers \cup {Null})
      BY <1>19 DEF TakeEvents
    <3>2. Grown'
      <4>1. Grow * 0 = 0
        BY GrowPositive
      <4> QED
        BY <3>1, <4>1 DEF Grown
    <3> QED
      BY <1>19, <3>1, <3>2 DEF IInv, TypeOK, Pcs, TakeEvents, Exit, Goto
  <2>4. Entering' /\ LockHeld'
    BY <1>19, Locks DEF IInv, TypeOK, Entering, TakeEvents, Exit, Goto, LockHeld, Inside
  <2>5. UsesAlive' /\ GCHeld' /\ NotStale'
    BY <1>19, <2>1, Locks
    DEF IInv, TypeOK, UsesAlive, OneDisposer, Disposing, TakeEvents, Exit, Goto, GCHeld,
       NotStale
  <2>6. OneDisposer'
    BY <1>19, <2>1, OneDisposerSame DEF IInv, Disposing, TakeEvents
  <2>7. ArgOwned'
    BY <1>19, <2>1, ArgOwnedSame DEF IInv, TakeEvents
  <2>8. ListsEmpty'
    BY <1>19, <2>1, <2>2, Locks
    DEF IInv, TypeOK, ListsEmpty, OneDisposer, Disposing, UsesAlive, LockHeld, Inside,
       TakeEvents, Exit, Goto
  <2>9. Fresh'
    BY <1>19, <2>1, <2>2, Locks DEF IInv, TypeOK, Fresh, ArgOwned, TakeEvents, Exit, Goto
  <2>10. SetListed' /\ DetachPending'
    BY <1>19, <2>1, <2>2, SetListedSame, DetachPendingSame DEF IInv, TypeOK, TakeEvents
  <2>11. NotDangling'
    <3>1. wp' = wp /\ arg' = arg /\ Clean' = Clean /\ dangling' = dangling
      BY <1>19 DEF Clean, TakeEvents
    <3>2. AllOnce => AllOnce'
      <4>1. events'[t] = devt /\ devt' = <<>> /\ \A u \in Threads : u # t => events'[u] = events[u]
        BY <1>19 DEF IInv, TypeOK, TakeEvents
      <4> QED
        BY <4>1 DEF AllOnce, Once
    <3>3. ASSUME NEW u \in Threads, Doing(u)' \in {"unlockGC", "free"}
          PROVE  Doing(u) \in {"unlockGC", "free"} /\ arg[u] \in Pointers
      BY <2>1, <3>3 DEF IInv, TypeOK, ArgOwned
    <3> QED
      BY <2>2, <3>1, <3>2, <3>3, NotDanglingSame DEF IInv
  <2> QED
    BY <2>3, <2>4, <2>5, <2>6, <2>7, <2>8, <2>9, <2>10, <2>11 DEF IInv
<1>20. ASSUME NEW t \in Threads, CallEvent(t) PROVE IInv'
  <2>1. /\ Doing(t) = "call" /\ \A u \in Threads : Doing(u)' = Doing(u)
    BY <1>20 DEF IInv, TypeOK, Entering, Doing, CallEvent
  <2>0. PICK e \in Pointers, r \in Seq(Slots) :
            /\ InList(e, events[t])
            /\ \A w \in Pointers : InList(w, r) => InList(w, events[t])
            /\ \A w \in Pointers : w # e /\ InList(w, events[t]) => InList(w, r)
            /\ Once(events[t]) => Once(r) /\ ~InList(e, r)
            /\ events' = [events EXCEPT ![t] = r]
            /\ IF wp[e] = "freed"
               THEN dangling' = dangling \cup {e} /\ wp' = wp
               ELSE wp' = [wp EXCEPT ![e] = "null"] /\ dangling' = dangling
    <3> DEFINE i == Least(ToCall(events[t]))
    <3>1. events[t] \in Seq(Slots) /\ ToCall(events[t]) # {}
      BY <1>20 DEF IInv, TypeOK, CallEvent, Slots
    <3>2. /\ events' = [events EXCEPT ![t] = [events[t] EXCEPT ![i] = Null]]
          /\ IF wp[events[t][i]] = "freed"
             THEN dangling' = dangling \cup {events[t][i]} /\ wp' = wp
             ELSE wp' = [wp EXCEPT ![events[t][i]] = "null"] /\ dangling' = dangling
      BY <1>20 DEF CallEvent
    <3> QED
      BY <3>1, <3>2, CalledList
  <2>2. /\ \A w \in Pointers : /\ Listed(w)' => Listed(w)
                               /\ w # e /\ Listed(w) => Listed(w)'
        /\ Listed(e) /\ events'[t] = r /\ \A u \in Threads : u # t => events'[u] = events[u]
    <3>1. events'[t] = r /\ \A u \in Threads : u # t => events'[u] = events[u]
      BY <2>0 DEF IInv, TypeOK
    <3>2. devt' = devt
      BY <1>20 DEF CallEvent
    <3> QED
      BY <2>0, <3>1, <3>2 DEF Listed, InList
  <2>3. TypeOK'
    <3>1. /\ wp' \in [Pointers -> {"unborn", "set", "null", "freed"}]
          /\ dangling' \subseteq Pointers
          /\ events' \in [Threads -> Seq(Pointers \cup {Null})]
      BY <2>0 DEF IInv, TypeOK, Slots
    <3> QED
      BY <1>20, <3>1, GrownSame DEF IInv, TypeOK, CallEvent
  <2>4. Entering' /\ LockHeld'
    BY <1>20, Locks DEF IInv, TypeOK, Entering, CallEvent, LockHeld, Inside
  <2>5. UsesAlive' /\ GCHeld' /\ NotStale'
    BY <1>20, <2>1, Locks
    DEF IInv, TypeOK, UsesAlive, OneDisposer, Disposing, CallEvent, GCHeld, NotStale
  <2>6. OneDisposer'
    BY <1>20, <2>1, OneDisposerSame DEF IInv, Disposing, CallEvent
  <2>7. ArgOwned'
    <3>1. \A u \in Threads : Doing(u) # "attach"
      BY <2>1 DEF IInv, UsesAlive, OneDisposer, Disposing
    <3>2. arg' = arg
      BY <1>20 DEF CallEvent
    <3>3. \A w \in Pointers : wp'[w] = wp[w] \/ wp'[w] = "null"
      BY <2>0 DEF IInv, TypeOK
    <3> QED
      BY <2>1, <3>1, <3>2, <3>3, ArgOwnedSame DEF IInv
  <2>8. ListsEmpty'
    BY <1>20, <2>1, <2>2, Locks
    DEF IInv, TypeOK, ListsEmpty, OneDisposer, Disposing, UsesAlive, LockHeld, Inside,
       CallEvent
  <2>9. Fresh'
    <3>1. \A w \in Pointers : wp'[w] = "unborn" => wp[w] = "unborn"
      BY <2>0 DEF IInv, TypeOK
    <3>2. arg' = arg
      BY <1>20 DEF CallEvent
    <3> QED
      BY <2>1, <2>2, <3>1, <3>2 DEF IInv, Fresh
  <2>10. SetListed'
    <3> SUFFICES ASSUME NEW w \in Pointers, wp'[w] = "set", ~Listed(w)'
                 PROVE  \E u \in Threads :
                            arg[u] = w /\ Doing(u)' \in {"attach", "unlockGC", "free"}
      BY <1>20 DEF SetListed, CallEvent
    <3>1. wp[w] = "set" /\ w # e
      BY <2>0 DEF IInv, TypeOK
    <3>2. PICK u \in Threads : arg[u] = w /\ Doing(u) \in {"attach", "unlockGC", "free"}
      BY <2>2, <3>1 DEF IInv, SetListed
    <3> QED
      BY <2>1, <3>2
  <2>11. DetachPending'
    <3>1. \A u \in Threads : Doing(u)' # "detach"
      BY <1>20, <2>1, Locks DEF IInv, GCHeld, CallEvent
    <3> QED
      BY <3>1 DEF DetachPending
  <2>12. NotDangling'
    <3>0. arg' = arg /\ devt' = devt /\ (Clean' <=> Clean)
      BY <1>20 DEF Clean, CallEvent
    <3>1. devt = <<>> /\ \A u \in Threads : u # t => events[u] = <<>>
      <4>1. \A u \in Threads : u # t => ~Disposing(u)
        BY <2>1 DEF IInv, OneDisposer, Disposing
      <4>2. \A u \in Threads : u # t => pc[u] # "call"
        BY <4>1 DEF Disposing, Doing
      <4> QED
        BY <2>1, <4>2 DEF IInv, ListsEmpty
    <3>2. AllOnce => AllOnce' /\ ~Listed(e)'
      <4> SUFFICES ASSUME AllOnce PROVE AllOnce' /\ ~Listed(e)'
        OBVIOUS
      <4>1. Once(r) /\ ~InList(e, r)
        BY <2>0 DEF AllOnce
      <4>2. AllOnce'
        BY <2>2, <3>0, <3>1, <4>1 DEF AllOnce, Once
      <4>3. ~Listed(e)'
        <5>1. ~InList(e, devt')
          BY <3>0, <3>1 DEF InList
        <5>2. \A u \in Threads : u # t => events'[u] = <<>>
          BY <2>2, <3>1
        <5>3. \A u \in Threads : u # t => ~InList(e, events'[u])
          BY <5>2 DEF InList
        <5>4. ~InList(e, events'[t])
          BY <2>2, <4>1
        <5> QED
          BY <5>1, <5>3, <5>4 DEF Listed
      <4> QED
        BY <4>2, <4>3
    <3>3. Clean => AllOnce /\ wp[e] # "freed"
      BY <2>0, <2>2 DEF IInv, NotDangling, AllOnce
    <3>4. Clean => dangling' = dangling /\ ~Listed(e)'
      BY <2>0, <3>2, <3>3
    <3>5. \A w \in Pointers : w # e => wp'[w] = wp[w]
      BY <2>0 DEF IInv, TypeOK
    <3>6. ASSUME NEW u \in Threads, Doing(u)' \in {"unlockGC", "free"}
          PROVE  Doing(u) \in {"unlockGC", "free"} /\ arg[u] \in Pointers
      BY <2>1, <3>6 DEF IInv, TypeOK, ArgOwned
    <3>7. Clean' => \A w \in Pointers :
              wp'[w] \in {"null", "freed"} /\ Listed(w)' =>
                  wp[w] \in {"null", "freed"} /\ Listed(w)
      <4> SUFFICES ASSUME Clean', NEW w \in Pointers, Listed(w)'
                   PROVE  wp'[w] = wp[w] /\ Listed(w)
        OBVIOUS
      <4>1. w # e
        BY <3>0, <3>4
      <4> QED
        BY <2>2, <3>5, <4>1
    <3> QED
      BY <2>2, <3>0, <3>2, <3>4, <3>6, <3>7, NotDanglingSame DEF IInv
  <2> QED
    BY <2>3, <2>4, <2>5, <2>6, <2>7, <2>8, <2>9, <2>10, <2>11, <2>12 DEF IInv
<1>21. ASSUME NEW t \in Threads, EventsDone(t) PROVE IInv'
  <2>1. /\ Doing(t) = "call" /\ Doing(t)' = "release"
        /\ \A u \in Threads : u # t => Doing(u)' = Doing(u)
    BY <1>21 DEF IInv, TypeOK, Entering, Doing, EventsDone, Goto
  <2>2. \A w \in Pointers : Listed(w)' <=> Listed(w)
    <3>1. events'[t] = <<>> /\ \A u \in Threads : u # t => events'[u] = events[u]
      BY <1>21 DEF IInv, TypeOK, EventsDone
    <3>2. \A w \in Pointers : ~InList(w, events[t])
      BY <1>21, Locks DEF EventsDone, ToCall, InList
    <3> QED
      BY <1>21, <3>1, <3>2 DEF Listed, InList, EventsDone
  <2>3. TypeOK'
    BY <1>21, GrownSame, Locks DEF IInv, TypeOK, Pcs, EventsDone, Goto
  <2>4. Entering' /\ LockHeld'
    BY <1>21, Locks DEF IInv, TypeOK, Entering, EventsDone, Goto, LockHeld, Inside
  <2>5. UsesAlive' /\ GCHeld' /\ NotStale'
    BY <1>21, <2>1, Locks
    DEF IInv, TypeOK, UsesAlive, OneDisposer, Disposing, EventsDone, Goto, GCHeld,
       NotStale
  <2>6. OneDisposer'
    BY <1>21, <2>1, OneDisposerSame DEF IInv, Disposing, EventsDone
  <2>7. ArgOwned'
    BY <1>21, <2>1, ArgOwnedSame DEF IInv, EventsDone
  <2>8. ListsEmpty'
    BY <1>21, <2>1, <2>2, Locks
    DEF IInv, TypeOK, ListsEmpty, OneDisposer, Disposing, UsesAlive, LockHeld, Inside,
       EventsDone, Goto
  <2>9. Fresh'
    BY <1>21, <2>1, <2>2, Locks DEF IInv, TypeOK, Fresh, ArgOwned, EventsDone, Goto
  <2>10. SetListed' /\ DetachPending'
    BY <1>21, <2>1, <2>2, SetListedSame, DetachPendingSame DEF IInv, TypeOK, EventsDone
  <2>11. NotDangling'
    <3>1. UNCHANGED <<wp, arg, devt, dangling>> /\ Clean' = Clean
      BY <1>21 DEF Clean, EventsDone
    <3>2. AllOnce => AllOnce'
      <4>1. events'[t] = <<>> /\ \A u \in Threads : u # t => events'[u] = events[u]
        BY <1>21 DEF IInv, TypeOK, EventsDone
      <4> QED
        BY <3>1, <4>1 DEF AllOnce, Once
    <3>3. ASSUME NEW u \in Threads, Doing(u)' \in {"unlockGC", "free"}
          PROVE  Doing(u) \in {"unlockGC", "free"} /\ arg[u] \in Pointers
      BY <2>1, <3>3 DEF IInv, TypeOK, ArgOwned
    <3> QED
      BY <2>2, <3>1, <3>2, <3>3, NotDanglingSame DEF IInv
  <2> QED
    BY <2>3, <2>4, <2>5, <2>6, <2>7, <2>8, <2>9, <2>10, <2>11 DEF IInv
<1>22. ASSUME NEW t \in Threads, DestroyMonitor(t) PROVE IInv'
  <2>1. /\ Doing(t) = "release" /\ Doing(t)' = "end"
        /\ \A u \in Threads : u # t => Doing(u)' = Doing(u)
    BY <1>22 DEF IInv, TypeOK, Entering, Doing, DestroyMonitor, Goto
  <2>2. \A w \in Pointers : Listed(w)' <=> Listed(w)
    BY <1>22 DEF Listed, InList, DestroyMonitor, Goto
  <2>3. TypeOK'
    BY <1>22, GrownSame, Locks DEF IInv, TypeOK, Pcs, DestroyMonitor, Goto
  <2>4. Entering'
    BY <1>22, Locks DEF IInv, TypeOK, Entering, DestroyMonitor, Goto
  <2>5. LockHeld'
    <3>1. \A u \in Threads : Doing(u) \notin {"body", "malloc", "leave", "attach"}
      BY <2>1 DEF IInv, UsesAlive, OneDisposer, Disposing
    <3>2. \A u \in Threads : Doing(u) # "take"
      BY <2>1 DEF IInv, OneDisposer, Disposing
    <3>3. \A u \in Threads : pc[u] # "call"
      <4>1. \A u \in Threads : Doing(u) # "call"
        BY <2>1 DEF IInv, OneDisposer, Disposing
      <4> QED
        BY <4>1 DEF Doing
    <3>4. devt = <<>>
      BY <2>1 DEF IInv, ListsEmpty
    <3>5. \A u \in Threads : Doing(u) # "detach"
      <4>1. \A w \in Pointers : ~Listed(w)
        BY <3>3, <3>4, ListedInArray DEF IInv, InList
      <4>2. \A u \in Threads : Doing(u) = "detach" => arg[u] \in Pointers
        BY DEF IInv, TypeOK, ArgOwned
      <4> QED
        BY <4>1, <4>2 DEF IInv, DetachPending
    <3>6. Inside' = {}
      BY <1>22, <3>1, <3>2, <3>5 DEF IInv, TypeOK, Inside, Doing, DestroyMonitor, Goto
    <3> QED
      BY <3>6 DEF LockHeld
  <2>6. UsesAlive' /\ GCHeld' /\ NotStale'
    BY <1>22, <2>1, Locks
    DEF IInv, TypeOK, UsesAlive, OneDisposer, Disposing, DestroyMonitor, Goto, GCHeld,
       NotStale
  <2>7. OneDisposer'
    BY <1>22, <2>1, OneDisposerSame DEF IInv, Disposing, DestroyMonitor
  <2>8. ArgOwned'
    BY <1>22, <2>1, ArgOwnedSame DEF IInv, DestroyMonitor
  <2>9. ListsEmpty'
    BY <1>22, <2>1, <2>2, Locks
    DEF IInv, TypeOK, ListsEmpty, OneDisposer, Disposing, UsesAlive, LockHeld, Inside,
       DestroyMonitor, Goto
  <2>10. Fresh'
    BY <1>22, <2>1, <2>2, Locks DEF IInv, TypeOK, Fresh, ArgOwned, DestroyMonitor, Goto
  <2>11. SetListed' /\ DetachPending'
    BY <1>22, <2>1, <2>2, SetListedSame, DetachPendingSame
    DEF IInv, TypeOK, DestroyMonitor
  <2>12. NotDangling'
    <3>1. ASSUME NEW u \in Threads, Doing(u)' \in {"unlockGC", "free"}
          PROVE  /\ arg'[u] = arg[u] /\ arg[u] \in Pointers
                 /\ Doing(u) \in {"unlockGC", "free"} \/ wp[arg[u]] \in {"null", "freed"}
      BY <1>22, <2>1, <3>1 DEF IInv, TypeOK, ArgOwned, DestroyMonitor
    <3>2. UNCHANGED <<wp, devt, events, dangling>> /\ (Clean' => Clean)
      BY <1>22 DEF Clean, DestroyMonitor
    <3>3. AllOnce => AllOnce'
      BY <3>2 DEF AllOnce
    <3> QED
      BY <2>2, <3>1, <3>2, <3>3, NotDanglingSame DEF IInv
  <2> QED
    BY <2>3, <2>4, <2>5, <2>6, <2>7, <2>8, <2>9, <2>10, <2>11, <2>12 DEF IInv
<1>23. ASSUME NEW t \in Threads, EndDispose(t) PROVE IInv'
  <2>0. /\ obj \in {"deleting", "collecting", "sweeping"}
        /\ obj' \in {"deleted", "collected", "swept"}
        /\ obj' = "collected" <=> obj = "collecting"
    <3>1. obj \in {"deleting", "collecting", "sweeping"}
      BY <1>23 DEF IInv, OneDisposer, Disposing, Doing, EndDispose
    <3> QED
      BY <1>23, <3>1 DEF EndDispose, Ended
  <2>1. /\ Doing(t) = "end" /\ Doing(t)' = "idle"
        /\ \A u \in Threads : u # t => Doing(u)' = Doing(u)
    BY <1>23 DEF IInv, TypeOK, Entering, Doing, EndDispose, Goto
  <2>2. \A w \in Pointers : Listed(w)' <=> Listed(w)
    BY <1>23 DEF Listed, InList, EndDispose, Goto
  <2>3. TypeOK'
    BY <1>23, <2>0, GrownSame, Locks DEF IInv, TypeOK, Pcs, EndDispose, Goto
  <2>4. Entering' /\ LockHeld'
    BY <1>23, Locks DEF IInv, TypeOK, Entering, EndDispose, Goto, LockHeld, Inside
  <2>5. UsesAlive' /\ GCHeld' /\ NotStale'
    BY <1>23, <2>0, <2>1, Locks
    DEF IInv, TypeOK, UsesAlive, OneDisposer, Disposing, EndDispose, Goto, GCHeld,
       NotStale
  <2>6. OneDisposer'
    BY <1>23, <2>0, <2>1, Locks
    DEF IInv, TypeOK, OneDisposer, Disposing, UsesAlive, EndDispose, Goto
  <2>7. ArgOwned'
    BY <1>23, <2>1, ArgOwnedSame DEF IInv, EndDispose
  <2>8. ListsEmpty'
    BY <1>23, <2>0, <2>1, <2>2, Locks
    DEF IInv, TypeOK, ListsEmpty, OneDisposer, Disposing, UsesAlive, LockHeld, Inside,
       EndDispose, Goto
  <2>9. Fresh'
    BY <1>23, <2>1, <2>2, Locks DEF IInv, TypeOK, Fresh, ArgOwned, EndDispose, Goto
  <2>10. SetListed' /\ DetachPending'
    BY <1>23, <2>1, <2>2, SetListedSame, DetachPendingSame DEF IInv, TypeOK, EndDispose
  <2>11. NotDangling'
    <3>1. ASSUME NEW u \in Threads, Doing(u)' \in {"unlockGC", "free"}
          PROVE  /\ arg'[u] = arg[u] /\ arg[u] \in Pointers
                 /\ Doing(u) \in {"unlockGC", "free"} \/ wp[arg[u]] \in {"null", "freed"}
      BY <1>23, <2>1, <3>1 DEF IInv, TypeOK, ArgOwned, EndDispose
    <3>2. UNCHANGED <<wp, devt, events, dangling>> /\ (Clean' => Clean)
      BY <1>23, <2>0 DEF Clean, EndDispose
    <3>3. AllOnce => AllOnce'
      BY <3>2 DEF AllOnce
    <3> QED
      BY <2>2, <3>1, <3>2, <3>3, NotDanglingSame DEF IInv
  <2> QED
    BY <2>3, <2>4, <2>5, <2>6, <2>7, <2>8, <2>9, <2>10, <2>11 DEF IInv
<1>24. ASSUME NEW t \in Threads, FullCollect(t) PROVE IInv'
  <2>1. /\ Doing(t) = "idle" /\ Doing(t)' \in {"take", "release", "end"}
        /\ Doing(t)' # "take" => devt = <<>>
        /\ \A u \in Threads : u # t => Doing(u)' = Doing(u)
    BY <1>24
    DEF IInv, TypeOK, Entering, Doing, FullCollect, Dispose, Enter, Goto,
       ListsEmpty
  <2>2. \A w \in Pointers : Listed(w)' <=> Listed(w)
    BY <1>24 DEF Listed, InList, FullCollect, Dispose, Enter, Goto
  <2>3. TypeOK'
    <3>1. obj' = "sweeping" /\ gcOwner' \in Threads \cup {Null}
      BY <1>24 DEF IInv, TypeOK, FullCollect
    <3>2. PICK l \in {"end", "release", "enter"} : pc' = [pc EXCEPT ![t] = l]
      BY <1>24 DEF FullCollect, Dispose, Enter, Goto
    <3>3. then' = then \/ then' = [then EXCEPT ![t] = "take"]
      BY <1>24 DEF FullCollect, Dispose, Enter
    <3>4. /\ pc' \in [Threads -> Pcs]
          /\ then' \in [Threads -> {"idle", "body", "attach", "detach", "take"}]
      BY <3>2, <3>3 DEF IInv, TypeOK, Pcs
    <3> QED
      BY <1>24, <3>1, <3>4, GrownSame DEF IInv, TypeOK, FullCollect
  <2>4. Entering'
    BY <1>24, Locks DEF IInv, TypeOK, Entering, FullCollect, Dispose, Enter, Goto
  <2>5. LockHeld'
    BY <1>24, Locks
    DEF IInv, TypeOK, LockHeld, Inside, Entering, FullCollect, Dispose, Enter,
       Goto
  <2>6. UsesAlive' /\ GCHeld' /\ NotStale'
    BY <1>24, <2>1, Locks
    DEF IInv, TypeOK, UsesAlive, OneDisposer, Disposing, FullCollect, Dispose,
       Enter, Goto, GCHeld, NotStale
  <2>7. OneDisposer'
    BY <1>24, <2>1, Locks
    DEF IInv, TypeOK, OneDisposer, Disposing, UsesAlive, FullCollect, Dispose,
       Enter, Goto
  <2>8. ArgOwned'
    BY <1>24, <2>1, ArgOwnedSame DEF IInv, FullCollect
  <2>9. ListsEmpty'
    BY <1>24, <2>1, <2>2, Locks
    DEF IInv, TypeOK, ListsEmpty, OneDisposer, Disposing, UsesAlive, LockHeld, Inside,
       FullCollect, Dispose, Enter, Goto
  <2>10. Fresh'
    BY <1>24, <2>1, <2>2, Locks
    DEF IInv, TypeOK, Fresh, ArgOwned, FullCollect, Dispose, Enter, Goto
  <2>11. SetListed' /\ DetachPending'
    BY <1>24, <2>1, <2>2, SetListedSame, DetachPendingSame DEF IInv, TypeOK, FullCollect
  <2>12. NotDangling'
    <3>1. ASSUME NEW u \in Threads, Doing(u)' \in {"unlockGC", "free"}
          PROVE  /\ arg'[u] = arg[u] /\ arg[u] \in Pointers
                 /\ Doing(u) \in {"unlockGC", "free"} \/ wp[arg[u]] \in {"null", "freed"}
      BY <1>24, <2>1, <3>1 DEF IInv, TypeOK, ArgOwned, FullCollect
    <3>2. UNCHANGED <<wp, devt, events, dangling>> /\ (Clean' => Clean)
      BY <1>24 DEF Clean, FullCollect
    <3>3. AllOnce => AllOnce'
      BY <3>2 DEF AllOnce
    <3> QED
      BY <2>2, <3>1, <3>2, <3>3, NotDanglingSame DEF IInv
  <2> QED
    BY <2>3, <2>4, <2>5, <2>6, <2>7, <2>8, <2>9, <2>10, <2>11, <2>12 DEF IInv
<1>25. CASE UNCHANGED vars
  <2> USE <1>25 DEF vars
  <2>1. TypeOK' /\ Entering' /\ LockHeld'
    BY DEF IInv, TypeOK, Grown, Entering, LockHeld, Inside
  <2>2. \A u \in Threads : Doing(u)' = Doing(u)
    BY DEF Doing
  <2>3. \A w : Listed(w)' <=> Listed(w)
    BY DEF Listed, InList
  <2>4. UsesAlive' /\ OneDisposer' /\ ArgOwned' /\ GCHeld'
    BY <2>2 DEF IInv, UsesAlive, OneDisposer, Disposing, ArgOwned, GCHeld
  <2>5. ListsEmpty' /\ NotStale'
    BY <2>2 DEF IInv, ListsEmpty, NotStale
  <2>6. Fresh' /\ SetListed' /\ DetachPending'
    BY <2>2, <2>3 DEF IInv, Fresh, SetListed, DetachPending
  <2>7. NotDangling'
    BY <2>2, <2>3 DEF IInv, NotDangling, Clean, Once
  <2> QED
    BY <2>1, <2>4, <2>5, <2>6, <2>7 DEF IInv
<1> QED
  BY <1>1, <1>2, <1>3, <1>4, <1>5, <1>6, <1>7, <1>8, <1>9, <1>10, <1>11, <1>12, <1>13,
     <1>14, <1>15, <1>16, <1>17, <1>18, <1>19, <1>20, <1>21, <1>22, <1>23, <1>24, <1>25
  DEF Next, Call, Continue

\* At the start no pointer is attached.
LEMMA InitInv == Init => IInv
<1> SUFFICES ASSUME Init PROVE IInv
  OBVIOUS
<1>1. \A t \in Threads : Doing(t) = "idle" /\ pc[t] = "idle" /\ events[t] = <<>>
  BY DEF Init, Doing
<1>2. devt = <<>> /\ \A w : ~Listed(w)
  BY <1>1 DEF Init, Listed, InList
<1>3. Grown
  <2>1. Grow * 0 = 0
    BY GrowPositive
  <2> QED
    BY <1>2, <2>1 DEF Grown
<1>4. TypeOK
  <2>1. /\ devt \in Seq(Pointers \cup {Null})
        /\ events \in [Threads -> Seq(Pointers \cup {Null})]
    BY DEF Init
  <2>2. /\ pc \in [Threads -> Pcs]
        /\ then \in [Threads -> {"idle", "body", "attach", "detach", "take"}]
        /\ arg \in [Threads -> Pointers \cup {Null}]
        /\ owner \in [Monitors -> Threads \cup {Null}]
        /\ wp \in [Pointers -> {"unborn", "set", "null", "freed"}]
    BY DEF Init, Pcs
  <2> QED
    BY <1>3, <2>1, <2>2 DEF Init, TypeOK
<1>5. Entering /\ LockHeld /\ UsesAlive /\ OneDisposer /\ ArgOwned /\ GCHeld
  BY <1>1
  DEF Init, Entering, LockHeld, Inside, UsesAlive, OneDisposer, Disposing, ArgOwned,
     GCHeld
<1>6. ListsEmpty /\ Fresh /\ SetListed /\ DetachPending /\ NotStale
  BY <1>1, <1>2 DEF Init, ListsEmpty, Fresh, SetListed, DetachPending, NotStale
<1>7. NotDangling
  BY <1>1, <1>2 DEF Init, NotDangling, Once
<1> QED
  BY <1>4, <1>5, <1>6, <1>7 DEF IInv

\* The inductive invariant holds.
LEMMA Invariance == Spec => []IInv
<1>1. QED
  BY InitInv, NextInv, PTL DEF Spec

-----------------------------------------------------------------------------
\* The monitor excludes, whichever threads race to create it; and it is not freed
\* while a thread is inside it, although a thread that destroys a weak pointer
\* may still be there when another one disposes of the object.
THEOREM MonitorCorrect == Spec => []MonitorExcludes
<1>1. IInv => MonitorExcludes
  BY DEF IInv, MonitorExcludes, Exclusion, LockHeld
<1>2. QED
  BY <1>1, Invariance, PTL

\* No event is lost, in whatever order threads attach and detach theirs and
\* whenever the object is disposed of.
THEOREM EventsCorrect == Spec => []EventsKept
<1>1. IInv => EventsKept
  BY DEF IInv, SetListed, EventsKept, Listed, InList
<1>2. QED
  BY <1>1, Invariance, PTL

\* A collection with gcLock breaks neither the events nor the weak pointers: an
\* event is called on a WeakPointer that is gone, and weakpointerGet returns an
\* object that is gone, only when a delete or a collection without gcLock ends
\* the object; or, the first, after a detachment from an array without a gap.
THEOREM CollectionCorrect == Spec => []LockedCollectionSafe
<1>1. IInv => LockedCollectionSafe
  BY DEF IInv, NotDangling, NotStale, Clean, LockedCollectionSafe, Unguarded
<1>2. QED
  BY <1>1, Invariance, PTL
=============================================================================
