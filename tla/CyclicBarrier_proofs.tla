------------------------- MODULE CyclicBarrier_proofs -------------------------
(***************************************************************************)
(* Proofs about CyclicBarrier, for any finite set of threads, any number   *)
(* of parties and any bounds of the counters.                              *)
(*                                                                         *)
(* The code never records which threads belong to a group: they compare    *)
(* generations.  The invariant says that this comparison and the trip,     *)
(* break or reset that happened tell the same, and that the held threads   *)
(* have the indices from count upwards.  What the code miscounts after a   *)
(* failure stays on one side: it never forgets a held thread.              *)
(***************************************************************************)
EXTENDS CyclicBarrier, FiniteSetTheorems, TLAPS

\* Only a thread that spins keeps the lock.
LockHeld ==
    /\ holder # None => holder \in Threads /\ pc[holder] = "spin"
    /\ \A t \in Threads : pc[t] = "spin" => holder = t

\* The held threads have drawn their indices from count upwards.
IndexAbove == \A t \in Held : count <= index[t] /\ index[t] <= Parties - 1

IInv ==
    /\ TypeOK
    /\ LockHeld
    /\ NotifiedInTime
    /\ HeldAreCounted
    /\ IndexAbove
    /\ IndexDistinct

-----------------------------------------------------------------------------
\* The threads held at the barrier can be counted.
LEMMA HeldCounted ==
    /\ Held \in SUBSET Threads
    /\ IsFiniteSet(Held)
    /\ Cardinality(Held) \in Nat
  BY ThreadsFinite, FS_Subset, FS_CardinalityType DEF Held, Inside

\* A thread that waits or loops is held, and nothing changes for the others.
LEMMA StaysEffect ==
    ASSUME IInv, NEW t \in Threads, NEW how \in {"wait", "spin"}, Stays(t, how)
    PROVE  /\ t \notin Inside /\ Inside' = Inside \cup {t}
           /\ Held' = Held \cup {t} /\ ~Fails(t)' /\ ~Passes(t)'
           /\ \A u \in Inside : /\ pc'[u] = pc[u] /\ gen'[u] = gen[u] /\ index'[u] = index[u]
                                /\ Fails(u)' = Fails(u) /\ Passes(u)' = Passes(u)
<1>1. t \notin Inside /\ Inside' = Inside \cup {t}
  BY DEF IInv, TypeOK, Stays, Inside
<1>2. ~Fails(t)' /\ ~Passes(t)'
  BY DEF IInv, TypeOK, Stays, Fails, Passes
<1>3. \A u \in Inside : /\ pc'[u] = pc[u] /\ gen'[u] = gen[u] /\ index'[u] = index[u]
                        /\ Fails(u)' = Fails(u) /\ Passes(u)' = Passes(u)
  BY <1>1 DEF IInv, TypeOK, Stays, Fails, Passes, Inside
<1>4. Held' = Held \cup {t}
  BY <1>1, <1>2, <1>3 DEF Held
<1> QED
  BY <1>1, <1>2, <1>3, <1>4

\* A trip, a time-out and a reset leave nobody held; a thread that is to fail
\* will still fail.
LEMMA ReleaseEffect ==
    ASSUME IInv,
           \/ \E t \in Threads : TimesOut(t) \/ \E b \in BOOLEAN : Trip(t, b)
           \/ Reset
    PROVE  /\ Inside' = Inside /\ Held' = {}
           /\ UNCHANGED <<index, gen>>
           /\ \A u \in Inside : pc'[u] = "woken" /\ (Fails(u) => Fails(u)')
           /\ \A u \in Threads : pc'[u] = "out" <=> pc[u] = "out"
<1>1. holder = None /\ pc' = Notified /\ UNCHANGED <<index, gen>>
  BY DEF TimesOut, Trip, Reset, Leaves
<1>2. \A u \in Threads : pc[u] # "spin"
  BY <1>1, NoneIsNoThread DEF IInv, LockHeld
<1>3. \A u \in Threads : pc'[u] = "out" <=> pc[u] = "out"
  BY <1>1 DEF Notified
<1>4. \A u \in Inside : pc'[u] = "woken"
  BY <1>1, <1>2 DEF IInv, TypeOK, Notified, Inside
<1>5. Inside' = Inside
  BY <1>3 DEF Inside
<1>6. \A u \in Inside : (Fails(u) => Fails(u)') /\ (Fails(u)' \/ Passes(u)')
  <2> SUFFICES ASSUME NEW u \in Inside
               PROVE  (Fails(u) => Fails(u)') /\ (Fails(u)' \/ Passes(u)')
    OBVIOUS
  <2>1. gen'[u] = gen[u] /\ gen[u] \in Int /\ generation \in Int
    BY <1>1 DEF IInv, TypeOK, Inside
  <2>2. CASE \E t \in Threads : TimesOut(t)
    BY <2>2 DEF TimesOut, Fails
  <2>3. ASSUME NEW t \in Threads, NEW b \in BOOLEAN, Trip(t, b)
        PROVE  (Fails(u) => Fails(u)') /\ (Fails(u)' \/ Passes(u)')
    <3>1. /\ ~broken /\ broken' = b /\ generation' = generation + 1
          /\ gen[u] # generation + 1
      BY <2>3 DEF Trip, NotOvertaken
    <3> QED
      BY <2>1, <3>1 DEF Fails, Passes
  <2>4. CASE Reset
    <3>1. /\ ~broken' /\ generation' = generation - 4 /\ gen[u] > generation - 4
      BY <2>4 DEF Reset, NoStraggler, GenerationAfterReset, IInv, TypeOK
    <3> QED
      BY <2>1, <3>1 DEF Fails, Passes
  <2> QED
    BY <2>2, <2>3, <2>4
<1>7. Held' = {}
  BY <1>5, <1>6 DEF Held
<1> QED
  BY <1>1, <1>3, <1>4, <1>5, <1>6, <1>7

\* A thread that wakes leaves: it is not held.
LEMMA ResumeEffect ==
    ASSUME IInv, NEW t \in Threads, Resume(t)
    PROVE  /\ t \in Inside \ Held /\ Inside' = Inside \ {t} /\ Held' = Held
           /\ pc' = [pc EXCEPT ![t] = "out"]
           /\ index' = [index EXCEPT ![t] = 0] /\ gen' = [gen EXCEPT ![t] = 0]
           /\ UNCHANGED <<holder, count, generation, broken>>
           /\ \A u \in Inside \ {t} : Fails(u)' = Fails(u) /\ Passes(u)' = Passes(u)
<1>1. t \in Inside \ Held
  BY DEF IInv, NotifiedInTime, Resume, Inside
<1>2. /\ pc' = [pc EXCEPT ![t] = "out"]
      /\ index' = [index EXCEPT ![t] = 0] /\ gen' = [gen EXCEPT ![t] = 0]
      /\ UNCHANGED <<holder, count, generation, broken>>
  BY <1>1 DEF Resume
<1>3. Inside' = Inside \ {t}
  BY <1>2 DEF IInv, TypeOK, Inside
<1>4. \A u \in Inside \ {t} : Fails(u)' = Fails(u) /\ Passes(u)' = Passes(u)
  BY <1>2 DEF IInv, TypeOK, Fails, Passes, Inside
<1>5. Held' = Held
  BY <1>1, <1>3, <1>4 DEF Held
<1> QED
  BY <1>1, <1>2, <1>3, <1>4, <1>5

-----------------------------------------------------------------------------
\* The constructor establishes the invariant.
LEMMA InitInv == Init => IInv
<1> SUFFICES ASSUME Init PROVE IInv
  OBVIOUS
<1>1. Inside = {} /\ Held = {}
  BY DEF Init, Inside, Held
<1>2. TypeOK
  <2>1. 0 \in MinCount..Parties /\ Parties \in MinCount..Parties
    BY PartiesPositive, Bounds
  <2>2. 0 \in MinGeneration..MaxGeneration
    BY Bounds
  <2> QED
    BY <2>1, <2>2 DEF Init, TypeOK
<1>3. HeldAreCounted
  BY <1>1, FS_EmptySet, PartiesPositive DEF Init, HeldAreCounted
<1> QED
  BY <1>1, <1>2, <1>3
  DEF IInv, Init, LockHeld, NotifiedInTime, IndexAbove, IndexDistinct

\* A thread arrives, and another one is missing.
LEMMA StaysInv ==
    ASSUME IInv, NEW t \in Threads, NEW how \in {"wait", "spin"}, Stays(t, how),
           IF how = "wait" THEN UNCHANGED holder ELSE holder' = t
    PROVE  IInv'
<1>1. /\ count \in Int /\ Parties \in Int /\ count' = count - 1 /\ count' \in MinCount..Parties
      /\ holder = None /\ pc[t] = "out"
      /\ pc' = [pc EXCEPT ![t] = how]
      /\ index' = [index EXCEPT ![t] = count - 1]
      /\ gen' = [gen EXCEPT ![t] = generation]
      /\ UNCHANGED <<generation, broken>>
  BY PartiesPositive, Bounds DEF IInv, TypeOK, Stays, IndexNow
<1>2. TypeOK'
  BY <1>1 DEF IInv, TypeOK
<1>3. LockHeld'
  BY <1>1, NoneIsNoThread DEF IInv, TypeOK, LockHeld
<1>4. NotifiedInTime'
  BY <1>1, StaysEffect DEF IInv, TypeOK, NotifiedInTime
<1>5. HeldAreCounted'
  <2>1. t \notin Held
    BY StaysEffect DEF Held
  <2>2. Cardinality(Held') = Cardinality(Held) + 1
    BY <2>1, StaysEffect, HeldCounted, FS_AddElement
  <2> QED
    BY <1>1, <2>2, HeldCounted, StaysEffect DEF IInv, TypeOK, HeldAreCounted
<1>6. IndexAbove'
  <2> SUFFICES ASSUME NEW u \in Held'
               PROVE  count' <= index'[u] /\ index'[u] <= Parties - 1
    BY DEF IndexAbove
  <2>1. CASE u = t
    BY <1>1, <2>1 DEF IInv, TypeOK
  <2>2. CASE u # t
    <3>1. u \in Held /\ u \in Threads /\ index'[u] = index[u]
      BY <1>1, <2>2, StaysEffect DEF IInv, TypeOK, Held, Inside
    <3> QED
      BY <1>1, <3>1 DEF IInv, TypeOK, IndexAbove
  <2> QED
    BY <2>1, <2>2
<1>7. IndexDistinct'
  <2>1. ASSUME NEW u \in Inside', Passes(u)' PROVE index'[u] \in 1..(Parties - 1)
    BY <2>1, StaysEffect DEF IInv, IndexDistinct
  <2>2. ASSUME NEW u \in Inside, ~Fails(u), gen[u] = generation
        PROVE  index[u] # count - 1
    <3>1. u \in Held
      BY <2>2 DEF IInv, TypeOK, Held, Passes, Inside
    <3>2. index[u] \in Int
      BY <2>2 DEF IInv, TypeOK, Inside
    <3> QED
      BY <1>1, <3>1, <3>2 DEF IInv, IndexAbove
  <2>3. ASSUME NEW u \in Inside', NEW v \in Inside',
               u # v, gen'[u] = gen'[v], ~Fails(u)', ~Fails(v)'
        PROVE  index'[u] # index'[v]
    <3>0. gen'[t] = generation /\ index'[t] = count - 1
      BY <1>1 DEF IInv, TypeOK
    <3>1. CASE u = t
      BY <2>2, <2>3, <3>0, <3>1, StaysEffect
    <3>2. CASE v = t
      BY <2>2, <2>3, <3>0, <3>2, StaysEffect
    <3>3. CASE u # t /\ v # t
      BY <2>3, <3>3, StaysEffect DEF IInv, IndexDistinct
    <3> QED
      BY <3>1, <3>2, <3>3
  <2> QED
    BY <2>1, <2>3 DEF IndexDistinct
<1> QED
  BY <1>2, <1>3, <1>4, <1>5, <1>6, <1>7 DEF IInv

\* After a release the other conjuncts follow from the type and the counts.
LEMMA ReleaseInv ==
    ASSUME IInv, TypeOK', HeldAreCounted', UNCHANGED holder,
           \/ \E t \in Threads : TimesOut(t) \/ \E b \in BOOLEAN : Trip(t, b)
           \/ Reset,
           \A u \in Inside : Passes(u)' => Passes(u) \/ index[u] \in 1..(Parties - 1)
    PROVE  IInv'
<1>0. holder = None
  BY DEF TimesOut, Trip, Reset
<1>1. LockHeld'
  <2> SUFFICES ASSUME NEW u \in Threads PROVE pc'[u] # "spin"
    BY <1>0 DEF LockHeld
  <2>1. u \in Inside => pc'[u] = "woken"
    BY ReleaseEffect
  <2>2. u \notin Inside => pc'[u] = "out"
    BY ReleaseEffect DEF Inside
  <2> QED
    BY <2>1, <2>2
<1>2. NotifiedInTime'
  BY ReleaseEffect DEF NotifiedInTime
<1>3. IndexAbove'
  BY ReleaseEffect DEF IndexAbove
<1>4. IndexDistinct'
  BY ReleaseEffect DEF IInv, IndexDistinct
<1> QED
  BY <1>1, <1>2, <1>3, <1>4 DEF IInv

\* A thread arrives with no time left and breaks the barrier.
LEMMA TimesOutInv ==
    ASSUME IInv, NEW t \in Threads, TimesOut(t)
    PROVE  IInv'
<1>1. /\ count' = count - 1 /\ broken' = TRUE /\ pc' = Notified
      /\ UNCHANGED <<generation, holder, index, gen>>
      /\ count > MinCount
  BY DEF TimesOut, IndexNow, Leaves
<1>2. TypeOK'
  BY <1>1, HeldCounted, Bounds, PartiesPositive DEF IInv, TypeOK, Notified
<1>3. HeldAreCounted'
  <2>1. Held' = {}
    BY ReleaseEffect
  <2> QED
    BY <1>1, <2>1, FS_EmptySet, HeldCounted, PartiesPositive
    DEF IInv, TypeOK, HeldAreCounted
<1>4. \A u \in Inside : ~Passes(u)'
  BY <1>1 DEF Passes
<1> QED
  BY <1>1, <1>2, <1>3, <1>4, ReleaseInv

\* The last thread arrives, and its action succeeds or fails.
LEMMA TripInv ==
    ASSUME IInv, NEW t \in Threads, NEW b \in BOOLEAN, Trip(t, b)
    PROVE  IInv'
<1>1. /\ count = 1 /\ count' = Parties /\ generation' = generation + 1
      /\ ~broken /\ broken' = b /\ pc' = Notified
      /\ generation < MaxGeneration
      /\ UNCHANGED <<holder, index, gen>>
  BY DEF IInv, TypeOK, Trip, IndexNow, CountAfterTrip, Leaves
<1>2. TypeOK'
  BY <1>1, Bounds, PartiesPositive DEF IInv, TypeOK, Notified
<1>3. HeldAreCounted'
  <2>1. Held' = {}
    BY ReleaseEffect
  <2> QED
    BY <1>1, <2>1, FS_EmptySet, PartiesPositive DEF HeldAreCounted
<1>4. ASSUME NEW u \in Inside, Passes(u)'
      PROVE  Passes(u) \/ index[u] \in 1..(Parties - 1)
  <2>1. CASE Fails(u)
    <3>1. gen[u] \in Int /\ generation \in Int /\ gen'[u] = gen[u]
      BY <1>1 DEF IInv, TypeOK, Inside
    <3>2. Fails(u)'
      BY <2>1, ReleaseEffect
    <3> QED
      BY <1>1, <1>4, <3>1, <3>2 DEF Fails, Passes
  <2>2. CASE u \in Held
    <3>1. index[u] \in Int
      BY <2>2 DEF IInv, TypeOK, Held, Inside
    <3> QED
      BY <1>1, <2>2, <3>1, PartiesPositive DEF IInv, IndexAbove
  <2> QED
    BY <2>1, <2>2 DEF Held
<1> QED
  BY <1>1, <1>2, <1>3, <1>4, ReleaseInv

\* reset().
LEMMA ResetInv ==
    ASSUME IInv, Reset
    PROVE  IInv'
<1>1. /\ generation' = generation - 4 /\ generation - 4 >= MinGeneration
      /\ broken' = FALSE /\ pc' = Notified
      /\ UNCHANGED <<holder, count, index, gen>>
      /\ \A u \in Inside : gen[u] > generation - 4
  BY DEF Reset, GenerationAfterReset, NoStraggler
<1>2. TypeOK'
  <2>1. generation' \in MinGeneration..MaxGeneration
    BY <1>1, Bounds DEF IInv, TypeOK
  <2>3. pc' \in [Threads -> {"out", "wait", "woken", "spin"}]
    BY <1>1 DEF IInv, TypeOK, Notified
  <2> QED
    BY <1>1, <2>1, <2>3 DEF IInv, TypeOK
<1>3. HeldAreCounted'
  <2>1. Held' = {}
    BY ReleaseEffect
  <2> QED
    BY <1>1, <2>1, FS_EmptySet, HeldCounted, PartiesPositive
    DEF IInv, TypeOK, HeldAreCounted
<1>4. \A u \in Inside : ~Passes(u)'
  BY <1>1 DEF IInv, TypeOK, Passes, Inside
<1> QED
  BY <1>1, <1>2, <1>3, <1>4, ReleaseInv

\* A notified thread returns.
LEMMA ResumeInv ==
    ASSUME IInv, NEW t \in Threads, Resume(t)
    PROVE  IInv'
<1>1. TypeOK'
  BY ResumeEffect, Bounds, PartiesPositive DEF IInv, TypeOK
<1>2. LockHeld'
  BY ResumeEffect DEF IInv, TypeOK, LockHeld, Resume
<1>3. NotifiedInTime'
  BY ResumeEffect DEF IInv, TypeOK, NotifiedInTime, Inside
<1>4. HeldAreCounted'
  BY ResumeEffect DEF IInv, HeldAreCounted
<1>5. IndexAbove'
  <2>1. \A u \in Held : u \in Threads /\ u # t
    BY ResumeEffect, HeldCounted
  <2>2. \A u \in Held : index'[u] = index[u]
    BY <2>1, ResumeEffect DEF IInv, TypeOK
  <2> QED
    BY <2>2, ResumeEffect DEF IInv, IndexAbove
<1>6. IndexDistinct'
  <2>1. \A u \in Inside \ {t} : index'[u] = index[u] /\ gen'[u] = gen[u]
    BY ResumeEffect DEF IInv, TypeOK, Inside
  <2> QED
    BY <2>1, ResumeEffect DEF IInv, IndexDistinct
<1> QED
  BY <1>1, <1>2, <1>3, <1>4, <1>5, <1>6 DEF IInv

\* A thread finds the barrier broken.
LEMMA RefusedInv ==
    ASSUME IInv, NEW t \in Threads, Refused(t)
    PROVE  IInv'
<1>1. /\ broken /\ count > MinCount /\ count' = count - 1
      /\ UNCHANGED <<pc, holder, generation, broken, index, gen>>
  BY DEF Refused, IndexNow, Leaves
<1>2. /\ Inside' = Inside /\ Held' = {} /\ Held = {}
      /\ \A u \in Threads : Fails(u)' = Fails(u) /\ Passes(u)' = Passes(u)
  BY <1>1 DEF Inside, Held, Fails, Passes
<1>3. TypeOK'
  BY <1>1, Bounds, PartiesPositive DEF IInv, TypeOK
<1>4. HeldAreCounted'
  BY <1>1, <1>2, FS_EmptySet, PartiesPositive DEF IInv, TypeOK, HeldAreCounted
<1>5. LockHeld' /\ NotifiedInTime' /\ IndexAbove'
  BY <1>1, <1>2 DEF IInv, LockHeld, NotifiedInTime, IndexAbove
<1>6. IndexDistinct'
  BY <1>1, <1>2 DEF IInv, IndexDistinct, Inside
<1> QED
  BY <1>3, <1>4, <1>5, <1>6 DEF IInv

\* Every step keeps the invariant.
LEMMA NextInv == IInv /\ [Next]_vars => IInv'
<1> SUFFICES ASSUME IInv, [Next]_vars PROVE IInv'
  OBVIOUS
<1>1. CASE Reset
  BY <1>1, ResetInv
<1>2. ASSUME NEW t \in Threads, Refused(t) PROVE IInv'
  BY <1>2, RefusedInv
<1>3. ASSUME NEW t \in Threads, Wait(t) PROVE IInv'
  BY <1>3, StaysInv DEF Wait
<1>4. ASSUME NEW t \in Threads, TimedWait(t) PROVE IInv'
  BY <1>4, StaysInv DEF TimedWait
<1>5. ASSUME NEW t \in Threads, TimesOut(t) PROVE IInv'
  BY <1>5, TimesOutInv
<1>6. ASSUME NEW t \in Threads, Resume(t) PROVE IInv'
  BY <1>6, ResumeInv
<1>7. ASSUME NEW t \in Threads, NEW b \in BOOLEAN, Trip(t, b) PROVE IInv'
  BY <1>7, TripInv
<1>8. CASE UNCHANGED vars
  BY <1>8 DEF vars, IInv, TypeOK, LockHeld, NotifiedInTime, HeldAreCounted,
              IndexAbove, IndexDistinct, Held, Inside, Fails, Passes
<1>9. ASSUME NEW t \in Threads, Spin(t) PROVE IInv'
  BY <1>8, <1>9 DEF Spin
<1> QED
  BY <1>1, <1>2, <1>3, <1>4, <1>5, <1>6, <1>7, <1>8, <1>9 DEF Next

\* The inductive invariant holds.
LEMMA Invariance == Spec => []IInv
  BY InitInv, NextInv, PTL DEF Spec

\* Every variable of the barrier keeps its type; its counts do not leave their
\* ranges.
THEOREM TypeCorrect == Spec => []TypeOK
<1>1. IInv => TypeOK
  BY DEF IInv
<1> QED
  BY <1>1, Invariance, PTL

\* dowait(): a thread has been notified exactly when its group has passed or
\* failed, and the arrival indices of a group are distinct.
THEOREM CallsCorrect == Spec => []CallsSound
<1>1. IInv => CallsSound
  BY DEF IInv, CallsSound
<1> QED
  BY <1>1, Invariance, PTL

\* However the barrier has been tripped, broken and reset, count leaves room for
\* at most the parties that are not held.
THEOREM CountCorrect == Spec => []HeldAreCounted
<1>1. IInv => HeldAreCounted
  BY DEF IInv
<1> QED
  BY <1>1, Invariance, PTL

-----------------------------------------------------------------------------
\* A thread's place is told by whether it is inside, held or to fail.
PlaceTells ==
    /\ Place = [t \in Threads |-> Place[t]]
    /\ \A t \in Threads :
        /\ t \notin Inside => Place[t] = "out"
        /\ t \in Held => Place[t] = "held"
        /\ t \in Inside /\ Fails(t) => Place[t] = "fail"
        /\ t \in Inside /\ ~Fails(t) /\ Passes(t) => Place[t] = "pass"

\* The place of a thread in the abstract barrier.
LEMMA PlaceOf == PlaceTells /\ PlaceTells'
<1>1. PlaceTells
  BY DEF PlaceTells, Place, Held
<1>2. PlaceTells'
  BY DEF PlaceTells, Place, Held
<1> QED
  BY <1>1, <1>2

\* If everybody inside is to fail, every place becomes "fail".
LEMMA FailedEffect ==
    ASSUME Inside' = Inside, \A u \in Inside : Fails(u)'
    PROVE  Place' = Abstract!Failed
<1>1. ASSUME NEW u \in Threads
      PROVE  Place'[u] = IF Place[u] = "out" THEN "out" ELSE "fail"
  <2>1. CASE u \notin Inside
    BY <2>1, PlaceOf DEF PlaceTells
  <2>2. CASE u \in Inside
    <3>1. Place[u] # "out"
      BY <2>2 DEF Place
    <3> QED
      BY <2>2, <3>1, PlaceOf DEF PlaceTells
  <2> QED
    BY <2>1, <2>2
<1> QED
  BY <1>1, PlaceOf DEF PlaceTells, Abstract!Failed

\* With a true count the last missing party is the one that counts down to 0.
LEMMA TrueCount ==
    ASSUME IInv, NumberWaiting
    PROVE  Abstract!LastMissing <=> count = 1
<1>1. {t \in Threads : Place[t] = "held"} = Held
  <2>1. \A t \in Threads : Place[t] = "held" <=> t \in Held
    BY DEF Place, Held
  <2> QED
    BY <2>1, HeldCounted
<1>2. count \in Int /\ Parties \in Int
  BY PartiesPositive, Bounds DEF IInv, TypeOK
<1>3. Abstract!LastMissing <=> Cardinality(Held) = Parties - 1
  BY <1>1 DEF Abstract!LastMissing, Abstract!Cardinality, Cardinality
<1> QED
  BY <1>2, <1>3, HeldCounted DEF NumberWaiting

\* A thread that stays is held.
LEMMA StaysRefines ==
    ASSUME IInv, NumberWaiting, NEW t \in Threads, NEW how \in {"wait", "spin"}, Stays(t, how)
    PROVE  Abstract!Hold(t)
<1>1. Place[t] = "out"
  BY StaysEffect, PlaceOf DEF PlaceTells
<1>2. ~Abstract!LastMissing /\ ~broken /\ broken' = broken
  BY TrueCount DEF Stays, IndexNow
<1>3. ASSUME NEW u \in Threads
      PROVE  Place'[u] = IF u = t THEN "held" ELSE Place[u]
  <2>1. CASE u = t
    BY <2>1, StaysEffect, PlaceOf DEF PlaceTells
  <2>2. CASE u # t
    <3>1. u \in Inside' <=> u \in Inside
      BY <2>2, StaysEffect
    <3>2. u \in Held' <=> u \in Held
      BY <2>2, StaysEffect
    <3>3. u \in Inside => Fails(u)' = Fails(u)
      BY StaysEffect
    <3> QED
      BY <2>2, <3>1, <3>2, <3>3 DEF Place
  <2> QED
    BY <2>1, <2>2
<1>4. Place' = [Place EXCEPT ![t] = "held"]
  BY <1>3, PlaceOf DEF PlaceTells
<1> QED
  BY <1>1, <1>2, <1>4 DEF Abstract!Hold, Abstract!Arrives

\* The last thread trips the barrier or fails to.
LEMMA TripRefines ==
    ASSUME IInv, NumberWaiting, NEW t \in Threads, NEW b \in BOOLEAN, Trip(t, b)
    PROVE  Abstract!Trip(t) \/ Abstract!TripFails(t)
<1>1. pc[t] = "out" /\ ~broken /\ broken' = b /\ generation' = generation + 1
  BY DEF Trip
<1>2. Place[t] = "out" /\ Abstract!LastMissing
  <2>1. count = 1
    BY DEF Trip, IndexNow, IInv, TypeOK
  <2> QED
    BY <1>1, <2>1, TrueCount DEF Place, Inside
<1>3. CASE b
  <2>1. \A u \in Inside : Fails(u)'
    BY <1>1, <1>3 DEF Fails
  <2>2. Place' = Abstract!Failed
    BY <2>1, ReleaseEffect, FailedEffect
  <2> QED
    BY <1>1, <1>2, <1>3, <2>2 DEF Abstract!TripFails, Abstract!Arrives
<1>4. CASE ~b
  <2>1. ASSUME NEW u \in Threads
        PROVE  Place'[u] = IF Place[u] = "held" THEN "pass" ELSE Place[u]
    <3>1. CASE u \notin Inside
      BY <3>1, ReleaseEffect, PlaceOf DEF PlaceTells
    <3>2. CASE u \in Inside /\ Fails(u)
      <4>1. u \in Inside' /\ Fails(u)'
        BY <3>2, ReleaseEffect
      <4> QED
        BY <3>2, <4>1, PlaceOf DEF PlaceTells
    <3>3. CASE u \in Inside /\ ~Fails(u)
      <4>1. gen[u] \in Int /\ generation \in Int /\ gen'[u] = gen[u]
        BY <3>3, ReleaseEffect DEF IInv, TypeOK, Inside
      <4>2. ~Fails(u)' /\ Passes(u)'
        BY <1>1, <1>4, <3>3, <4>1 DEF Fails, Passes
      <4>3. Place'[u] = "pass"
        BY <3>3, <4>2, ReleaseEffect, PlaceOf DEF PlaceTells
      <4>4. Place[u] = "held" \/ Place[u] = "pass"
        BY <3>3 DEF Place
      <4> QED
        BY <4>3, <4>4
    <3> QED
      BY <3>1, <3>2, <3>3
  <2>2. Place' = [u \in Threads |-> IF Place[u] = "held" THEN "pass" ELSE Place[u]]
    BY <2>1, PlaceOf DEF PlaceTells
  <2>3. broken' = broken
    BY <1>1, <1>4 DEF IInv, TypeOK
  <2> QED
    BY <1>1, <1>2, <2>2, <2>3 DEF Abstract!Trip, Abstract!Arrives
<1> QED
  BY <1>3, <1>4

\* A thread with no time left times out.
LEMMA TimesOutRefines ==
    ASSUME IInv, NumberWaiting, NEW t \in Threads, TimesOut(t)
    PROVE  Abstract!TimesOut(t)
<1>1. pc[t] = "out" /\ ~broken /\ broken' = TRUE
  BY DEF TimesOut
<1>2. Place[t] = "out" /\ ~Abstract!LastMissing
  BY <1>1, TrueCount DEF Place, Inside, TimesOut, IndexNow
<1>3. \A u \in Inside : Fails(u)'
  BY <1>1 DEF Fails
<1>4. Place' = Abstract!Failed
  BY <1>3, ReleaseEffect, FailedEffect
<1> QED
  BY <1>1, <1>2, <1>4 DEF Abstract!TimesOut, Abstract!Arrives

\* reset() fails everybody inside.
LEMMA ResetRefines ==
    ASSUME IInv, Reset
    PROVE  Abstract!Reset
<1>1. \A u \in Inside : Fails(u)'
  <2> SUFFICES ASSUME NEW u \in Inside PROVE Fails(u)'
    OBVIOUS
  <2>1. gen'[u] = gen[u] /\ gen[u] > generation - 4 /\ generation' = generation - 4
    BY ReleaseEffect DEF Reset, NoStraggler, GenerationAfterReset
  <2> QED
    BY <2>1 DEF Fails
<1>2. Place' = Abstract!Failed
  BY <1>1, ReleaseEffect, FailedEffect
<1> QED
  BY <1>2 DEF Reset, Abstract!Reset

\* A thread that returns leaves.
LEMMA ResumeRefines ==
    ASSUME IInv, NEW t \in Threads, Resume(t)
    PROVE  Abstract!Leave(t)
<1>1. Place[t] \in {"pass", "fail"}
  BY ResumeEffect DEF Place
<1>2. ASSUME NEW u \in Threads
      PROVE  Place'[u] = IF u = t THEN "out" ELSE Place[u]
  <2>1. CASE u = t
    BY <2>1, ResumeEffect, PlaceOf DEF PlaceTells
  <2>2. CASE u # t
    <3>1. /\ u \in Inside' <=> u \in Inside
          /\ u \in Held' <=> u \in Held
          /\ u \in Inside => Fails(u)' = Fails(u)
      BY <2>2, ResumeEffect
    <3> QED
      BY <2>2, <3>1 DEF Place
  <2> QED
    BY <2>1, <2>2
<1>3. Place' = [Place EXCEPT ![t] = "out"]
  BY <1>2, PlaceOf DEF PlaceTells
<1> QED
  BY <1>1, <1>3, ResumeEffect DEF Abstract!Leave

\* A thread that finds the barrier broken is refused: nobody else notices.
LEMMA RefusedRefines ==
    ASSUME NEW t \in Threads, Refused(t)
    PROVE  UNCHANGED <<Place, broken>>
<1>1. UNCHANGED <<pc, generation, broken, gen>>
  BY DEF Refused, Leaves
<1> QED
  BY <1>1 DEF Place, Inside, Held, Fails, Passes

\* A step from a state with a true count is a step of CyclicBarrierSpec or leaves
\* its state alone.
LEMMA StepRefines ==
    IInv /\ [Next]_vars => [NumberWaiting => Abstract!Next]_<<Place, broken>>
<1> SUFFICES ASSUME IInv, [Next]_vars, NumberWaiting
             PROVE  Abstract!Next \/ UNCHANGED <<Place, broken>>
  OBVIOUS
<1>1. CASE Reset
  BY <1>1, ResetRefines DEF Abstract!Next
<1>2. ASSUME NEW t \in Threads, Refused(t) PROVE UNCHANGED <<Place, broken>>
  BY <1>2, RefusedRefines
<1>3. ASSUME NEW t \in Threads, Wait(t) \/ TimedWait(t) PROVE Abstract!Next
  BY <1>3, StaysRefines DEF Wait, TimedWait, Abstract!Next
<1>4. ASSUME NEW t \in Threads, TimesOut(t) PROVE Abstract!Next
  BY <1>4, TimesOutRefines DEF Abstract!Next
<1>5. ASSUME NEW t \in Threads, Resume(t) PROVE Abstract!Next
  BY <1>5, ResumeRefines DEF Abstract!Next
<1>6. ASSUME NEW t \in Threads, NEW b \in BOOLEAN, Trip(t, b) PROVE Abstract!Next
  BY <1>6, TripRefines DEF Abstract!Next
<1>7. CASE UNCHANGED vars
  BY <1>7 DEF vars, Place, Inside, Held, Fails, Passes
<1>8. ASSUME NEW t \in Threads, Spin(t) PROVE UNCHANGED vars
  BY <1>8 DEF Spin
<1> QED
  BY <1>1, <1>2, <1>3, <1>4, <1>5, <1>6, <1>7, <1>8 DEF Next

\* Every step from a state whose count is true is one that the documented barrier
\* can make: the threads of a group pass together, one failure makes everybody
\* inside leave abnormally, and a comparison of generations tells who is who.
THEOREM Documented == Spec => StepsAsDocumented
  BY StepRefines, Invariance, PTL DEF Spec, StepsAsDocumented
=============================================================================
