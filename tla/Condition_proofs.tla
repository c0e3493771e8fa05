--------------------------- MODULE Condition_proofs ---------------------------
(***************************************************************************)
(* Proofs about Condition, for any finite set of threads.                  *)
(*                                                                         *)
(* The gate is a lock however the threads use the Condition (GateCorrect). *)
(* The rest holds of wait() only: with two waiters of which one times out  *)
(* the counts, the permits and the promise of the class all break.  The    *)
(* classes that own a Condition call wait() only.                          *)
(***************************************************************************)
EXTENDS Condition, FiniteSetTheorems, TLAPS

\* Counting a finite set of threads T: its subsets, with one thread more or
\* one thread less.
LEMMA Counting ==
    ASSUME NEW T, IsFiniteSet(T), NEW X \in SUBSET T, NEW t \in T
    PROVE  /\ Cardinality(X) \in Nat
           /\ Cardinality(X) = 0 <=> X = {}
           /\ t \in X => Cardinality(X \ {t}) = Cardinality(X) - 1
           /\ t \notin X => Cardinality(X \cup {t}) = Cardinality(X) + 1
<1>1. IsFiniteSet(X)
  BY FS_Subset
<1> QED
  BY <1>1, FS_CardinalityType, FS_EmptySet, FS_AddElement, FS_RemoveElement

\* The threads call wait() and not wait(period).
Untimed == \A u \in Usages : \A t \in Threads : u[t] \subseteq {FALSE}

-----------------------------------------------------------------------------
(* The gate *)

\* The variables the gate depends on; the counters may be negative here.
GateType ==
    /\ pc \in [Threads -> {"idle", "locked", "atGate", "counting", "counted", "blocked",
                          "returning", "settling", "lastOut", "passOn", "relock",
                          "closing", "signalling"}]
    /\ blockLock \in Nat
    /\ numWaitersToUnblock \in Int
    /\ numWaitersBlocked \in Int
    /\ numWaitersGone \in Int
    /\ waitersGone \in [Threads -> Int]

\* Signals are outstanding.
Outstanding == IF numWaitersToUnblock # 0 THEN 1 ELSE 0

\* At most one of: the gate is open, a thread is past it, signals are
\* outstanding, the last waiter out is about to open it.
GateIsLock ==
    blockLock + Cardinality(At("counting")) + Cardinality(At("lastOut")) + Outstanding <= 1

\* Whoever is about to close the gate keeps everybody out of the counters.
UnblockHeld ==
    \A t \in Threads : pc[t] \in {"closing", "settling"} =>
        /\ unblockLock = t
        /\ numWaitersToUnblock = 0

GateInv == GateType /\ GateIsLock /\ UnblockHeld

-----------------------------------------------------------------------------
(* The waits without a period *)

\* Nobody times out, so nobody has gone without a signal.
NobodyGone ==
    /\ numWaitersGone = 0
    /\ \A t \in Threads : ~timed[t] /\ ~timedOut[t] /\ waitersGone[t] = 0
    /\ At("settling") = {}

\* The gate is accounted for: if it is closed the one who will open it exists.
GateAccounted ==
    blockLock + Cardinality(At("counting")) + Cardinality(At("lastOut")) + Outstanding = 1

\* One permit per group of signals, somewhere on its way from the notifier
\* through one waiter after the other.
PermitAccounted ==
    blockQueue + Cardinality(At("returning")) + Cardinality(At("passOn"))
               + Cardinality(At("signalling")) = Outstanding

\* Somebody waits while a notifier closes the gate.
ClosingForSomebody == At("closing") # {} => numWaitersBlocked > 0

\* Who has been let out was notified, and so was everybody who waits while
\* signals are outstanding.
Told ==
    /\ \A t \in Threads : pc[t] \in {"passOn", "lastOut", "relock"} => heard[t]
    /\ numWaitersToUnblock # 0 => \A t \in InWait : heard[t]

IInv ==
    /\ TypeOK
    /\ UnblockHeld
    /\ NobodyGone
    /\ GateAccounted
    /\ PermitAccounted
    /\ WaitersCounted
    /\ ClosingForSomebody
    /\ Told

-----------------------------------------------------------------------------
(* What a step of one thread does to the places *)

Places == {"idle", "locked", "atGate", "counting", "counted", "blocked", "returning",
           "settling", "lastOut", "passOn", "relock", "closing", "signalling"}

\* A set of threads without one of them.
LEMMA WithoutOne ==
    ASSUME NEW X \in SUBSET Threads, NEW t \in Threads
    PROVE  /\ Cardinality(X) \in Nat
           /\ Cardinality(X \ {t}) = Cardinality(X) - (IF t \in X THEN 1 ELSE 0)
<1>1. t \notin X => X \ {t} = X
  OBVIOUS
<1>2. /\ Cardinality(X) \in Nat
      /\ t \in X => Cardinality(X \ {t}) = Cardinality(X) - 1
  BY ThreadsFinite, Counting
<1> QED
  BY <1>1, <1>2

\* How many threads are at p after a thread has gone to l.
LEMMA AtMoves ==
    ASSUME pc \in [Threads -> Places], NEW t \in Threads, NEW l, Goto(t, l), NEW p
    PROVE  /\ Cardinality(At(p)) \in Nat
           /\ Cardinality(At(p)') = Cardinality(At(p)) + (IF l = p THEN 1 ELSE 0)
                                                       - (IF pc[t] = p THEN 1 ELSE 0)
<1>1. /\ At(p) \in SUBSET Threads /\ At(p)' \in SUBSET Threads
      /\ t \in At(p) <=> pc[t] = p
      /\ t \in At(p)' <=> l = p
      /\ At(p)' \ {t} = At(p) \ {t}
  BY DEF At, Goto
<1>3. /\ Cardinality(At(p)) \in Nat
      /\ Cardinality(At(p) \ {t}) = Cardinality(At(p)) - (IF t \in At(p) THEN 1 ELSE 0)
  BY <1>1, WithoutOne
<1>4. /\ Cardinality(At(p)') \in Nat
      /\ Cardinality(At(p)' \ {t}) = Cardinality(At(p)') - (IF t \in At(p)' THEN 1 ELSE 0)
  BY <1>1, WithoutOne
<1> QED
  BY <1>1, <1>3, <1>4

\* If nobody moves, everybody is where they were.
LEMMA Same ==
    ASSUME pc' = pc
    PROVE  InWait' = InWait /\ \A p : At(p)' = At(p)
  BY DEF InWait, At

\* A place of the gate, an empty one, and one with somebody.
LEMMA AtCount ==
    ASSUME NEW p
    PROVE  /\ Cardinality(At(p)) \in Nat
           /\ At(p) = {} <=> Cardinality(At(p)) = 0
<1>1. At(p) \in SUBSET Threads
  BY DEF At
<1>2. IsFiniteSet(At(p))
  BY <1>1, ThreadsFinite, FS_Subset
<1> QED
  BY <1>2, FS_CardinalityType, FS_EmptySet

-----------------------------------------------------------------------------
(* The gate is a lock, time-outs or not *)

GateCount == blockLock + Cardinality(At("counting")) + Cardinality(At("lastOut")) + Outstanding

\* The threads that hold the gate, after a thread has gone to l.
LEMMA GateMoves ==
    ASSUME GateType, NEW t \in Threads, NEW l, Goto(t, l)
    PROVE  /\ Cardinality(At("counting")) \in Nat /\ Cardinality(At("lastOut")) \in Nat
           /\ Cardinality(At("counting")') = Cardinality(At("counting"))
                + (IF l = "counting" THEN 1 ELSE 0) - (IF pc[t] = "counting" THEN 1 ELSE 0)
           /\ Cardinality(At("lastOut")') = Cardinality(At("lastOut"))
                + (IF l = "lastOut" THEN 1 ELSE 0) - (IF pc[t] = "lastOut" THEN 1 ELSE 0)
  BY AtMoves DEF GateType, Places

\* A step that moves one thread between two places that are not of the gate
\* and changes neither the gate nor the number of signals.
LEMMA GateIrrelevant ==
    ASSUME GateInv, NEW t \in Threads, NEW l \in Places, Goto(t, l),
           pc[t] \notin {"counting", "lastOut"}, l \notin {"counting", "lastOut"},
           UNCHANGED <<blockLock, numWaitersToUnblock>>
    PROVE  GateIsLock'
<1>1. GateType /\ GateIsLock
  BY DEF GateInv
<1> QED
  BY <1>1, GateMoves DEF GateIsLock, GateType, Outstanding

\* Every step keeps the gate right, with time-outs or without.
LEMMA GateNext == GateInv /\ [Next]_vars => GateInv'
<1> SUFFICES ASSUME GateInv, [Next]_vars PROVE GateInv'
  OBVIOUS
<1>0. GateType /\ GateIsLock /\ UnblockHeld
  BY DEF GateInv
<1>1. ASSUME NEW t \in Threads, LockMutex(t) PROVE GateInv'
  <2>1. GateType' /\ UnblockHeld'
    BY <1>0, <1>1 DEF GateType, UnblockHeld, LockMutex, Goto, counts, locals
  <2>2. GateIsLock'
    BY <1>1, GateIrrelevant DEF LockMutex, counts, Places
  <2> QED
    BY <2>1, <2>2 DEF GateInv
<1>2. ASSUME NEW t \in Threads, UnlockMutex(t) PROVE GateInv'
  <2>1. GateType' /\ UnblockHeld'
    BY <1>0, <1>2 DEF GateType, UnblockHeld, UnlockMutex, Goto, counts, locals
  <2>2. GateIsLock'
    BY <1>2, GateIrrelevant DEF UnlockMutex, counts, Places
  <2> QED
    BY <2>1, <2>2 DEF GateInv
<1>3. ASSUME NEW t \in Threads, Wait(t) PROVE GateInv'
  <2>1. GateType' /\ UnblockHeld'
    BY <1>0, <1>3 DEF GateType, UnblockHeld, Wait, Goto, counts, sync
  <2>2. GateIsLock'
    BY <1>3, GateIrrelevant DEF Wait, counts, sync, Places
  <2> QED
    BY <2>1, <2>2 DEF GateInv
<1>4. ASSUME NEW t \in Threads, PassGate(t) PROVE GateInv'
  <2>1. GateType' /\ UnblockHeld'
    BY <1>0, <1>4 DEF GateType, UnblockHeld, PassGate, Goto, counts, locals
  <2>2. GateIsLock'
    BY <1>0, <1>4, GateMoves DEF GateIsLock, GateType, PassGate, counts, Outstanding
  <2> QED
    BY <2>1, <2>2 DEF GateInv
<1>5. ASSUME NEW t \in Threads, Count(t) PROVE GateInv'
  <2>1. GateType' /\ UnblockHeld'
    BY <1>0, <1>5 DEF GateType, UnblockHeld, Count, Goto, locals
  <2>2. GateIsLock'
    BY <1>0, <1>5, GateMoves DEF GateIsLock, GateType, Count, Outstanding
  <2> QED
    BY <2>1, <2>2 DEF GateInv
<1>6. ASSUME NEW t \in Threads, ReleaseMutex(t) PROVE GateInv'
  <2>1. GateType' /\ UnblockHeld'
    BY <1>0, <1>6 DEF GateType, UnblockHeld, ReleaseMutex, Goto, counts, locals
  <2>2. GateIsLock'
    BY <1>6, GateIrrelevant DEF ReleaseMutex, counts, Places
  <2> QED
    BY <2>1, <2>2 DEF GateInv
<1>7. ASSUME NEW t \in Threads, TakePermit(t) PROVE GateInv'
  <2>1. GateType' /\ UnblockHeld'
    BY <1>0, <1>7 DEF GateType, UnblockHeld, TakePermit, Goto, counts
  <2>2. GateIsLock'
    BY <1>7, GateIrrelevant DEF TakePermit, counts, Places
  <2> QED
    BY <2>1, <2>2 DEF GateInv
<1>8. ASSUME NEW t \in Threads, TimeOut(t) PROVE GateInv'
  <2>1. GateType' /\ UnblockHeld'
    BY <1>0, <1>8 DEF GateType, UnblockHeld, TimeOut, Goto, counts, sync
  <2>2. GateIsLock'
    BY <1>8, GateIrrelevant DEF TimeOut, counts, sync, Places
  <2> QED
    BY <2>1, <2>2 DEF GateInv
<1>9. ASSUME NEW t \in Threads, LeaveSignalled(t) PROVE GateInv'
  <2> DEFINE withdraws == timedOut[t] /\ numWaitersBlocked # 0
             blocked   == IF withdraws THEN numWaitersBlocked - 1 ELSE numWaitersBlocked
             opens     == numWaitersToUnblock = 1 /\ blocked # 0
             left      == SignalsLeft(withdraws, opens)
  <2>1. /\ pc[t] = "returning" /\ unblockLock = None /\ numWaitersToUnblock # 0
        /\ numWaitersToUnblock' = numWaitersToUnblock - 1
        /\ blockLock' = IF opens THEN blockLock + 1 ELSE blockLock
        /\ Goto(t, AfterLeaving(left))
        /\ UNCHANGED unblockLock
    BY <1>9 DEF LeaveSignalled
  <2>2. numWaitersBlocked' \in Int /\ numWaitersGone' \in Int /\ waitersGone' \in [Threads -> Int]
    BY <1>0, <1>9 DEF LeaveSignalled, GoneNow, GateType
  <2>3. AfterLeaving(left) \in {"lastOut", "passOn", "relock"}
    BY DEF AfterLeaving
  <2>4. GateType'
    <3>1. pc' \in [Threads -> Places]
      BY <1>0, <2>1, <2>3 DEF GateType, Goto, Places
    <3>2. blockLock' \in Nat /\ numWaitersToUnblock' \in Int
      BY <1>0, <2>1 DEF GateType
    <3> QED
      BY <2>2, <3>1, <3>2 DEF GateType, Places
  <2>5. UnblockHeld'
    BY <1>0, <2>1, <2>3, ThreadsFinite DEF UnblockHeld, GateType, Goto
  <2>6. AfterLeaving(left) = "lastOut" => numWaitersToUnblock = 1 /\ ~opens
    BY DEF AfterLeaving, SignalsLeft
  <2>7. GateIsLock'
    <3>1. CASE AfterLeaving(left) = "lastOut"
      BY <1>0, <2>1, <2>6, <3>1, GateMoves DEF GateIsLock, GateType, Outstanding
    <3>2. CASE AfterLeaving(left) = "passOn"
      BY <1>0, <2>1, <3>2, GateMoves DEF GateIsLock, GateType, Outstanding
    <3>3. CASE AfterLeaving(left) = "relock"
      BY <1>0, <2>1, <3>3, GateMoves DEF GateIsLock, GateType, Outstanding
    <3> QED
      BY <2>3, <3>1, <3>2, <3>3
  <2> QED
    BY <2>4, <2>5, <2>7 DEF GateInv
<1>10. ASSUME NEW t \in Threads, LeaveUnsignalled(t) PROVE GateInv'
  <2>1. /\ pc[t] = "returning" /\ unblockLock = None /\ numWaitersToUnblock = 0
        /\ UNCHANGED <<blockLock, numWaitersBlocked, numWaitersToUnblock>>
        /\ numWaitersGone' = numWaitersGone + 1
        /\ waitersGone' = [waitersGone EXCEPT ![t] = 0]
    BY <1>10 DEF LeaveUnsignalled, GoneAfter
  <2>2. CASE unblockLock' = t /\ Goto(t, "settling")
    <3>1. GateType' /\ UnblockHeld'
      BY <1>0, <2>1, <2>2, ThreadsFinite DEF GateType, UnblockHeld, Goto
    <3>2. GateIsLock'
      BY <2>1, <2>2, GateIrrelevant DEF Places
    <3> QED
      BY <3>1, <3>2 DEF GateInv
  <2>3. CASE UNCHANGED unblockLock /\ Goto(t, "relock")
    <3>1. GateType' /\ UnblockHeld'
      BY <1>0, <2>1, <2>3, ThreadsFinite DEF GateType, UnblockHeld, Goto
    <3>2. GateIsLock'
      BY <2>1, <2>3, GateIrrelevant DEF Places
    <3> QED
      BY <3>1, <3>2 DEF GateInv
  <2> QED
    BY <1>10, <2>2, <2>3 DEF LeaveUnsignalled
<1>11. ASSUME NEW t \in Threads, Settle(t) PROVE GateInv'
  <2>1. GateType'
    BY <1>0, <1>11 DEF GateType, Settle, Goto, locals
  <2>2. UnblockHeld'
    BY <1>0, <1>11 DEF GateType, UnblockHeld, Settle, Goto
  <2>3. GateIsLock'
    BY <1>11, GateIrrelevant DEF Settle, Places
  <2> QED
    BY <2>1, <2>2, <2>3 DEF GateInv
<1>12. ASSUME NEW t \in Threads, TakeBackPermit(t) PROVE GateInv'
  <2>1. GateType' /\ UnblockHeld'
    BY <1>0, <1>12 DEF GateType, UnblockHeld, TakeBackPermit, counts
  <2>2. GateIsLock'
    BY <1>0, <1>12, Same DEF GateIsLock, TakeBackPermit, counts, Outstanding
  <2> QED
    BY <2>1, <2>2 DEF GateInv
<1>13. ASSUME NEW t \in Threads, OpenGate(t) PROVE GateInv'
  <2>1. GateType' /\ UnblockHeld'
    BY <1>0, <1>13 DEF GateType, UnblockHeld, OpenGate, Goto, counts, locals
  <2>2. GateIsLock'
    BY <1>0, <1>13, GateMoves DEF GateIsLock, GateType, OpenGate, counts, Outstanding
  <2> QED
    BY <2>1, <2>2 DEF GateInv
<1>14. ASSUME NEW t \in Threads, PassOn(t) PROVE GateInv'
  <2>1. GateType' /\ UnblockHeld'
    BY <1>0, <1>14 DEF GateType, UnblockHeld, PassOn, Goto, counts, locals
  <2>2. GateIsLock'
    BY <1>14, GateIrrelevant DEF PassOn, counts, Places
  <2> QED
    BY <2>1, <2>2 DEF GateInv
<1>15. ASSUME NEW t \in Threads, Relock(t) PROVE GateInv'
  <2>1. GateType' /\ UnblockHeld'
    BY <1>0, <1>15 DEF GateType, UnblockHeld, Relock, Goto, counts
  <2>2. GateIsLock'
    BY <1>15, GateIrrelevant DEF Relock, counts, Places
  <2> QED
    BY <2>1, <2>2 DEF GateInv
<1>16. ASSUME NEW t \in Threads, NotifyMore(t) PROVE GateInv'
  <2>1. GateType'
    BY <1>0, <1>16 DEF GateType, NotifyMore, BlockedAfter, locals, sync
  <2>2. UnblockHeld'
    BY <1>0, <1>16, ThreadsFinite DEF UnblockHeld, NotifyMore, sync
  <2>3. GateIsLock'
    BY <1>0, <1>16, Same, AtCount DEF GateIsLock, GateType, NotifyMore, sync, Outstanding
  <2> QED
    BY <2>1, <2>2, <2>3 DEF GateInv
<1>17. ASSUME NEW t \in Threads, NotifyNobody(t) PROVE GateInv'
  <2>1. GateType' /\ UnblockHeld'
    BY <1>0, <1>17 DEF GateType, UnblockHeld, NotifyNobody, locals, sync, counts
  <2>2. GateIsLock'
    BY <1>0, <1>17, Same DEF GateIsLock, NotifyNobody, sync, counts, Outstanding
  <2> QED
    BY <2>1, <2>2 DEF GateInv
<1>18. ASSUME NEW t \in Threads, NotifyFirst(t) PROVE GateInv'
  <2>1. GateType' /\ UnblockHeld'
    BY <1>0, <1>18, ThreadsFinite DEF GateType, UnblockHeld, NotifyFirst, Goto, counts
  <2>2. GateIsLock'
    BY <1>18, GateIrrelevant DEF NotifyFirst, counts, Places
  <2> QED
    BY <2>1, <2>2 DEF GateInv
<1>19. ASSUME NEW t \in Threads, CloseGate(t) PROVE GateInv'
  <2>1. /\ pc[t] = "closing" /\ blockLock > 0 /\ blockLock' = blockLock - 1
        /\ Goto(t, "signalling") /\ numWaitersGone' = 0 /\ UNCHANGED waitersGone
        /\ numWaitersToUnblock' \in Int /\ numWaitersBlocked' \in Int
    BY <1>0, <1>19 DEF CloseGate, GateType
  <2>2. GateType' /\ UnblockHeld'
    BY <1>0, <2>1 DEF GateType, UnblockHeld, Goto
  <2>3. GateIsLock'
    BY <1>0, <2>1, GateMoves DEF GateIsLock, GateType, Outstanding
  <2> QED
    BY <2>2, <2>3 DEF GateInv
<1>20. ASSUME NEW t \in Threads, ReleaseFirst(t) PROVE GateInv'
  <2>1. /\ pc[t] = "signalling" /\ UNCHANGED <<blockLock, unblockLock, counts, locals>>
        /\ Goto(t, "locked") \/ Goto(t, "idle")
    BY <1>20 DEF ReleaseFirst, Return
  <2>2. GateType' /\ UnblockHeld'
    BY <1>0, <2>1 DEF GateType, UnblockHeld, Goto, counts, locals
  <2>3. GateIsLock'
    BY <2>1, GateIrrelevant DEF counts, Places
  <2> QED
    BY <2>2, <2>3 DEF GateInv
<1>21. CASE UNCHANGED vars
  <2>1. GateType' /\ UnblockHeld'
    BY <1>0, <1>21 DEF GateType, UnblockHeld, vars, counts, locals, sync
  <2>2. GateIsLock'
    BY <1>0, <1>21, Same DEF GateIsLock, vars, sync, counts, Outstanding
  <2> QED
    BY <2>1, <2>2 DEF GateInv
<1> QED
  BY <1>1, <1>2, <1>3, <1>4, <1>5, <1>6, <1>7, <1>8, <1>9, <1>10, <1>11, <1>12, <1>13,
     <1>14, <1>15, <1>16, <1>17, <1>18, <1>19, <1>20, <1>21
  DEF Next, Call, Continue

\* The constructor leaves the gate open.
LEMMA GateInit == Init => GateInv
<1> SUFFICES ASSUME Init PROVE GateInv
  OBVIOUS
<1>1. At("counting") = {} /\ At("lastOut") = {}
  BY DEF Init, At
<1>2. Cardinality(At("counting")) = 0 /\ Cardinality(At("lastOut")) = 0
  BY <1>1, AtCount
<1>3. GateType /\ UnblockHeld
  BY DEF Init, GateType, UnblockHeld
<1>4. GateIsLock
  BY <1>2 DEF Init, GateIsLock, Outstanding
<1> QED
  BY <1>3, <1>4 DEF GateInv

\* The gate of condition.d is a lock however wait, wait(period), notify and
\* notifyAll are used: m_numWaitersBlocked is never written under m_blockLock
\* and under m_unblockLock at once.
THEOREM GateExclusive == Spec => []Gate
<1>1. GateInv => Gate
  <2> SUFFICES ASSUME GateInv PROVE Gate
    OBVIOUS
  <2>1. /\ Cardinality(At("counting")) \in Nat /\ Cardinality(At("lastOut")) \in Nat
        /\ Cardinality(At("counting")) = 0 => At("counting") = {}
    BY AtCount
  <2> QED
    BY <2>1 DEF GateInv, GateType, GateIsLock, Outstanding, Gate
<1> QED
  BY <1>1, GateInit, GateNext, PTL DEF Spec

-----------------------------------------------------------------------------
(* wait() without a period *)

\* The threads inside wait(), after a thread has gone to l.
LEMMA WaitMoves ==
    ASSUME pc \in [Threads -> Places], NEW t \in Threads, NEW l, Goto(t, l)
    PROVE  /\ Cardinality(InWait) \in Nat
           /\ Cardinality(InWait') = Cardinality(InWait)
                + (IF l \in {"counted", "blocked", "returning"} THEN 1 ELSE 0)
                - (IF pc[t] \in {"counted", "blocked", "returning"} THEN 1 ELSE 0)
<1>1. /\ InWait \in SUBSET Threads /\ InWait' \in SUBSET Threads
      /\ t \in InWait <=> pc[t] \in {"counted", "blocked", "returning"}
      /\ t \in InWait' <=> l \in {"counted", "blocked", "returning"}
      /\ InWait' \ {t} = InWait \ {t}
  BY DEF InWait, Goto
<1>2. /\ Cardinality(InWait) \in Nat
      /\ Cardinality(InWait \ {t}) = Cardinality(InWait) - (IF t \in InWait THEN 1 ELSE 0)
  BY <1>1, WithoutOne
<1>3. /\ Cardinality(InWait') \in Nat
      /\ Cardinality(InWait' \ {t}) = Cardinality(InWait') - (IF t \in InWait' THEN 1 ELSE 0)
  BY <1>1, WithoutOne
<1> QED
  BY <1>1, <1>2, <1>3

\* All counts of a step at once.
LEMMA Moves ==
    ASSUME TypeOK, NEW t \in Threads, NEW l, Goto(t, l)
    PROVE  /\ Cardinality(InWait) \in Nat
           /\ \A p : Cardinality(At(p)) \in Nat
           /\ Cardinality(InWait') = Cardinality(InWait)
                + (IF l \in {"counted", "blocked", "returning"} THEN 1 ELSE 0)
                - (IF pc[t] \in {"counted", "blocked", "returning"} THEN 1 ELSE 0)
           /\ \A p : Cardinality(At(p)') = Cardinality(At(p)) + (IF l = p THEN 1 ELSE 0)
                                                               - (IF pc[t] = p THEN 1 ELSE 0)
<1>1. pc \in [Threads -> Places]
  BY DEF TypeOK, Places
<1> QED
  BY <1>1, WaitMoves, AtMoves, AtCount

\* Somebody is at a place where a thread is.
LEMMA AtLeastOne ==
    ASSUME NEW t \in Threads
    PROVE  Cardinality(At(pc[t])) > 0
<1>1. t \in At(pc[t])
  BY DEF At
<1> QED
  BY <1>1, AtCount

\* What a waiter finds that has taken the permit: signals are outstanding.
LEMMA Released ==
    ASSUME IInv, NEW t \in Threads, pc[t] = "returning"
    PROVE  /\ numWaitersToUnblock > 0
           /\ blockQueue = 0 /\ Cardinality(At("returning")) = 1
           /\ Cardinality(At("passOn")) = 0 /\ Cardinality(At("signalling")) = 0
<1>1. Cardinality(At("returning")) > 0
  BY AtLeastOne
<1>2. \A p : Cardinality(At(p)) \in Nat
  BY AtCount
<1> QED
  BY <1>1, <1>2 DEF IInv, TypeOK, PermitAccounted, Outstanding

\* Without time-outs the last waiter out opens the gate, at once when others
\* are blocked, and any other one passes the permit on.
LEMMA LeaveEffect ==
    ASSUME IInv, NEW t \in Threads, LeaveSignalled(t)
    PROVE  /\ pc[t] = "returning" /\ unblockLock = None
           /\ numWaitersToUnblock' = numWaitersToUnblock - 1
           /\ UNCHANGED <<assocMutex, blockQueue, unblockLock, timed, timedOut, all, heard, usage,
                          numWaitersBlocked, numWaitersGone, waitersGone>>
           /\ \/ /\ numWaitersToUnblock = 1 /\ blockLock' = blockLock + 1 /\ Goto(t, "relock")
              \/ /\ numWaitersToUnblock = 1 /\ blockLock' = blockLock /\ Goto(t, "lastOut")
              \/ /\ numWaitersToUnblock > 1 /\ blockLock' = blockLock /\ Goto(t, "passOn")
<1>1. /\ pc[t] = "returning" /\ unblockLock = None /\ numWaitersToUnblock # 0
      /\ UNCHANGED <<assocMutex, blockQueue, unblockLock, timed, timedOut, all, heard, usage>>
      /\ numWaitersToUnblock' = numWaitersToUnblock - 1
  BY DEF LeaveSignalled
<1>2. timedOut[t] = FALSE /\ numWaitersGone = 0 /\ waitersGone[t] = 0
  BY DEF IInv, TypeOK, NobodyGone
<1>3. UNCHANGED <<numWaitersBlocked, numWaitersGone>> /\ waitersGone' = [waitersGone EXCEPT ![t] = 0]
  BY <1>2 DEF LeaveSignalled, GoneNow
<1>4. waitersGone' = waitersGone
  BY <1>2, <1>3 DEF IInv, TypeOK
<1>5. numWaitersToUnblock \in Nat
  BY DEF IInv, TypeOK
<1>6. CASE numWaitersToUnblock = 1 /\ numWaitersBlocked # 0
  <2>1. blockLock' = blockLock + 1 /\ Goto(t, AfterLeaving(0))
    BY <1>2, <1>6 DEF LeaveSignalled, SignalsLeft
  <2> QED
    BY <1>1, <1>3, <1>4, <1>6, <2>1 DEF AfterLeaving
<1>7. CASE numWaitersToUnblock = 1 /\ numWaitersBlocked = 0
  <2>1. blockLock' = blockLock /\ Goto(t, AfterLeaving(1))
    BY <1>2, <1>7 DEF LeaveSignalled, SignalsLeft
  <2> QED
    BY <1>1, <1>3, <1>4, <1>7, <2>1 DEF AfterLeaving
<1>8. CASE numWaitersToUnblock > 1
  <2>1. blockLock' = blockLock /\ Goto(t, AfterLeaving(numWaitersToUnblock))
    BY <1>2, <1>8 DEF LeaveSignalled, SignalsLeft
  <2>2. AfterLeaving(numWaitersToUnblock) = "passOn"
    BY <1>5, <1>8 DEF AfterLeaving
  <2> QED
    BY <1>1, <1>3, <1>4, <1>8, <2>1, <2>2
<1> QED
  BY <1>1, <1>5, <1>6, <1>7, <1>8

-----------------------------------------------------------------------------
\* The constructor establishes the invariant.
LEMMA UntimedInit ==
    ASSUME Untimed, Init
    PROVE  IInv
<1>1. InWait = {} /\ \A p \in Places \ {"idle"} : At(p) = {}
  BY DEF Init, InWait, At, Places
<1>2. /\ Cardinality(InWait) = 0 /\ Cardinality(At("counting")) = 0
      /\ Cardinality(At("lastOut")) = 0 /\ Cardinality(At("returning")) = 0
      /\ Cardinality(At("passOn")) = 0 /\ Cardinality(At("signalling")) = 0
  BY <1>1, AtCount, FS_EmptySet DEF Places
<1>3. TypeOK
  BY DEF Init, TypeOK
<1>4. UnblockHeld /\ NobodyGone /\ ClosingForSomebody /\ Told
  BY <1>1 DEF Init, UnblockHeld, NobodyGone, ClosingForSomebody, Told, Places
<1>5. GateAccounted /\ PermitAccounted /\ WaitersCounted
  BY <1>2 DEF Init, GateAccounted, PermitAccounted, WaitersCounted, Outstanding
<1> QED
  BY <1>3, <1>4, <1>5 DEF IInv

\* A caller locks the mutex.
LEMMA LockMutexInv ==
    ASSUME Untimed, IInv, NEW t \in Threads, LockMutex(t)
    PROVE  IInv'
<1>0. TypeOK /\ UnblockHeld /\ NobodyGone /\ GateAccounted /\ PermitAccounted /\ WaitersCounted
      /\ ClosingForSomebody /\ Told
  BY DEF IInv
<1>1. TypeOK'
  BY <1>0 DEF TypeOK, NobodyGone, Goto, LockMutex, sync, counts, locals
<1>2. UnblockHeld' /\ NobodyGone'
  BY <1>0, ThreadsFinite DEF TypeOK, UnblockHeld, NobodyGone, At, Untimed, Goto, LockMutex, sync, counts, locals
<1>3. GateAccounted' /\ PermitAccounted' /\ WaitersCounted'
  BY <1>0, Moves DEF TypeOK, NobodyGone, GateAccounted, PermitAccounted, WaitersCounted,
     Outstanding, LockMutex, sync, counts, locals
<1>4. ClosingForSomebody'
  BY <1>0, ThreadsFinite DEF TypeOK, UnblockHeld, ClosingForSomebody, At, Goto, LockMutex, sync, counts, locals
<1>5. Told'
  BY <1>0 DEF TypeOK, NobodyGone, Told, InWait, Goto, LockMutex, sync, counts, locals
<1> QED
  BY <1>1, <1>2, <1>3, <1>4, <1>5 DEF IInv

\* A caller unlocks the mutex.
LEMMA UnlockMutexInv ==
    ASSUME Untimed, IInv, NEW t \in Threads, UnlockMutex(t)
    PROVE  IInv'
<1>0. TypeOK /\ UnblockHeld /\ NobodyGone /\ GateAccounted /\ PermitAccounted /\ WaitersCounted
      /\ ClosingForSomebody /\ Told
  BY DEF IInv
<1>1. TypeOK'
  BY <1>0 DEF TypeOK, NobodyGone, Goto, UnlockMutex, sync, counts, locals
<1>2. UnblockHeld' /\ NobodyGone'
  BY <1>0, ThreadsFinite DEF TypeOK, UnblockHeld, NobodyGone, At, Untimed, Goto, UnlockMutex, sync, counts, locals
<1>3. GateAccounted' /\ PermitAccounted' /\ WaitersCounted'
  BY <1>0, Moves DEF TypeOK, NobodyGone, GateAccounted, PermitAccounted, WaitersCounted,
     Outstanding, UnlockMutex, sync, counts, locals
<1>4. ClosingForSomebody'
  BY <1>0, ThreadsFinite DEF TypeOK, UnblockHeld, ClosingForSomebody, At, Goto, UnlockMutex, sync, counts, locals
<1>5. Told'
  BY <1>0 DEF TypeOK, NobodyGone, Told, InWait, Goto, UnlockMutex, sync, counts, locals
<1> QED
  BY <1>1, <1>2, <1>3, <1>4, <1>5 DEF IInv

\* A call of wait() starts.
LEMMA WaitInv ==
    ASSUME Untimed, IInv, NEW t \in Threads, Wait(t)
    PROVE  IInv'
<1>0. TypeOK /\ UnblockHeld /\ NobodyGone /\ GateAccounted /\ PermitAccounted /\ WaitersCounted
      /\ ClosingForSomebody /\ Told
  BY DEF IInv
<1>a. timed' = timed
  <2>1. usage \in Usages /\ usage[t] \subseteq {FALSE} /\ timed[t] = FALSE
    BY <1>0 DEF TypeOK, NobodyGone, Untimed
  <2>2. timed' = [timed EXCEPT ![t] = FALSE]
    BY <2>1 DEF Wait
  <2> QED
    BY <1>0, <2>1, <2>2 DEF TypeOK
<1>1. TypeOK'
  BY <1>0, <1>a DEF TypeOK, NobodyGone, Goto, Wait, sync, counts, locals
<1>2. UnblockHeld' /\ NobodyGone'
  BY <1>0, <1>a, ThreadsFinite DEF TypeOK, UnblockHeld, NobodyGone, At, Untimed, Goto, Wait, sync, counts, locals
<1>3. GateAccounted' /\ PermitAccounted' /\ WaitersCounted'
  BY <1>0, <1>a, Moves DEF TypeOK, NobodyGone, GateAccounted, PermitAccounted, WaitersCounted,
     Outstanding, Wait, sync, counts, locals
<1>4. ClosingForSomebody'
  BY <1>0, <1>a, ThreadsFinite DEF TypeOK, UnblockHeld, ClosingForSomebody, At, Goto, Wait, sync, counts, locals
<1>5. Told'
  BY <1>0, <1>a DEF TypeOK, NobodyGone, Told, InWait, Goto, Wait, sync, counts, locals
<1> QED
  BY <1>1, <1>2, <1>3, <1>4, <1>5 DEF IInv

\* A caller of wait() passes the gate.
LEMMA PassGateInv ==
    ASSUME Untimed, IInv, NEW t \in Threads, PassGate(t)
    PROVE  IInv'
<1>0. TypeOK /\ UnblockHeld /\ NobodyGone /\ GateAccounted /\ PermitAccounted /\ WaitersCounted
      /\ ClosingForSomebody /\ Told
  BY DEF IInv
<1>1. TypeOK'
  BY <1>0 DEF TypeOK, NobodyGone, Goto, PassGate, sync, counts, locals
<1>2. UnblockHeld' /\ NobodyGone'
  BY <1>0, ThreadsFinite DEF TypeOK, UnblockHeld, NobodyGone, At, Untimed, Goto, PassGate, sync, counts, locals
<1>3. GateAccounted' /\ PermitAccounted' /\ WaitersCounted'
  BY <1>0, Moves DEF TypeOK, NobodyGone, GateAccounted, PermitAccounted, WaitersCounted,
     Outstanding, PassGate, sync, counts, locals
<1>4. ClosingForSomebody'
  BY <1>0, ThreadsFinite DEF TypeOK, UnblockHeld, ClosingForSomebody, At, Goto, PassGate, sync, counts, locals
<1>5. Told'
  BY <1>0 DEF TypeOK, NobodyGone, Told, InWait, Goto, PassGate, sync, counts, locals
<1> QED
  BY <1>1, <1>2, <1>3, <1>4, <1>5 DEF IInv

\* A caller of wait() is counted.
LEMMA CountInv ==
    ASSUME Untimed, IInv, NEW t \in Threads, Count(t)
    PROVE  IInv'
<1>0. TypeOK /\ UnblockHeld /\ NobodyGone /\ GateAccounted /\ PermitAccounted /\ WaitersCounted
      /\ ClosingForSomebody /\ Told
  BY DEF IInv
<1>a. numWaitersToUnblock = 0 /\ blockLock = 0
  <2>1. Cardinality(At("counting")) > 0
    BY AtLeastOne DEF Count
  <2>2. \A p : Cardinality(At(p)) \in Nat
    BY AtCount
  <2> QED
    BY <1>0, <2>1, <2>2 DEF TypeOK, GateAccounted, Outstanding
<1>1. TypeOK'
  BY <1>0, <1>a DEF TypeOK, NobodyGone, Goto, Count, sync, counts, locals
<1>2. UnblockHeld' /\ NobodyGone'
  BY <1>0, <1>a, ThreadsFinite DEF TypeOK, UnblockHeld, NobodyGone, At, Untimed, Goto, Count, sync, counts, locals
<1>3. GateAccounted' /\ PermitAccounted' /\ WaitersCounted'
  BY <1>0, <1>a, Moves DEF TypeOK, NobodyGone, GateAccounted, PermitAccounted, WaitersCounted,
     Outstanding, Count, sync, counts, locals
<1>4. ClosingForSomebody'
  BY <1>0, <1>a, ThreadsFinite DEF TypeOK, UnblockHeld, ClosingForSomebody, At, Goto, Count, sync, counts, locals
<1>5. Told'
  BY <1>0, <1>a DEF TypeOK, NobodyGone, Told, InWait, Goto, Count, sync, counts, locals
<1> QED
  BY <1>1, <1>2, <1>3, <1>4, <1>5 DEF IInv

\* A counted thread unlocks the mutex before it blocks.
LEMMA ReleaseMutexInv ==
    ASSUME Untimed, IInv, NEW t \in Threads, ReleaseMutex(t)
    PROVE  IInv'
<1>0. TypeOK /\ UnblockHeld /\ NobodyGone /\ GateAccounted /\ PermitAccounted /\ WaitersCounted
      /\ ClosingForSomebody /\ Told
  BY DEF IInv
<1>1. TypeOK'
  BY <1>0 DEF TypeOK, NobodyGone, Goto, ReleaseMutex, sync, counts, locals
<1>2. UnblockHeld' /\ NobodyGone'
  BY <1>0, ThreadsFinite DEF TypeOK, UnblockHeld, NobodyGone, At, Untimed, Goto, ReleaseMutex, sync, counts, locals
<1>3. GateAccounted' /\ PermitAccounted' /\ WaitersCounted'
  BY <1>0, Moves DEF TypeOK, NobodyGone, GateAccounted, PermitAccounted, WaitersCounted,
     Outstanding, ReleaseMutex, sync, counts, locals
<1>4. ClosingForSomebody'
  BY <1>0, ThreadsFinite DEF TypeOK, UnblockHeld, ClosingForSomebody, At, Goto, ReleaseMutex, sync, counts, locals
<1>5. Told'
  BY <1>0 DEF TypeOK, NobodyGone, Told, InWait, Goto, ReleaseMutex, sync, counts, locals
<1> QED
  BY <1>1, <1>2, <1>3, <1>4, <1>5 DEF IInv

\* A blocked thread takes a permit of the queue.
LEMMA TakePermitInv ==
    ASSUME Untimed, IInv, NEW t \in Threads, TakePermit(t)
    PROVE  IInv'
<1>0. TypeOK /\ UnblockHeld /\ NobodyGone /\ GateAccounted /\ PermitAccounted /\ WaitersCounted
      /\ ClosingForSomebody /\ Told
  BY DEF IInv
<1>1. TypeOK'
  BY <1>0 DEF TypeOK, NobodyGone, Goto, TakePermit, sync, counts, locals
<1>2. UnblockHeld' /\ NobodyGone'
  BY <1>0, ThreadsFinite DEF TypeOK, UnblockHeld, NobodyGone, At, Untimed, Goto, TakePermit, sync, counts, locals
<1>3. GateAccounted' /\ PermitAccounted' /\ WaitersCounted'
  BY <1>0, Moves DEF TypeOK, NobodyGone, GateAccounted, PermitAccounted, WaitersCounted,
     Outstanding, TakePermit, sync, counts, locals
<1>4. ClosingForSomebody'
  BY <1>0, ThreadsFinite DEF TypeOK, UnblockHeld, ClosingForSomebody, At, Goto, TakePermit, sync, counts, locals
<1>5. Told'
  BY <1>0 DEF TypeOK, NobodyGone, Told, InWait, Goto, TakePermit, sync, counts, locals
<1> QED
  BY <1>1, <1>2, <1>3, <1>4, <1>5 DEF IInv

\* A waiter leaves while signals are outstanding.
LEMMA LeaveSignalledInv ==
    ASSUME Untimed, IInv, NEW t \in Threads, LeaveSignalled(t)
    PROVE  IInv'
<1>0. TypeOK /\ UnblockHeld /\ NobodyGone /\ GateAccounted /\ PermitAccounted /\ WaitersCounted
      /\ ClosingForSomebody /\ Told
  BY DEF IInv
<1>1. /\ pc[t] = "returning" /\ unblockLock = None
      /\ numWaitersToUnblock > 0
      /\ numWaitersToUnblock' = numWaitersToUnblock - 1
      /\ UNCHANGED <<assocMutex, blockQueue, unblockLock, timed, timedOut, all, heard, usage,
                     numWaitersBlocked, numWaitersGone, waitersGone>>
  BY LeaveEffect, Released
<1>2. ASSUME NEW l \in {"relock", "lastOut", "passOn"}, Goto(t, l), blockLock' \in Nat
      PROVE  TypeOK' /\ UnblockHeld' /\ NobodyGone' /\ ClosingForSomebody' /\ Told'
  <2>1. TypeOK'
    BY <1>0, <1>1, <1>2 DEF TypeOK, Goto
  <2>2. UnblockHeld' /\ NobodyGone' /\ ClosingForSomebody'
    BY <1>0, <1>1, <1>2, ThreadsFinite
    DEF TypeOK, UnblockHeld, NobodyGone, ClosingForSomebody, At, Goto
  <2>3. heard[t]
    BY <1>0, <1>1 DEF Told, InWait, TypeOK
  <2>4. Told'
    BY <1>0, <1>1, <1>2, <2>3 DEF TypeOK, Told, InWait, Goto
  <2> QED
    BY <2>1, <2>2, <2>4
<1>3. /\ blockQueue = 0 /\ Cardinality(At("returning")) = 1
      /\ Cardinality(At("passOn")) = 0 /\ Cardinality(At("signalling")) = 0
  BY <1>1, Released
<1>4. ASSUME NEW l \in {"relock", "lastOut", "passOn"}, Goto(t, l)
      PROVE  WaitersCounted'
  BY <1>0, <1>1, <1>4, Moves DEF TypeOK, WaitersCounted, NobodyGone
<1>5. CASE numWaitersToUnblock = 1 /\ blockLock' = blockLock + 1 /\ Goto(t, "relock")
  <2>1. GateAccounted' /\ PermitAccounted'
    BY <1>0, <1>1, <1>3, <1>5, Moves DEF TypeOK, GateAccounted, PermitAccounted, Outstanding
  <2> QED
    BY <1>0, <1>2, <1>4, <1>5, <2>1 DEF IInv, TypeOK
<1>6. CASE numWaitersToUnblock = 1 /\ blockLock' = blockLock /\ Goto(t, "lastOut")
  <2>1. GateAccounted' /\ PermitAccounted'
    BY <1>0, <1>1, <1>3, <1>6, Moves DEF TypeOK, GateAccounted, PermitAccounted, Outstanding
  <2> QED
    BY <1>0, <1>2, <1>4, <1>6, <2>1 DEF IInv, TypeOK
<1>7. CASE numWaitersToUnblock > 1 /\ blockLock' = blockLock /\ Goto(t, "passOn")
  <2>1. GateAccounted' /\ PermitAccounted'
    BY <1>0, <1>1, <1>3, <1>7, Moves DEF TypeOK, GateAccounted, PermitAccounted, Outstanding
  <2> QED
    BY <1>0, <1>2, <1>4, <1>7, <2>1 DEF IInv, TypeOK
<1> QED
  BY <1>5, <1>6, <1>7, LeaveEffect

\* The steps of a wait that ends without a signal are never taken.
LEMMA NeverTaken ==
    ASSUME IInv, NEW t \in Threads
    PROVE  /\ ~TimeOut(t) /\ ~LeaveUnsignalled(t) /\ ~Settle(t) /\ ~TakeBackPermit(t)
<1>1. ~TimeOut(t) /\ ~Settle(t) /\ ~TakeBackPermit(t)
  BY DEF IInv, NobodyGone, At, TimeOut, Settle, TakeBackPermit
<1>2. ~LeaveUnsignalled(t)
  BY Released DEF LeaveUnsignalled
<1> QED
  BY <1>1, <1>2

\* The last waiter out opens the gate.
LEMMA OpenGateInv ==
    ASSUME Untimed, IInv, NEW t \in Threads, OpenGate(t)
    PROVE  IInv'
<1>0. TypeOK /\ UnblockHeld /\ NobodyGone /\ GateAccounted /\ PermitAccounted /\ WaitersCounted
      /\ ClosingForSomebody /\ Told
  BY DEF IInv
<1>1. TypeOK'
  BY <1>0 DEF TypeOK, NobodyGone, Goto, OpenGate, sync, counts, locals
<1>2. UnblockHeld' /\ NobodyGone'
  BY <1>0, ThreadsFinite DEF TypeOK, UnblockHeld, NobodyGone, At, Untimed, Goto, OpenGate, sync, counts, locals
<1>3. GateAccounted' /\ PermitAccounted' /\ WaitersCounted'
  BY <1>0, Moves DEF TypeOK, NobodyGone, GateAccounted, PermitAccounted, WaitersCounted,
     Outstanding, OpenGate, sync, counts, locals
<1>4. ClosingForSomebody'
  BY <1>0, ThreadsFinite DEF TypeOK, UnblockHeld, ClosingForSomebody, At, Goto, OpenGate, sync, counts, locals
<1>5. Told'
  BY <1>0 DEF TypeOK, NobodyGone, Told, InWait, Goto, OpenGate, sync, counts, locals
<1> QED
  BY <1>1, <1>2, <1>3, <1>4, <1>5 DEF IInv

\* A released waiter unblocks the next one.
LEMMA PassOnInv ==
    ASSUME Untimed, IInv, NEW t \in Threads, PassOn(t)
    PROVE  IInv'
<1>0. TypeOK /\ UnblockHeld /\ NobodyGone /\ GateAccounted /\ PermitAccounted /\ WaitersCounted
      /\ ClosingForSomebody /\ Told
  BY DEF IInv
<1>1. TypeOK'
  BY <1>0 DEF TypeOK, NobodyGone, Goto, PassOn, sync, counts, locals
<1>2. UnblockHeld' /\ NobodyGone'
  BY <1>0, ThreadsFinite DEF TypeOK, UnblockHeld, NobodyGone, At, Untimed, Goto, PassOn, sync, counts, locals
<1>3. GateAccounted' /\ PermitAccounted' /\ WaitersCounted'
  BY <1>0, Moves DEF TypeOK, NobodyGone, GateAccounted, PermitAccounted, WaitersCounted,
     Outstanding, PassOn, sync, counts, locals
<1>4. ClosingForSomebody'
  BY <1>0, ThreadsFinite DEF TypeOK, UnblockHeld, ClosingForSomebody, At, Goto, PassOn, sync, counts, locals
<1>5. Told'
  BY <1>0 DEF TypeOK, NobodyGone, Told, InWait, Goto, PassOn, sync, counts, locals
<1> QED
  BY <1>1, <1>2, <1>3, <1>4, <1>5 DEF IInv

\* A thread locks the mutex again and returns from wait().
LEMMA RelockInv ==
    ASSUME Untimed, IInv, NEW t \in Threads, Relock(t)
    PROVE  IInv'
<1>0. TypeOK /\ UnblockHeld /\ NobodyGone /\ GateAccounted /\ PermitAccounted /\ WaitersCounted
      /\ ClosingForSomebody /\ Told
  BY DEF IInv
<1>1. TypeOK'
  BY <1>0 DEF TypeOK, NobodyGone, Goto, Relock, sync, counts, locals
<1>2. UnblockHeld' /\ NobodyGone'
  BY <1>0, ThreadsFinite DEF TypeOK, UnblockHeld, NobodyGone, At, Untimed, Goto, Relock, sync, counts, locals
<1>3. GateAccounted' /\ PermitAccounted' /\ WaitersCounted'
  BY <1>0, Moves DEF TypeOK, NobodyGone, GateAccounted, PermitAccounted, WaitersCounted,
     Outstanding, Relock, sync, counts, locals
<1>4. ClosingForSomebody'
  BY <1>0, ThreadsFinite DEF TypeOK, UnblockHeld, ClosingForSomebody, At, Goto, Relock, sync, counts, locals
<1>5. Told'
  BY <1>0 DEF TypeOK, NobodyGone, Told, InWait, Goto, Relock, sync, counts, locals
<1> QED
  BY <1>1, <1>2, <1>3, <1>4, <1>5 DEF IInv

\* The first notification of a group.
LEMMA NotifyFirstInv ==
    ASSUME Untimed, IInv, NEW t \in Threads, NotifyFirst(t)
    PROVE  IInv'
<1>0. TypeOK /\ UnblockHeld /\ NobodyGone /\ GateAccounted /\ PermitAccounted /\ WaitersCounted
      /\ ClosingForSomebody /\ Told
  BY DEF IInv
<1>a. numWaitersBlocked > 0
  BY <1>0 DEF NotifyFirst, SomeoneBlocked, NobodyGone
<1>b. /\ \A p \in {"counting", "lastOut", "returning", "passOn", "signalling"} :
            /\ Cardinality(At(p)) \in Nat
            /\ Cardinality(At(p)') = Cardinality(At(p))
      /\ Cardinality(InWait) \in Nat /\ Cardinality(InWait') = Cardinality(InWait)
  BY <1>0, Moves DEF NotifyFirst
<1>1. TypeOK'
  BY <1>0, <1>a, <1>b DEF TypeOK, NobodyGone, Goto, NotifyFirst, sync, counts, locals
<1>2. UnblockHeld' /\ NobodyGone'
  BY <1>0, <1>a, <1>b, ThreadsFinite DEF TypeOK, UnblockHeld, NobodyGone, At, Untimed, Goto, NotifyFirst, sync, counts, locals
<1>3. GateAccounted' /\ PermitAccounted' /\ WaitersCounted'
  BY <1>0, <1>a, <1>b, Moves DEF TypeOK, NobodyGone, GateAccounted, PermitAccounted, WaitersCounted,
     Outstanding, NotifyFirst, sync, counts, locals
<1>4. ClosingForSomebody'
  BY <1>0, <1>a, <1>b, ThreadsFinite DEF TypeOK, UnblockHeld, ClosingForSomebody, At, Goto, NotifyFirst, sync, counts, locals
<1>5. Told'
  BY <1>0, <1>a, <1>b DEF TypeOK, NobodyGone, Told, InWait, Goto, NotifyFirst, sync, counts, locals
<1> QED
  BY <1>1, <1>2, <1>3, <1>4, <1>5 DEF IInv

\* A notification that finds nobody.
LEMMA NotifyNobodyInv ==
    ASSUME Untimed, IInv, NEW t \in Threads, NotifyNobody(t)
    PROVE  IInv'
<1>0. TypeOK /\ UnblockHeld /\ NobodyGone /\ GateAccounted /\ PermitAccounted /\ WaitersCounted
      /\ ClosingForSomebody /\ Told
  BY DEF IInv
<1>1. TypeOK'
  BY <1>0 DEF TypeOK, NobodyGone, NotifyNobody, Tell, sync, counts, locals
<1>2. UnblockHeld' /\ NobodyGone'
  BY <1>0, ThreadsFinite DEF TypeOK, UnblockHeld, NobodyGone, At, Untimed, NotifyNobody, Tell, sync, counts, locals
<1>3. GateAccounted' /\ PermitAccounted' /\ WaitersCounted'
  BY <1>0, Same, AtCount DEF TypeOK, NobodyGone, GateAccounted, PermitAccounted, WaitersCounted,
     Outstanding, NotifyNobody, Tell, sync, counts, locals
<1>4. ClosingForSomebody'
  BY <1>0, ThreadsFinite DEF TypeOK, UnblockHeld, ClosingForSomebody, At, NotifyNobody, Tell, sync, counts, locals
<1>5. Told'
  BY <1>0 DEF TypeOK, NobodyGone, Told, InWait, NotifyNobody, Tell, sync, counts, locals
<1> QED
  BY <1>1, <1>2, <1>3, <1>4, <1>5 DEF IInv

\* One more signal, or one for everybody who is blocked.
LEMMA NotifyMoreEffect ==
    ASSUME IInv, NEW t \in Threads, NotifyMore(t)
    PROVE  /\ \E n \in Nat : /\ n = 1 \/ n = numWaitersBlocked
                             /\ 1 <= n /\ n <= numWaitersBlocked
                             /\ numWaitersToUnblock' = numWaitersToUnblock + n
                             /\ numWaitersBlocked' = numWaitersBlocked - n
           /\ unblockLock = None /\ numWaitersToUnblock > 0
           /\ Tell /\ UNCHANGED <<pc, sync, numWaitersGone, locals, usage>>
  BY DEF IInv, TypeOK, NotifyMore, BlockedAfter

\* A notification while signals are outstanding.
LEMMA NotifyMoreInv ==
    ASSUME Untimed, IInv, NEW t \in Threads, NotifyMore(t)
    PROVE  IInv'
<1>0. TypeOK /\ UnblockHeld /\ NobodyGone /\ GateAccounted /\ PermitAccounted /\ WaitersCounted
      /\ ClosingForSomebody /\ Told
  BY DEF IInv
<1>1. PICK n \in Nat : /\ 1 <= n /\ n <= numWaitersBlocked
                       /\ numWaitersToUnblock' = numWaitersToUnblock + n
                       /\ numWaitersBlocked' = numWaitersBlocked - n
  BY NotifyMoreEffect
<1>2. /\ unblockLock = None /\ numWaitersToUnblock > 0
      /\ Tell /\ UNCHANGED <<pc, sync, numWaitersGone, locals, usage>>
  BY NotifyMoreEffect
<1>3. TypeOK'
  BY <1>0, <1>1, <1>2 DEF TypeOK, Tell, sync, locals
<1>4. UnblockHeld' /\ NobodyGone' /\ ClosingForSomebody'
  BY <1>0, <1>2, ThreadsFinite
  DEF UnblockHeld, NobodyGone, ClosingForSomebody, At, sync, locals
<1>5. GateAccounted' /\ PermitAccounted' /\ WaitersCounted'
  BY <1>0, <1>1, <1>2, Same, AtCount
  DEF TypeOK, NobodyGone, GateAccounted, PermitAccounted, WaitersCounted, Outstanding, sync
<1>6. Told'
  BY <1>0, <1>2 DEF TypeOK, Told, Tell, InWait
<1> QED
  BY <1>3, <1>4, <1>5, <1>6 DEF IInv

\* The first signal of a group, or one for everybody.
LEMMA CloseGateEffect ==
    ASSUME IInv, NEW t \in Threads, CloseGate(t)
    PROVE  /\ \E n \in Nat : /\ n = 1 \/ n = numWaitersBlocked
                             /\ 1 <= n /\ n <= numWaitersBlocked
                             /\ numWaitersToUnblock' = n
                             /\ numWaitersBlocked' = numWaitersBlocked - n
           /\ numWaitersToUnblock = 0 /\ unblockLock = t /\ unblockLock' = None
           /\ pc[t] = "closing" /\ Goto(t, "signalling")
           /\ blockLock > 0 /\ blockLock' = blockLock - 1
           /\ numWaitersGone' = 0 /\ all' = [all EXCEPT ![t] = FALSE] /\ Tell
           /\ UNCHANGED <<assocMutex, blockQueue, timed, timedOut, waitersGone, usage>>
<1>1. numWaitersBlocked \in Nat /\ numWaitersBlocked > 0 /\ numWaitersGone = 0
  BY DEF IInv, TypeOK, ClosingForSomebody, NobodyGone, At, CloseGate
<1>2. LET n == IF all[t] THEN numWaitersBlocked ELSE 1
      IN  numWaitersToUnblock' = n /\ numWaitersBlocked' = numWaitersBlocked - n
  BY <1>1 DEF CloseGate
<1> QED
  BY <1>1, <1>2 DEF IInv, UnblockHeld, CloseGate

\* It closes the gate.
LEMMA CloseGateInv ==
    ASSUME Untimed, IInv, NEW t \in Threads, CloseGate(t)
    PROVE  IInv'
<1>0. TypeOK /\ UnblockHeld /\ NobodyGone /\ GateAccounted /\ PermitAccounted /\ WaitersCounted
      /\ ClosingForSomebody /\ Told
  BY DEF IInv
<1>1. PICK n \in Nat : /\ 1 <= n /\ n <= numWaitersBlocked
                       /\ numWaitersToUnblock' = n
                       /\ numWaitersBlocked' = numWaitersBlocked - n
  BY CloseGateEffect
<1>2. /\ numWaitersToUnblock = 0 /\ unblockLock = t /\ unblockLock' = None
      /\ pc[t] = "closing" /\ Goto(t, "signalling")
      /\ blockLock > 0 /\ blockLock' = blockLock - 1
      /\ numWaitersGone' = 0 /\ all' = [all EXCEPT ![t] = FALSE] /\ Tell
      /\ UNCHANGED <<assocMutex, blockQueue, timed, timedOut, waitersGone, usage>>
  BY CloseGateEffect
<1>3. TypeOK'
  BY <1>0, <1>1, <1>2 DEF TypeOK, Tell, Goto
<1>4. UnblockHeld' /\ NobodyGone' /\ ClosingForSomebody'
  BY <1>0, <1>2 DEF TypeOK, UnblockHeld, NobodyGone, ClosingForSomebody, At, Goto
<1>5. GateAccounted' /\ PermitAccounted' /\ WaitersCounted'
  <2>1. /\ \A p \in {"counting", "lastOut", "returning", "passOn"} :
              /\ Cardinality(At(p)) \in Nat
              /\ Cardinality(At(p)') = Cardinality(At(p))
        /\ Cardinality(At("signalling")) \in Nat
        /\ Cardinality(At("signalling")') = Cardinality(At("signalling")) + 1
        /\ Cardinality(InWait) \in Nat /\ Cardinality(InWait') = Cardinality(InWait)
    BY <1>0, <1>2, Moves
  <2>2. blockLock \in Nat /\ blockQueue \in Nat /\ numWaitersBlocked \in Nat
    BY <1>0 DEF TypeOK
  <2>3. GateAccounted' /\ PermitAccounted'
    BY <1>0, <1>1, <1>2, <2>1, <2>2 DEF GateAccounted, PermitAccounted, Outstanding
  <2>4. WaitersCounted'
    BY <1>0, <1>1, <1>2, <2>1, <2>2 DEF NobodyGone, WaitersCounted
  <2> QED
    BY <2>3, <2>4
<1>6. Told'
  BY <1>0, <1>2 DEF TypeOK, Told, Tell, InWait, Goto
<1> QED
  BY <1>3, <1>4, <1>5, <1>6 DEF IInv

\* It lets the first waiter go.
LEMMA ReleaseFirstInv ==
    ASSUME Untimed, IInv, NEW t \in Threads, ReleaseFirst(t)
    PROVE  IInv'
<1>0. TypeOK /\ UnblockHeld /\ NobodyGone /\ GateAccounted /\ PermitAccounted /\ WaitersCounted
      /\ ClosingForSomebody /\ Told
  BY DEF IInv
<1>1. PICK l \in {"locked", "idle"} : Goto(t, l)
  BY DEF ReleaseFirst, Return
<1>2. /\ pc[t] = "signalling" /\ blockQueue' = blockQueue + 1
      /\ UNCHANGED <<assocMutex, blockLock, unblockLock, counts, locals, heard, usage>>
  BY DEF ReleaseFirst
<1>3. TypeOK'
  BY <1>0, <1>1, <1>2 DEF TypeOK, Goto, counts, locals
<1>4. UnblockHeld' /\ NobodyGone' /\ ClosingForSomebody'
  BY <1>0, <1>1, <1>2
  DEF TypeOK, UnblockHeld, NobodyGone, ClosingForSomebody, At, Goto, counts, locals
<1>5. GateAccounted' /\ PermitAccounted' /\ WaitersCounted'
  BY <1>0, <1>1, <1>2, Moves
  DEF TypeOK, NobodyGone, GateAccounted, PermitAccounted, WaitersCounted, Outstanding, counts
<1>6. Told'
  BY <1>0, <1>1, <1>2 DEF TypeOK, Told, InWait, Goto, counts
<1> QED
  BY <1>3, <1>4, <1>5, <1>6 DEF IInv

\* Without time-outs every step keeps the invariant.
LEMMA UntimedNext ==
    ASSUME Untimed, IInv, [Next]_vars
    PROVE  IInv'
<1>1. ASSUME NEW t \in Threads, Call(t) PROVE IInv'
  BY <1>1, LockMutexInv, WaitInv, NotifyMoreInv, NotifyNobodyInv, NotifyFirstInv DEF Call
<1>2. ASSUME NEW t \in Threads, Continue(t) PROVE IInv'
  BY <1>2, PassGateInv, CountInv, ReleaseMutexInv, TakePermitInv, LeaveSignalledInv,
     OpenGateInv, PassOnInv, CloseGateInv, ReleaseFirstInv, NeverTaken DEF Continue
<1>3. ASSUME NEW t \in Threads, Relock(t) \/ UnlockMutex(t) \/ TimeOut(t) PROVE IInv'
  BY <1>3, RelockInv, UnlockMutexInv, NeverTaken
<1>4. CASE UNCHANGED vars
  <2>1. TypeOK' /\ UnblockHeld' /\ NobodyGone' /\ ClosingForSomebody' /\ Told'
    BY <1>4 DEF IInv, TypeOK, UnblockHeld, NobodyGone, ClosingForSomebody, Told, InWait, At,
                vars, sync, counts, locals
  <2>2. GateAccounted' /\ PermitAccounted' /\ WaitersCounted'
    BY <1>4, Same DEF IInv, GateAccounted, PermitAccounted, WaitersCounted, Outstanding,
                      vars, sync, counts
  <2> QED
    BY <2>1, <2>2 DEF IInv
<1> QED
  BY <1>1, <1>2, <1>3, <1>4 DEF Next

\* Without time-outs the invariant always holds.
LEMMA UntimedInvariance == Untimed => (Spec => []IInv)
<1> SUFFICES ASSUME Untimed PROVE Spec => []IInv
  OBVIOUS
<1>1. Init => IInv
  BY UntimedInit
<1>2. IInv /\ [Next]_vars => IInv'
  BY UntimedNext
<1> QED
  BY <1>1, <1>2, PTL DEF Spec

\* wait(): the gate is exclusive and whenever it is closed the thread that will
\* open it exists.
THEOREM GateCorrect == Untimed => (Spec => []GateSound)
<1>1. ASSUME IInv PROVE GateSound
  <2>1. \A p : Cardinality(At(p)) \in Nat /\ (At(p) = {} <=> Cardinality(At(p)) = 0)
    BY AtCount
  <2>2. Gate
    BY <1>1, <2>1 DEF IInv, TypeOK, GateAccounted, Outstanding, Gate
  <2>3. GateReopens
    <3>1. blockLock = 0 /\ numWaitersToUnblock = 0 =>
            At("counting") # {} \/ At("lastOut") # {}
      BY <1>1, <2>1 DEF IInv, TypeOK, GateAccounted, Outstanding
    <3> QED
      BY <3>1 DEF GateReopens
  <2> QED
    BY <1>1, <2>2, <2>3 DEF IInv, GateSound
<1> QED
  BY <1>1, UntimedInvariance, PTL

\* wait(): the two counters of waiters add up to the threads that wait.
THEOREM WaitersCorrect == Untimed => (Spec => []WaitersCounted)
<1>1. IInv => WaitersCounted
  BY DEF IInv
<1> QED
  BY <1>1, UntimedInvariance, PTL

\* wait(): one permit is under way per group of signals and it is taken by a
\* thread that was notified.
THEOREM PermitsCorrect == Untimed => (Spec => []PermitsSound)
<1>1. ASSUME IInv PROVE PermitsSound
  <2>1. {t \in At("returning") : ~timedOut[t]} = At("returning")
    BY <1>1 DEF IInv, NobodyGone, At
  <2>2. {t \in At("lastOut") : waitersGone[t] = 1} = {}
    BY <1>1 DEF IInv, NobodyGone, At
  <2>3. OnePermit
    BY <1>1, <2>1, <2>2, FS_EmptySet DEF IInv, PermitAccounted, Outstanding, OnePermit
  <2>4. TrueMeansNotified
    BY <1>1 DEF IInv, Told, At, TrueMeansNotified
  <2> QED
    BY <2>3, <2>4 DEF PermitsSound
<1> QED
  BY <1>1, UntimedInvariance, PTL

-----------------------------------------------------------------------------
(* wait(), notify() and notifyAll() keep the promise of the class *)

PhaseMap == [t \in Threads |-> Phase(t)]

\* The phase of a thread without time-outs, by its place.
PhaseAt(l) ==
    IF l \in {"counted", "blocked", "returning"} THEN "in"
    ELSE IF l \in {"lastOut", "passOn", "relock", "settling"} THEN "notified" ELSE "out"

\* The phase of a thread is told by where it is.
LEMMA PhaseIs ==
    ASSUME NobodyGone, NEW t \in Threads
    PROVE  Phase(t) = PhaseAt(pc[t])
<1>1. ~timedOut[t] /\ (t \in InWait <=> pc[t] \in {"counted", "blocked", "returning"})
  BY DEF NobodyGone, InWait
<1> QED
  BY <1>1 DEF Phase, PhaseAt

\* The phases after a thread has gone to l.
LEMMA PhaseMoves ==
    ASSUME TypeOK, NobodyGone, NobodyGone', NEW t \in Threads, NEW l, Goto(t, l)
    PROVE  /\ PhaseMap[t] = PhaseAt(pc[t])
           /\ PhaseMap' = [PhaseMap EXCEPT ![t] = PhaseAt(l)]
           /\ InWait' = IF PhaseAt(l) = "in" THEN InWait \cup {t} ELSE InWait \ {t}
           /\ t \in InWait <=> PhaseAt(pc[t]) = "in"
<1>1. \A u \in Threads : Phase(u) = PhaseAt(pc[u])
  BY PhaseIs
<1>2. ASSUME NEW u \in Threads PROVE Phase(u)' = PhaseAt(pc'[u])
  <2>1. timedOut'[u] = FALSE \/ ~timedOut'[u]
    BY DEF NobodyGone
  <2>2. u \in InWait' <=> pc'[u] \in {"counted", "blocked", "returning"}
    BY DEF InWait
  <2> QED
    BY <2>1, <2>2 DEF Phase, PhaseAt
<1>3. \A u \in Threads : pc'[u] = IF u = t THEN l ELSE pc[u]
  BY DEF TypeOK, Goto
<1>4. PhaseMap' = [PhaseMap EXCEPT ![t] = PhaseAt(l)]
  BY <1>1, <1>2, <1>3 DEF PhaseMap
<1>5. InWait' = IF PhaseAt(l) = "in" THEN InWait \cup {t} ELSE InWait \ {t}
  BY <1>3 DEF InWait, PhaseAt
<1>6. PhaseMap[t] = PhaseAt(pc[t]) /\ (t \in InWait <=> PhaseAt(pc[t]) = "in")
  BY <1>1 DEF PhaseMap, InWait, PhaseAt
<1> QED
  BY <1>4, <1>5, <1>6

\* Nobody who waits has a period.
LEMMA NoPeriod ==
    ASSUME NobodyGone
    PROVE  {t \in InWait : timed[t]} = {}
  BY DEF NobodyGone, InWait

Stutters == PhaseMap' = PhaseMap /\ InWait' = InWait /\ numWaitersToUnblock' = numWaitersToUnblock

\* A step inside a phase is invisible.
LEMMA StaysInPhase ==
    ASSUME TypeOK, NobodyGone, NobodyGone', NEW t \in Threads, NEW l, Goto(t, l),
           PhaseAt(pc[t]) = PhaseAt(l), UNCHANGED numWaitersToUnblock
    PROVE  Stutters
<1>1. PhaseMap' = [PhaseMap EXCEPT ![t] = PhaseAt(l)] /\ PhaseMap[t] = PhaseAt(l)
  BY PhaseMoves
<1>2. PhaseMap' = PhaseMap
  BY <1>1 DEF PhaseMap
<1>3. InWait' = InWait
  BY PhaseMoves
<1> QED
  BY <1>2, <1>3 DEF Stutters

\* The specification counts as this module does.
LEMMA SameCardinality ==
    ASSUME NEW S
    PROVE  Abstract!Cardinality(S) = Cardinality(S)
  BY DEF Abstract!Cardinality, Cardinality

\* A step is a step of ConditionSpec or leaves its state alone.
LEMMA StepRefines ==
    ASSUME Untimed, IInv, [Next]_vars
    PROVE  [Abstract!Next]_(Abstract!absVars)
<1>0. TypeOK /\ NobodyGone /\ NobodyGone' /\ WaitersCounted
  BY UntimedNext DEF IInv
<1>a. {t \in InWait : timed[t]} = {} /\ {t \in InWait : timed[t]}' = {}
  BY <1>0, NoPeriod DEF NobodyGone, InWait
<1>1. ASSUME Stutters PROVE UNCHANGED Abstract!absVars
  BY <1>1, <1>a DEF Stutters, PhaseMap, Abstract!absVars
<1>2. ASSUME NEW t \in Threads,
             \/ LockMutex(t) \/ UnlockMutex(t) \/ Wait(t) \/ PassGate(t) \/ ReleaseMutex(t)
             \/ TakePermit(t) \/ OpenGate(t) \/ PassOn(t) \/ NotifyFirst(t)
      PROVE  Stutters
  <2>1. numWaitersToUnblock' = numWaitersToUnblock
    BY <1>2 DEF LockMutex, UnlockMutex, Wait, PassGate, ReleaseMutex, TakePermit, OpenGate,
                PassOn, NotifyFirst, counts
  <2>2. \E l \in Places : Goto(t, l) /\ PhaseAt(pc[t]) = PhaseAt(l)
    BY <1>2 DEF LockMutex, UnlockMutex, Wait, PassGate, ReleaseMutex, TakePermit, OpenGate,
                PassOn, NotifyFirst, PhaseAt, Places
  <2> QED
    BY <1>0, <2>1, <2>2, StaysInPhase
<1>3. ASSUME NEW t \in Threads, ReleaseFirst(t) PROVE Stutters
  <2>1. \E l \in {"locked", "idle"} : Goto(t, l)
    BY <1>3 DEF ReleaseFirst, Return
  <2>2. \E l \in {"locked", "idle"} : Goto(t, l) /\ PhaseAt(pc[t]) = PhaseAt(l)
    BY <1>3, <2>1 DEF ReleaseFirst, PhaseAt
  <2> QED
    BY <1>0, <1>3, <2>2, StaysInPhase DEF ReleaseFirst, counts
<1>4. ASSUME NEW t \in Threads, NotifyNobody(t) PROVE Stutters
  <2>1. pc' = pc /\ numWaitersToUnblock' = numWaitersToUnblock /\ timedOut' = timedOut
    BY <1>4 DEF NotifyNobody, counts, locals
  <2> QED
    BY <2>1 DEF Stutters, PhaseMap, Phase, InWait
<1>5. ASSUME NEW t \in Threads, Count(t) PROVE Abstract!Wait(t)
  <2>1. pc[t] = "counting" /\ Goto(t, "counted") /\ numWaitersToUnblock' = numWaitersToUnblock
    BY <1>5 DEF Count
  <2>2. numWaitersToUnblock = 0
    <3>1. Cardinality(At("counting")) > 0
      BY <2>1, AtLeastOne
    <3>2. \A p : Cardinality(At(p)) \in Nat
      BY AtCount
    <3> QED
      BY <3>1, <3>2 DEF IInv, TypeOK, GateAccounted, Outstanding
  <2>3. PhaseMap[t] = "out" /\ PhaseMap' = [PhaseMap EXCEPT ![t] = "in"] /\ InWait' = InWait \cup {t}
    BY <1>0, <2>1, PhaseMoves DEF PhaseAt
  <2> QED
    BY <1>a, <2>1, <2>2, <2>3 DEF PhaseMap, Abstract!Wait, Abstract!GateOpen, Abstract!Waits
<1>6. ASSUME NEW t \in Threads, LeaveSignalled(t) PROVE Abstract!Wake(t)
  <2>1. /\ pc[t] = "returning" /\ numWaitersToUnblock' = numWaitersToUnblock - 1
        /\ numWaitersToUnblock > 0
        /\ \E l \in {"relock", "lastOut", "passOn"} : Goto(t, l)
    BY <1>6, LeaveEffect, Released
  <2>2. PICK l \in {"relock", "lastOut", "passOn"} : Goto(t, l)
    BY <2>1
  <2>3. /\ PhaseMap[t] = "in" /\ PhaseMap' = [PhaseMap EXCEPT ![t] = "notified"]
        /\ InWait' = InWait \ {t} /\ t \in InWait
    BY <1>0, <2>1, <2>2, PhaseMoves DEF PhaseAt
  <2> QED
    BY <1>a, <2>1, <2>3 DEF PhaseMap, Abstract!Wake, Abstract!CanTake, Abstract!Takes
<1>7. ASSUME NEW t \in Threads, Relock(t) PROVE Abstract!Return(t)
  <2>1. pc[t] = "relock" /\ Goto(t, "locked") /\ numWaitersToUnblock' = numWaitersToUnblock
    BY <1>7 DEF Relock, counts
  <2>2. /\ PhaseMap[t] = "notified" /\ PhaseMap' = [PhaseMap EXCEPT ![t] = "out"]
        /\ InWait' = InWait \ {t} /\ t \notin InWait
    BY <1>0, <2>1, PhaseMoves DEF PhaseAt
  <2>3. InWait' = InWait
    BY <2>2
  <2> QED
    BY <1>a, <2>1, <2>2, <2>3 DEF PhaseMap, Abstract!Return
<1>8. ASSUME NEW n \in Nat, n = 1 \/ n = numWaitersBlocked, 1 <= n, n <= numWaitersBlocked,
             numWaitersToUnblock' = numWaitersToUnblock + n,
             PhaseMap' = PhaseMap, InWait' = InWait
      PROVE  Abstract!Notify \/ Abstract!NotifyAll
  <2>1. /\ numWaitersToUnblock \in Nat /\ numWaitersBlocked \in Nat
        /\ Cardinality(InWait) = numWaitersBlocked + numWaitersToUnblock
    BY <1>0 DEF TypeOK, NobodyGone, WaitersCounted
  <2> DEFINE c == [waiting |-> InWait, signals |-> numWaitersToUnblock]
  <2>2. CASE n = 1
    <3>1. numWaitersToUnblock < Cardinality(InWait) /\ numWaitersToUnblock' = numWaitersToUnblock + 1
      BY <1>8, <2>1, <2>2
    <3>2. c' = [waiting |-> InWait, signals |-> numWaitersToUnblock + 1]
      BY <1>8, <3>1
    <3>3. Abstract!Notifies(c) = [waiting |-> InWait, signals |-> numWaitersToUnblock + 1]
      BY <3>1, SameCardinality DEF Abstract!Notifies
    <3> QED
      BY <1>8, <1>a, <3>2, <3>3 DEF PhaseMap, Abstract!Notify
  <2>3. CASE n = numWaitersBlocked
    <3>1. numWaitersToUnblock' = Cardinality(InWait)
      BY <1>8, <2>1, <2>3
    <3>2. c' = [waiting |-> InWait, signals |-> Cardinality(InWait)]
      BY <1>8, <3>1
    <3>3. Abstract!NotifiesAll(c) = [waiting |-> InWait, signals |-> Cardinality(InWait)]
      BY SameCardinality DEF Abstract!NotifiesAll
    <3> QED
      BY <1>8, <1>a, <3>2, <3>3 DEF PhaseMap, Abstract!NotifyAll
  <2> QED
    BY <1>8, <2>2, <2>3
<1>9. ASSUME NEW t \in Threads, NotifyMore(t) PROVE Abstract!Notify \/ Abstract!NotifyAll
  <2>1. PhaseMap' = PhaseMap /\ InWait' = InWait
    BY <1>9, NotifyMoreEffect DEF PhaseMap, Phase, InWait, locals
  <2> QED
    BY <1>8, <1>9, <2>1, NotifyMoreEffect
<1>10. ASSUME NEW t \in Threads, CloseGate(t) PROVE Abstract!Notify \/ Abstract!NotifyAll
  <2>1. pc[t] = "closing" /\ Goto(t, "signalling") /\ numWaitersToUnblock = 0
    BY <1>10, CloseGateEffect
  <2>2. /\ PhaseMap[t] = "out" /\ PhaseMap' = [PhaseMap EXCEPT ![t] = "out"]
        /\ InWait' = InWait \ {t} /\ t \notin InWait
    BY <1>0, <2>1, PhaseMoves DEF PhaseAt
  <2>3. PhaseMap' = PhaseMap /\ InWait' = InWait
    BY <2>2 DEF PhaseMap
  <2>4. PICK n \in Nat : /\ n = 1 \/ n = numWaitersBlocked
                         /\ 1 <= n /\ n <= numWaitersBlocked
                         /\ numWaitersToUnblock' = n
    BY <1>10, CloseGateEffect
  <2> QED
    BY <1>8, <2>1, <2>3, <2>4
<1>11. CASE UNCHANGED vars
  BY <1>1, <1>11 DEF vars, counts, locals, Stutters, PhaseMap, Phase, InWait
<1> QED
  BY <1>1, <1>2, <1>3, <1>4, <1>5, <1>6, <1>7, <1>9, <1>10, <1>11, NeverTaken
  DEF Next, Call, Continue, Abstract!Next

\* wait(), notify() and notifyAll() of condition.d keep the promise on which
\* Barrier, ReadWriteMutex and ThreadPool are modelled, for any number of
\* threads.
THEOREM Refinement == Untimed => (Spec => ImplementsConditionSpec)
<1> SUFFICES ASSUME Untimed PROVE Spec => ImplementsConditionSpec
  OBVIOUS
<1>1. Init => Abstract!Init
  BY DEF Init, InWait, Phase, Abstract!Init, Abstract!NoWaiters
<1>2. IInv /\ [Next]_vars => [Abstract!Next]_(Abstract!absVars)
  BY StepRefines
<1>3. Spec => []IInv
  BY UntimedInvariance
<1> QED
  BY <1>1, <1>2, <1>3, PTL DEF Spec, ImplementsConditionSpec, Abstract!Spec
=============================================================================
