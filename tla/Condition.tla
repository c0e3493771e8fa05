------------------------------ MODULE Condition ------------------------------
(***************************************************************************)
(* rt.core.sync.condition, the Win32 code: Terekhov's algorithm 8c over    *)
(* two Win32 semaphores, a critical section and three counters.            *)
(*                                                                         *)
(* Grain.  Every use of m_blockLock, m_blockQueue and m_assocMutex is a    *)
(* step of its own.  A passage through m_unblockLock is one step where it  *)
(* blocks on nothing inside; the two passages that wait for m_blockLock    *)
(* inside it hold m_unblockLock across two steps.  NumWaitersBlocked is    *)
(* guarded by m_blockLock while it is open and by m_unblockLock while it   *)
(* is closed; the invariant Gate checks that the two regimes never meet.   *)
(*                                                                         *)
(* The clients are threads that lock the associated Mutex, wait while they *)
(* hold it, and notify with or without it.                                 *)
(***************************************************************************)
EXTENDS Integers, FiniteSets

CONSTANTS Threads,
          Notifiers,  \* those that call notify and notifyAll
          Usages,     \* which kinds of wait each thread calls: TRUE for
                      \* wait(period), FALSE for wait()
          GoneLimit,  \* int.max / 2
          None        \* no thread

ASSUME ThreadsFinite == IsFiniteSet(Threads) /\ None \notin Threads
ASSUME ClientKinds == Notifiers \subseteq Threads /\ Usages \subseteq [Threads -> SUBSET BOOLEAN]
ASSUME GoneLimitPositive == GoneLimit \in Nat \ {0}

VARIABLES
    pc,
    assocMutex,          \* holder of m_assocMutex
    blockLock,           \* m_blockLock, the gate: count of a semaphore
    blockQueue,          \* m_blockQueue: count of a semaphore
    unblockLock,         \* holder of m_unblockLock across a blocking call
    numWaitersGone, numWaitersBlocked, numWaitersToUnblock,
    timed, timedOut,     \* the call is wait(period); its wait timed out
    waitersGone,         \* local numWaitersGone of timedWait
    all,                 \* argument of notify(bool)
    heard,               \* history: a notification since the thread waits
    usage                \* the clients' use of the Condition, never changed

sync   == <<assocMutex, blockLock, blockQueue, unblockLock>>
counts == <<numWaitersGone, numWaitersBlocked, numWaitersToUnblock>>
locals == <<timed, timedOut, waitersGone, all>>
vars   == <<pc, sync, counts, locals, heard, usage>>

Goto(t, l) == pc' = [pc EXCEPT ![t] = l]

Init ==
    /\ pc = [t \in Threads |-> "idle"]
    /\ assocMutex = None
    /\ blockLock = 1
    /\ blockQueue = 0
    /\ unblockLock = None
    /\ numWaitersGone = 0
    /\ numWaitersBlocked = 0
    /\ numWaitersToUnblock = 0
    /\ timed = [t \in Threads |-> FALSE]
    /\ timedOut = [t \in Threads |-> FALSE]
    /\ waitersGone = [t \in Threads |-> 0]
    /\ all = [t \in Threads |-> FALSE]
    /\ heard = [t \in Threads |-> FALSE]
    /\ usage \in Usages

-----------------------------------------------------------------------------
(* The associated mutex, as the client uses it *)

LockMutex(t) ==
    /\ pc[t] = "idle"
    /\ assocMutex = None
    /\ assocMutex' = t
    /\ Goto(t, "locked")
    /\ UNCHANGED <<blockLock, blockQueue, unblockLock, counts, locals, heard, usage>>

UnlockMutex(t) ==
    /\ pc[t] = "locked"
    /\ assocMutex' = None
    /\ Goto(t, "idle")
    /\ UNCHANGED <<blockLock, blockQueue, unblockLock, counts, locals, heard, usage>>

-----------------------------------------------------------------------------
(* timedWait *)

Wait(t) ==
    /\ pc[t] = "locked"
    /\ \E b \in usage[t] : timed' = [timed EXCEPT ![t] = b]
    /\ Goto(t, "atGate")
    /\ UNCHANGED <<sync, counts, timedOut, waitersGone, all, heard, usage>>

PassGate(t) ==
    /\ pc[t] = "atGate"
    /\ blockLock > 0
    /\ blockLock' = blockLock - 1
    /\ Goto(t, "counting")
    /\ UNCHANGED <<assocMutex, blockQueue, unblockLock, counts, locals, heard, usage>>

\* m_numWaitersBlocked++ and the release of the gate.
Count(t) ==
    /\ pc[t] = "counting"
    /\ numWaitersBlocked' = numWaitersBlocked + 1
    /\ blockLock' = blockLock + 1
    /\ heard' = [heard EXCEPT ![t] = FALSE]
    /\ Goto(t, "counted")
    /\ UNCHANGED <<assocMutex, blockQueue, unblockLock, numWaitersGone,
                   numWaitersToUnblock, locals, usage>>

ReleaseMutex(t) ==
    /\ pc[t] = "counted"
    /\ assocMutex' = None
    /\ Goto(t, "blocked")
    /\ UNCHANGED <<blockLock, blockQueue, unblockLock, counts, locals, heard, usage>>

\* WaitForSingleObject( m_blockQueue, timeout )
TakePermit(t) ==
    /\ pc[t] = "blocked"
    /\ blockQueue > 0
    /\ blockQueue' = blockQueue - 1
    /\ timedOut' = [timedOut EXCEPT ![t] = FALSE]
    /\ Goto(t, "returning")
    /\ UNCHANGED <<assocMutex, blockLock, unblockLock, counts, timed,
                   waitersGone, all, heard, usage>>

TimeOut(t) ==
    /\ pc[t] = "blocked"
    /\ timed[t]
    /\ timedOut' = [timedOut EXCEPT ![t] = TRUE]
    /\ Goto(t, "returning")
    /\ UNCHANGED <<sync, counts, timed, waitersGone, all, heard, usage>>

\* Definitions named X_Mistake are X with a mistake one could make in it; no
\* specification uses them, they show that the properties notice it.
AfterLeaving_DropsPermit(left) == IF left = 1 THEN "lastOut" ELSE "relock"

\* Where a thread goes once it has left m_unblockLock, by its local count of
\* signals (line 306-323).
AfterLeaving(left) ==
    CASE left = 1 -> "lastOut" [] left > 1 -> "passOn" [] OTHER -> "relock"

SignalsLeft_OpensTwice(withdraws, opens) ==
    IF withdraws THEN 0 ELSE numWaitersToUnblock

\* The local numSignalsLeft as it leaves m_unblockLock.
SignalsLeft(withdraws, opens) ==
    IF withdraws \/ opens THEN 0 ELSE numWaitersToUnblock

GoneNow_Forgets(t, withdraws) == numWaitersGone

\* A timed-out waiter that cannot withdraw leaves a permit behind.
GoneNow(t, withdraws) == IF timedOut[t] /\ ~withdraws THEN 1 ELSE numWaitersGone

\* A waiter leaves while signals are outstanding (the first branch).  If it
\* timed out it either withdraws from the blocked ones or, when none is
\* blocked, leaves a permit behind.
LeaveSignalled(t) ==
    /\ pc[t] = "returning"
    /\ unblockLock = None
    /\ numWaitersToUnblock # 0
    /\ LET withdraws == timedOut[t] /\ numWaitersBlocked # 0
           blocked   == IF withdraws THEN numWaitersBlocked - 1 ELSE numWaitersBlocked
           gone      == GoneNow(t, withdraws)
           last      == numWaitersToUnblock = 1
           opens     == last /\ blocked # 0
       IN  /\ numWaitersBlocked' = blocked
           /\ numWaitersToUnblock' = numWaitersToUnblock - 1
           /\ blockLock' = IF opens THEN blockLock + 1 ELSE blockLock
           /\ numWaitersGone' = IF last /\ ~opens THEN 0 ELSE gone
           /\ waitersGone' = [waitersGone EXCEPT ![t] = IF last /\ ~opens THEN gone ELSE 0]
           /\ Goto(t, AfterLeaving(SignalsLeft(withdraws, opens)))
    /\ UNCHANGED <<assocMutex, blockQueue, unblockLock, timed, timedOut, all, heard, usage>>

GoneAfter == numWaitersGone + 1

\* A waiter leaves while none are outstanding: it timed out, or its permit
\* was left behind.  It is only counted as gone.
LeaveUnsignalled(t) ==
    /\ pc[t] = "returning"
    /\ unblockLock = None
    /\ numWaitersToUnblock = 0
    /\ numWaitersGone' = GoneAfter
    /\ waitersGone' = [waitersGone EXCEPT ![t] = 0]
    /\ IF GoneAfter = GoneLimit
       THEN unblockLock' = t /\ Goto(t, "settling")
       ELSE UNCHANGED unblockLock /\ Goto(t, "relock")
    /\ UNCHANGED <<assocMutex, blockLock, blockQueue, numWaitersBlocked,
                   numWaitersToUnblock, timed, timedOut, all, heard, usage>>

\* The gone waiters are subtracted, with the gate taken and released.  (The
\* assertion of line 300, which cannot hold, is taken to be compiled out.)
Settle(t) ==
    /\ pc[t] = "settling"
    /\ blockLock > 0
    /\ numWaitersBlocked' = numWaitersBlocked - numWaitersGone
    /\ numWaitersGone' = 0
    /\ unblockLock' = None
    /\ Goto(t, "relock")
    /\ UNCHANGED <<assocMutex, blockLock, blockQueue, numWaitersToUnblock, locals, heard, usage>>

\* The last released waiter takes back the permits left behind ...
TakeBackPermit(t) ==
    /\ pc[t] = "lastOut"
    /\ waitersGone[t] > 0
    /\ blockQueue > 0
    /\ blockQueue' = blockQueue - 1
    /\ waitersGone' = [waitersGone EXCEPT ![t] = @ - 1]
    /\ UNCHANGED <<pc, assocMutex, blockLock, unblockLock, counts, timed, timedOut, all, heard, usage>>

\* ... and opens the gate.
OpenGate(t) ==
    /\ pc[t] = "lastOut"
    /\ waitersGone[t] <= 0
    /\ blockLock' = blockLock + 1
    /\ Goto(t, "relock")
    /\ UNCHANGED <<assocMutex, blockQueue, unblockLock, counts, locals, heard, usage>>

\* Any other released waiter unblocks the next one.
PassOn(t) ==
    /\ pc[t] = "passOn"
    /\ blockQueue' = blockQueue + 1
    /\ Goto(t, "relock")
    /\ UNCHANGED <<assocMutex, blockLock, unblockLock, counts, locals, heard, usage>>

\* m_assocMutex.lock() and the return.
Relock(t) ==
    /\ pc[t] = "relock"
    /\ assocMutex = None
    /\ assocMutex' = t
    /\ timed' = [timed EXCEPT ![t] = FALSE]
    /\ timedOut' = [timedOut EXCEPT ![t] = FALSE]
    /\ heard' = [heard EXCEPT ![t] = FALSE]
    /\ Goto(t, "locked")
    /\ UNCHANGED <<blockLock, blockQueue, unblockLock, counts, waitersGone, all, usage>>

-----------------------------------------------------------------------------
(* notify(bool) *)

\* Where notify returns to: the caller's critical section or outside it.
Return(t) == Goto(t, IF assocMutex = t THEN "locked" ELSE "idle")

\* Every thread counted as waiting has now been notified.
InWait == {t \in Threads : pc[t] \in {"counted", "blocked", "returning"}}
Tell   == heard' = [t \in Threads |-> heard[t] \/ t \in InWait]

BlockedAfter_NotMoved(n) == numWaitersBlocked

BlockedAfter(n) == numWaitersBlocked - n

\* Signals are outstanding: more waiters are added to those being released.
NotifyMore(t) ==
    /\ t \in Notifiers
    /\ pc[t] \in {"idle", "locked"}
    /\ unblockLock = None
    /\ numWaitersToUnblock # 0
    /\ numWaitersBlocked # 0
    /\ \E n \in {1, numWaitersBlocked} :
           /\ numWaitersToUnblock' = numWaitersToUnblock + n
           /\ numWaitersBlocked' = BlockedAfter(n)
    /\ Tell
    /\ UNCHANGED <<pc, sync, numWaitersGone, locals, usage>>

SomeoneBlocked_OffByOne == numWaitersBlocked >= numWaitersGone

\* Someone waits who has not gone meanwhile.
SomeoneBlocked == numWaitersBlocked > numWaitersGone

\* Nobody to notify: notify returns without effect.
NotifyNobody(t) ==
    /\ t \in Notifiers
    /\ pc[t] \in {"idle", "locked"}
    /\ unblockLock = None
    /\ IF numWaitersToUnblock # 0 THEN numWaitersBlocked = 0 ELSE ~SomeoneBlocked
    /\ Tell
    /\ UNCHANGED <<pc, sync, counts, locals, usage>>

\* The first signal of a group: the gate has to be closed.
NotifyFirst(t) ==
    /\ t \in Notifiers
    /\ pc[t] \in {"idle", "locked"}
    /\ unblockLock = None
    /\ numWaitersToUnblock = 0
    /\ SomeoneBlocked
    /\ \E b \in BOOLEAN : all' = [all EXCEPT ![t] = b]
    /\ unblockLock' = t
    /\ Goto(t, "closing")
    /\ UNCHANGED <<assocMutex, blockLock, blockQueue, counts, timed, timedOut, waitersGone, heard, usage>>

CloseGate(t) ==
    /\ pc[t] = "closing"
    /\ blockLock > 0
    /\ blockLock' = blockLock - 1
    /\ LET blocked == numWaitersBlocked - numWaitersGone
           n       == IF all[t] THEN blocked ELSE 1
       IN  /\ numWaitersToUnblock' = n
           /\ numWaitersBlocked' = blocked - n
    /\ numWaitersGone' = 0
    /\ unblockLock' = None
    /\ all' = [all EXCEPT ![t] = FALSE]
    /\ Tell
    /\ Goto(t, "signalling")
    /\ UNCHANGED <<assocMutex, blockQueue, timed, timedOut, waitersGone, usage>>

ReleaseFirst(t) ==
    /\ pc[t] = "signalling"
    /\ blockQueue' = blockQueue + 1
    /\ Return(t)
    /\ UNCHANGED <<assocMutex, blockLock, unblockLock, counts, locals, heard, usage>>

-----------------------------------------------------------------------------
Call(t) == LockMutex(t) \/ Wait(t) \/ NotifyMore(t) \/ NotifyNobody(t) \/ NotifyFirst(t)

\* The steps a thread takes inside a call, the clock's step apart.
Continue(t) ==
    \/ PassGate(t) \/ Count(t) \/ ReleaseMutex(t) \/ TakePermit(t)
    \/ LeaveSignalled(t) \/ LeaveUnsignalled(t) \/ Settle(t)
    \/ TakeBackPermit(t) \/ OpenGate(t) \/ PassOn(t)
    \/ CloseGate(t) \/ ReleaseFirst(t)

Next == \E t \in Threads :
    Call(t) \/ Continue(t) \/ Relock(t) \/ UnlockMutex(t) \/ TimeOut(t)

Spec == Init /\ [][Next]_vars

\* Runnable threads run, a period elapses, a mutex that is always released
\* again is handed to each thread that waits for it, and clients leave their
\* critical sections.
Fairness == \A t \in Threads :
    /\ WF_vars(Continue(t)) /\ WF_vars(UnlockMutex(t)) /\ WF_vars(TimeOut(t))
    /\ SF_vars(Relock(t)) /\ SF_vars(TakePermit(t)) /\ SF_vars(PassGate(t))

FairSpec == Spec /\ Fairness

-----------------------------------------------------------------------------
At(l) == {t \in Threads : pc[t] = l}

\* Every variable has its type.
TypeOK ==
    /\ pc \in [Threads -> {"idle", "locked", "atGate", "counting", "counted", "blocked",
                          "returning", "settling", "lastOut", "passOn", "relock",
                          "closing", "signalling"}]
    /\ assocMutex \in Threads \cup {None}
    /\ unblockLock \in Threads \cup {None}
    /\ blockLock \in Nat
    /\ blockQueue \in Nat
    /\ numWaitersGone \in Nat
    /\ numWaitersBlocked \in Nat
    /\ numWaitersToUnblock \in Nat
    /\ timed \in [Threads -> BOOLEAN]
    /\ timedOut \in [Threads -> BOOLEAN]
    /\ waitersGone \in [Threads -> Nat]
    /\ all \in [Threads -> BOOLEAN]
    /\ heard \in [Threads -> BOOLEAN]
    /\ usage \in Usages

\* While signals are outstanding the gate is closed and nobody is past it, so
\* the ++ on m_numWaitersBlocked (line 244, under the gate) never races with
\* the updates under m_unblockLock (264-266, 345-351); the gate is a lock.
Gate ==
    /\ blockLock + Cardinality(At("counting")) <= 1
    /\ numWaitersToUnblock # 0 => blockLock = 0 /\ At("counting") = {}

\* A closed gate will be opened: whenever it is closed somebody is past it,
\* closing it, or still to be released, and the last of those opens it.
GateReopens ==
    blockLock = 0 => \/ numWaitersToUnblock # 0
                     \/ At("counting") \cup At("signalling") \cup At("lastOut") # {}

\* m_numWaitersBlocked and m_numWaitersToUnblock together count the threads
\* that have not left yet.
WaitersCounted ==
    numWaitersBlocked + numWaitersToUnblock - numWaitersGone = Cardinality(InWait)

\* Exactly one permit, or one thread that will release one, is under way for
\* the group being released, and after it only what the last waiter out will
\* take back: no permit is lost and none outlives its group.
OnePermit ==
    blockQueue + Cardinality({t \in At("returning") : ~timedOut[t]})
               + Cardinality(At("passOn")) + Cardinality(At("signalling"))
      = IF numWaitersToUnblock # 0 THEN 1
        ELSE Cardinality({t \in At("lastOut") : waitersGone[t] = 1})

\* wait returns true, and wait() returns at all, only after a notification
\* ("true if notified before the timeout and false if not", condition.d:154).
TrueMeansNotified == \A t \in At("relock") : timedOut[t] \/ heard[t]

\* The gate: typed, exclusive, and never shut for good.
GateSound == TypeOK /\ Gate /\ GateReopens

\* The permits: as many as there are threads to release, and nobody takes one
\* that was not meant for him.
PermitsSound == OnePermit /\ TrueMeansNotified

\* A timed wait ends: "until a notification occurs or until the supplied time
\* period has elapsed" (condition.d:139-140).
TimedWaitEnds == \A t \in Threads : pc[t] = "atGate" /\ timed[t] ~> pc[t] = "locked"

\* "Notifies all waiters" (condition.d:204): once as many signals are
\* outstanding as threads wait, each of these threads returns from wait, also
\* when others call wait and notify meanwhile.
NotifyAllReleasesAll ==
    \A t \in Threads :
        t \in InWait /\ numWaitersToUnblock = Cardinality(InWait) ~> pc[t] = "locked"

\* The code implements the condition its callers are written for.
Phase(t) ==
    CASE t \in InWait -> "in"
      [] pc[t] \in {"lastOut", "passOn", "relock", "settling"} ->
            IF timedOut[t] THEN "timedOut" ELSE "notified"
      [] OTHER -> "out"

Abstract == INSTANCE ConditionSpec WITH
    cond <- [waiting |-> InWait, signals |-> numWaitersToUnblock],
    phase <- [t \in Threads |-> Phase(t)],
    period <- {t \in InWait : timed[t]}

ImplementsConditionSpec == Abstract!Spec
=============================================================================
