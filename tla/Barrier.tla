------------------------------ MODULE Barrier ------------------------------
(***************************************************************************)
(* rt.core.sync.barrier: a reusable barrier for groups of m_limit threads, *)
(* built from a Mutex, a Condition, a countdown and a group number.        *)
(*                                                                         *)
(* wait() runs inside synchronized(m_lock), so it is one action up to      *)
(* m_cond.wait() and one action per return from it.                        *)
(***************************************************************************)
EXTENDS Integers, FiniteSets, Monitor

CONSTANTS Travellers,    \* the threads that use the barrier
          Limit,         \* m_limit
          GroupModulus   \* m_group is a uint: 2^32

ASSUME TravellersFinite == IsFiniteSet(Travellers)
ASSUME LimitPositive == Limit \in Nat \ {0}     \* the contract of this(uint)
ASSUME GroupModulusBig == GroupModulus \in Nat \ {0, 1}

VARIABLES place,    \* "out", "wait" (blocked in m_cond), "woken", or "through":
                    \* it completed a group and is about to return
          cond,     \* m_cond
          mGroup,   \* m_group
          mCount,   \* m_count
          group     \* local group of each thread's call

barrierVars == <<place, cond, mGroup, mCount, group>>

BInit ==
    /\ place = [t \in Travellers |-> "out"]
    /\ cond = NoWaiters
    /\ mGroup = 0
    /\ mCount = Limit
    /\ group = [t \in Travellers |-> 0]

Inside == {t \in Travellers : place[t] # "out"}

\* Threads waiting for the current group to fill up, and threads of a group
\* that is complete.
Current == {t \in Inside : group[t] = mGroup}
Past    == {t \in Inside : group[t] # mGroup}

NextGroup == (mGroup + 1) % GroupModulus

\* Assumed of the scheduler: a thread of a complete group gets m_lock before
\* 2^32 - 1 more groups have passed it by, so that its number is not reused.
NotLapped == \A t \in Past : group[t] # NextGroup

\* wait() by a thread that does not complete its group.
Arrive(t) ==
    /\ place[t] = "out"
    /\ mCount # 1
    /\ GateOpen(cond)
    /\ mCount' = mCount - 1
    /\ group' = [group EXCEPT ![t] = mGroup]
    /\ cond' = Waits(cond, t)
    /\ place' = [place EXCEPT ![t] = "wait"]
    /\ UNCHANGED mGroup

\* Definitions named X_Mistake are X with a mistake one could make in it; no
\* specification uses them, they show that the properties notice it.
Alert_One == Notifies(cond)

Alert == NotifiesAll(cond)

CountAfter_NotReset == mCount

CountAfter == Limit

\* wait() by the thread that completes it: it does not wait.
Complete(t) ==
    /\ place[t] = "out"
    /\ mCount = 1
    /\ NotLapped
    /\ mGroup' = NextGroup
    /\ mCount' = CountAfter
    /\ cond' = Alert
    /\ group' = [group EXCEPT ![t] = mGroup]
    /\ place' = [place EXCEPT ![t] = "through"]

TakeSignal(t) ==
    /\ place[t] = "wait"
    /\ CanTake(cond, t)
    /\ cond' = Takes(cond, t)
    /\ place' = [place EXCEPT ![t] = "woken"]
    /\ UNCHANGED <<mGroup, mCount, group>>

StillWaits_ByCount(t) == mCount # Limit

StillWaits(t) == group[t] = mGroup

\* m_cond.wait() returns; the loop ends or waits again.
Resume(t) ==
    /\ place[t] = "woken"
    /\ IF StillWaits(t)
       THEN /\ GateOpen(cond)
            /\ cond' = Waits(cond, t)
            /\ place' = [place EXCEPT ![t] = "wait"]
            /\ UNCHANGED group
       ELSE /\ place' = [place EXCEPT ![t] = "out"]
            /\ group' = [group EXCEPT ![t] = 0]
            /\ UNCHANGED cond
    /\ UNCHANGED <<mGroup, mCount>>

\* The thread that completed a group returns.
Return(t) ==
    /\ place[t] = "through"
    /\ place' = [place EXCEPT ![t] = "out"]
    /\ group' = [group EXCEPT ![t] = 0]
    /\ UNCHANGED <<cond, mGroup, mCount>>

BNext == \E t \in Travellers :
    Arrive(t) \/ Complete(t) \/ TakeSignal(t) \/ Resume(t) \/ Return(t)

BSpec == BInit /\ [][BNext]_barrierVars

\* A runnable thread runs, and one that waits for m_lock gets it.
BFairness == \A t \in Travellers : WF_barrierVars(TakeSignal(t) \/ Resume(t) \/ Return(t))

BFairSpec == BSpec /\ BFairness

-----------------------------------------------------------------------------
\* Every variable has its type.
BTypeOK ==
    /\ place \in [Travellers -> {"out", "wait", "woken", "through"}]
    /\ IsCondition(cond, Travellers)
    /\ mGroup \in 0..(GroupModulus - 1)
    /\ mCount \in 1..Limit
    /\ group \in [Travellers -> 0..(GroupModulus - 1)]

\* m_count counts down exactly the threads of the group being formed, and the
\* Condition knows exactly the blocked threads.
CountMatches ==
    /\ mCount = Limit - Cardinality(Current)
    /\ cond.waiting = {t \in Travellers : place[t] = "wait"}

\* The one notifyAll of a group is enough although threads of later groups
\* use the same Condition: a blocked thread of a complete group still has a
\* signal of its own coming, and no signal goes to a thread of an incomplete
\* group.
NoneLeftBehind ==
    /\ \A t \in Past : place[t] = "wait" => cond.signals = Cardinality(cond.waiting)
    /\ cond.signals > 0 => \A t \in Current : place[t] # "wait"
    /\ \A t \in Current : place[t] = "wait"

\* The code implements the barrier its comment describes.
Groups == INSTANCE BarrierSpec WITH
    Threads <- Travellers, arrived <- Current, released <- Past

ImplementsBarrierSpec == Groups!Spec

\* Every thread of a complete group leaves.
ReleasedLeaves == \A t \in Travellers : t \in Past ~> place[t] = "out"
=============================================================================
