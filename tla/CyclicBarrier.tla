--------------------------- MODULE CyclicBarrier ---------------------------
(***************************************************************************)
(* mango.locks.CyclicBarrier: a barrier of Parties threads with a command, *)
(* breakage and reset.                                                     *)
(*                                                                         *)
(* Every method holds the barrier's ReentrantLock from its first to its    *)
(* last statement and gives it up only inside trip.wait(), so a call is    *)
(* one action up to that wait and one action after it.  The Condition of a *)
(* ReentrantLock (LockImpl.d:1446-) has no spurious returns and moves      *)
(* every waiter to the lock's queue on notifyAll; that a thread in that    *)
(* queue ever gets the lock is not assumed (module LockQueue), so no       *)
(* liveness is claimed here.                                               *)
(*                                                                         *)
(* Two lines of the original are commented out (CyclicBarrier.d:195-196):  *)
(* a timed call never blocks and never counts its time down.  One whose    *)
(* time is over breaks the barrier; one with time left goes round its loop *)
(* for ever with the lock held.                                            *)
(***************************************************************************)
EXTENDS Integers, FiniteSets

CONSTANTS Threads,         \* the threads that use the barrier
          Parties,         \* parties_
          MinGeneration,   \* bounds of the counters, for TLC
          MaxGeneration,
          MinCount,
          None

ASSUME ThreadsFinite == IsFiniteSet(Threads)
ASSUME PartiesPositive == Parties \in Nat \ {0}      \* this(), line 233
ASSUME Bounds ==
    /\ MinGeneration \in Int /\ MaxGeneration \in Int /\ MinCount \in Int
    /\ MinGeneration <= 0 /\ 0 <= MaxGeneration /\ MinCount <= 0
ASSUME NoneIsNoThread == None \notin Threads

VARIABLES pc,           \* "out", "wait" (in trip's queue), "woken" (in the
                        \* lock's queue) or "spin"
          holder,       \* the thread that keeps the lock between two actions
          count, generation, broken,
          index, gen    \* index and g of each thread's call

vars == <<pc, holder, count, generation, broken, index, gen>>

Init ==
    /\ pc = [t \in Threads |-> "out"]
    /\ holder = None
    /\ count = Parties
    /\ generation = 0
    /\ broken = FALSE
    /\ index = [t \in Threads |-> 0]
    /\ gen = [t \in Threads |-> 0]

Inside == {t \in Threads : pc[t] # "out"}

\* What the loop of a thread inside finds when it next runs.
Fails(t)  == broken \/ gen[t] > generation
Passes(t) == ~broken /\ gen[t] < generation
Held == {t \in Inside : ~Fails(t) /\ ~Passes(t)}

\* Definitions named X_Mistake are X with a mistake one could make in it; no
\* specification uses them, they show that the properties notice it.
Notified_Nobody == pc

Notified == [t \in Threads |-> IF pc[t] = "wait" THEN "woken" ELSE pc[t]]

\* --count
IndexNow_PostDecrement == count

IndexNow == count - 1

\* A call of wait() that leaves the barrier at once, the barrier broken or not.
Leaves == UNCHANGED <<holder, index, gen>>

\* dowait() at a broken barrier.
Refused(t) ==
    /\ pc[t] = "out" /\ holder = None /\ broken
    /\ count > MinCount
    /\ count' = IndexNow
    /\ Leaves
    /\ UNCHANGED <<pc, generation, broken>>

\* dowait() of a thread that waits, or loops with time left.
Stays(t, how) ==
    /\ pc[t] = "out" /\ holder = None /\ ~broken /\ IndexNow # 0
    /\ count > MinCount
    /\ count' = IndexNow
    /\ index' = [index EXCEPT ![t] = IndexNow]
    /\ gen' = [gen EXCEPT ![t] = generation]
    /\ pc' = [pc EXCEPT ![t] = how]
    /\ UNCHANGED <<generation, broken>>

Wait(t) ==
    /\ Stays(t, "wait")
    /\ UNCHANGED holder

TimedWait(t) ==
    /\ Stays(t, "spin")
    /\ holder' = t

\* Once round the loop of a timed call: nothing has changed, nothing changes.
Spin(t) ==
    /\ pc[t] = "spin"
    /\ UNCHANGED vars

\* dowait() of a thread whose time is over: breakBarrier().
TimesOut(t) ==
    /\ pc[t] = "out" /\ holder = None /\ ~broken /\ IndexNow # 0
    /\ count > MinCount
    /\ count' = IndexNow
    /\ broken' = TRUE
    /\ pc' = Notified
    /\ Leaves
    /\ UNCHANGED generation

\* Assumed of the scheduler, for the reason given in reset() (lines 351-356): a
\* thread that is to leave has done so before the generations have caught up
\* with its own, and no thread is four generations behind when they go back.
NotOvertaken == \A t \in Inside : gen[t] # generation + 1
NoStraggler  == \A t \in Inside : gen[t] > generation - 4

CountAfterTrip == Parties

\* dowait() of the last of a group: nextGeneration(), then the command, which
\* returns or throws.
Trip(t, commandFails) ==
    /\ pc[t] = "out" /\ holder = None /\ ~broken /\ IndexNow = 0
    /\ NotOvertaken
    /\ generation < MaxGeneration
    /\ count' = CountAfterTrip
    /\ generation' = generation + 1
    /\ broken' = commandFails
    /\ pc' = Notified
    /\ Leaves

\* trip.wait() returns, and the tests behind it.
Resume(t) ==
    /\ pc[t] = "woken" /\ holder = None
    /\ IF t \in Held
       THEN /\ pc' = [pc EXCEPT ![t] = "wait"]
            /\ UNCHANGED <<index, gen>>
       ELSE /\ pc' = [pc EXCEPT ![t] = "out"]
            /\ index' = [index EXCEPT ![t] = 0]
            /\ gen' = [gen EXCEPT ![t] = 0]
    /\ UNCHANGED <<holder, count, generation, broken>>

GenerationAfterReset_Kept == generation

GenerationAfterReset == generation - 4

\* reset(), by a thread outside.
Reset ==
    /\ \E t \in Threads : pc[t] = "out"
    /\ holder = None
    /\ NoStraggler
    /\ generation - 4 >= MinGeneration
    /\ generation' = GenerationAfterReset
    /\ broken' = FALSE
    /\ pc' = Notified
    /\ UNCHANGED <<holder, count, index, gen>>

Next ==
    \/ Reset
    \/ \E t \in Threads :
        \/ Refused(t) \/ Wait(t) \/ TimedWait(t) \/ Spin(t) \/ TimesOut(t) \/ Resume(t)
        \/ \E commandFails \in BOOLEAN : Trip(t, commandFails)

Spec == Init /\ [][Next]_vars

\* A notified thread gets the lock when it is free.  That is more than LockImpl
\* gives; the one property checked under it fails nevertheless.
Fairness == \A t \in Threads : WF_vars(Resume(t))

FairSpec == Spec /\ Fairness

-----------------------------------------------------------------------------
\* Every variable has its type; count never exceeds parties_.
TypeOK ==
    /\ pc \in [Threads -> {"out", "wait", "woken", "spin"}]
    /\ holder \in Threads \cup {None}
    /\ count \in MinCount..Parties
    /\ generation \in MinGeneration..MaxGeneration
    /\ broken \in BOOLEAN
    /\ index \in [Threads -> MinCount..Parties]
    /\ gen \in [Threads -> MinGeneration..MaxGeneration]

\* A thread that is to leave has been notified, and one that is not has not:
\* no step wakes too few or too many, and no thread finds on waking that it
\* has to wait again.
NotifiedInTime == \A t \in Inside : pc[t] = "woken" <=> t \notin Held

\* No held thread is forgotten: whatever trips, breaks and resets, count leaves
\* room for at most the parties that are not held.
HeldAreCounted == count <= Parties - Cardinality(Held)

\* "the number of parties currently blocked in wait" is what getNumberWaiting
\* returns (CyclicBarrier.d:369).
NumberWaiting == Parties - count = Cardinality(Held)

\* The arrival index wait() returns is one of 1..parties - 1 for a thread that
\* was not the last, and no other thread of the group gets the same (line 284).
IndexDistinct ==
    /\ \A t \in Inside : Passes(t) => index[t] \in 1..(Parties - 1)
    /\ \A t, u \in Inside :
        t # u /\ gen[t] = gen[u] /\ ~Fails(t) /\ ~Fails(u) => index[t] # index[u]

\* Threads of different generations at one barrier are told apart.
CallsSound == TypeOK /\ NotifiedInTime /\ IndexDistinct

Place == [t \in Threads |-> IF t \notin Inside THEN "out"
                            ELSE IF t \in Held THEN "held"
                            ELSE IF Fails(t) THEN "fail" ELSE "pass"]

Abstract == INSTANCE CyclicBarrierSpec WITH place <- Place

\* The barrier its comments describe, which also says when it trips and that a
\* reset restores the initial state (CyclicBarrier.d:222, 251, 339).
ImplementsCyclicBarrierSpec == Abstract!Spec

\* Miscounting is all that is wrong: wherever count is the number of parties
\* missing, a call holds, passes and fails exactly the threads it should, though
\* nothing but two generation numbers tells the threads of a group apart.
StepsAsDocumented == [][NumberWaiting => Abstract!Next]_<<Place, broken>>

\* A timed call lies dormant until "the specified timeout elapses" at the latest
\* (CyclicBarrier.d:295).
TimedCallEnds == \A t \in Threads : pc[t] = "spin" ~> pc[t] = "out"
=============================================================================
