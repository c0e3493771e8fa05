------------------------------- MODULE Monitor -------------------------------
(***************************************************************************)
(* What rt.core.sync.condition promises its callers, as operators on the   *)
(* state of one Condition: the set of threads inside wait() that no signal *)
(* has released yet, and the number of signals issued and not yet taken.   *)
(*                                                                         *)
(* Every class that owns a Condition (Barrier, ReadWriteMutex, ThreadPool) *)
(* is modelled over these operators; module Condition models the Win32     *)
(* code itself, and its runs check that it implements them.                *)
(*                                                                         *)
(* A wait by t is three events: Waits (the thread is counted, its mutex    *)
(* released), Takes (it takes one signal), and the caller's own step that  *)
(* reacquires the mutex.  A thread is counted only while no signal is      *)
(* outstanding: the gate (m_blockLock) stays closed from a notify until    *)
(* the last released waiter has gone, so a signal cannot be taken by a     *)
(* thread that started to wait after it was issued.                        *)
(***************************************************************************)
EXTENDS Naturals, FiniteSets

\* The states of a Condition used by the threads T.
IsCondition(c, T) ==
    /\ c \in [waiting : SUBSET T, signals : Nat]
    /\ c.signals <= Cardinality(c.waiting)

\* A Condition nobody waits on (constructor, condition.d:66-91).
NoWaiters == [waiting |-> {}, signals |-> 0]

\* The gate is open: a caller of wait() may be counted.
GateOpen(c) == c.signals = 0

\* wait(), up to the point where the thread blocks.
Waits(c, t) == [c EXCEPT !.waiting = @ \cup {t}]

\* A blocked thread takes a signal and leaves the wait.
CanTake(c, t) == t \in c.waiting /\ c.signals > 0

Takes(c, t) == [waiting |-> c.waiting \ {t}, signals |-> c.signals - 1]

\* The period of a thread that waits elapses: it leaves without a signal, and
\* a signal nobody is left to take goes with it.
TimesOut(c, t) ==
    LET left == c.waiting \ {t}
    IN  [waiting |-> left,
         signals |-> IF c.signals > Cardinality(left) THEN Cardinality(left) ELSE c.signals]

\* notify(): one more signal, unless every waiter has one already.
Notifies(c) ==
    IF c.signals < Cardinality(c.waiting) THEN [c EXCEPT !.signals = @ + 1] ELSE c

\* notifyAll(): one signal for every waiter.
NotifiesAll(c) == [c EXCEPT !.signals = Cardinality(c.waiting)]
=============================================================================
