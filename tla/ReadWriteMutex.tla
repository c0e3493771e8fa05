--------------------------- MODULE ReadWriteMutex ---------------------------
(***************************************************************************)
(* rt.core.sync.rwmutex: a mutex that admits any number of readers or one  *)
(* writer, built from a Mutex (m_commonMutex), two Conditions and four     *)
(* counters.                                                               *)
(*                                                                         *)
(* Everything a method does to shared state it does inside                 *)
(* synchronized(m_commonMutex), and wait() gives that mutex up in the same *)
(* step that counts the waiter, so a method is one action up to its first  *)
(* wait and one action per return from wait.  A call that must wait while  *)
(* the gate of its Condition is closed holds m_commonMutex until the       *)
(* pending signals are taken; taking a signal needs no mutex, so this is   *)
(* the same as the call being made later.                                  *)
(*                                                                         *)
(* The class comment (rwmutex.d:43-50) forbids recursive use: a thread     *)
(* calls lock or tryLock only when it holds nothing, and unlock only on    *)
(* the handle it holds.                                                    *)
(***************************************************************************)
EXTENDS Integers, FiniteSets, Monitor

CONSTANT Threads    \* the threads that share the mutex

ASSUME ThreadsFinite == IsFiniteSet(Threads)

Policies == {"PREFER_READERS", "PREFER_WRITERS"}

VARIABLES policy,            \* m_policy, set by the constructor
          pc,                \* where each thread is in its call
          readerQueue,       \* m_readerQueue
          writerQueue,       \* m_writerQueue
          numQueuedReaders,
          numActiveReaders,
          numQueuedWriters,
          numActiveWriters

vars == <<policy, pc, readerQueue, writerQueue, numQueuedReaders, numActiveReaders,
          numQueuedWriters, numActiveWriters>>

At(l) == {t \in Threads : pc[t] = l}

Goto(t, l) == pc' = [pc EXCEPT ![t] = l]

Init ==
    /\ policy \in Policies
    /\ pc = [t \in Threads |-> "idle"]
    /\ readerQueue = NoWaiters
    /\ writerQueue = NoWaiters
    /\ numQueuedReaders = 0
    /\ numActiveReaders = 0
    /\ numQueuedWriters = 0
    /\ numActiveWriters = 0

-----------------------------------------------------------------------------
\* Variants of definitions below with the mistakes one could make in them
\* carry the name of the definition and of the mistake; no specification
\* uses them, they show that the properties notice the difference.
ShouldQueueReader_NoPolicy == numActiveWriters > 0

ShouldQueueReader ==
    \/ numActiveWriters > 0
    \/ policy = "PREFER_WRITERS" /\ numQueuedWriters > 0

ShouldQueueWriter_NoPolicy == numActiveWriters > 0 \/ numActiveReaders > 0

ShouldQueueWriter_NoReaders ==
    numActiveWriters > 0 \/ (policy = "PREFER_READERS" /\ numQueuedReaders > 0)

ShouldQueueWriter ==
    \/ numActiveWriters > 0
    \/ numActiveReaders > 0
    \/ policy = "PREFER_READERS" /\ numQueuedReaders > 0

(* Reader *)

\* Reader.lock() by a thread that has to queue.
ReaderQueues(t) ==
    /\ pc[t] = "idle"
    /\ ShouldQueueReader
    /\ GateOpen(readerQueue)
    /\ readerQueue' = Waits(readerQueue, t)
    /\ numQueuedReaders' = numQueuedReaders + 1
    /\ Goto(t, "readWait")
    /\ UNCHANGED <<policy, writerQueue, numActiveReaders, numQueuedWriters,
                   numActiveWriters>>

\* Reader.lock() that need not queue (the queued count goes up and down
\* within the call), and Reader.tryLock() that returns true.
ReaderEnters(t) ==
    /\ pc[t] = "idle"
    /\ ~ShouldQueueReader
    /\ numActiveReaders' = numActiveReaders + 1
    /\ Goto(t, "reading")
    /\ UNCHANGED <<policy, readerQueue, writerQueue, numQueuedReaders,
                   numQueuedWriters, numActiveWriters>>

ReaderTakesSignal(t) ==
    /\ pc[t] = "readWait"
    /\ CanTake(readerQueue, t)
    /\ readerQueue' = Takes(readerQueue, t)
    /\ Goto(t, "readWoken")
    /\ UNCHANGED <<policy, writerQueue, numQueuedReaders, numActiveReaders,
                   numQueuedWriters, numActiveWriters>>

ReaderResumes_StaysQueued(t) ==
    /\ pc[t] = "readWoken"
    /\ ~ShouldQueueReader
    /\ numActiveReaders' = numActiveReaders + 1
    /\ Goto(t, "reading")
    /\ UNCHANGED <<policy, readerQueue, writerQueue, numQueuedReaders,
                   numQueuedWriters, numActiveWriters>>

\* wait() returns to the loop of Reader.lock() and the loop ends.
ReaderResumes(t) ==
    /\ pc[t] = "readWoken"
    /\ ~ShouldQueueReader
    /\ numActiveReaders' = numActiveReaders + 1
    /\ numQueuedReaders' = numQueuedReaders - 1
    /\ Goto(t, "reading")
    /\ UNCHANGED <<policy, readerQueue, writerQueue, numQueuedWriters,
                   numActiveWriters>>

\* wait() returns and the loop waits again.
ReaderRequeues(t) ==
    /\ pc[t] = "readWoken"
    /\ ShouldQueueReader
    /\ GateOpen(readerQueue)
    /\ readerQueue' = Waits(readerQueue, t)
    /\ Goto(t, "readWait")
    /\ UNCHANGED <<policy, writerQueue, numQueuedReaders, numActiveReaders,
                   numQueuedWriters, numActiveWriters>>

ReaderUnlock(t) ==
    /\ pc[t] = "reading"
    /\ numActiveReaders' = numActiveReaders - 1
    /\ writerQueue' = IF numActiveReaders' < 1 /\ numQueuedWriters > 0
                      THEN Notifies(writerQueue) ELSE writerQueue
    /\ Goto(t, "idle")
    /\ UNCHANGED <<policy, readerQueue, numQueuedReaders, numQueuedWriters,
                   numActiveWriters>>

(* Writer *)

\* Writer.lock() by a thread that has to queue.
WriterQueues(t) ==
    /\ pc[t] = "idle"
    /\ ShouldQueueWriter
    /\ GateOpen(writerQueue)
    /\ writerQueue' = Waits(writerQueue, t)
    /\ numQueuedWriters' = numQueuedWriters + 1
    /\ Goto(t, "writeWait")
    /\ UNCHANGED <<policy, readerQueue, numQueuedReaders, numActiveReaders,
                   numActiveWriters>>

\* Writer.lock() that need not queue, and Writer.tryLock() that returns true.
WriterEnters(t) ==
    /\ pc[t] = "idle"
    /\ ~ShouldQueueWriter
    /\ numActiveWriters' = numActiveWriters + 1
    /\ Goto(t, "writing")
    /\ UNCHANGED <<policy, readerQueue, writerQueue, numQueuedReaders,
                   numActiveReaders, numQueuedWriters>>

WriterTakesSignal(t) ==
    /\ pc[t] = "writeWait"
    /\ CanTake(writerQueue, t)
    /\ writerQueue' = Takes(writerQueue, t)
    /\ Goto(t, "writeWoken")
    /\ UNCHANGED <<policy, readerQueue, numQueuedReaders, numActiveReaders,
                   numQueuedWriters, numActiveWriters>>

WriterResumes(t) ==
    /\ pc[t] = "writeWoken"
    /\ ~ShouldQueueWriter
    /\ numActiveWriters' = numActiveWriters + 1
    /\ numQueuedWriters' = numQueuedWriters - 1
    /\ Goto(t, "writing")
    /\ UNCHANGED <<policy, readerQueue, writerQueue, numQueuedReaders,
                   numActiveReaders>>

WriterRequeues(t) ==
    /\ pc[t] = "writeWoken"
    /\ ShouldQueueWriter
    /\ GateOpen(writerQueue)
    /\ writerQueue' = Waits(writerQueue, t)
    /\ Goto(t, "writeWait")
    /\ UNCHANGED <<policy, readerQueue, numQueuedReaders, numActiveReaders,
                   numQueuedWriters, numActiveWriters>>

AlertReaders_NoElse == numQueuedReaders > 0 /\ policy = "PREFER_READERS"

AlertWriter_NoElse == numQueuedWriters > 0 /\ policy = "PREFER_WRITERS"

\* Whom the switch of Writer.unlock() alerts once no writer is active.
AlertReaders ==
    /\ numQueuedReaders > 0
    /\ policy = "PREFER_READERS" \/ numQueuedWriters = 0

AlertWriter ==
    /\ numQueuedWriters > 0
    /\ policy = "PREFER_WRITERS" \/ numQueuedReaders = 0

WriterUnlock(t) ==
    /\ pc[t] = "writing"
    /\ numActiveWriters' = numActiveWriters - 1
    /\ readerQueue' = IF numActiveWriters' < 1 /\ AlertReaders
                      THEN NotifiesAll(readerQueue) ELSE readerQueue
    /\ writerQueue' = IF numActiveWriters' < 1 /\ AlertWriter
                      THEN Notifies(writerQueue) ELSE writerQueue
    /\ Goto(t, "idle")
    /\ UNCHANGED <<policy, numQueuedReaders, numActiveReaders,
                   numQueuedWriters>>

-----------------------------------------------------------------------------
\* The steps of a call already made: a thread that can take one takes it.
Advance(t) ==
    \/ ReaderTakesSignal(t) \/ ReaderResumes(t) \/ ReaderRequeues(t)
    \/ WriterTakesSignal(t) \/ WriterResumes(t) \/ WriterRequeues(t)

Unlock(t) == ReaderUnlock(t) \/ WriterUnlock(t)

\* The environment: a thread decides to lock.
Lock(t) ==
    \/ ReaderQueues(t) \/ ReaderEnters(t)
    \/ WriterQueues(t) \/ WriterEnters(t)

Next == \E t \in Threads : Lock(t) \/ Advance(t) \/ Unlock(t)

Spec == Init /\ [][Next]_vars

\* The OS schedules every runnable thread and the critical section behind
\* m_commonMutex is handed to every thread that waits for it; holders unlock.
Fairness == \A t \in Threads : WF_vars(Advance(t)) /\ WF_vars(Unlock(t))

FairSpec == Spec /\ Fairness

-----------------------------------------------------------------------------
Readers == At("reading")
Writers == At("writing")
QueuedReaders == At("readWait") \cup At("readWoken")
QueuedWriters == At("writeWait") \cup At("writeWoken")

\* Every variable has its type.
TypeOK ==
    /\ policy \in Policies
    /\ pc \in [Threads -> {"idle", "readWait", "readWoken", "reading",
                          "writeWait", "writeWoken", "writing"}]
    /\ IsCondition(readerQueue, Threads)
    /\ IsCondition(writerQueue, Threads)
    /\ numQueuedReaders \in Nat
    /\ numActiveReaders \in Nat
    /\ numQueuedWriters \in Nat
    /\ numActiveWriters \in Nat

\* A thread that writes is alone: no other writes and none reads
\* (rwmutex.d:40-41), whatever the policy and whoever was signalled.
Exclusion == Writers # {} => Readers = {} /\ \E w \in Threads : Writers = {w}

\* The four counters, which are kept by ++, -- and scope(exit) in eight
\* different places, always count the threads they stand for, and the two
\* Conditions know exactly the threads blocked in them.
ReadersCounted ==
    /\ numQueuedReaders = Cardinality(QueuedReaders)
    /\ numActiveReaders = Cardinality(Readers)
    /\ readerQueue.waiting = At("readWait")

WritersCounted ==
    /\ numQueuedWriters = Cardinality(QueuedWriters)
    /\ numActiveWriters = Cardinality(Writers)
    /\ writerQueue.waiting = At("writeWait")

Accounting == ReadersCounted /\ WritersCounted

\* Everyone blocked in m_readerQueue has a signal on its way.
ReadersAlerted == readerQueue.signals = Cardinality(At("readWait"))

\* Nobody is left asleep.  A blocked reader is either alerted or kept out by
\* a writer that holds the lock or (if preferred) queues for it; a blocked
\* writer either has a signal or a woken writer ahead of it, or is kept out
\* by a holder or (if preferred) by a queued reader, whose unlock notifies.
\* unlock() notifies one queue only, so this rests on the policies' two
\* conditions being each other's complement.
NoReaderForgotten ==
    \/ ReadersAlerted
    \/ Writers # {}
    \/ policy = "PREFER_WRITERS" /\ QueuedWriters # {}

NoWriterForgotten ==
    \/ At("writeWait") = {}
    \/ writerQueue.signals > 0
    \/ At("writeWoken") # {}
    \/ Readers \cup Writers # {}
    \/ policy = "PREFER_READERS" /\ QueuedReaders # {}

NoLostWakeup == NoReaderForgotten /\ NoWriterForgotten

\* "once there are no writers present, all queued readers will be alerted"
\* (rwmutex.d:62-64): the step after which no writer holds or queues leaves
\* no blocked reader without a signal.
LastWriterAlertsReaders ==
    [][Writers \cup QueuedWriters # {} /\ (Writers \cup QueuedWriters)' = {}
       => ReadersAlerted']_vars

\* The code implements the lock its comments describe.
Abstract == INSTANCE RWLock WITH
    readers <- Readers, writers <- Writers,
    queuedReaders <- QueuedReaders, queuedWriters <- QueuedWriters

ImplementsRWLock == Abstract!Spec

\* With readers preferred, a reader that queues always gets the lock: once
\* it queues no writer can overtake it (rwmutex.d:358-359).
QueuedReaderEnters ==
    \A t \in Threads :
        policy = "PREFER_READERS" /\ pc[t] = "readWait" ~> pc[t] = "reading"

\* With writers preferred, writers as a class are never starved by readers.
QueuedWriterProgress ==
    policy = "PREFER_WRITERS" /\ QueuedWriters # {} ~> Writers # {}

\* Whichever class is preferred, the other one does not starve it.
PreferredProgress == QueuedReaderEnters /\ QueuedWriterProgress
=============================================================================
