----------------------------- MODULE Sync_proofs -----------------------------
(***************************************************************************)
(* Proofs about ReadWriteMutex and Barrier, the two classes of             *)
(* rt.core.sync that are built from a Mutex and Conditions, for any finite *)
(* set of threads; they share the lemmas about Monitor.                    *)
(*                                                                         *)
(* The inductive invariants Inv and BInv are the conjunctions of the       *)
(* invariants TLC checks.  What the counters of ReadWriteMutex count is    *)
(* needed to know that the guards look at the threads they mean to look    *)
(* at; in Barrier the signals in flight all belong to threads of complete  *)
(* groups.                                                                 *)
(***************************************************************************)
EXTENDS ReadWriteMutex, Barrier, FiniteSetTheorems, TLAPS

-----------------------------------------------------------------------------
(* What the operators of Monitor do to a Condition *)

\* Counting a finite set of threads T: its subsets, with one thread more or
\* one thread less.
LEMMA Counting ==
    ASSUME NEW T, IsFiniteSet(T), NEW X \in SUBSET T, NEW t \in T
    PROVE  /\ Cardinality(X) \in Nat
           /\ Cardinality(X) = 0 <=> X = {}
           /\ t \in X => Cardinality(X \ {t}) = Cardinality(X) - 1
           /\ t \notin X => Cardinality(X \cup {t}) = Cardinality(X) + 1
<1>1. IsFiniteSet(X)
  BY FS_Subset
<1> QED
  BY <1>1, FS_CardinalityType, FS_EmptySet, FS_AddElement, FS_RemoveElement

\* A new Condition.
LEMMA NoWaitersType ==
    ASSUME NEW T
    PROVE  IsCondition(NoWaiters, T)
  BY FS_EmptySet DEF IsCondition, NoWaiters

\* wait() adds the thread and finds no signal outstanding.
LEMMA WaitsType ==
    ASSUME NEW T, IsFiniteSet(T), NEW c, IsCondition(c, T), NEW t \in T, GateOpen(c)
    PROVE  /\ IsCondition(Waits(c, t), T)
           /\ Waits(c, t).waiting = c.waiting \cup {t}
           /\ Waits(c, t).signals = 0
<1>1. c.waiting \cup {t} \in SUBSET T
  BY DEF IsCondition
<1>2. Cardinality(c.waiting \cup {t}) \in Nat
  BY <1>1, Counting
<1> QED
  BY <1>1, <1>2 DEF IsCondition, Waits, GateOpen

\* A thread that takes a signal removes itself and the signal.
LEMMA TakesType ==
    ASSUME NEW T, IsFiniteSet(T), NEW c, IsCondition(c, T), NEW t \in T, CanTake(c, t)
    PROVE  /\ IsCondition(Takes(c, t), T)
           /\ Takes(c, t).waiting = c.waiting \ {t}
           /\ Takes(c, t).signals = c.signals - 1
<1>1. /\ c.waiting \in SUBSET T
      /\ c.signals - 1 \in Nat
      /\ Cardinality(c.waiting) \in Nat
      /\ Cardinality(c.waiting \ {t}) = Cardinality(c.waiting) - 1
  BY Counting DEF IsCondition, CanTake
<1> QED
  BY <1>1 DEF IsCondition, Takes

\* notify() leaves a signal for somebody if anybody waits.
LEMMA NotifiesType ==
    ASSUME NEW T, IsFiniteSet(T), NEW c, IsCondition(c, T)
    PROVE  /\ IsCondition(Notifies(c), T)
           /\ Notifies(c).waiting = c.waiting
           /\ c.waiting # {} => Notifies(c).signals > 0
<1>1. /\ Cardinality(c.waiting) \in Nat
      /\ Cardinality(c.waiting) = 0 <=> c.waiting = {}
  BY FS_Subset, FS_CardinalityType, FS_EmptySet DEF IsCondition
<1> QED
  BY <1>1 DEF IsCondition, Notifies

\* notifyAll() leaves a signal for everybody.
LEMMA NotifiesAllType ==
    ASSUME NEW T, IsFiniteSet(T), NEW c, IsCondition(c, T)
    PROVE  /\ IsCondition(NotifiesAll(c), T)
           /\ NotifiesAll(c).waiting = c.waiting
           /\ NotifiesAll(c).signals = Cardinality(c.waiting)
<1>1. Cardinality(c.waiting) \in Nat
  BY FS_Subset, FS_CardinalityType DEF IsCondition
<1> QED
  BY <1>1 DEF IsCondition, NotifiesAll

-----------------------------------------------------------------------------
(* ReadWriteMutex, with either policy.                                     *)

Inv == TypeOK /\ Accounting /\ Exclusion /\ NoLostWakeup

\* Where the threads that take part in the lock are.
rw == At("readWait")
rk == At("readWoken")
rd == At("reading")
ww == At("writeWait")
wk == At("writeWoken")
wr == At("writing")

\* A thread that goes from a to b leaves the set of threads at a, enters the
\* set of threads at b and disturbs no other.
LEMMA Moves ==
    ASSUME TypeOK, NEW t \in Threads, NEW a, NEW b, pc[t] = a, a # b, Goto(t, b)
    PROVE  /\ t \in At(a) /\ At(a)' = At(a) \ {t}
           /\ t \notin At(b) /\ At(b)' = At(b) \cup {t}
           /\ \A l : l # a /\ l # b => t \notin At(l) /\ At(l)' = At(l)
  BY DEF TypeOK, Goto, At

\* The places are disjoint sets of threads.
LEMMA Places ==
    /\ rw \in SUBSET Threads /\ rk \in SUBSET Threads /\ rd \in SUBSET Threads
    /\ ww \in SUBSET Threads /\ wk \in SUBSET Threads /\ wr \in SUBSET Threads
    /\ rw \cup rk \in SUBSET Threads /\ ww \cup wk \in SUBSET Threads
  BY DEF At, rw, rk, rd, ww, wk, wr

\* The code's conditions on counters are conditions on these sets.
LEMMA Guards ==
    ASSUME Accounting
    PROVE  /\ ShouldQueueReader <=>
                wr # {} \/ (policy = "PREFER_WRITERS" /\ ww \cup wk # {})
           /\ ShouldQueueWriter <=>
                wr # {} \/ rd # {} \/ (policy = "PREFER_READERS" /\ rw \cup rk # {})
           /\ numQueuedReaders \in Nat /\ (numQueuedReaders = 0 <=> rw \cup rk = {})
           /\ numActiveReaders \in Nat /\ (numActiveReaders = 0 <=> rd = {})
           /\ numQueuedWriters \in Nat /\ (numQueuedWriters = 0 <=> ww \cup wk = {})
           /\ numActiveWriters \in Nat /\ (numActiveWriters = 0 <=> wr = {})
<1>1. ASSUME NEW X \in SUBSET Threads
      PROVE  Cardinality(X) \in Nat /\ (Cardinality(X) = 0 <=> X = {})
  BY ThreadsFinite, FS_Subset, FS_CardinalityType, FS_EmptySet
<1>2. /\ numQueuedReaders \in Nat /\ (numQueuedReaders = 0 <=> rw \cup rk = {})
      /\ numActiveReaders \in Nat /\ (numActiveReaders = 0 <=> rd = {})
  BY <1>1, Places DEF Accounting, ReadersCounted, QueuedReaders, Readers, rw, rk, rd
<1>3. /\ numQueuedWriters \in Nat /\ (numQueuedWriters = 0 <=> ww \cup wk = {})
      /\ numActiveWriters \in Nat /\ (numActiveWriters = 0 <=> wr = {})
  BY <1>1, Places DEF Accounting, WritersCounted, QueuedWriters, Writers, ww, wk, wr
<1> QED
  BY <1>2, <1>3 DEF ShouldQueueReader, ShouldQueueWriter

\* A side of the lock that a step leaves alone stays counted.
LEMMA ReadersSame ==
    ASSUME ReadersCounted,
           UNCHANGED <<rw, rk, rd, numQueuedReaders, numActiveReaders, readerQueue>>
    PROVE  ReadersCounted'
  BY DEF ReadersCounted, QueuedReaders, Readers, rw, rk, rd

\* The same for writers.
LEMMA WritersSame ==
    ASSUME WritersCounted,
           UNCHANGED <<ww, wk, wr, numQueuedWriters, numActiveWriters, writerQueue>>
    PROVE  WritersCounted'
  BY DEF WritersCounted, QueuedWriters, Writers, ww, wk, wr

\* Types follow from the counting, but for pc and the Conditions.
LEMMA TypeStep ==
    ASSUME TypeOK, Accounting', NEW t \in Threads,
           NEW b \in {"idle", "readWait", "readWoken", "reading",
                      "writeWait", "writeWoken", "writing"}, Goto(t, b), UNCHANGED policy,
           IsCondition(readerQueue', Threads), IsCondition(writerQueue', Threads)
    PROVE  TypeOK'
<1>1. pc' \in [Threads -> {"idle", "readWait", "readWoken", "reading",
                          "writeWait", "writeWoken", "writing"}]
  BY DEF TypeOK, Goto
<1>2. \A X \in SUBSET Threads : Cardinality(X) \in Nat
  BY ThreadsFinite, FS_Subset, FS_CardinalityType
<1>3. /\ QueuedReaders' \in SUBSET Threads /\ Readers' \in SUBSET Threads
      /\ QueuedWriters' \in SUBSET Threads /\ Writers' \in SUBSET Threads
  BY DEF QueuedReaders, Readers, QueuedWriters, Writers, At
<1>4. /\ numQueuedReaders' \in Nat /\ numActiveReaders' \in Nat
      /\ numQueuedWriters' \in Nat /\ numActiveWriters' \in Nat
  BY <1>2, <1>3 DEF Accounting, ReadersCounted, WritersCounted
<1> QED
  BY <1>1, <1>4 DEF TypeOK

\* The constructor establishes the invariant.
LEMMA InitInv == Init => Inv
<1> SUFFICES ASSUME Init PROVE Inv
  OBVIOUS
<1>1. rw = {} /\ rk = {} /\ rd = {} /\ ww = {} /\ wk = {} /\ wr = {}
  BY DEF Init, At, rw, rk, rd, ww, wk, wr
<1>2. TypeOK
  BY NoWaitersType DEF Init, TypeOK
<1>3. Accounting
  BY <1>1, FS_EmptySet DEF Init, NoWaiters, Accounting, ReadersCounted, WritersCounted,
     Readers, Writers, QueuedReaders, QueuedWriters, rw, rk, rd, ww, wk, wr
<1>4. NoLostWakeup
  BY <1>1, FS_EmptySet DEF Init, NoWaiters, NoLostWakeup, NoReaderForgotten,
     NoWriterForgotten, ReadersAlerted, rw, ww
<1> QED
  BY <1>1, <1>2, <1>3, <1>4 DEF Inv, Exclusion, Writers, wr

\* Inv is inductive: one step per action, one below it per conjunct.
LEMMA NextInv == Inv /\ [Next]_vars => Inv'
<1> SUFFICES ASSUME Inv, [Next]_vars PROVE Inv'
  OBVIOUS
<1>1. ASSUME NEW t \in Threads, ReaderQueues(t) PROVE Inv'
  <2>1. /\ t \notin rw /\ rw' = rw \cup {t}
        /\ t \notin rk
        /\ UNCHANGED <<rk, rd, ww, wk, wr>>
    BY <1>1, Moves DEF Inv, ReaderQueues, rw, rk, rd, ww, wk, wr
  <2>2. /\ IsCondition(readerQueue', Threads) /\ readerQueue'.signals = 0
        /\ readerQueue'.waiting = readerQueue.waiting \cup {t}
    BY <1>1, ThreadsFinite, WaitsType DEF Inv, TypeOK, ReaderQueues
  <2>3. ReadersCounted'
    <3>1. (rw \cup rk)' = (rw \cup rk) \cup {t}
      BY <2>1
    <3>2. Cardinality((rw \cup rk)') = Cardinality(rw \cup rk) + 1
      BY <2>1, <3>1, Places, ThreadsFinite, Counting
    <3> QED
      BY <1>1, <2>1, <2>2, <3>2
      DEF Inv, Accounting, ReadersCounted, ReaderQueues, Readers, QueuedReaders, rw, rk, rd
  <2>4. WritersCounted'
    BY <1>1, <2>1, <2>2, WritersSame DEF Inv, Accounting, ReaderQueues
  <2>5. Exclusion'
    BY <1>1, <2>1, Guards DEF Inv, Exclusion, ReaderQueues, Readers, Writers, rd, wr
  <2>6. NoReaderForgotten'
    BY <1>1, <2>1, <2>2, Guards
    DEF Inv, NoLostWakeup, NoReaderForgotten, ReadersAlerted, ReaderQueues, Writers, QueuedWriters, rw, ww, wk, wr
  <2>7. NoWriterForgotten'
    BY <1>1, <2>1, <2>2, Guards
    DEF Inv, NoLostWakeup, NoWriterForgotten, ReaderQueues, Readers, Writers, QueuedReaders, rw, rk, rd, ww, wk, wr
  <2>8. TypeOK'
    BY <1>1, <2>2, <2>3, <2>4, TypeStep DEF Inv, TypeOK, Accounting, ReaderQueues
  <2> QED
    BY <2>3, <2>4, <2>5, <2>6, <2>7, <2>8 DEF Inv, Accounting, NoLostWakeup
<1>2. ASSUME NEW t \in Threads, ReaderEnters(t) PROVE Inv'
  <2>1. /\ t \notin rd /\ rd' = rd \cup {t}
        /\ UNCHANGED <<rw, rk, ww, wk, wr>>
    BY <1>2, Moves DEF Inv, ReaderEnters, rw, rk, rd, ww, wk, wr
  <2>2. UNCHANGED <<readerQueue, writerQueue>>
    BY <1>2 DEF ReaderEnters
  <2>3. ReadersCounted'
    <3>2. Cardinality(rd') = Cardinality(rd) + 1
      BY <2>1, Places, ThreadsFinite, Counting
    <3> QED
      BY <1>2, <2>1, <2>2, <3>2
      DEF Inv, Accounting, ReadersCounted, ReaderEnters, Readers, QueuedReaders, rw, rk, rd
  <2>4. WritersCounted'
    BY <1>2, <2>1, <2>2, WritersSame DEF Inv, Accounting, ReaderEnters
  <2>5. Exclusion'
    BY <1>2, <2>1, Guards DEF Inv, Exclusion, ReaderEnters, Readers, Writers, rd, wr
  <2>6. NoReaderForgotten'
    BY <1>2, <2>1, <2>2, Guards
    DEF Inv, NoLostWakeup, NoReaderForgotten, ReadersAlerted, ReaderEnters, Writers, QueuedWriters, rw, ww, wk, wr
  <2>7. NoWriterForgotten'
    BY <1>2, <2>1, <2>2, Guards
    DEF Inv, NoLostWakeup, NoWriterForgotten, ReaderEnters, Readers, Writers, QueuedReaders, rw, rk, rd, ww, wk, wr
  <2>8. TypeOK'
    BY <1>2, <2>2, <2>3, <2>4, TypeStep DEF Inv, TypeOK, Accounting, ReaderEnters
  <2> QED
    BY <2>3, <2>4, <2>5, <2>6, <2>7, <2>8 DEF Inv, Accounting, NoLostWakeup
<1>3. ASSUME NEW t \in Threads, ReaderTakesSignal(t) PROVE Inv'
  <2>1. /\ t \in rw /\ rw' = rw \ {t}
        /\ t \notin rk /\ rk' = rk \cup {t}
        /\ UNCHANGED <<rd, ww, wk, wr>>
    BY <1>3, Moves DEF Inv, ReaderTakesSignal, rw, rk, rd, ww, wk, wr
  <2>2. /\ IsCondition(readerQueue', Threads) /\ readerQueue'.signals = readerQueue.signals - 1
        /\ readerQueue'.waiting = readerQueue.waiting \ {t}
    BY <1>3, ThreadsFinite, TakesType DEF Inv, TypeOK, ReaderTakesSignal
  <2>3. ReadersCounted'
    <3>2. (rw \cup rk)' = rw \cup rk
      BY <2>1
    <3> QED
      BY <1>3, <2>1, <2>2, <3>2
      DEF Inv, Accounting, ReadersCounted, ReaderTakesSignal, Readers, QueuedReaders, rw, rk, rd
  <2>4. WritersCounted'
    BY <1>3, <2>1, <2>2, WritersSame DEF Inv, Accounting, ReaderTakesSignal
  <2>5. Exclusion'
    BY <1>3, <2>1, Guards DEF Inv, Exclusion, ReaderTakesSignal, Readers, Writers, rd, wr
  <2>6. NoReaderForgotten'
    BY <1>3, <2>1, <2>2, Places, ThreadsFinite, Counting
    DEF Inv, NoLostWakeup, NoReaderForgotten, ReadersAlerted, ReaderTakesSignal, Writers, QueuedWriters, rw, ww, wk, wr
  <2>7. NoWriterForgotten'
    BY <1>3, <2>1, <2>2, Guards
    DEF Inv, NoLostWakeup, NoWriterForgotten, ReaderTakesSignal, Readers, Writers, QueuedReaders, rw, rk, rd, ww, wk, wr
  <2>8. TypeOK'
    BY <1>3, <2>2, <2>3, <2>4, TypeStep DEF Inv, TypeOK, Accounting, ReaderTakesSignal
  <2> QED
    BY <2>3, <2>4, <2>5, <2>6, <2>7, <2>8 DEF Inv, Accounting, NoLostWakeup
<1>4. ASSUME NEW t \in Threads, ReaderResumes(t) PROVE Inv'
  <2>1. /\ t \in rk /\ rk' = rk \ {t}
        /\ t \notin rd /\ rd' = rd \cup {t}
        /\ t \notin rw
        /\ UNCHANGED <<rw, ww, wk, wr>>
    BY <1>4, Moves DEF Inv, ReaderResumes, rw, rk, rd, ww, wk, wr
  <2>2. UNCHANGED <<readerQueue, writerQueue>>
    BY <1>4 DEF ReaderResumes
  <2>3. ReadersCounted'
    <3>1. (rw \cup rk)' = (rw \cup rk) \ {t}
      BY <2>1
    <3>2. /\ Cardinality((rw \cup rk)') = Cardinality(rw \cup rk) - 1
          /\ Cardinality(rd') = Cardinality(rd) + 1
      BY <2>1, <3>1, Places, ThreadsFinite, Counting
    <3> QED
      BY <1>4, <2>1, <2>2, <3>2
      DEF Inv, Accounting, ReadersCounted, ReaderResumes, Readers, QueuedReaders, rw, rk, rd
  <2>4. WritersCounted'
    BY <1>4, <2>1, <2>2, WritersSame DEF Inv, Accounting, ReaderResumes
  <2>5. Exclusion'
    BY <1>4, <2>1, Guards DEF Inv, Exclusion, ReaderResumes, Readers, Writers, rd, wr
  <2>6. NoReaderForgotten'
    BY <1>4, <2>1, <2>2, Guards
    DEF Inv, NoLostWakeup, NoReaderForgotten, ReadersAlerted, ReaderResumes, Writers, QueuedWriters, rw, ww, wk, wr
  <2>7. NoWriterForgotten'
    BY <1>4, <2>1, <2>2, Guards
    DEF Inv, NoLostWakeup, NoWriterForgotten, ReaderResumes, Readers, Writers, QueuedReaders, rw, rk, rd, ww, wk, wr
  <2>8. TypeOK'
    BY <1>4, <2>2, <2>3, <2>4, TypeStep DEF Inv, TypeOK, Accounting, ReaderResumes
  <2> QED
    BY <2>3, <2>4, <2>5, <2>6, <2>7, <2>8 DEF Inv, Accounting, NoLostWakeup
<1>5. ASSUME NEW t \in Threads, ReaderRequeues(t) PROVE Inv'
  <2>1. /\ t \in rk /\ rk' = rk \ {t}
        /\ t \notin rw /\ rw' = rw \cup {t}
        /\ UNCHANGED <<rd, ww, wk, wr>>
    BY <1>5, Moves DEF Inv, ReaderRequeues, rw, rk, rd, ww, wk, wr
  <2>2. /\ IsCondition(readerQueue', Threads) /\ readerQueue'.signals = 0
        /\ readerQueue'.waiting = readerQueue.waiting \cup {t}
    BY <1>5, ThreadsFinite, WaitsType DEF Inv, TypeOK, ReaderRequeues
  <2>3. ReadersCounted'
    <3>2. (rw \cup rk)' = rw \cup rk
      BY <2>1
    <3> QED
      BY <1>5, <2>1, <2>2, <3>2
      DEF Inv, Accounting, ReadersCounted, ReaderRequeues, Readers, QueuedReaders, rw, rk, rd
  <2>4. WritersCounted'
    BY <1>5, <2>1, <2>2, WritersSame DEF Inv, Accounting, ReaderRequeues
  <2>5. Exclusion'
    BY <1>5, <2>1, Guards DEF Inv, Exclusion, ReaderRequeues, Readers, Writers, rd, wr
  <2>6. NoReaderForgotten'
    BY <1>5, <2>1, <2>2, Guards
    DEF Inv, NoLostWakeup, NoReaderForgotten, ReadersAlerted, ReaderRequeues, Writers, QueuedWriters, rw, ww, wk, wr
  <2>7. NoWriterForgotten'
    BY <1>5, <2>1, <2>2, Guards
    DEF Inv, NoLostWakeup, NoWriterForgotten, ReaderRequeues, Readers, Writers, QueuedReaders, rw, rk, rd, ww, wk, wr
  <2>8. TypeOK'
    BY <1>5, <2>2, <2>3, <2>4, TypeStep DEF Inv, TypeOK, Accounting, ReaderRequeues
  <2> QED
    BY <2>3, <2>4, <2>5, <2>6, <2>7, <2>8 DEF Inv, Accounting, NoLostWakeup
<1>6. ASSUME NEW t \in Threads, ReaderUnlock(t) PROVE Inv'
  <2>1. /\ t \in rd /\ rd' = rd \ {t}
        /\ UNCHANGED <<rw, rk, ww, wk, wr>>
    BY <1>6, Moves DEF Inv, ReaderUnlock, rw, rk, rd, ww, wk, wr
  <2>2. /\ IsCondition(writerQueue', Threads) /\ writerQueue'.waiting = writerQueue.waiting
        /\ rd' = {} /\ ww # {} => writerQueue'.signals > 0
    <3>1. rd' = {} /\ ww # {} => numActiveReaders' < 1 /\ numQueuedWriters > 0
      <4>1. Cardinality(rd') = numActiveReaders'
        BY <1>6, <2>1, Places, ThreadsFinite, Counting
        DEF Inv, Accounting, ReadersCounted, Readers, ReaderUnlock, rd
      <4> QED
        BY <4>1, FS_EmptySet, Guards DEF Inv
    <3> QED
      BY <1>6, <3>1, ThreadsFinite, NotifiesType
      DEF Inv, TypeOK, Accounting, WritersCounted, ReaderUnlock, ww
  <2>3. ReadersCounted'
    <3>2. Cardinality(rd') = Cardinality(rd) - 1
      BY <2>1, Places, ThreadsFinite, Counting
    <3> QED
      BY <1>6, <2>1, <2>2, <3>2
      DEF Inv, Accounting, ReadersCounted, ReaderUnlock, Readers, QueuedReaders, rw, rk, rd
  <2>4. WritersCounted'
    BY <1>6, <2>1, <2>2 DEF Inv, Accounting, WritersCounted, ReaderUnlock, Writers, QueuedWriters, ww, wk, wr
  <2>5. Exclusion'
    BY <1>6, <2>1, Guards DEF Inv, Exclusion, ReaderUnlock, Readers, Writers, rd, wr
  <2>6. NoReaderForgotten'
    BY <1>6, <2>1, <2>2, Guards
    DEF Inv, NoLostWakeup, NoReaderForgotten, ReadersAlerted, ReaderUnlock, Writers, QueuedWriters, rw, ww, wk, wr
  <2>7. NoWriterForgotten'
    BY <1>6, <2>1, <2>2, Guards
    DEF Inv, NoLostWakeup, NoWriterForgotten, ReaderUnlock, Readers, Writers, QueuedReaders, rw, rk, rd, ww, wk, wr
  <2>8. TypeOK'
    BY <1>6, <2>2, <2>3, <2>4, TypeStep DEF Inv, TypeOK, Accounting, ReaderUnlock
  <2> QED
    BY <2>3, <2>4, <2>5, <2>6, <2>7, <2>8 DEF Inv, Accounting, NoLostWakeup
<1>7. ASSUME NEW t \in Threads, WriterQueues(t) PROVE Inv'
  <2>1. /\ t \notin ww /\ ww' = ww \cup {t}
        /\ t \notin wk
        /\ UNCHANGED <<rw, rk, rd, wk, wr>>
    BY <1>7, Moves DEF Inv, WriterQueues, rw, rk, rd, ww, wk, wr
  <2>2. /\ IsCondition(writerQueue', Threads) /\ writerQueue'.signals = 0
        /\ writerQueue'.waiting = writerQueue.waiting \cup {t}
    BY <1>7, ThreadsFinite, WaitsType DEF Inv, TypeOK, WriterQueues
  <2>3. WritersCounted'
    <3>1. (ww \cup wk)' = (ww \cup wk) \cup {t}
      BY <2>1
    <3>2. Cardinality((ww \cup wk)') = Cardinality(ww \cup wk) + 1
      BY <2>1, <3>1, Places, ThreadsFinite, Counting
    <3> QED
      BY <1>7, <2>1, <2>2, <3>2
      DEF Inv, Accounting, WritersCounted, WriterQueues, Writers, QueuedWriters, ww, wk, wr
  <2>4. ReadersCounted'
    BY <1>7, <2>1, <2>2, ReadersSame DEF Inv, Accounting, WriterQueues
  <2>5. Exclusion'
    BY <1>7, <2>1, Guards DEF Inv, Exclusion, WriterQueues, Readers, Writers, rd, wr
  <2>6. NoReaderForgotten'
    BY <1>7, <2>1, <2>2, Guards
    DEF Inv, NoLostWakeup, NoReaderForgotten, ReadersAlerted, WriterQueues, Writers, QueuedWriters, rw, ww, wk, wr
  <2>7. NoWriterForgotten'
    BY <1>7, <2>1, <2>2, Guards
    DEF Inv, NoLostWakeup, NoWriterForgotten, WriterQueues, Readers, Writers, QueuedReaders, rw, rk, rd, ww, wk, wr
  <2>8. TypeOK'
    BY <1>7, <2>2, <2>3, <2>4, TypeStep DEF Inv, TypeOK, Accounting, WriterQueues
  <2> QED
    BY <2>3, <2>4, <2>5, <2>6, <2>7, <2>8 DEF Inv, Accounting, NoLostWakeup
<1>8. ASSUME NEW t \in Threads, WriterEnters(t) PROVE Inv'
  <2>1. /\ t \notin wr /\ wr' = wr \cup {t}
        /\ UNCHANGED <<rw, rk, rd, ww, wk>>
    BY <1>8, Moves DEF Inv, WriterEnters, rw, rk, rd, ww, wk, wr
  <2>2. UNCHANGED <<readerQueue, writerQueue>>
    BY <1>8 DEF WriterEnters
  <2>3. WritersCounted'
    <3>2. Cardinality(wr') = Cardinality(wr) + 1
      BY <2>1, Places, ThreadsFinite, Counting
    <3> QED
      BY <1>8, <2>1, <2>2, <3>2
      DEF Inv, Accounting, WritersCounted, WriterEnters, Writers, QueuedWriters, ww, wk, wr
  <2>4. ReadersCounted'
    BY <1>8, <2>1, <2>2, ReadersSame DEF Inv, Accounting, WriterEnters
  <2>5. Exclusion'
    BY <1>8, <2>1, Guards DEF Inv, Exclusion, WriterEnters, Readers, Writers, rd, wr
  <2>6. NoReaderForgotten'
    BY <1>8, <2>1, <2>2, Guards
    DEF Inv, NoLostWakeup, NoReaderForgotten, ReadersAlerted, WriterEnters, Writers, QueuedWriters, rw, ww, wk, wr
  <2>7. NoWriterForgotten'
    BY <1>8, <2>1, <2>2, Guards
    DEF Inv, NoLostWakeup, NoWriterForgotten, WriterEnters, Readers, Writers, QueuedReaders, rw, rk, rd, ww, wk, wr
  <2>8. TypeOK'
    BY <1>8, <2>2, <2>3, <2>4, TypeStep DEF Inv, TypeOK, Accounting, WriterEnters
  <2> QED
    BY <2>3, <2>4, <2>5, <2>6, <2>7, <2>8 DEF Inv, Accounting, NoLostWakeup
<1>9. ASSUME NEW t \in Threads, WriterTakesSignal(t) PROVE Inv'
  <2>1. /\ t \in ww /\ ww' = ww \ {t}
        /\ t \notin wk /\ wk' = wk \cup {t}
        /\ UNCHANGED <<rw, rk, rd, wr>>
    BY <1>9, Moves DEF Inv, WriterTakesSignal, rw, rk, rd, ww, wk, wr
  <2>2. /\ IsCondition(writerQueue', Threads) /\ writerQueue'.signals = writerQueue.signals - 1
        /\ writerQueue'.waiting = writerQueue.waiting \ {t}
    BY <1>9, ThreadsFinite, TakesType DEF Inv, TypeOK, WriterTakesSignal
  <2>3. WritersCounted'
    <3>2. (ww \cup wk)' = ww \cup wk
      BY <2>1
    <3> QED
      BY <1>9, <2>1, <2>2, <3>2
      DEF Inv, Accounting, WritersCounted, WriterTakesSignal, Writers, QueuedWriters, ww, wk, wr
  <2>4. ReadersCounted'
    BY <1>9, <2>1, <2>2, ReadersSame DEF Inv, Accounting, WriterTakesSignal
  <2>5. Exclusion'
    BY <1>9, <2>1, Guards DEF Inv, Exclusion, WriterTakesSignal, Readers, Writers, rd, wr
  <2>6. NoReaderForgotten'
    BY <1>9, <2>1, <2>2, Guards
    DEF Inv, NoLostWakeup, NoReaderForgotten, ReadersAlerted, WriterTakesSignal, Writers, QueuedWriters, rw, ww, wk, wr
  <2>7. NoWriterForgotten'
    BY <1>9, <2>1, <2>2, Guards
    DEF Inv, NoLostWakeup, NoWriterForgotten, WriterTakesSignal, Readers, Writers, QueuedReaders, rw, rk, rd, ww, wk, wr
  <2>8. TypeOK'
    BY <1>9, <2>2, <2>3, <2>4, TypeStep DEF Inv, TypeOK, Accounting, WriterTakesSignal
  <2> QED
    BY <2>3, <2>4, <2>5, <2>6, <2>7, <2>8 DEF Inv, Accounting, NoLostWakeup
<1>10. ASSUME NEW t \in Threads, WriterResumes(t) PROVE Inv'
  <2>1. /\ t \in wk /\ wk' = wk \ {t}
        /\ t \notin wr /\ wr' = wr \cup {t}
        /\ t \notin ww
        /\ UNCHANGED <<rw, rk, rd, ww>>
    BY <1>10, Moves DEF Inv, WriterResumes, rw, rk, rd, ww, wk, wr
  <2>2. UNCHANGED <<readerQueue, writerQueue>>
    BY <1>10 DEF WriterResumes
  <2>3. WritersCounted'
    <3>1. (ww \cup wk)' = (ww \cup wk) \ {t}
      BY <2>1
    <3>2. /\ Cardinality((ww \cup wk)') = Cardinality(ww \cup wk) - 1
          /\ Cardinality(wr') = Cardinality(wr) + 1
      BY <2>1, <3>1, Places, ThreadsFinite, Counting
    <3> QED
      BY <1>10, <2>1, <2>2, <3>2
      DEF Inv, Accounting, WritersCounted, WriterResumes, Writers, QueuedWriters, ww, wk, wr
  <2>4. ReadersCounted'
    BY <1>10, <2>1, <2>2, ReadersSame DEF Inv, Accounting, WriterResumes
  <2>5. Exclusion'
    BY <1>10, <2>1, Guards DEF Inv, Exclusion, WriterResumes, Readers, Writers, rd, wr
  <2>6. NoReaderForgotten'
    BY <1>10, <2>1, <2>2, Guards
    DEF Inv, NoLostWakeup, NoReaderForgotten, ReadersAlerted, WriterResumes, Writers, QueuedWriters, rw, ww, wk, wr
  <2>7. NoWriterForgotten'
    BY <1>10, <2>1, <2>2, Guards
    DEF Inv, NoLostWakeup, NoWriterForgotten, WriterResumes, Readers, Writers, QueuedReaders, rw, rk, rd, ww, wk, wr
  <2>8. TypeOK'
    BY <1>10, <2>2, <2>3, <2>4, TypeStep DEF Inv, TypeOK, Accounting, WriterResumes
  <2> QED
    BY <2>3, <2>4, <2>5, <2>6, <2>7, <2>8 DEF Inv, Accounting, NoLostWakeup
<1>11. ASSUME NEW t \in Threads, WriterRequeues(t) PROVE Inv'
  <2>1. /\ t \in wk /\ wk' = wk \ {t}
        /\ t \notin ww /\ ww' = ww \cup {t}
        /\ UNCHANGED <<rw, rk, rd, wr>>
    BY <1>11, Moves DEF Inv, WriterRequeues, rw, rk, rd, ww, wk, wr
  <2>2. /\ IsCondition(writerQueue', Threads) /\ writerQueue'.signals = 0
        /\ writerQueue'.waiting = writerQueue.waiting \cup {t}
    BY <1>11, ThreadsFinite, WaitsType DEF Inv, TypeOK, WriterRequeues
  <2>3. WritersCounted'
    <3>2. (ww \cup wk)' = ww \cup wk
      BY <2>1
    <3> QED
      BY <1>11, <2>1, <2>2, <3>2
      DEF Inv, Accounting, WritersCounted, WriterRequeues, Writers, QueuedWriters, ww, wk, wr
  <2>4. ReadersCounted'
    BY <1>11, <2>1, <2>2, ReadersSame DEF Inv, Accounting, WriterRequeues
  <2>5. Exclusion'
    BY <1>11, <2>1, Guards DEF Inv, Exclusion, WriterRequeues, Readers, Writers, rd, wr
  <2>6. NoReaderForgotten'
    BY <1>11, <2>1, <2>2, Guards
    DEF Inv, NoLostWakeup, NoReaderForgotten, ReadersAlerted, WriterRequeues, Writers, QueuedWriters, rw, ww, wk, wr
  <2>7. NoWriterForgotten'
    BY <1>11, <2>1, <2>2, Guards
    DEF Inv, NoLostWakeup, NoWriterForgotten, WriterRequeues, Readers, Writers, QueuedReaders, rw, rk, rd, ww, wk, wr
  <2>8. TypeOK'
    BY <1>11, <2>2, <2>3, <2>4, TypeStep DEF Inv, TypeOK, Accounting, WriterRequeues
  <2> QED
    BY <2>3, <2>4, <2>5, <2>6, <2>7, <2>8 DEF Inv, Accounting, NoLostWakeup
<1>12. ASSUME NEW t \in Threads, WriterUnlock(t) PROVE Inv'
  <2>1. /\ t \in wr /\ wr' = wr \ {t}
        /\ UNCHANGED <<rw, rk, rd, ww, wk>>
    BY <1>12, Moves DEF Inv, WriterUnlock, rw, rk, rd, ww, wk, wr
  <2>2. /\ Goto(t, "idle")
        /\ numActiveWriters' = numActiveWriters - 1
        /\ UNCHANGED <<policy, numQueuedReaders, numActiveReaders, numQueuedWriters>>
    BY <1>12 DEF WriterUnlock
  <2>3. wr' = {} /\ rd' = {} /\ numActiveWriters' = Cardinality(wr')
    BY <2>1, <2>2, Places, ThreadsFinite, Counting
    DEF Inv, Exclusion, Accounting, WritersCounted, Readers, Writers, rd, wr
  <2>4. numActiveWriters' < 1
    BY <2>3, FS_EmptySet
  <2>5. /\ IsCondition(readerQueue', Threads) /\ readerQueue'.waiting = rw
        /\ AlertReaders => readerQueue'.signals = Cardinality(rw)
        /\ ~AlertReaders => readerQueue' = readerQueue
    <3>1. readerQueue' = IF AlertReaders THEN NotifiesAll(readerQueue) ELSE readerQueue
      BY <1>12, <2>4 DEF WriterUnlock
    <3> QED
      BY <3>1, ThreadsFinite, NotifiesAllType DEF Inv, TypeOK, Accounting, ReadersCounted, rw
  <2>6. /\ IsCondition(writerQueue', Threads) /\ writerQueue'.waiting = ww
        /\ AlertWriter /\ ww # {} => writerQueue'.signals > 0
    <3>1. writerQueue' = IF AlertWriter THEN Notifies(writerQueue) ELSE writerQueue
      BY <1>12, <2>4 DEF WriterUnlock
    <3> QED
      BY <3>1, ThreadsFinite, NotifiesType DEF Inv, TypeOK, Accounting, WritersCounted, ww
  <2>7. ReadersCounted'
    BY <2>1, <2>2, <2>5 DEF Inv, Accounting, ReadersCounted, Readers, QueuedReaders, rw, rk, rd
  <2>8. WritersCounted'
    BY <2>1, <2>2, <2>3, <2>6 DEF Inv, Accounting, WritersCounted, Writers, QueuedWriters, ww, wk, wr
  <2>9. Exclusion'
    BY <2>3 DEF Exclusion, Writers, wr
  <2>10. NoReaderForgotten'
    <3>1. CASE AlertReaders
      BY <3>1, <2>1, <2>5 DEF NoReaderForgotten, ReadersAlerted, rw
    <3>2. CASE numQueuedReaders = 0
      <4>1. rw = {} /\ readerQueue'.signals = 0
        BY <3>2, <2>5, Guards, FS_EmptySet DEF Inv, TypeOK, IsCondition, AlertReaders
      <4> QED
        BY <4>1, <2>1, FS_EmptySet DEF NoReaderForgotten, ReadersAlerted, rw
    <3>3. CASE policy = "PREFER_WRITERS" /\ ww \cup wk # {}
      BY <3>3, <2>1, <2>2 DEF NoReaderForgotten, QueuedWriters, ww, wk
    <3> QED
      BY <3>1, <3>2, <3>3, Guards DEF Inv, TypeOK, AlertReaders, Policies
  <2>11. NoWriterForgotten'
    BY <2>1, <2>2, <2>6, Guards
    DEF Inv, TypeOK, AlertWriter, NoWriterForgotten, Policies, Readers, Writers, QueuedReaders, rw, rk, ww, wk
  <2>12. TypeOK'
    BY <2>2, <2>5, <2>6, <2>7, <2>8, TypeStep DEF Inv, Accounting
  <2> QED
    BY <2>7, <2>8, <2>9, <2>10, <2>11, <2>12 DEF Inv, Accounting, NoLostWakeup
<1>13. CASE UNCHANGED vars
  BY <1>13 DEF Inv, vars, TypeOK, Accounting, ReadersCounted, WritersCounted, Exclusion,
     NoLostWakeup, NoReaderForgotten, NoWriterForgotten, ReadersAlerted,
     Readers, Writers, QueuedReaders, QueuedWriters, At
<1> QED
  BY <1>1, <1>2, <1>3, <1>4, <1>5, <1>6, <1>7, <1>8, <1>9, <1>10, <1>11, <1>12, <1>13 DEF Next, Lock, Advance, Unlock

\* The inductive invariant holds.
LEMMA Invariance == Spec => []Inv
<1>1. QED
  BY InitInv, NextInv, PTL DEF Spec

\* Every variable keeps its type; in particular no counter, a uint in the
\* code, is ever decremented below zero.
THEOREM TypeCorrect == Spec => []TypeOK
<1>1. Inv => TypeOK
  BY DEF Inv
<1>2. QED
  BY <1>1, Invariance, PTL

\* The four counters count the threads they stand for, and the Conditions
\* know exactly the threads blocked in them.
THEOREM CountersCorrect == Spec => []Accounting
<1>1. Inv => Accounting
  BY DEF Inv
<1>2. QED
  BY <1>1, Invariance, PTL

\* A writer holds the lock alone.
THEOREM ExclusionHolds == Spec => []Exclusion
<1>1. Inv => Exclusion
  BY DEF Inv
<1>2. QED
  BY <1>1, Invariance, PTL

\* The one Condition that an unlock notifies is always enough: no thread
\* stays asleep that nothing keeps out.
THEOREM NobodyForgotten == Spec => []NoLostWakeup
<1>1. Inv => NoLostWakeup
  BY DEF Inv
<1>2. QED
  BY <1>1, Invariance, PTL

\* Only a writer's unlock can be the step after which no writer is left, and
\* it alerts every blocked reader.
THEOREM LastWriterLeaves == Spec => LastWriterAlertsReaders
<1> DEFINE Left == Writers \cup QueuedWriters # {} /\ (Writers \cup QueuedWriters)' = {}
<1>1. ASSUME Inv, Next, Left PROVE ReadersAlerted'
  <2>1. (wr \cup ww \cup wk) # {} /\ wr' = {} /\ ww' = {} /\ wk' = {}
    BY <1>1 DEF Writers, QueuedWriters, wr, ww, wk
  <2>2. PICK t \in Threads : Lock(t) \/ Advance(t) \/ Unlock(t)
    BY <1>1 DEF Next
  <2>3. WriterUnlock(t)
    BY <1>1, <2>1, <2>2, Moves
    DEF Inv, Lock, Advance, Unlock, ReaderQueues, ReaderEnters, ReaderTakesSignal,
        ReaderResumes, ReaderRequeues, ReaderUnlock, WriterQueues, WriterEnters,
        WriterTakesSignal, WriterResumes, WriterRequeues, wr, ww, wk
  <2>4. rw' = rw /\ ww = {} /\ wk = {} /\ wr' = {}
    BY <1>1, <2>1, <2>3, Moves DEF Inv, WriterUnlock, rw, ww, wk
  <2>5. AlertReaders <=> rw \cup rk # {}
    BY <1>1, <2>4, Guards DEF Inv, AlertReaders
  <2>6. numActiveWriters' < 1
    <3>1. wr = {t} 
      BY <1>1, <2>3, Moves DEF Inv, Exclusion, Writers, WriterUnlock, wr
    <3>2. Cardinality(wr) = 1
      BY <3>1, FS_Singleton
    <3> QED
      BY <1>1, <2>3, <3>2 DEF Inv, Accounting, WritersCounted, Writers, WriterUnlock, wr
  <2>7. readerQueue' = IF rw \cup rk # {} THEN NotifiesAll(readerQueue) ELSE readerQueue
    BY <2>3, <2>5, <2>6 DEF WriterUnlock
  <2>8. CASE rw \cup rk # {}
    BY <1>1, <2>4, <2>7, <2>8, ThreadsFinite, NotifiesAllType
    DEF Inv, TypeOK, Accounting, ReadersCounted, ReadersAlerted, rw
  <2>9. CASE rw = {} /\ rk = {}
    <3>1. readerQueue.signals = 0
      BY <1>1, <2>9, FS_EmptySet DEF Inv, TypeOK, IsCondition, Accounting, ReadersCounted, rw
    <3> QED
      BY <2>4, <2>7, <2>9, <3>1, FS_EmptySet DEF ReadersAlerted, rw
  <2> QED
    BY <2>8, <2>9
<1>2. Inv /\ [Next]_vars => [Left => ReadersAlerted']_vars
  BY <1>1
<1>3. QED
  BY <1>2, Invariance, PTL DEF Spec, LastWriterAlertsReaders

-----------------------------------------------------------------------------
(* Refinement *)

\* A new mutex is a new RWLock.
LEMMA InitRefines == Init => Abstract!Init
  BY DEF Init, Policies, Abstract!Init, Readers, Writers, QueuedReaders, QueuedWriters, At

\* A step is a step of RWLock or leaves its state alone.
LEMMA StepRefines == Inv /\ [Next]_vars => [Abstract!Next]_(Abstract!absVars)
<1> SUFFICES ASSUME Inv, [Next]_vars PROVE [Abstract!Next]_(Abstract!absVars)
  OBVIOUS
<1>a. /\ Readers = rd /\ Writers = wr
      /\ QueuedReaders = rw \cup rk /\ QueuedWriters = ww \cup wk
      /\ Readers' = rd' /\ Writers' = wr'
      /\ QueuedReaders' = rw' \cup rk' /\ QueuedWriters' = ww' \cup wk'
  BY DEF Readers, Writers, QueuedReaders, QueuedWriters, rw, rk, rd, ww, wk, wr
<1>b. /\ Abstract!ReadAllowed <=> ~ShouldQueueReader
      /\ Abstract!WriteAllowed <=> ~ShouldQueueWriter
  BY <1>a, Guards DEF Inv, Abstract!ReadAllowed, Abstract!WriteAllowed
<1>1. ASSUME NEW t \in Threads, ReaderQueues(t) PROVE Abstract!QueueRead(t)
  <2>1. /\ t \notin rw /\ rw' = rw \cup {t}
        /\ t \notin rw \cup rk \cup rd \cup ww \cup wk \cup wr
        /\ UNCHANGED <<rk, rd, ww, wk, wr>>
    BY <1>1, Moves DEF Inv, ReaderQueues, rw, rk, rd, ww, wk, wr
  <2> QED
    BY <1>a, <1>b, <1>1, <2>1 DEF Abstract!QueueRead, Abstract!Busy, ReaderQueues
<1>2. ASSUME NEW t \in Threads, ReaderEnters(t) PROVE Abstract!GrantRead(t)
  <2>1. /\ t \notin rd /\ rd' = rd \cup {t}
        /\ t \notin rw \cup rk \cup rd \cup ww \cup wk \cup wr
        /\ UNCHANGED <<rw, rk, ww, wk, wr>>
    BY <1>2, Moves DEF Inv, ReaderEnters, rw, rk, rd, ww, wk, wr
  <2> QED
    BY <1>a, <1>b, <1>2, <2>1 DEF Abstract!GrantRead, Abstract!Busy, ReaderEnters
<1>3. ASSUME NEW t \in Threads, ReaderTakesSignal(t) PROVE UNCHANGED Abstract!absVars
  <2>1. /\ t \in rw /\ rw' = rw \ {t}
        /\ t \notin rk /\ rk' = rk \cup {t}
        /\ UNCHANGED <<rd, ww, wk, wr>>
    BY <1>3, Moves DEF Inv, ReaderTakesSignal, rw, rk, rd, ww, wk, wr
  <2> QED
    BY <1>a, <1>3, <2>1 DEF Abstract!absVars, ReaderTakesSignal
<1>4. ASSUME NEW t \in Threads, ReaderResumes(t) PROVE Abstract!GrantRead(t)
  <2>1. /\ t \in rk /\ rk' = rk \ {t}
        /\ t \notin rd /\ rd' = rd \cup {t}
        /\ t \notin rw
        /\ UNCHANGED <<rw, ww, wk, wr>>
    BY <1>4, Moves DEF Inv, ReaderResumes, rw, rk, rd, ww, wk, wr
  <2> QED
    BY <1>a, <1>b, <1>4, <2>1 DEF Abstract!GrantRead, ReaderResumes
<1>5. ASSUME NEW t \in Threads, ReaderRequeues(t) PROVE UNCHANGED Abstract!absVars
  <2>1. /\ t \in rk /\ rk' = rk \ {t}
        /\ t \notin rw /\ rw' = rw \cup {t}
        /\ UNCHANGED <<rd, ww, wk, wr>>
    BY <1>5, Moves DEF Inv, ReaderRequeues, rw, rk, rd, ww, wk, wr
  <2> QED
    BY <1>a, <1>5, <2>1 DEF Abstract!absVars, ReaderRequeues
<1>6. ASSUME NEW t \in Threads, ReaderUnlock(t) PROVE Abstract!Release(t)
  <2>1. /\ t \in rd /\ rd' = rd \ {t}
        /\ t \notin wr
        /\ UNCHANGED <<rw, rk, ww, wk, wr>>
    BY <1>6, Moves DEF Inv, ReaderUnlock, rw, rk, rd, ww, wk, wr
  <2> QED
    BY <1>a, <1>6, <2>1 DEF Abstract!Release, ReaderUnlock
<1>7. ASSUME NEW t \in Threads, WriterQueues(t) PROVE Abstract!QueueWrite(t)
  <2>1. /\ t \notin ww /\ ww' = ww \cup {t}
        /\ t \notin rw \cup rk \cup rd \cup ww \cup wk \cup wr
        /\ UNCHANGED <<rw, rk, rd, wk, wr>>
    BY <1>7, Moves DEF Inv, WriterQueues, rw, rk, rd, ww, wk, wr
  <2> QED
    BY <1>a, <1>b, <1>7, <2>1 DEF Abstract!QueueWrite, Abstract!Busy, WriterQueues
<1>8. ASSUME NEW t \in Threads, WriterEnters(t) PROVE Abstract!GrantWrite(t)
  <2>1. /\ t \notin wr /\ wr' = wr \cup {t}
        /\ t \notin rw \cup rk \cup rd \cup ww \cup wk \cup wr
        /\ UNCHANGED <<rw, rk, rd, ww, wk>>
    BY <1>8, Moves DEF Inv, WriterEnters, rw, rk, rd, ww, wk, wr
  <2> QED
    BY <1>a, <1>b, <1>8, <2>1 DEF Abstract!GrantWrite, Abstract!Busy, WriterEnters
<1>9. ASSUME NEW t \in Threads, WriterTakesSignal(t) PROVE UNCHANGED Abstract!absVars
  <2>1. /\ t \in ww /\ ww' = ww \ {t}
        /\ t \notin wk /\ wk' = wk \cup {t}
        /\ UNCHANGED <<rw, rk, rd, wr>>
    BY <1>9, Moves DEF Inv, WriterTakesSignal, rw, rk, rd, ww, wk, wr
  <2> QED
    BY <1>a, <1>9, <2>1 DEF Abstract!absVars, WriterTakesSignal
<1>10. ASSUME NEW t \in Threads, WriterResumes(t) PROVE Abstract!GrantWrite(t)
  <2>1. /\ t \in wk /\ wk' = wk \ {t}
        /\ t \notin wr /\ wr' = wr \cup {t}
        /\ t \notin ww
        /\ UNCHANGED <<rw, rk, rd, ww>>
    BY <1>10, Moves DEF Inv, WriterResumes, rw, rk, rd, ww, wk, wr
  <2> QED
    BY <1>a, <1>b, <1>10, <2>1 DEF Abstract!GrantWrite, WriterResumes
<1>11. ASSUME NEW t \in Threads, WriterRequeues(t) PROVE UNCHANGED Abstract!absVars
  <2>1. /\ t \in wk /\ wk' = wk \ {t}
        /\ t \notin ww /\ ww' = ww \cup {t}
        /\ UNCHANGED <<rw, rk, rd, wr>>
    BY <1>11, Moves DEF Inv, WriterRequeues, rw, rk, rd, ww, wk, wr
  <2> QED
    BY <1>a, <1>11, <2>1 DEF Abstract!absVars, WriterRequeues
<1>12. ASSUME NEW t \in Threads, WriterUnlock(t) PROVE Abstract!Release(t)
  <2>1. /\ t \in wr /\ wr' = wr \ {t}
        /\ t \notin rd
        /\ UNCHANGED <<rw, rk, rd, ww, wk>>
    BY <1>12, Moves DEF Inv, WriterUnlock, rw, rk, rd, ww, wk, wr
  <2> QED
    BY <1>a, <1>12, <2>1 DEF Abstract!Release, WriterUnlock
<1>13. CASE UNCHANGED vars
  BY <1>13 DEF vars, Abstract!absVars, Readers, Writers, QueuedReaders, QueuedWriters, At
<1> QED
  BY <1>1, <1>2, <1>3, <1>4, <1>5, <1>6, <1>7, <1>8, <1>9, <1>10, <1>11, <1>12, <1>13 DEF Next, Lock, Advance, Unlock, Abstract!Next

\* The code implements the lock its class comment describes, under either
\* policy: who is granted the lock when, and who has to queue.
THEOREM Refinement == Spec => ImplementsRWLock
<1>1. QED
  BY InitRefines, StepRefines, Invariance, PTL DEF Spec, ImplementsRWLock, Abstract!Spec

-----------------------------------------------------------------------------
(* Barrier, with any limit and any modulus of the group number.            *)

BInv == BTypeOK /\ CountMatches /\ NoneLeftBehind

\* The constructor establishes the invariant.
LEMMA BInitInv == BInit => BInv
<1> SUFFICES ASSUME BInit PROVE BInv
  OBVIOUS
<1>1. BTypeOK
  BY NoWaitersType, LimitPositive, GroupModulusBig DEF BInit, BTypeOK
<1>2. Inside = {} /\ Current = {} /\ Past = {}
  BY DEF BInit, Inside, Current, Past
<1> QED
  BY <1>1, <1>2, FS_EmptySet, LimitPositive
  DEF BInv, BInit, CountMatches, NoneLeftBehind, NoWaiters

\* What each action does to the group being formed and to complete groups.
LEMMA ArriveEffect ==
    ASSUME BInv, NEW t \in Travellers, Arrive(t)
    PROVE  /\ t \notin Current \cup Past
           /\ Current' = Current \cup {t} /\ Past' = Past
           /\ \A u \in Past : place[u] # "wait"
<1>1. /\ t \notin Current \cup Past
      /\ Current' = Current \cup {t} /\ Past' = Past
  BY DEF BInv, BTypeOK, Arrive, Current, Past, Inside
<1>2. \A u \in Past : place[u] # "wait"
  <2> SUFFICES ASSUME NEW u \in Past, place[u] = "wait" PROVE FALSE
    OBVIOUS
  <2>1. u \in cond.waiting /\ Cardinality(cond.waiting) = 0
    BY DEF BInv, CountMatches, NoneLeftBehind, Arrive, GateOpen, Past, Inside
  <2> QED
    BY <2>1, TravellersFinite, FS_Subset, FS_EmptySet DEF BInv, BTypeOK, IsCondition
<1> QED
  BY <1>1, <1>2

\* The last thread of a group completes it.
LEMMA CompleteEffect ==
    ASSUME BInv, NEW t \in Travellers, Complete(t)
    PROVE  /\ t \notin Current \cup Past
           /\ Current' = {} /\ Past' = Past \cup Current \cup {t}
<1>1. NextGroup \in 0..(GroupModulus - 1) /\ NextGroup # mGroup
  BY GroupModulusBig DEF BInv, BTypeOK, NextGroup
<1> QED
  BY <1>1 DEF BInv, BTypeOK, Complete, NotLapped, Current, Past, Inside

\* Only threads of complete groups take signals.
LEMMA TakeSignalEffect ==
    ASSUME BInv, NEW t \in Travellers, TakeSignal(t)
    PROVE  t \in Past /\ Current' = Current /\ Past' = Past
  BY DEF BInv, BTypeOK, NoneLeftBehind, TakeSignal, CanTake, Current, Past, Inside

\* A thread that resumes leaves the loop: its group is complete.
LEMMA ResumeEffect ==
    ASSUME BInv, NEW t \in Travellers, Resume(t)
    PROVE  /\ t \in Past /\ Current' = Current /\ Past' = Past \ {t}
           /\ place' = [place EXCEPT ![t] = "out"] /\ group' = [group EXCEPT ![t] = 0]
           /\ UNCHANGED <<cond, mGroup, mCount>>
<1>1. t \in Past /\ ~StillWaits(t)
  BY DEF BInv, NoneLeftBehind, Resume, StillWaits, Current, Past, Inside
<1> QED
  BY <1>1 DEF BInv, BTypeOK, Resume, Current, Past, Inside

\* The thread that completed a group leaves it.
LEMMA ReturnEffect ==
    ASSUME BInv, NEW t \in Travellers, Return(t)
    PROVE  /\ t \in Past /\ Current' = Current /\ Past' = Past \ {t}
           /\ place' = [place EXCEPT ![t] = "out"] /\ group' = [group EXCEPT ![t] = 0]
           /\ UNCHANGED <<cond, mGroup, mCount>>
<1>1. t \in Past
  BY DEF BInv, NoneLeftBehind, Return, Current, Past, Inside
<1> QED
  BY <1>1 DEF BInv, BTypeOK, Return, Current, Past, Inside

\* Every step keeps the invariant.
LEMMA BNextInv == BInv /\ [BNext]_barrierVars => BInv'
<1> SUFFICES ASSUME BInv, [BNext]_barrierVars PROVE BInv'
  OBVIOUS
<1>a. Current \in SUBSET Travellers /\ Cardinality(Current) \in Nat
  BY TravellersFinite, FS_Subset, FS_CardinalityType DEF Current, Inside
<1>1. ASSUME NEW t \in Travellers, Arrive(t) PROVE BInv'
  <2>1. /\ IsCondition(cond', Travellers) /\ cond'.signals = 0
        /\ cond'.waiting = cond.waiting \cup {t}
    BY <1>1, TravellersFinite, WaitsType DEF BInv, BTypeOK, Arrive
  <2>2. BTypeOK'
    BY <1>1, <2>1, LimitPositive DEF BInv, BTypeOK, Arrive
  <2>3. CountMatches'
    <3>1. Cardinality(Current') = Cardinality(Current) + 1
      BY <1>1, <1>a, ArriveEffect, TravellersFinite, Counting
    <3>2. (mCount = Limit - Cardinality(Current))'
      BY <1>1, <1>a, <3>1, LimitPositive DEF BInv, CountMatches, Arrive
    <3>3. (cond.waiting = {u \in Travellers : place[u] = "wait"})'
      BY <1>1, <2>1 DEF BInv, BTypeOK, CountMatches, Arrive
    <3> QED
      BY <3>2, <3>3 DEF CountMatches
  <2>4. NoneLeftBehind'
    <3>1. \A u \in Current \cup {t} : place'[u] = "wait"
      BY <1>1 DEF BInv, BTypeOK, NoneLeftBehind, Arrive, Current, Inside
    <3>2. \A u \in Past : place'[u] # "wait"
      BY <1>1, ArriveEffect DEF BInv, BTypeOK, Arrive, Past, Inside
    <3> QED
      BY <1>1, <2>1, <3>1, <3>2, ArriveEffect DEF NoneLeftBehind
  <2> QED
    BY <2>2, <2>3, <2>4 DEF BInv
<1>2. ASSUME NEW t \in Travellers, Complete(t) PROVE BInv'
  <2>1. /\ IsCondition(cond', Travellers) /\ cond'.waiting = cond.waiting
        /\ cond'.signals = Cardinality(cond.waiting)
    BY <1>2, TravellersFinite, NotifiesAllType DEF BInv, BTypeOK, Complete, Alert
  <2>2. BTypeOK'
    BY <1>2, <2>1, LimitPositive, GroupModulusBig
    DEF BInv, BTypeOK, Complete, CountAfter, NextGroup
  <2>3. CountMatches'
    <3>1. Current' = {}
      BY <1>2, CompleteEffect
    <3>2. (mCount = Limit - Cardinality(Current))'
      BY <1>2, <3>1, FS_EmptySet, LimitPositive DEF Complete, CountAfter
    <3>3. (cond.waiting = {u \in Travellers : place[u] = "wait"})'
      BY <1>2, <2>1 DEF BInv, BTypeOK, CountMatches, Complete
    <3> QED
      BY <3>2, <3>3 DEF CountMatches
  <2>4. NoneLeftBehind'
    BY <1>2, <2>1, CompleteEffect DEF NoneLeftBehind
  <2> QED
    BY <2>2, <2>3, <2>4 DEF BInv
<1>3. ASSUME NEW t \in Travellers, TakeSignal(t) PROVE BInv'
  <2>0. t \notin Current
    BY <1>3, TakeSignalEffect DEF Current, Past
  <2>1. /\ IsCondition(cond', Travellers) /\ cond'.waiting = cond.waiting \ {t}
        /\ cond'.signals = cond.signals - 1
    BY <1>3, TravellersFinite, TakesType DEF BInv, BTypeOK, TakeSignal
  <2>2. BTypeOK'
    BY <1>3, <2>1 DEF BInv, BTypeOK, TakeSignal
  <2>3. CountMatches'
    BY <1>3, <2>1, TakeSignalEffect DEF BInv, BTypeOK, CountMatches, TakeSignal
  <2>4. NoneLeftBehind'
    <3>1. cond'.signals = Cardinality(cond'.waiting)
      <4>1. cond.signals = Cardinality(cond.waiting) /\ t \in cond.waiting
        BY <1>3, TakeSignalEffect DEF BInv, NoneLeftBehind, TakeSignal, CanTake
      <4> QED
        BY <2>1, <4>1, TravellersFinite, Counting DEF BInv, BTypeOK, IsCondition
    <3>2. \A u \in Current : place'[u] = place[u]
      BY <1>3, <2>0 DEF BInv, BTypeOK, TakeSignal, Current, Inside
    <3>3. cond.signals > 0
      BY <1>3 DEF TakeSignal, CanTake
    <3> QED
      BY <1>3, <3>1, <3>2, <3>3, TakeSignalEffect DEF BInv, NoneLeftBehind
  <2> QED
    BY <2>2, <2>3, <2>4 DEF BInv
<1>4. ASSUME NEW t \in Travellers, Resume(t) PROVE BInv'
  <2>1. place[t] = "woken"
    BY <1>4 DEF Resume
  <2>2. BTypeOK'
    BY <1>4, ResumeEffect, GroupModulusBig DEF BInv, BTypeOK
  <2>3. CountMatches'
    BY <1>4, <2>1, ResumeEffect DEF BInv, BTypeOK, CountMatches
  <2>4. NoneLeftBehind'
    BY <1>4, ResumeEffect DEF BInv, BTypeOK, NoneLeftBehind, Current, Past, Inside
  <2> QED
    BY <2>2, <2>3, <2>4 DEF BInv
<1>5. ASSUME NEW t \in Travellers, Return(t) PROVE BInv'
  <2>1. place[t] = "through"
    BY <1>5 DEF Return
  <2>2. BTypeOK'
    BY <1>5, ReturnEffect, GroupModulusBig DEF BInv, BTypeOK
  <2>3. CountMatches'
    BY <1>5, <2>1, ReturnEffect DEF BInv, BTypeOK, CountMatches
  <2>4. NoneLeftBehind'
    BY <1>5, ReturnEffect DEF BInv, BTypeOK, NoneLeftBehind, Current, Past, Inside
  <2> QED
    BY <2>2, <2>3, <2>4 DEF BInv
<1>6. CASE UNCHANGED barrierVars
  BY <1>6 DEF BInv, barrierVars, BTypeOK, CountMatches, NoneLeftBehind, Current, Past, Inside
<1> QED
  BY <1>1, <1>2, <1>3, <1>4, <1>5, <1>6 DEF BNext

\* The inductive invariant holds.
LEMMA BInvariance == BSpec => []BInv
<1>1. QED
  BY BInitInv, BNextInv, PTL DEF BSpec

\* Every variable keeps its type; m_count, a uint in the code, never passes
\* zero.
THEOREM BTypeCorrect == BSpec => []BTypeOK
<1>1. BInv => BTypeOK
  BY DEF BInv
<1>2. QED
  BY <1>1, BInvariance, PTL

\* m_count counts down the threads of the group being formed.
THEOREM CountCorrect == BSpec => []CountMatches
<1>1. BInv => CountMatches
  BY DEF BInv
<1>2. QED
  BY <1>1, BInvariance, PTL

\* The one notifyAll of a complete group reaches all its blocked threads and
\* no thread of a later group.
THEOREM NobodyLeftBehind == BSpec => []NoneLeftBehind
<1>1. BInv => NoneLeftBehind
  BY DEF BInv
<1>2. QED
  BY <1>1, BInvariance, PTL

-----------------------------------------------------------------------------
(* BRefinement *)

\* BarrierSpec counts as Barrier does.
LEMMA SameCardinality == \A S : Groups!Cardinality(S) = Cardinality(S)
  BY DEF Groups!Cardinality, Cardinality

\* A new barrier is a new BarrierSpec.
LEMMA BInitRefines == BInit => Groups!Init
  BY DEF BInit, Groups!Init, Current, Past, Inside

\* A step is a step of BarrierSpec or leaves its state alone.
LEMMA BStepRefines == BInv /\ [BNext]_barrierVars => [Groups!Next]_(Groups!absVars)
<1> SUFFICES ASSUME BInv, [BNext]_barrierVars PROVE [Groups!Next]_(Groups!absVars)
  OBVIOUS
<1>a. Cardinality(Current) \in Nat
  BY TravellersFinite, FS_Subset, FS_CardinalityType DEF Current, Inside
<1>1. ASSUME NEW t \in Travellers, Arrive(t) PROVE Groups!Arrive(t)
  <2>1. Cardinality(Current) + 1 < Limit
    BY <1>1, <1>a, LimitPositive DEF BInv, BTypeOK, CountMatches, Arrive
  <2> QED
    BY <1>1, <2>1, ArriveEffect, SameCardinality DEF Groups!Arrive
<1>2. ASSUME NEW t \in Travellers, Complete(t) PROVE Groups!Complete(t)
  <2>1. Cardinality(Current) + 1 = Limit
    BY <1>2, <1>a, LimitPositive DEF BInv, CountMatches, Complete
  <2> QED
    BY <1>2, <2>1, CompleteEffect, SameCardinality DEF Groups!Complete
<1>3. ASSUME NEW t \in Travellers, TakeSignal(t) PROVE UNCHANGED Groups!absVars
  BY <1>3, TakeSignalEffect DEF Groups!absVars
<1>4. ASSUME NEW t \in Travellers, Resume(t) PROVE Groups!Leave(t)
  BY <1>4, ResumeEffect DEF Groups!Leave
<1>5. ASSUME NEW t \in Travellers, Return(t) PROVE Groups!Leave(t)
  BY <1>5, ReturnEffect DEF Groups!Leave
<1>6. CASE UNCHANGED barrierVars
  BY <1>6 DEF barrierVars, Groups!absVars, Current, Past, Inside
<1> QED
  BY <1>1, <1>2, <1>3, <1>4, <1>5, <1>6 DEF BNext, Groups!Next

\* The code lets threads through in groups of exactly m_limit.
THEOREM BRefinement == BSpec => ImplementsBarrierSpec
<1>1. QED
  BY BInitRefines, BStepRefines, BInvariance, PTL
  DEF BSpec, ImplementsBarrierSpec, Groups!Spec
=============================================================================
