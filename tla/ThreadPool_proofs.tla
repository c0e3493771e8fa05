--------------------------- MODULE ThreadPool_proofs ---------------------------
(***************************************************************************)
(* Proofs about ThreadPool, for any finite sets of workers and clients,    *)
(* any use they make of the methods and any number of jobs.  To the        *)
(* invariants TLC checks, Inv adds that whoever handles a job has one, and *)
(* that active_jobs counts the workers that execute one.  FInv is about    *)
(* finish and shutdown: where the jobs due are until they have run.  JInv  *)
(* counts the places a job is in; it needs that one client assigns, for    *)
(* assign stores into the slot whatever is in it.                          *)
(***************************************************************************)
EXTENDS ThreadPool, FiniteSetTheorems, TLAPS

-----------------------------------------------------------------------------
(* What the operators of Monitor do to a Condition *)

\* Counting a finite set of threads T: its subsets, with one thread more or
\* one thread less.
LEMMA Counting ==
    ASSUME NEW T, IsFiniteSet(T), NEW X \in SUBSET T, NEW t \in T
    PROVE  /\ Cardinality(X) \in Nat
           /\ Cardinality(X) = 0 <=> X = {}
           /\ t \in X => Cardinality(X \ {t}) = Cardinality(X) - 1
           /\ t \notin X => Cardinality(X \cup {t}) = Cardinality(X) + 1
<1>1. IsFiniteSet(X)
  BY FS_Subset
<1> QED
  BY <1>1, FS_CardinalityType, FS_EmptySet, FS_AddElement, FS_RemoveElement

\* A new Condition.
LEMMA NoWaitersType ==
    ASSUME NEW T
    PROVE  IsCondition(NoWaiters, T)
  BY FS_EmptySet DEF IsCondition, NoWaiters

\* wait() adds the thread and finds no signal outstanding.
LEMMA WaitsType ==
    ASSUME NEW T, IsFiniteSet(T), NEW c, IsCondition(c, T), NEW t \in T, GateOpen(c)
    PROVE  /\ IsCondition(Waits(c, t), T)
           /\ Waits(c, t).waiting = c.waiting \cup {t}
           /\ Waits(c, t).signals = 0
<1>1. c.waiting \cup {t} \in SUBSET T
  BY DEF IsCondition
<1>2. Cardinality(c.waiting \cup {t}) \in Nat
  BY <1>1, Counting
<1> QED
  BY <1>1, <1>2 DEF IsCondition, Waits, GateOpen

\* A thread that takes a signal removes itself and the signal.
LEMMA TakesType ==
    ASSUME NEW T, IsFiniteSet(T), NEW c, IsCondition(c, T), NEW t \in T, CanTake(c, t)
    PROVE  /\ IsCondition(Takes(c, t), T)
           /\ Takes(c, t).waiting = c.waiting \ {t}
           /\ Takes(c, t).signals = c.signals - 1
<1>1. /\ c.waiting \in SUBSET T
      /\ c.signals - 1 \in Nat
      /\ Cardinality(c.waiting) \in Nat
      /\ Cardinality(c.waiting \ {t}) = Cardinality(c.waiting) - 1
  BY Counting DEF IsCondition, CanTake
<1> QED
  BY <1>1 DEF IsCondition, Takes

\* notify() leaves a signal for somebody if anybody waits.
LEMMA NotifiesType ==
    ASSUME NEW T, IsFiniteSet(T), NEW c, IsCondition(c, T)
    PROVE  /\ IsCondition(Notifies(c), T)
           /\ Notifies(c).waiting = c.waiting
           /\ c.waiting # {} => Notifies(c).signals > 0
<1>1. /\ Cardinality(c.waiting) \in Nat
      /\ Cardinality(c.waiting) = 0 <=> c.waiting = {}
  BY FS_Subset, FS_CardinalityType, FS_EmptySet DEF IsCondition
<1> QED
  BY <1>1 DEF IsCondition, Notifies

\* notifyAll() leaves a signal for everybody.
LEMMA NotifiesAllType ==
    ASSUME NEW T, IsFiniteSet(T), NEW c, IsCondition(c, T)
    PROVE  /\ IsCondition(NotifiesAll(c), T)
           /\ NotifiesAll(c).waiting = c.waiting
           /\ NotifiesAll(c).signals = Cardinality(c.waiting)
<1>1. Cardinality(c.waiting) \in Nat
  BY FS_Subset, FS_CardinalityType DEF IsCondition
<1> QED
  BY <1>1 DEF IsCondition, NotifiesAll

-----------------------------------------------------------------------------
Running == {w \in Workers : wpc[w] = "running"}

ActiveCounted == activeJobs = Cardinality(Running)

JobsHeld ==
    /\ \A w \in Workers : wpc[w] \in {"taken", "running"} => job[w] # None
    /\ \A c \in Clients : cpc[c] = "append" => arg[c] # None

Inv == TypeOK /\ JobsHeld /\ ActiveCounted /\ WorkersAlerted

\* The constructor establishes the invariant.
LEMMA InitInv == Init => Inv
<1> SUFFICES ASSUME Init PROVE Inv
  OBVIOUS
<1>1. Cardinality(Workers) \in Nat
  BY WorkersFinite, FS_CardinalityType
<1>2. Running = {}
  BY DEF Init, Running
<1>3. TypeOK
  <2>1. /\ IsCondition(poolActivity, Workers) /\ IsCondition(workerActivity, Clients)
        /\ poolActivity.waiting = {} /\ workerActivity.waiting = {}
    BY NoWaitersType DEF Init, NoWaiters
  <2>2. activeJobs \in 0..Cardinality(Workers) /\ nextJob \in 1..(MaxJobs + 1)
    BY <1>1, MaxJobsNat DEF Init
  <2>3. /\ q \in Seq(Jobs)
        /\ {w \in Workers : wpc[w] = "poolWait"} = {}
        /\ {c \in Clients : cpc[c] \in {"assignWait", "waitWait"}} = {}
    BY DEF Init
  <2>4. poolLength \in {0, Cardinality(Workers)}
    BY DEF Init
  <2> QED
    BY <2>1, <2>2, <2>3, <2>4 DEF Init, TypeOK
<1> QED
  BY <1>2, <1>3, FS_EmptySet DEF Inv, Init, JobsHeld, ActiveCounted, WorkersAlerted

\* A step that does not concern running jobs leaves their count right.
LEMMA RunningSame ==
    ASSUME ActiveCounted, UNCHANGED <<Running, activeJobs>>
    PROVE  ActiveCounted'
  BY DEF ActiveCounted

\* No more workers run than there are.
LEMMA RunningBound ==
    /\ Cardinality(Running) \in 0..Cardinality(Workers)
    /\ Cardinality(Running') \in 0..Cardinality(Workers)
<1>1. Running \in SUBSET Workers /\ Running' \in SUBSET Workers
  BY DEF Running
<1>2. \A X \in SUBSET Workers : Cardinality(X) \in 0..Cardinality(Workers)
  BY WorkersFinite, FS_Subset, FS_CardinalityType
<1> QED
  BY <1>1, <1>2

\* A call with the next job keeps the types.
LEMMA CallTyped ==
    ASSUME TypeOK, NEW c \in Clients, NEW op, NEW l \in {"assign", "append"},
           CallWithJob(c, op, l)
    PROVE  TypeOK'
<1>1. nextJob \in Jobs /\ nextJob' \in 1..(MaxJobs + 1)
  BY MaxJobsNat DEF TypeOK, CallWithJob, Jobs
<1>2. arg' \in [Clients -> Jobs \cup {None}]
  BY <1>1 DEF TypeOK, CallWithJob
<1>3. /\ cpc' = [cpc EXCEPT ![c] = l] /\ cpc[c] = "idle"
      /\ UNCHANGED <<worker, finishing, conds, pool, ran, stopper, due>>
  BY DEF CallWithJob, CGoto
<1>4. workerActivity'.waiting = {d \in Clients : cpc'[d] \in {"assignWait", "waitWait"}}
  BY <1>3 DEF TypeOK, conds
<1> QED
  BY <1>1, <1>2, <1>3, <1>4 DEF TypeOK, worker, conds, pool

\* Inv is inductive: one step per action, one below it per conjunct.
LEMMA NextInv == Inv /\ [Next]_vars => Inv'
<1> SUFFICES ASSUME Inv, [Next]_vars PROVE Inv'
  OBVIOUS
<1> USE DEF worker, client, conds, pool, hist, WGoto, CGoto

<1>1. ASSUME NEW w \in Workers, WorkerStops(w) PROVE Inv'
  <2>2. TypeOK'
    BY <1>1 DEF Inv, TypeOK, WorkerStops, AtLoop
  <2>3. JobsHeld'
    BY <1>1 DEF Inv, TypeOK, JobsHeld, WorkerStops, AtLoop
  <2>4. ActiveCounted'
    BY <1>1, RunningSame DEF Inv, TypeOK, Running, WorkerStops, AtLoop
  <2>5. WorkersAlerted'
    BY <1>1 DEF Inv, TypeOK, WorkersAlerted, WorkerStops, AtLoop
  <2> QED
    BY <2>2, <2>3, <2>4, <2>5 DEF Inv
<1>2. ASSUME NEW w \in Workers, WorkerSleeps(w) PROVE Inv'
  <2>1. /\ IsCondition(poolActivity', Workers)
        /\ poolActivity'.waiting = poolActivity.waiting \cup {w}
    BY <1>2, WorkersFinite, WaitsType DEF Inv, TypeOK, WorkerSleeps
  <2>2. TypeOK'
    BY <1>2, <2>1 DEF Inv, TypeOK, WorkerSleeps, AtLoop
  <2>3. JobsHeld'
    BY <1>2, <2>1 DEF Inv, TypeOK, JobsHeld, WorkerSleeps, AtLoop
  <2>4. ActiveCounted'
    BY <1>2, RunningSame DEF Inv, TypeOK, Running, WorkerSleeps, AtLoop
  <2>5. WorkersAlerted'
    BY <1>2, <2>1 DEF Inv, TypeOK, WorkersAlerted, WorkerSleeps, AtLoop
  <2> QED
    BY <2>2, <2>3, <2>4, <2>5 DEF Inv
<1>3. ASSUME NEW w \in Workers, WorkerTakesSignal(w) PROVE Inv'
  <2>1. /\ IsCondition(poolActivity', Workers)
        /\ poolActivity'.waiting = poolActivity.waiting \ {w}
    BY <1>3, WorkersFinite, TakesType DEF Inv, TypeOK, WorkerTakesSignal
  <2>2. TypeOK'
    BY <1>3, <2>1 DEF Inv, TypeOK, WorkerTakesSignal
  <2>3. JobsHeld'
    BY <1>3, <2>1 DEF Inv, TypeOK, JobsHeld, WorkerTakesSignal
  <2>4. ActiveCounted'
    BY <1>3, RunningSame DEF Inv, TypeOK, Running, WorkerTakesSignal
  <2>5. WorkersAlerted'
    BY <1>3, <2>1 DEF Inv, TypeOK, WorkersAlerted, WorkerTakesSignal
  <2> QED
    BY <2>2, <2>3, <2>4, <2>5 DEF Inv
<1>4. ASSUME NEW w \in Workers, TakePriorityJob(w) PROVE Inv'
  <2>1. /\ IsCondition(workerActivity', Clients)
        /\ workerActivity'.waiting = workerActivity.waiting
    BY <1>4, ClientsFinite, NotifiesType DEF Inv, TypeOK, TakePriorityJob
  <2>2. TypeOK'
    BY <1>4, <2>1 DEF Inv, TypeOK, TakePriorityJob, AtLoop, SlotAfterTake
  <2>3. JobsHeld'
    BY <1>4, <2>1 DEF Inv, TypeOK, JobsHeld, TakePriorityJob, AtLoop, SlotAfterTake
  <2>4. ActiveCounted'
    BY <1>4, RunningSame DEF Inv, TypeOK, Running, TakePriorityJob, AtLoop, SlotAfterTake
  <2>5. WorkersAlerted'
    BY <1>4, <2>1 DEF Inv, TypeOK, WorkersAlerted, TakePriorityJob, AtLoop, SlotAfterTake
  <2> QED
    BY <2>2, <2>3, <2>4, <2>5 DEF Inv
<1>5. ASSUME NEW w \in Workers, TakeQueuedJob(w) PROVE Inv'
  <2>1. Head(q) \in Jobs /\ Tail(q) \in Seq(Jobs) /\ Head(q) # None
    BY <1>5, MaxJobsNat DEF Inv, TypeOK, TakeQueuedJob, Jobs
  <2>2. TypeOK'
    BY <1>5, <2>1 DEF Inv, TypeOK, TakeQueuedJob, AtLoop
  <2>3. JobsHeld'
    BY <1>5, <2>1 DEF Inv, TypeOK, JobsHeld, TakeQueuedJob, AtLoop
  <2>4. ActiveCounted'
    BY <1>5, RunningSame DEF Inv, TypeOK, Running, TakeQueuedJob, AtLoop
  <2>5. WorkersAlerted'
    BY <1>5, <2>1 DEF Inv, TypeOK, WorkersAlerted, TakeQueuedJob, AtLoop
  <2> QED
    BY <2>2, <2>3, <2>4, <2>5 DEF Inv
<1>6. ASSUME NEW w \in Workers, StartJob(w) PROVE Inv'
  <2>1. ActiveCounted'
    <3>1. Running' = Running \cup {w} /\ w \notin Running
      BY <1>6 DEF Inv, TypeOK, Running, StartJob
    <3>2. Cardinality(Running') = Cardinality(Running) + 1
      BY <3>1, WorkersFinite, Counting DEF Running
    <3> QED
      BY <1>6, <3>2 DEF Inv, ActiveCounted, StartJob
  <2>2. TypeOK'
    <3>1. activeJobs' \in 0..Cardinality(Workers)
      BY <2>1, RunningBound DEF ActiveCounted
    <3> QED
      BY <1>6, <3>1 DEF Inv, TypeOK, StartJob
  <2>3. JobsHeld'
    BY <1>6 DEF Inv, TypeOK, JobsHeld, StartJob
  <2>4. WorkersAlerted'
    BY <1>6 DEF Inv, TypeOK, WorkersAlerted, StartJob
  <2> QED
    BY <2>1, <2>2, <2>3, <2>4 DEF Inv
<1>7. ASSUME NEW w \in Workers, EndJob(w) PROVE Inv'
  <2>1. ActiveCounted'
    <3>1. Running' = Running \ {w} /\ w \in Running
      BY <1>7 DEF Inv, TypeOK, Running, EndJob
    <3>2. Cardinality(Running') = Cardinality(Running) - 1
      BY <3>1, WorkersFinite, Counting DEF Running
    <3> QED
      BY <1>7, <3>2 DEF Inv, ActiveCounted, EndJob, ActiveAfterEnd
  <2>2. TypeOK'
    <3>1. activeJobs' \in 0..Cardinality(Workers)
      BY <2>1, RunningBound DEF ActiveCounted
    <3> QED
      BY <1>7, <3>1 DEF Inv, TypeOK, JobsHeld, EndJob, ActiveAfterEnd
  <2>3. JobsHeld'
    BY <1>7 DEF Inv, TypeOK, JobsHeld, EndJob, ActiveAfterEnd
  <2>4. WorkersAlerted'
    BY <1>7 DEF Inv, TypeOK, WorkersAlerted, EndJob, ActiveAfterEnd
  <2> QED
    BY <2>1, <2>2, <2>3, <2>4 DEF Inv
<1>8. ASSUME NEW w \in Workers, Report(w) PROVE Inv'
  <2>1. /\ IsCondition(workerActivity', Clients)
        /\ workerActivity'.waiting = workerActivity.waiting
    BY <1>8, ClientsFinite, NotifiesType DEF Inv, TypeOK, Report, ReportTo
  <2>2. TypeOK'
    BY <1>8, <2>1 DEF Inv, TypeOK, Report, ReportTo
  <2>3. JobsHeld'
    BY <1>8, <2>1 DEF Inv, TypeOK, JobsHeld, Report, ReportTo
  <2>4. ActiveCounted'
    BY <1>8, RunningSame DEF Inv, TypeOK, Running, Report, ReportTo
  <2>5. WorkersAlerted'
    BY <1>8, <2>1 DEF Inv, TypeOK, WorkersAlerted, Report, ReportTo
  <2> QED
    BY <2>2, <2>3, <2>4, <2>5 DEF Inv
<1>9. ASSUME NEW c \in Clients, CallAssign(c) PROVE Inv'
  <2>2. TypeOK'
    BY <1>9, CallTyped DEF Inv, CallAssign
  <2>3. JobsHeld'
    BY <1>9, MaxJobsNat DEF Inv, TypeOK, JobsHeld, CallAssign, CallWithJob, Jobs
  <2>4. ActiveCounted'
    BY <1>9, RunningSame DEF Inv, Running, CallAssign, CallWithJob, Jobs
  <2>5. WorkersAlerted'
    BY <1>9 DEF Inv, TypeOK, WorkersAlerted, CallAssign, CallWithJob, Jobs
  <2> QED
    BY <2>2, <2>3, <2>4, <2>5 DEF Inv
<1>10. ASSUME NEW c \in Clients, CallTryAssign(c) PROVE Inv'
  <2>2. TypeOK'
    BY <1>10, CallTyped DEF Inv, CallTryAssign
  <2>3. JobsHeld'
    BY <1>10, MaxJobsNat DEF Inv, TypeOK, JobsHeld, CallTryAssign, CallWithJob, Jobs
  <2>4. ActiveCounted'
    BY <1>10, RunningSame DEF Inv, Running, CallTryAssign, CallWithJob, Jobs
  <2>5. WorkersAlerted'
    BY <1>10 DEF Inv, TypeOK, WorkersAlerted, CallTryAssign, CallWithJob, Jobs
  <2> QED
    BY <2>2, <2>3, <2>4, <2>5 DEF Inv
<1>11. ASSUME NEW c \in Clients, CallAppend(c) PROVE Inv'
  <2>2. TypeOK'
    BY <1>11, CallTyped DEF Inv, CallAppend
  <2>3. JobsHeld'
    BY <1>11, MaxJobsNat DEF Inv, TypeOK, JobsHeld, CallAppend, CallWithJob, Jobs
  <2>4. ActiveCounted'
    BY <1>11, RunningSame DEF Inv, Running, CallAppend, CallWithJob, Jobs
  <2>5. WorkersAlerted'
    BY <1>11 DEF Inv, TypeOK, WorkersAlerted, CallAppend, CallWithJob, Jobs
  <2> QED
    BY <2>2, <2>3, <2>4, <2>5 DEF Inv
<1>12. ASSUME NEW c \in Clients, CallShutdown(c) PROVE Inv'
  <2>2. TypeOK'
    BY <1>12 DEF Inv, TypeOK, CallShutdown
  <2>3. JobsHeld'
    BY <1>12 DEF Inv, TypeOK, JobsHeld, CallShutdown
  <2>4. ActiveCounted'
    BY <1>12, RunningSame DEF Inv, Running, CallShutdown
  <2>5. WorkersAlerted'
    BY <1>12 DEF Inv, TypeOK, WorkersAlerted, CallShutdown
  <2> QED
    BY <2>2, <2>3, <2>4, <2>5 DEF Inv
<1>13. ASSUME NEW c \in Clients, NEW op, CallWait(c, op) PROVE Inv'
  <2>2. TypeOK'
    BY <1>13 DEF Inv, TypeOK, CallWait
  <2>3. JobsHeld'
    BY <1>13 DEF Inv, TypeOK, JobsHeld, CallWait
  <2>4. ActiveCounted'
    BY <1>13, RunningSame DEF Inv, Running, CallWait
  <2>5. WorkersAlerted'
    BY <1>13 DEF Inv, TypeOK, WorkersAlerted, CallWait
  <2> QED
    BY <2>2, <2>3, <2>4, <2>5 DEF Inv
<1>14. ASSUME NEW c \in Clients, Assign(c) PROVE Inv'
  <2>1. /\ IsCondition(poolActivity', Workers)
        /\ poolActivity'.waiting = poolActivity.waiting
        /\ poolActivity.waiting # {} => poolActivity'.signals > 0
        /\ IsCondition(workerActivity', Clients)
        /\ workerActivity'.waiting = workerActivity.waiting \cup {c}
    BY <1>14, WorkersFinite, ClientsFinite, NotifiesType, WaitsType
    DEF Inv, TypeOK, Assign, AlertOne
  <2>2. TypeOK'
    BY <1>14, <2>1 DEF Inv, TypeOK, Assign, AlertOne
  <2>3. JobsHeld'
    BY <1>14, <2>1 DEF Inv, TypeOK, JobsHeld, Assign, AlertOne
  <2>4. ActiveCounted'
    BY <1>14, RunningSame DEF Inv, Running, Assign, AlertOne
  <2>5. WorkersAlerted'
    BY <1>14, <2>1, WorkersFinite DEF Inv, TypeOK, WorkersAlerted, Assign, AlertOne
  <2> QED
    BY <2>2, <2>3, <2>4, <2>5 DEF Inv
<1>15. ASSUME NEW c \in Clients, AssignResumes(c) PROVE Inv'
  <2>2. TypeOK'
    BY <1>15 DEF Inv, TypeOK, AssignResumes, SlotTaken
  <2>3. JobsHeld'
    BY <1>15 DEF Inv, TypeOK, JobsHeld, AssignResumes, SlotTaken
  <2>4. ActiveCounted'
    BY <1>15, RunningSame DEF Inv, Running, AssignResumes, SlotTaken
  <2>5. WorkersAlerted'
    BY <1>15 DEF Inv, TypeOK, WorkersAlerted, AssignResumes, SlotTaken
  <2> QED
    BY <2>2, <2>3, <2>4, <2>5 DEF Inv
<1>16. ASSUME NEW c \in Clients, AssignWaitsAgain(c) PROVE Inv'
  <2>1. /\ IsCondition(workerActivity', Clients)
        /\ workerActivity'.waiting = workerActivity.waiting \cup {c}
    BY <1>16, ClientsFinite, WaitsType DEF Inv, TypeOK, AssignWaitsAgain
  <2>2. TypeOK'
    BY <1>16, <2>1 DEF Inv, TypeOK, AssignWaitsAgain, SlotTaken
  <2>3. JobsHeld'
    BY <1>16, <2>1 DEF Inv, TypeOK, JobsHeld, AssignWaitsAgain, SlotTaken
  <2>4. ActiveCounted'
    BY <1>16, RunningSame DEF Inv, Running, AssignWaitsAgain, SlotTaken
  <2>5. WorkersAlerted'
    BY <1>16, <2>1 DEF Inv, TypeOK, WorkersAlerted, AssignWaitsAgain, SlotTaken
  <2> QED
    BY <2>2, <2>3, <2>4, <2>5 DEF Inv
<1>17. ASSUME NEW c \in Clients, Enqueue(c) PROVE Inv'
  <2>2. TypeOK'
    BY <1>17 DEF Inv, TypeOK, JobsHeld, Enqueue
  <2>3. JobsHeld'
    BY <1>17 DEF Inv, TypeOK, JobsHeld, Enqueue
  <2>4. ActiveCounted'
    BY <1>17, RunningSame DEF Inv, Running, Enqueue
  <2>5. WorkersAlerted'
    BY <1>17 DEF Inv, TypeOK, WorkersAlerted, Enqueue
  <2> QED
    BY <2>2, <2>3, <2>4, <2>5 DEF Inv
<1>18. ASSUME NEW c \in Clients, NotifyPool(c) PROVE Inv'
  <2>1. /\ IsCondition(poolActivity', Workers)
        /\ poolActivity'.waiting = poolActivity.waiting
        /\ poolActivity.waiting # {} => poolActivity'.signals > 0
    BY <1>18, WorkersFinite, NotifiesType DEF Inv, TypeOK, NotifyPool, AlertOne
  <2>2. TypeOK'
    BY <1>18, <2>1 DEF Inv, TypeOK, NotifyPool, AlertOne
  <2>3. JobsHeld'
    BY <1>18, <2>1 DEF Inv, TypeOK, JobsHeld, NotifyPool, AlertOne
  <2>4. ActiveCounted'
    BY <1>18, RunningSame DEF Inv, Running, NotifyPool, AlertOne
  <2>5. WorkersAlerted'
    BY <1>18, <2>1, WorkersFinite DEF Inv, TypeOK, WorkersAlerted, NotifyPool, AlertOne
  <2> QED
    BY <2>2, <2>3, <2>4, <2>5 DEF Inv
<1>19. ASSUME NEW c \in Clients, WaitBlocks(c) PROVE Inv'
  <2>1. /\ IsCondition(workerActivity', Clients)
        /\ workerActivity'.waiting = workerActivity.waiting \cup {c}
    BY <1>19, ClientsFinite, WaitsType DEF Inv, TypeOK, WaitBlocks
  <2>2. TypeOK'
    BY <1>19, <2>1 DEF Inv, TypeOK, WaitBlocks, Busy
  <2>3. JobsHeld'
    BY <1>19, <2>1 DEF Inv, TypeOK, JobsHeld, WaitBlocks, Busy
  <2>4. ActiveCounted'
    BY <1>19, RunningSame DEF Inv, Running, WaitBlocks, Busy
  <2>5. WorkersAlerted'
    BY <1>19, <2>1 DEF Inv, TypeOK, WorkersAlerted, WaitBlocks, Busy
  <2> QED
    BY <2>2, <2>3, <2>4, <2>5 DEF Inv
<1>20. ASSUME NEW c \in Clients, WaitReturns(c) PROVE Inv'
  <2>2. TypeOK'
    BY <1>20 DEF Inv, TypeOK, WaitReturns, Busy
  <2>3. JobsHeld'
    BY <1>20 DEF Inv, TypeOK, JobsHeld, WaitReturns, Busy
  <2>4. ActiveCounted'
    BY <1>20, RunningSame DEF Inv, Running, WaitReturns, Busy
  <2>5. WorkersAlerted'
    BY <1>20 DEF Inv, TypeOK, WorkersAlerted, WaitReturns, Busy
  <2> QED
    BY <2>2, <2>3, <2>4, <2>5 DEF Inv
<1>21. ASSUME NEW c \in Clients, ClientTakesSignal(c) PROVE Inv'
  <2>1. /\ IsCondition(workerActivity', Clients)
        /\ workerActivity'.waiting = workerActivity.waiting \ {c}
    BY <1>21, ClientsFinite, TakesType DEF Inv, TypeOK, ClientTakesSignal
  <2>2. TypeOK'
    BY <1>21, <2>1 DEF Inv, TypeOK, ClientTakesSignal
  <2>3. JobsHeld'
    BY <1>21, <2>1 DEF Inv, TypeOK, JobsHeld, ClientTakesSignal
  <2>4. ActiveCounted'
    BY <1>21, RunningSame DEF Inv, Running, ClientTakesSignal
  <2>5. WorkersAlerted'
    BY <1>21, <2>1 DEF Inv, TypeOK, WorkersAlerted, ClientTakesSignal
  <2> QED
    BY <2>2, <2>3, <2>4, <2>5 DEF Inv
<1>22. ASSUME NEW c \in Clients, SetDone(c) PROVE Inv'
  <2>2. TypeOK'
    BY <1>22 DEF Inv, TypeOK, SetDone
  <2>3. JobsHeld'
    BY <1>22 DEF Inv, TypeOK, JobsHeld, SetDone
  <2>4. ActiveCounted'
    BY <1>22, RunningSame DEF Inv, Running, SetDone
  <2>5. WorkersAlerted'
    BY <1>22 DEF Inv, TypeOK, WorkersAlerted, SetDone
  <2> QED
    BY <2>2, <2>3, <2>4, <2>5 DEF Inv
<1>23. ASSUME NEW c \in Clients, ClearQueue(c) PROVE Inv'
  <2>2. TypeOK'
    BY <1>23 DEF Inv, TypeOK, ClearQueue
  <2>3. JobsHeld'
    BY <1>23 DEF Inv, TypeOK, JobsHeld, ClearQueue
  <2>4. ActiveCounted'
    BY <1>23, RunningSame DEF Inv, Running, ClearQueue
  <2>5. WorkersAlerted'
    BY <1>23 DEF Inv, TypeOK, WorkersAlerted, ClearQueue
  <2> QED
    BY <2>2, <2>3, <2>4, <2>5 DEF Inv
<1>24. ASSUME NEW c \in Clients, Broadcast(c) PROVE Inv'
  <2>1. /\ IsCondition(poolActivity', Workers)
        /\ poolActivity'.waiting = poolActivity.waiting
        /\ (poolActivity.waiting # {} => poolActivity'.signals > 0)
    BY <1>24, WorkersFinite, NotifiesAllType, FS_Subset, FS_CardinalityType, FS_EmptySet
    DEF Inv, TypeOK, Broadcast, AlertAll
  <2>2. TypeOK'
    BY <1>24, <2>1 DEF Inv, TypeOK, Broadcast, AlertAll
  <2>3. JobsHeld'
    BY <1>24, <2>1 DEF Inv, TypeOK, JobsHeld, Broadcast, AlertAll
  <2>4. ActiveCounted'
    BY <1>24, RunningSame DEF Inv, Running, Broadcast, AlertAll
  <2>5. WorkersAlerted'
    BY <1>24, <2>1, WorkersFinite DEF Inv, TypeOK, WorkersAlerted, Broadcast, AlertAll
  <2> QED
    BY <2>2, <2>3, <2>4, <2>5 DEF Inv
<1>25. ASSUME NEW c \in Clients, Join(c) PROVE Inv'
  <2>2. TypeOK'
    BY <1>25 DEF Inv, TypeOK, Join
  <2>3. JobsHeld'
    BY <1>25 DEF Inv, TypeOK, JobsHeld, Join
  <2>4. ActiveCounted'
    BY <1>25, RunningSame DEF Inv, Running, Join
  <2>5. WorkersAlerted'
    BY <1>25 DEF Inv, TypeOK, WorkersAlerted, Join
  <2> QED
    BY <2>2, <2>3, <2>4, <2>5 DEF Inv
<1>26. CASE UNCHANGED vars
  BY <1>26
  DEF Inv, vars, worker, client, conds, pool, hist, TypeOK, JobsHeld, ActiveCounted,
     Running, WorkersAlerted
<1> QED
  BY <1>1, <1>2, <1>3, <1>4, <1>5, <1>6, <1>7, <1>8, <1>9, <1>10, <1>11, <1>12, <1>13,
     <1>14, <1>15, <1>16, <1>17, <1>18, <1>19, <1>20, <1>21, <1>22, <1>23, <1>24, <1>25,
        <1>26
  DEF Next, WorkerStep, ClientCalls, ClientStep

\* The inductive invariant holds.
LEMMA Invariance == Spec => []Inv
<1>1. QED
  BY InitInv, NextInv, PTL DEF Spec

\* Every variable keeps its type: active_jobs, changed outside the mutex,
\* stays between zero and the number of workers, and the Conditions know
\* exactly the threads blocked in them.
THEOREM TypeCorrect == Spec => []TypeOK
<1>1. Inv => TypeOK
  BY DEF Inv
<1>2. QED
  BY <1>1, Invariance, PTL

\* The workers never all sleep beside a job without a notification on its
\* way, although append notifies after it has released the mutex and one
\* Condition serves jobs of both kinds.
THEOREM NoJobForgotten == Spec => []WorkersAlerted
<1>1. Inv => WorkersAlerted
  BY DEF Inv
<1>2. QED
  BY <1>1, Invariance, PTL

-----------------------------------------------------------------------------
(* finish, for any use of the methods *)

\* A worker has a job while it is to run it, and at no other time.
HandsEmpty == \A w \in Workers : wpc[w] \notin {"taken", "running"} => job[w] = None

\* One client shuts the pool down, and the workers of an emptied pool are dead.
Stopping ==
    /\ \A c \in Clients :
        /\ finishing[c] => stopper = c
        /\ cpc[c] \in {"shutdown", "clear", "broadcast", "join"} => stopper = c
        /\ cpc[c] \in {"clear", "broadcast", "join"} => done
    /\ poolLength = 0 =>
        /\ stopper # None
        /\ cpc[stopper] \notin {"wait", "waitWait", "waitWoken"}
        /\ \A w \in Workers : wpc[w] = "dead"

\* What was due when finish was called has not been lost: until wait has
\* returned some of it is in the queue.
DueKept ==
    \A c \in Clients : finishing[c] =>
        \A j \in due :
            \/ j \in ran
            \/ InHand(j) # {}
            \/ cpc[c] \in {"wait", "waitWait", "waitWoken"} /\ InQueue(j) # {}

FInv == HandsEmpty /\ Stopping /\ DueKept

\* A new pool has no jobs and is not being finished.
LEMMA InitFInv == Init => FInv
<1> SUFFICES ASSUME Init PROVE FInv
  OBVIOUS
<1>1. Cardinality(Workers) # 0
  BY WorkersFinite, FS_EmptySet
<1> QED
  BY <1>1 DEF Init, FInv, HandsEmpty, Stopping, DueKept

\* FInv is inductive, given Inv.
LEMMA NextFInv == Inv /\ FInv /\ [Next]_vars => FInv'
<1> SUFFICES ASSUME Inv, FInv, [Next]_vars PROVE FInv'
  OBVIOUS
<1> USE DEF worker, client, conds, pool, hist, WGoto, CGoto
<1>1. ASSUME NEW w \in Workers, WorkerStops(w) PROVE FInv'
  <2>1. HandsEmpty'
    BY <1>1 DEF Inv, TypeOK, FInv, HandsEmpty, WorkerStops, AtLoop
  <2>2. Stopping'
    BY <1>1 DEF Inv, TypeOK, FInv, Stopping, WorkerStops, AtLoop
  <2>3. DueKept'
    BY <1>1
    DEF Inv, TypeOK, FInv, Stopping, HandsEmpty, DueKept, InHand, InQueue, WorkerStops,
       AtLoop
  <2> QED
    BY <2>1, <2>2, <2>3 DEF FInv
<1>2. ASSUME NEW w \in Workers, WorkerSleeps(w) PROVE FInv'
  <2>1. HandsEmpty'
    BY <1>2 DEF Inv, TypeOK, FInv, HandsEmpty, WorkerSleeps, AtLoop
  <2>2. Stopping'
    BY <1>2 DEF Inv, TypeOK, FInv, Stopping, WorkerSleeps, AtLoop
  <2>3. DueKept'
    BY <1>2
    DEF Inv, TypeOK, FInv, Stopping, HandsEmpty, DueKept, InHand, InQueue, WorkerSleeps,
       AtLoop
  <2> QED
    BY <2>1, <2>2, <2>3 DEF FInv
<1>3. ASSUME NEW w \in Workers, WorkerTakesSignal(w) PROVE FInv'
  <2>1. HandsEmpty'
    BY <1>3 DEF Inv, TypeOK, FInv, HandsEmpty, WorkerTakesSignal
  <2>2. Stopping'
    BY <1>3 DEF Inv, TypeOK, FInv, Stopping, WorkerTakesSignal
  <2>3. DueKept'
    BY <1>3
    DEF Inv, TypeOK, FInv, Stopping, HandsEmpty, DueKept, InHand, InQueue,
       WorkerTakesSignal
  <2> QED
    BY <2>1, <2>2, <2>3 DEF FInv
<1>4. ASSUME NEW w \in Workers, TakePriorityJob(w) PROVE FInv'
  <2>0. job[w] = None /\ None \notin Jobs
    BY <1>4, MaxJobsNat DEF FInv, HandsEmpty, TakePriorityJob, AtLoop, Jobs
  <2>1. HandsEmpty'
    BY <1>4 DEF Inv, TypeOK, FInv, HandsEmpty, TakePriorityJob, AtLoop
  <2>2. Stopping'
    BY <1>4 DEF Inv, TypeOK, FInv, Stopping, TakePriorityJob, AtLoop
  <2>3. DueKept'
    <3>1. \A j \in Jobs : InHand(j) # {} => InHand(j)' # {}
      BY <1>4, <2>0 DEF Inv, TypeOK, InHand, TakePriorityJob
    <3> QED
      BY <1>4, <3>1 DEF Inv, TypeOK, FInv, DueKept, InQueue, TakePriorityJob
  <2> QED
    BY <2>1, <2>2, <2>3 DEF FInv
<1>5. ASSUME NEW w \in Workers, TakeQueuedJob(w) PROVE FInv'
  <2>0. job[w] = None /\ None \notin Jobs
    BY <1>5, MaxJobsNat DEF FInv, HandsEmpty, TakeQueuedJob, AtLoop, Jobs
  <2>1. HandsEmpty'
    BY <1>5 DEF Inv, TypeOK, FInv, HandsEmpty, TakeQueuedJob, AtLoop
  <2>2. Stopping'
    BY <1>5 DEF Inv, TypeOK, FInv, Stopping, TakeQueuedJob, AtLoop
  <2>3. DueKept'
    <3>1. \A j \in Jobs : InHand(j) # {} => InHand(j)' # {}
      BY <1>5, <2>0 DEF Inv, TypeOK, InHand, TakeQueuedJob
    <3>2. ASSUME NEW j \in Jobs, InQueue(j) # {} PROVE InHand(j)' # {} \/ InQueue(j)' # {}
      <4>1. PICK i \in 1..Len(q) : q[i] = j
        BY <3>2 DEF InQueue
      <4>2. CASE i = 1
        BY <1>5, <4>1, <4>2 DEF Inv, TypeOK, InHand, TakeQueuedJob
      <4>3. CASE i # 1
        <5>1. i - 1 \in 1..Len(q') /\ q'[i - 1] = j
          BY <1>5, <4>1, <4>3 DEF Inv, TypeOK, TakeQueuedJob
        <5> QED
          BY <5>1 DEF InQueue
      <4> QED
        BY <4>2, <4>3
    <3> QED
      BY <1>5, <3>1, <3>2 DEF Inv, TypeOK, FInv, DueKept, TakeQueuedJob
  <2> QED
    BY <2>1, <2>2, <2>3 DEF FInv
<1>6. ASSUME NEW w \in Workers, StartJob(w) PROVE FInv'
  <2>1. HandsEmpty'
    BY <1>6 DEF Inv, TypeOK, FInv, HandsEmpty, StartJob
  <2>2. Stopping'
    BY <1>6 DEF Inv, TypeOK, FInv, Stopping, StartJob
  <2>3. DueKept'
    BY <1>6
    DEF Inv, TypeOK, FInv, Stopping, HandsEmpty, DueKept, InHand, InQueue, StartJob
  <2> QED
    BY <2>1, <2>2, <2>3 DEF FInv
<1>7. ASSUME NEW w \in Workers, EndJob(w) PROVE FInv'
  <2>1. HandsEmpty'
    BY <1>7 DEF Inv, TypeOK, FInv, HandsEmpty, EndJob
  <2>2. Stopping'
    BY <1>7 DEF Inv, TypeOK, FInv, Stopping, EndJob
  <2>3. DueKept'
    BY <1>7 DEF Inv, TypeOK, FInv, Stopping, HandsEmpty, DueKept, InHand, InQueue, EndJob
  <2> QED
    BY <2>1, <2>2, <2>3 DEF FInv
<1>8. ASSUME NEW w \in Workers, Report(w) PROVE FInv'
  <2>1. HandsEmpty'
    BY <1>8 DEF Inv, TypeOK, FInv, HandsEmpty, Report
  <2>2. Stopping'
    BY <1>8 DEF Inv, TypeOK, FInv, Stopping, Report
  <2>3. DueKept'
    BY <1>8 DEF Inv, TypeOK, FInv, Stopping, HandsEmpty, DueKept, InHand, InQueue, Report
  <2> QED
    BY <2>1, <2>2, <2>3 DEF FInv
<1>9. ASSUME NEW c \in Clients, CallAssign(c) PROVE FInv'
  <2>1. HandsEmpty'
    BY <1>9 DEF Inv, TypeOK, FInv, HandsEmpty, CallAssign, CallWithJob
  <2>2. Stopping'
    BY <1>9 DEF Inv, TypeOK, FInv, Stopping, CallAssign, CallWithJob
  <2>3. DueKept'
    BY <1>9
    DEF Inv, TypeOK, FInv, Stopping, HandsEmpty, DueKept, InHand, InQueue, CallAssign,
       CallWithJob
  <2> QED
    BY <2>1, <2>2, <2>3 DEF FInv
<1>10. ASSUME NEW c \in Clients, CallTryAssign(c) PROVE FInv'
  <2>1. HandsEmpty'
    BY <1>10 DEF Inv, TypeOK, FInv, HandsEmpty, CallTryAssign, CallWithJob
  <2>2. Stopping'
    BY <1>10 DEF Inv, TypeOK, FInv, Stopping, CallTryAssign, CallWithJob
  <2>3. DueKept'
    BY <1>10
    DEF Inv, TypeOK, FInv, Stopping, HandsEmpty, DueKept, InHand, InQueue,
       CallTryAssign, CallWithJob
  <2> QED
    BY <2>1, <2>2, <2>3 DEF FInv
<1>11. ASSUME NEW c \in Clients, CallAppend(c) PROVE FInv'
  <2>1. HandsEmpty'
    BY <1>11 DEF Inv, TypeOK, FInv, HandsEmpty, CallAppend, CallWithJob
  <2>2. Stopping'
    BY <1>11 DEF Inv, TypeOK, FInv, Stopping, CallAppend, CallWithJob
  <2>3. DueKept'
    BY <1>11
    DEF Inv, TypeOK, FInv, Stopping, HandsEmpty, DueKept, InHand, InQueue, CallAppend,
       CallWithJob
  <2> QED
    BY <2>1, <2>2, <2>3 DEF FInv
<1>12. ASSUME NEW c \in Clients, CallShutdown(c) PROVE FInv'
  <2>1. HandsEmpty'
    BY <1>12 DEF Inv, TypeOK, FInv, HandsEmpty, CallShutdown
  <2>2. Stopping'
    BY <1>12, ClientsFinite DEF Inv, TypeOK, FInv, Stopping, CallShutdown
  <2>3. DueKept'
    BY <1>12
    DEF Inv, TypeOK, FInv, Stopping, HandsEmpty, DueKept, InHand, InQueue, CallShutdown
  <2> QED
    BY <2>1, <2>2, <2>3 DEF FInv
<1>13. ASSUME NEW c \in Clients, NEW op, CallWait(c, op) PROVE FInv'
  <2>1. HandsEmpty'
    BY <1>13 DEF Inv, TypeOK, FInv, HandsEmpty, CallWait
  <2>2. Stopping'
    BY <1>13, ClientsFinite DEF Inv, TypeOK, FInv, Stopping, CallWait
  <2>3. DueKept'
    <3>1. \A d \in Clients : ~finishing[d]
      BY <1>13, ClientsFinite DEF FInv, Stopping, CallWait
    <3>2. CASE op = "finish"
      BY <1>13, <3>1, <3>2 DEF Inv, TypeOK, DueKept, InHand, InQueue, CallWait
    <3>3. CASE op # "finish"
      BY <1>13, <3>1, <3>3 DEF Inv, TypeOK, DueKept, CallWait
    <3> QED
      BY <3>2, <3>3
  <2> QED
    BY <2>1, <2>2, <2>3 DEF FInv
<1>14. ASSUME NEW c \in Clients, Assign(c) PROVE FInv'
  <2>1. HandsEmpty'
    BY <1>14 DEF Inv, TypeOK, FInv, HandsEmpty, Assign
  <2>2. Stopping'
    BY <1>14 DEF Inv, TypeOK, FInv, Stopping, Assign
  <2>3. DueKept'
    BY <1>14 DEF Inv, TypeOK, FInv, Stopping, HandsEmpty, DueKept, InHand, InQueue, Assign
  <2> QED
    BY <2>1, <2>2, <2>3 DEF FInv
<1>15. ASSUME NEW c \in Clients, AssignResumes(c) PROVE FInv'
  <2>1. HandsEmpty'
    BY <1>15 DEF Inv, TypeOK, FInv, HandsEmpty, AssignResumes
  <2>2. Stopping'
    BY <1>15 DEF Inv, TypeOK, FInv, Stopping, AssignResumes
  <2>3. DueKept'
    BY <1>15
    DEF Inv, TypeOK, FInv, Stopping, HandsEmpty, DueKept, InHand, InQueue, AssignResumes
  <2> QED
    BY <2>1, <2>2, <2>3 DEF FInv
<1>16. ASSUME NEW c \in Clients, AssignWaitsAgain(c) PROVE FInv'
  <2>1. HandsEmpty'
    BY <1>16 DEF Inv, TypeOK, FInv, HandsEmpty, AssignWaitsAgain
  <2>2. Stopping'
    BY <1>16 DEF Inv, TypeOK, FInv, Stopping, AssignWaitsAgain
  <2>3. DueKept'
    BY <1>16
    DEF Inv, TypeOK, FInv, Stopping, HandsEmpty, DueKept, InHand, InQueue,
       AssignWaitsAgain
  <2> QED
    BY <2>1, <2>2, <2>3 DEF FInv
<1>17. ASSUME NEW c \in Clients, Enqueue(c) PROVE FInv'
  <2>1. HandsEmpty'
    BY <1>17 DEF Inv, TypeOK, FInv, HandsEmpty, Enqueue
  <2>2. Stopping'
    BY <1>17 DEF Inv, TypeOK, FInv, Stopping, Enqueue
  <2>3. DueKept'
    BY <1>17
    DEF Inv, TypeOK, FInv, Stopping, HandsEmpty, DueKept, InHand, InQueue, Enqueue
  <2> QED
    BY <2>1, <2>2, <2>3 DEF FInv
<1>18. ASSUME NEW c \in Clients, NotifyPool(c) PROVE FInv'
  <2>1. HandsEmpty'
    BY <1>18 DEF Inv, TypeOK, FInv, HandsEmpty, NotifyPool
  <2>2. Stopping'
    BY <1>18 DEF Inv, TypeOK, FInv, Stopping, NotifyPool
  <2>3. DueKept'
    BY <1>18
    DEF Inv, TypeOK, FInv, Stopping, HandsEmpty, DueKept, InHand, InQueue, NotifyPool
  <2> QED
    BY <2>1, <2>2, <2>3 DEF FInv
<1>19. ASSUME NEW c \in Clients, WaitBlocks(c) PROVE FInv'
  <2>1. HandsEmpty'
    BY <1>19 DEF Inv, TypeOK, FInv, HandsEmpty, WaitBlocks, Busy
  <2>2. Stopping'
    BY <1>19 DEF Inv, TypeOK, FInv, Stopping, WaitBlocks, Busy
  <2>3. DueKept'
    BY <1>19
    DEF Inv, TypeOK, FInv, Stopping, HandsEmpty, DueKept, InHand, InQueue, WaitBlocks,
       Busy
  <2> QED
    BY <2>1, <2>2, <2>3 DEF FInv
<1>20. ASSUME NEW c \in Clients, WaitReturns(c) PROVE FInv'
  <2>1. HandsEmpty'
    BY <1>20 DEF Inv, TypeOK, FInv, HandsEmpty, WaitReturns, Busy
  <2>2. Stopping'
    BY <1>20 DEF Inv, TypeOK, FInv, Stopping, WaitReturns, Busy
  <2>3. DueKept'
    BY <1>20
    DEF Inv, TypeOK, FInv, Stopping, HandsEmpty, DueKept, InHand, InQueue, WaitReturns,
       Busy
  <2> QED
    BY <2>1, <2>2, <2>3 DEF FInv
<1>21. ASSUME NEW c \in Clients, ClientTakesSignal(c) PROVE FInv'
  <2>1. HandsEmpty'
    BY <1>21 DEF Inv, TypeOK, FInv, HandsEmpty, ClientTakesSignal
  <2>2. Stopping'
    BY <1>21 DEF Inv, TypeOK, FInv, Stopping, ClientTakesSignal
  <2>3. DueKept'
    BY <1>21
    DEF Inv, TypeOK, FInv, Stopping, HandsEmpty, DueKept, InHand, InQueue,
       ClientTakesSignal
  <2> QED
    BY <2>1, <2>2, <2>3 DEF FInv
<1>22. ASSUME NEW c \in Clients, SetDone(c) PROVE FInv'
  <2>1. HandsEmpty'
    BY <1>22 DEF Inv, TypeOK, FInv, HandsEmpty, SetDone
  <2>2. Stopping'
    BY <1>22 DEF Inv, TypeOK, FInv, Stopping, SetDone
  <2>3. DueKept'
    BY <1>22
    DEF Inv, TypeOK, FInv, Stopping, HandsEmpty, DueKept, InHand, InQueue, SetDone
  <2> QED
    BY <2>1, <2>2, <2>3 DEF FInv
<1>23. ASSUME NEW c \in Clients, ClearQueue(c) PROVE FInv'
  <2>1. HandsEmpty'
    BY <1>23 DEF Inv, TypeOK, FInv, HandsEmpty, ClearQueue
  <2>2. Stopping'
    BY <1>23 DEF Inv, TypeOK, FInv, Stopping, ClearQueue
  <2>3. DueKept'
    BY <1>23
    DEF Inv, TypeOK, FInv, Stopping, HandsEmpty, DueKept, InHand, InQueue, ClearQueue
  <2> QED
    BY <2>1, <2>2, <2>3 DEF FInv
<1>24. ASSUME NEW c \in Clients, Broadcast(c) PROVE FInv'
  <2>1. HandsEmpty'
    BY <1>24 DEF Inv, TypeOK, FInv, HandsEmpty, Broadcast
  <2>2. Stopping'
    BY <1>24 DEF Inv, TypeOK, FInv, Stopping, Broadcast
  <2>3. DueKept'
    BY <1>24
    DEF Inv, TypeOK, FInv, Stopping, HandsEmpty, DueKept, InHand, InQueue, Broadcast
  <2> QED
    BY <2>1, <2>2, <2>3 DEF FInv
<1>25. ASSUME NEW c \in Clients, Join(c) PROVE FInv'
  <2>1. HandsEmpty'
    BY <1>25 DEF Inv, TypeOK, FInv, HandsEmpty, Join
  <2>2. Stopping'
    <3>1. stopper = c /\ stopper # None
      BY <1>25, ClientsFinite DEF FInv, Stopping, Join
    <3> QED
      BY <1>25, <3>1 DEF Inv, TypeOK, FInv, Stopping, Join
  <2>3. DueKept'
    BY <1>25 DEF Inv, TypeOK, FInv, Stopping, HandsEmpty, DueKept, InHand, InQueue, Join
  <2> QED
    BY <2>1, <2>2, <2>3 DEF FInv
<1>26. CASE UNCHANGED vars
  BY <1>26 DEF vars, FInv, HandsEmpty, Stopping, DueKept, InHand, InQueue
<1> QED
  BY <1>1, <1>2, <1>3, <1>4, <1>5, <1>6, <1>7, <1>8, <1>9, <1>10, <1>11, <1>12, <1>13,
     <1>14, <1>15, <1>16, <1>17, <1>18, <1>19, <1>20, <1>21, <1>22, <1>23, <1>24, <1>25,
     <1>26
  DEF Next, WorkerStep, ClientCalls, ClientStep

\* The invariants of finishing hold with it.
LEMMA FinishInvariance == Spec => [](Inv /\ FInv)
<1>1. Inv /\ FInv /\ [Next]_vars => FInv'
  BY NextFInv
<1>2. QED
  BY InitInv, NextInv, InitFInv, <1>1, PTL DEF Spec

\* finish runs all jobs: when it has emptied the pool, whatever a worker had in
\* hand or the queue held when it was called has been run, whoever appends,
\* assigns or waits meanwhile.
THEOREM FinishCorrect == Spec => []FinishRunsAll
<1>1. Inv /\ FInv => FinishRunsAll
  <2> SUFFICES ASSUME Inv, FInv, NEW c \in Clients, finishing[c], poolLength = 0,
                      NEW j \in due
               PROVE  j \in ran
    BY DEF FinishRunsAll
  <2>1. j \in Jobs /\ None \notin Jobs
    BY MaxJobsNat DEF Inv, TypeOK, Jobs
  <2>2. InHand(j) = {}
    BY <2>1 DEF FInv, HandsEmpty, Stopping, InHand
  <2>3. stopper = c
    BY DEF FInv, Stopping
  <2> QED
    BY <2>2, <2>3 DEF FInv, Stopping, DueKept
<1>2. QED
  BY <1>1, FinishInvariance, PTL

-----------------------------------------------------------------------------
(* One client assigns *)

Assigning == {"assign", "tryAssign"}

\* One client at most calls assign or tryAssign.
OneAssigner ==
    \A c, d \in Clients : Ops[c] \cap Assigning # {} /\ Ops[d] \cap Assigning # {} => c = d

\* The job in the slot is that of a client that still waits for it to be taken.
SlotOwned ==
    /\ \A c \in Clients : cpc[c] \in {"assign", "assignWait", "assignWoken"} =>
            Ops[c] \cap Assigning # {} /\ arg[c] # None
    /\ priorityJob # None => \E c \in Clients : cpc[c] \in {"assignWait", "assignWoken"}

\* The job of a client in assign is in the slot until a worker has it.
AssignedTracked ==
    \A c \in Clients : cpc[c] \in {"assignWait", "assignWoken"} =>
        priorityJob = arg[c] \/ arg[c] \in ran \/ InHand(arg[c]) # {}

\* Jobs that are made are in one place, or dropped; the others in none.
CopiesRight ==
    \A j \in Jobs : IF j < nextJob THEN Copies(j) = 1 \/ (done /\ Copies(j) = 0)
                    ELSE Copies(j) = 0

JInv == SlotOwned /\ AssignedTracked /\ CopiesRight

\* Jobs are numbers, None is not one of them.
LEMMA JobsNotNone == None \notin Jobs /\ Jobs \subseteq Nat
  BY MaxJobsNat DEF Jobs

\* The places a job can be in are finite sets.
LEMMA PlacesFinite ==
    ASSUME TypeOK, NEW j
    PROVE  /\ IsFiniteSet(InHand(j)) /\ Cardinality(InHand(j)) \in Nat
           /\ IsFiniteSet(InQueue(j)) /\ Cardinality(InQueue(j)) \in Nat
           /\ IsFiniteSet(InCall(j)) /\ Cardinality(InCall(j)) \in Nat
<1>1. IsFiniteSet(1..Len(q))
  BY FS_Interval DEF TypeOK
<1>2. /\ InHand(j) \in SUBSET Workers /\ InQueue(j) \in SUBSET (1..Len(q))
      /\ InCall(j) \in SUBSET Clients
  BY DEF InHand, InQueue, InCall
<1> QED
  BY <1>1, <1>2, WorkersFinite, ClientsFinite, FS_Subset, FS_CardinalityType

\* A worker without a job gets one.
LEMMA HandTakes ==
    ASSUME TypeOK, NEW w \in Workers, job[w] = None, NEW j \in Jobs,
           job' = [job EXCEPT ![w] = j], NEW k \in Jobs
    PROVE  Cardinality(InHand(k)') = Cardinality(InHand(k)) + (IF k = j THEN 1 ELSE 0)
<1>1. CASE k = j
  <2>1. InHand(k)' = InHand(k) \cup {w} /\ w \notin InHand(k)
    BY <1>1, JobsNotNone DEF TypeOK, InHand
  <2> QED
    BY <1>1, <2>1, WorkersFinite, Counting DEF InHand
<1>2. CASE k # j
  <2>1. InHand(k)' = InHand(k)
    BY <1>2, JobsNotNone DEF TypeOK, InHand
  <2> QED
    BY <1>2, <2>1, PlacesFinite
<1> QED
  BY <1>1, <1>2

\* A worker gives up its job.
LEMMA HandDrops ==
    ASSUME TypeOK, NEW w \in Workers, job' = [job EXCEPT ![w] = None], NEW k \in Jobs
    PROVE  Cardinality(InHand(k)') = Cardinality(InHand(k)) - (IF k = job[w] THEN 1 ELSE 0)
<1>1. CASE k = job[w]
  <2>1. InHand(k)' = InHand(k) \ {w} /\ w \in InHand(k)
    BY <1>1, JobsNotNone DEF TypeOK, InHand
  <2> QED
    BY <1>1, <2>1, WorkersFinite, Counting DEF InHand
<1>2. CASE k # job[w]
  <2>1. InHand(k)' = InHand(k)
    BY <1>2, JobsNotNone DEF TypeOK, InHand
  <2> QED
    BY <1>2, <2>1, PlacesFinite
<1> QED
  BY <1>1, <1>2

\* The first job leaves the queue, the others move up.
LEMMA QueueTakes ==
    ASSUME TypeOK, q # <<>>, q' = Tail(q), NEW k \in Jobs
    PROVE  Cardinality(InQueue(k)') = Cardinality(InQueue(k)) - (IF k = Head(q) THEN 1 ELSE 0)
<1> DEFINE Rest == InQueue(k) \ {1}
<1>1. /\ Len(q) \in Nat \ {0} /\ Len(q') = Len(q) - 1 /\ Head(q) = q[1]
      /\ \A i \in 1..Len(q') : q'[i] = q[i + 1]
  BY DEF TypeOK
<1>2. IsFiniteSet(Rest)
  BY PlacesFinite, FS_RemoveElement
<1>3. Cardinality(InQueue(k)') = Cardinality(Rest)
  <2> DEFINE f == [i \in Rest |-> i - 1]
  <2>1. \A i \in Rest : i \in 2..Len(q) /\ q[i] = k
    BY <1>1 DEF InQueue
  <2>2. \A i \in InQueue(k)' : i \in 1..(Len(q) - 1) /\ q[i + 1] = k
    BY <1>1 DEF InQueue
  <2>3. \A i \in Rest : f[i] \in InQueue(k)'
    BY <1>1, <2>1 DEF InQueue
  <2>4. \A i, j \in Rest : f[i] = f[j] => i = j
    BY <2>1
  <2>5. \A i \in InQueue(k)' : i + 1 \in Rest /\ f[i + 1] = i
    BY <1>1, <2>2 DEF InQueue
  <2>6. f \in Bijection(Rest, InQueue(k)')
    <3> HIDE DEF Rest
    <3> QED
      BY <2>3, <2>4, <2>5 DEF Bijection, Injection, Surjection, IsInjective
  <2>7. ExistsBijection(Rest, InQueue(k)')
    BY <2>6 DEF ExistsBijection
  <2> QED
    BY <1>2, <2>7, FS_Bijection
<1>4. CASE k = Head(q)
  <2>1. 1 \in InQueue(k)
    BY <1>1, <1>4 DEF InQueue
  <2>2. Cardinality(Rest) = Cardinality(InQueue(k)) - 1
    BY <2>1, PlacesFinite, FS_RemoveElement
  <2> QED
    BY <1>3, <1>4, <2>2
<1>5. CASE k # Head(q)
  <2>1. Rest = InQueue(k)
    BY <1>1, <1>5 DEF InQueue
  <2>2. Cardinality(Rest) = Cardinality(InQueue(k)) /\ Cardinality(InQueue(k)) \in Nat
    BY <2>1, PlacesFinite
  <2> QED
    BY <1>3, <1>5, <2>2
<1> QED
  BY <1>4, <1>5

\* A job enters the queue.
LEMMA QueueGets ==
    ASSUME TypeOK, NEW j \in Jobs, q' = Append(q, j), NEW k \in Jobs
    PROVE  Cardinality(InQueue(k)') = Cardinality(InQueue(k)) + (IF k = j THEN 1 ELSE 0)
<1>1. /\ Len(q) \in Nat /\ Len(q') = Len(q) + 1 /\ q'[Len(q) + 1] = j
      /\ \A i \in 1..Len(q) : q'[i] = q[i]
  BY DEF TypeOK
<1>2. Len(q) + 1 \notin InQueue(k)
  BY <1>1 DEF InQueue
<1>3. CASE k = j
  <2>1. InQueue(k)' = InQueue(k) \cup {Len(q) + 1}
    BY <1>1, <1>3 DEF InQueue
  <2>2. Cardinality(InQueue(k)') = Cardinality(InQueue(k)) + 1
    BY <1>2, <2>1, PlacesFinite, FS_AddElement
  <2> QED
    BY <1>3, <2>2
<1>4. CASE k # j
  <2>1. InQueue(k)' = InQueue(k)
    BY <1>1, <1>4 DEF InQueue
  <2> QED
    BY <1>4, <2>1, PlacesFinite
<1> QED
  BY <1>3, <1>4

\* A call gets a new job.
LEMMA CallGets ==
    ASSUME TypeOK, NEW c \in Clients, cpc[c] = "idle", NEW j \in Jobs,
           NEW l \in {"assign", "append"}, cpc' = [cpc EXCEPT ![c] = l],
           arg' = [arg EXCEPT ![c] = j], NEW k \in Jobs
    PROVE  Cardinality(InCall(k)') = Cardinality(InCall(k)) + (IF k = j THEN 1 ELSE 0)
<1>1. CASE k = j
  <2>1. InCall(k)' = InCall(k) \cup {c} /\ c \notin InCall(k)
    BY <1>1, JobsNotNone DEF TypeOK, InCall
  <2> QED
    BY <1>1, <2>1, ClientsFinite, Counting DEF InCall
<1>2. CASE k # j
  <2>1. InCall(k)' = InCall(k)
    BY <1>2, JobsNotNone DEF TypeOK, InCall
  <2> QED
    BY <1>2, <2>1, PlacesFinite
<1> QED
  BY <1>1, <1>2

\* A call hands its job over.
LEMMA CallGives ==
    ASSUME TypeOK, NEW c \in Clients, cpc[c] \in {"assign", "append"},
           NEW l, l \notin {"assign", "append"}, cpc' = [cpc EXCEPT ![c] = l],
           arg' \in {arg, [arg EXCEPT ![c] = None]}, NEW k \in Jobs
    PROVE  Cardinality(InCall(k)') = Cardinality(InCall(k)) - (IF k = arg[c] THEN 1 ELSE 0)
<1>0. \A d \in Clients : d # c => arg'[d] = arg[d] /\ cpc'[d] = cpc[d]
  BY DEF TypeOK
<1>1. CASE k = arg[c]
  <2>1. InCall(k)' = InCall(k) \ {c} /\ c \in InCall(k)
    BY <1>0, <1>1, JobsNotNone DEF TypeOK, InCall
  <2> QED
    BY <1>1, <2>1, ClientsFinite, Counting DEF InCall
<1>2. CASE k # arg[c]
  <2>1. InCall(k)' = InCall(k)
    BY <1>0, <1>2, JobsNotNone DEF TypeOK, InCall
  <2> QED
    BY <1>2, <2>1, PlacesFinite
<1> QED
  BY <1>1, <1>2

\* The count of a job, part by part, is what it was if its places are.
LEMMA CopiesSame ==
    ASSUME NEW j, UNCHANGED <<InHand(j), InQueue(j), InCall(j), priorityJob, ran>>
    PROVE  Copies(j)' = Copies(j)
  BY DEF Copies

\* A step that moves no job, or moves it from one place to another.
LEMMA CopiesKept ==
    ASSUME CopiesRight, nextJob' = nextJob, done => done',
           \A j \in Jobs : Copies(j)' = Copies(j)
    PROVE  CopiesRight'
  BY DEF CopiesRight

\* A job in a worker's hands is nowhere else.
LEMMA HeldOnce ==
    ASSUME Inv, CopiesRight, NEW w \in Workers, NEW j \in Jobs, job[w] = j
    PROVE  j \notin ran
<1>1. Cardinality(InHand(j)) > 0
  <2>1. InHand(j) # {}
    BY DEF InHand
  <2> QED
    BY <2>1, PlacesFinite, FS_EmptySet DEF Inv
<1>2. Copies(j) \in {0, 1}
  BY DEF CopiesRight
<1> SUFFICES ASSUME j \in ran PROVE FALSE
  OBVIOUS
<1>3. Copies(j) = Cardinality(InHand(j)) + Cardinality(InQueue(j)) + Cardinality(InCall(j))
                  + (IF priorityJob = j THEN 1 ELSE 0) + 1
  BY DEF Copies
<1> QED
  BY <1>1, <1>2, <1>3, PlacesFinite DEF Inv

\* A call that makes the next job.
LEMMA CopiesAdded ==
    ASSUME TypeOK, CopiesRight, nextJob \in Jobs, nextJob' = nextJob + 1, done' = done,
           \A j \in Jobs : Copies(j)' = Copies(j) + (IF j = nextJob THEN 1 ELSE 0)
    PROVE  CopiesRight'
<1> SUFFICES ASSUME NEW j \in Jobs
             PROVE  IF j < nextJob + 1 THEN Copies(j)' = 1 \/ (done /\ Copies(j)' = 0)
                                       ELSE Copies(j)' = 0
  BY DEF CopiesRight
<1>1. j \in Nat /\ nextJob \in Nat
  BY JobsNotNone
<1>2. CASE j = nextJob
  <2>1. Copies(j) = 0
    BY <1>1, <1>2 DEF CopiesRight
  <2>2. Copies(j)' = 1
    BY <1>2, <2>1
  <2> QED
    BY <1>1, <1>2, <2>2
<1>3. CASE j # nextJob
  <2>1. Copies(j) \in {0, 1}
    BY DEF CopiesRight
  <2>2. Copies(j)' = Copies(j)
    BY <1>3, <2>1
  <2>3. j < nextJob + 1 <=> j < nextJob
    BY <1>1, <1>3
  <2> QED
    BY <2>2, <2>3 DEF CopiesRight
<1> QED
  BY <1>2, <1>3

\* JInv is inductive.
LEMMA NextJInv ==
    ASSUME OneAssigner, Inv, FInv, JInv, [Next]_vars
    PROVE  JInv'
<1> USE DEF worker, client, conds, pool, hist, WGoto, CGoto
<1>1. ASSUME NEW w \in Workers, WorkerStops(w) PROVE JInv'
  <2>1. SlotOwned'
    BY <1>1, JobsNotNone
    DEF Inv, TypeOK, JInv, SlotOwned, Assigning, Jobs, WorkerStops, AtLoop
  <2>2. AssignedTracked'
    BY <1>1, JobsNotNone
    DEF Inv, TypeOK, OneAssigner, FInv, HandsEmpty, JInv, SlotOwned, AssignedTracked,
       InHand, WorkerStops, AtLoop
  <2>3. CopiesRight'
    <3>1. ASSUME NEW j \in Jobs PROVE Copies(j)' = Copies(j)
      BY <1>1, CopiesSame DEF Inv, TypeOK, InHand, InQueue, InCall, WorkerStops, AtLoop
    <3> QED
      BY <1>1, <3>1, CopiesKept DEF JInv, WorkerStops, AtLoop
  <2> QED
    BY <2>1, <2>2, <2>3 DEF JInv
<1>2. ASSUME NEW w \in Workers, WorkerSleeps(w) PROVE JInv'
  <2>1. SlotOwned'
    BY <1>2, JobsNotNone
    DEF Inv, TypeOK, JInv, SlotOwned, Assigning, Jobs, WorkerSleeps, AtLoop
  <2>2. AssignedTracked'
    BY <1>2, JobsNotNone
    DEF Inv, TypeOK, OneAssigner, FInv, HandsEmpty, JInv, SlotOwned, AssignedTracked,
       InHand, WorkerSleeps, AtLoop
  <2>3. CopiesRight'
    <3>1. ASSUME NEW j \in Jobs PROVE Copies(j)' = Copies(j)
      BY <1>2, CopiesSame DEF Inv, TypeOK, InHand, InQueue, InCall, WorkerSleeps, AtLoop
    <3> QED
      BY <1>2, <3>1, CopiesKept DEF JInv, WorkerSleeps, AtLoop
  <2> QED
    BY <2>1, <2>2, <2>3 DEF JInv
<1>3. ASSUME NEW w \in Workers, WorkerTakesSignal(w) PROVE JInv'
  <2>1. SlotOwned'
    BY <1>3, JobsNotNone
    DEF Inv, TypeOK, JInv, SlotOwned, Assigning, Jobs, WorkerTakesSignal
  <2>2. AssignedTracked'
    BY <1>3, JobsNotNone
    DEF Inv, TypeOK, OneAssigner, FInv, HandsEmpty, JInv, SlotOwned, AssignedTracked,
       InHand, WorkerTakesSignal
  <2>3. CopiesRight'
    <3>1. ASSUME NEW j \in Jobs PROVE Copies(j)' = Copies(j)
      BY <1>3, CopiesSame DEF Inv, TypeOK, InHand, InQueue, InCall, WorkerTakesSignal
    <3> QED
      BY <1>3, <3>1, CopiesKept DEF JInv, WorkerTakesSignal
  <2> QED
    BY <2>1, <2>2, <2>3 DEF JInv
<1>4. ASSUME NEW w \in Workers, TakePriorityJob(w) PROVE JInv'
  <2>1. SlotOwned'
    BY <1>4, JobsNotNone
    DEF Inv, TypeOK, JInv, SlotOwned, Assigning, Jobs, TakePriorityJob, AtLoop,
       SlotAfterTake
  <2>2. AssignedTracked'
    BY <1>4, JobsNotNone
    DEF Inv, TypeOK, OneAssigner, FInv, HandsEmpty, JInv, SlotOwned, AssignedTracked,
       InHand, TakePriorityJob, AtLoop, SlotAfterTake
  <2>3. CopiesRight'
    <3>1. priorityJob \in Jobs /\ job[w] = None /\ priorityJob' = None
      BY <1>4 DEF Inv, TypeOK, FInv, HandsEmpty, TakePriorityJob, AtLoop, SlotAfterTake
    <3>2. ASSUME NEW j \in Jobs PROVE Copies(j)' = Copies(j)
      <4>1. Cardinality(InHand(j)') = Cardinality(InHand(j)) + (IF j = priorityJob THEN 1 ELSE 0)
        BY <1>4, <3>1, HandTakes DEF Inv, TakePriorityJob
      <4>2. /\ InQueue(j)' = InQueue(j) /\ InCall(j)' = InCall(j) /\ ran' = ran
        BY <1>4 DEF InQueue, InCall, TakePriorityJob
      <4> QED
        BY <3>1, <4>1, <4>2, PlacesFinite, JobsNotNone DEF Inv, Copies
    <3> QED
      BY <1>4, <3>2, CopiesKept DEF JInv, TakePriorityJob
  <2> QED
    BY <2>1, <2>2, <2>3 DEF JInv
<1>5. ASSUME NEW w \in Workers, TakeQueuedJob(w) PROVE JInv'
  <2>1. SlotOwned'
    BY <1>5, JobsNotNone
    DEF Inv, TypeOK, JInv, SlotOwned, Assigning, Jobs, TakeQueuedJob, AtLoop
  <2>2. AssignedTracked'
    BY <1>5, JobsNotNone
    DEF Inv, TypeOK, OneAssigner, FInv, HandsEmpty, JInv, SlotOwned, AssignedTracked,
       InHand, TakeQueuedJob, AtLoop
  <2>3. CopiesRight'
    <3>1. Head(q) \in Jobs /\ job[w] = None
      BY <1>5 DEF Inv, TypeOK, FInv, HandsEmpty, TakeQueuedJob, AtLoop
    <3>2. ASSUME NEW j \in Jobs PROVE Copies(j)' = Copies(j)
      <4>1. Cardinality(InHand(j)') = Cardinality(InHand(j)) + (IF j = Head(q) THEN 1 ELSE 0)
        BY <1>5, <3>1, HandTakes DEF Inv, TakeQueuedJob
      <4>2. Cardinality(InQueue(j)') = Cardinality(InQueue(j)) - (IF j = Head(q) THEN 1 ELSE 0)
        BY <1>5, QueueTakes DEF Inv, TakeQueuedJob
      <4>3. InCall(j)' = InCall(j) /\ priorityJob' = priorityJob /\ ran' = ran
        BY <1>5 DEF InCall, TakeQueuedJob
      <4> QED
        BY <4>1, <4>2, <4>3, PlacesFinite DEF Inv, Copies
    <3> QED
      BY <1>5, <3>2, CopiesKept DEF JInv, TakeQueuedJob
  <2> QED
    BY <2>1, <2>2, <2>3 DEF JInv
<1>6. ASSUME NEW w \in Workers, StartJob(w) PROVE JInv'
  <2>1. SlotOwned'
    BY <1>6, JobsNotNone DEF Inv, TypeOK, JInv, SlotOwned, Assigning, Jobs, StartJob
  <2>2. AssignedTracked'
    BY <1>6, JobsNotNone
    DEF Inv, TypeOK, OneAssigner, FInv, HandsEmpty, JInv, SlotOwned, AssignedTracked,
       InHand, StartJob
  <2>3. CopiesRight'
    <3>1. ASSUME NEW j \in Jobs PROVE Copies(j)' = Copies(j)
      BY <1>6, CopiesSame DEF Inv, TypeOK, InHand, InQueue, InCall, StartJob
    <3> QED
      BY <1>6, <3>1, CopiesKept DEF JInv, StartJob
  <2> QED
    BY <2>1, <2>2, <2>3 DEF JInv
<1>7. ASSUME NEW w \in Workers, EndJob(w) PROVE JInv'
  <2>1. SlotOwned'
    BY <1>7, JobsNotNone DEF Inv, TypeOK, JInv, SlotOwned, Assigning, Jobs, EndJob
  <2>2. AssignedTracked'
    BY <1>7, JobsNotNone
    DEF Inv, TypeOK, OneAssigner, FInv, HandsEmpty, JInv, SlotOwned, AssignedTracked,
       InHand, EndJob
  <2>3. CopiesRight'
    <3>1. job[w] \in Jobs /\ job[w] \notin ran
      BY <1>7, HeldOnce DEF Inv, TypeOK, JobsHeld, JInv, EndJob
    <3>2. ASSUME NEW j \in Jobs PROVE Copies(j)' = Copies(j)
      <4>1. Cardinality(InHand(j)') = Cardinality(InHand(j)) - (IF j = job[w] THEN 1 ELSE 0)
        BY <1>7, HandDrops DEF Inv, EndJob
      <4>2. InQueue(j)' = InQueue(j) /\ InCall(j)' = InCall(j) /\ priorityJob' = priorityJob
        BY <1>7 DEF InQueue, InCall, EndJob
      <4>3. j \in ran' <=> j \in ran \/ j = job[w]
        BY <1>7 DEF EndJob
      <4> QED
        BY <3>1, <4>1, <4>2, <4>3, PlacesFinite DEF Inv, Copies
    <3> QED
      BY <1>7, <3>2, CopiesKept DEF JInv, EndJob
  <2> QED
    BY <2>1, <2>2, <2>3 DEF JInv
<1>8. ASSUME NEW w \in Workers, Report(w) PROVE JInv'
  <2>1. SlotOwned'
    BY <1>8, JobsNotNone DEF Inv, TypeOK, JInv, SlotOwned, Assigning, Jobs, Report
  <2>2. AssignedTracked'
    BY <1>8, JobsNotNone
    DEF Inv, TypeOK, OneAssigner, FInv, HandsEmpty, JInv, SlotOwned, AssignedTracked,
       InHand, Report
  <2>3. CopiesRight'
    <3>1. ASSUME NEW j \in Jobs PROVE Copies(j)' = Copies(j)
      BY <1>8, CopiesSame DEF Inv, TypeOK, InHand, InQueue, InCall, Report
    <3> QED
      BY <1>8, <3>1, CopiesKept DEF JInv, Report
  <2> QED
    BY <2>1, <2>2, <2>3 DEF JInv
<1>9. ASSUME NEW c \in Clients, CallAssign(c) PROVE JInv'
  <2>1. SlotOwned'
    BY <1>9, JobsNotNone
    DEF Inv, TypeOK, JInv, SlotOwned, Assigning, Jobs, CallAssign, CallWithJob
  <2>2. AssignedTracked'
    BY <1>9, JobsNotNone
    DEF Inv, TypeOK, OneAssigner, FInv, HandsEmpty, JInv, SlotOwned, AssignedTracked,
       InHand, CallAssign, CallWithJob
  <2>3. CopiesRight'
    <3>1. nextJob \in Jobs /\ nextJob' = nextJob + 1 /\ done' = done
      BY <1>9, MaxJobsNat DEF Inv, TypeOK, Jobs, CallAssign, CallWithJob
    <3>2. ASSUME NEW j \in Jobs
          PROVE  Copies(j)' = Copies(j) + (IF j = nextJob THEN 1 ELSE 0)
      <4>1. Cardinality(InCall(j)') = Cardinality(InCall(j)) + (IF j = nextJob THEN 1 ELSE 0)
        BY <1>9, <3>1, CallGets DEF Inv, CallAssign, CallWithJob
      <4>2. InHand(j)' = InHand(j) /\ InQueue(j)' = InQueue(j) /\ UNCHANGED <<priorityJob, ran>>
        BY <1>9 DEF InHand, InQueue, CallAssign, CallWithJob
      <4> QED
        BY <4>1, <4>2, PlacesFinite DEF Inv, Copies
    <3> QED
      BY <3>1, <3>2, CopiesAdded DEF Inv, JInv
  <2> QED
    BY <2>1, <2>2, <2>3 DEF JInv
<1>10. ASSUME NEW c \in Clients, CallTryAssign(c) PROVE JInv'
  <2>1. SlotOwned'
    BY <1>10, JobsNotNone
    DEF Inv, TypeOK, JInv, SlotOwned, Assigning, Jobs, CallTryAssign, CallWithJob
  <2>2. AssignedTracked'
    BY <1>10, JobsNotNone
    DEF Inv, TypeOK, OneAssigner, FInv, HandsEmpty, JInv, SlotOwned, AssignedTracked,
       InHand, CallTryAssign, CallWithJob
  <2>3. CopiesRight'
    <3>1. nextJob \in Jobs /\ nextJob' = nextJob + 1 /\ done' = done
      BY <1>10, MaxJobsNat DEF Inv, TypeOK, Jobs, CallTryAssign, CallWithJob
    <3>2. ASSUME NEW j \in Jobs
          PROVE  Copies(j)' = Copies(j) + (IF j = nextJob THEN 1 ELSE 0)
      <4>1. Cardinality(InCall(j)') = Cardinality(InCall(j)) + (IF j = nextJob THEN 1 ELSE 0)
        BY <1>10, <3>1, CallGets DEF Inv, CallTryAssign, CallWithJob
      <4>2. InHand(j)' = InHand(j) /\ InQueue(j)' = InQueue(j) /\ UNCHANGED <<priorityJob, ran>>
        BY <1>10 DEF InHand, InQueue, CallTryAssign, CallWithJob
      <4> QED
        BY <4>1, <4>2, PlacesFinite DEF Inv, Copies
    <3> QED
      BY <3>1, <3>2, CopiesAdded DEF Inv, JInv
  <2> QED
    BY <2>1, <2>2, <2>3 DEF JInv
<1>11. ASSUME NEW c \in Clients, CallAppend(c) PROVE JInv'
  <2>1. SlotOwned'
    BY <1>11, JobsNotNone
    DEF Inv, TypeOK, JInv, SlotOwned, Assigning, Jobs, CallAppend, CallWithJob
  <2>2. AssignedTracked'
    BY <1>11, JobsNotNone
    DEF Inv, TypeOK, OneAssigner, FInv, HandsEmpty, JInv, SlotOwned, AssignedTracked,
       InHand, CallAppend, CallWithJob
  <2>3. CopiesRight'
    <3>1. nextJob \in Jobs /\ nextJob' = nextJob + 1 /\ done' = done
      BY <1>11, MaxJobsNat DEF Inv, TypeOK, Jobs, CallAppend, CallWithJob
    <3>2. ASSUME NEW j \in Jobs
          PROVE  Copies(j)' = Copies(j) + (IF j = nextJob THEN 1 ELSE 0)
      <4>1. Cardinality(InCall(j)') = Cardinality(InCall(j)) + (IF j = nextJob THEN 1 ELSE 0)
        BY <1>11, <3>1, CallGets DEF Inv, CallAppend, CallWithJob
      <4>2. InHand(j)' = InHand(j) /\ InQueue(j)' = InQueue(j) /\ UNCHANGED <<priorityJob, ran>>
        BY <1>11 DEF InHand, InQueue, CallAppend, CallWithJob
      <4> QED
        BY <4>1, <4>2, PlacesFinite DEF Inv, Copies
    <3> QED
      BY <3>1, <3>2, CopiesAdded DEF Inv, JInv
  <2> QED
    BY <2>1, <2>2, <2>3 DEF JInv
<1>12. ASSUME NEW c \in Clients, CallShutdown(c) PROVE JInv'
  <2>1. SlotOwned'
    BY <1>12, JobsNotNone DEF Inv, TypeOK, JInv, SlotOwned, Assigning, Jobs, CallShutdown
  <2>2. AssignedTracked'
    BY <1>12, JobsNotNone
    DEF Inv, TypeOK, OneAssigner, FInv, HandsEmpty, JInv, SlotOwned, AssignedTracked,
       InHand, CallShutdown
  <2>3. CopiesRight'
    <3>1. ASSUME NEW j \in Jobs PROVE Copies(j)' = Copies(j)
      BY <1>12, CopiesSame DEF Inv, TypeOK, InHand, InQueue, InCall, CallShutdown
    <3> QED
      BY <1>12, <3>1, CopiesKept DEF JInv, CallShutdown
  <2> QED
    BY <2>1, <2>2, <2>3 DEF JInv
<1>13. ASSUME NEW c \in Clients, NEW op, CallWait(c, op) PROVE JInv'
  <2>1. SlotOwned'
    BY <1>13, JobsNotNone DEF Inv, TypeOK, JInv, SlotOwned, Assigning, Jobs, CallWait
  <2>2. AssignedTracked'
    BY <1>13, JobsNotNone
    DEF Inv, TypeOK, OneAssigner, FInv, HandsEmpty, JInv, SlotOwned, AssignedTracked,
       InHand, CallWait
  <2>3. CopiesRight'
    <3>1. ASSUME NEW j \in Jobs PROVE Copies(j)' = Copies(j)
      BY <1>13, CopiesSame DEF Inv, TypeOK, InHand, InQueue, InCall, CallWait
    <3> QED
      BY <1>13, <3>1, CopiesKept DEF JInv, CallWait
  <2> QED
    BY <2>1, <2>2, <2>3 DEF JInv
<1>14. ASSUME NEW c \in Clients, Assign(c) PROVE JInv'
  <2>1. SlotOwned'
    BY <1>14, JobsNotNone DEF Inv, TypeOK, JInv, SlotOwned, Assigning, Jobs, Assign
  <2>2. AssignedTracked'
    BY <1>14, JobsNotNone
    DEF Inv, TypeOK, OneAssigner, FInv, HandsEmpty, JInv, SlotOwned, AssignedTracked,
       InHand, Assign
  <2>3. CopiesRight'
    <3>1. priorityJob = None
      BY <1>14 DEF JInv, SlotOwned, OneAssigner, Assign
    <3>2. arg[c] \in Jobs
      BY <1>14 DEF Inv, TypeOK, JInv, SlotOwned, Assign
    <3>3. ASSUME NEW j \in Jobs PROVE Copies(j)' = Copies(j)
      <4>1. Cardinality(InCall(j)') = Cardinality(InCall(j)) - (IF j = arg[c] THEN 1 ELSE 0)
        BY <1>14, CallGives DEF Inv, Assign
      <4>2. InHand(j)' = InHand(j) /\ InQueue(j)' = InQueue(j) /\ ran' = ran
        BY <1>14 DEF InHand, InQueue, Assign
      <4>3. priorityJob # j /\ (priorityJob' = j <=> j = arg[c])
        BY <1>14, <3>1, JobsNotNone DEF Assign
      <4> QED
        BY <4>1, <4>2, <4>3, PlacesFinite DEF Inv, Copies
    <3> QED
      BY <1>14, <3>3, CopiesKept DEF JInv, Assign
  <2> QED
    BY <2>1, <2>2, <2>3 DEF JInv
<1>15. ASSUME NEW c \in Clients, AssignResumes(c) PROVE JInv'
  <2>1. SlotOwned'
    BY <1>15, JobsNotNone
    DEF Inv, TypeOK, JInv, SlotOwned, Assigning, Jobs, AssignResumes, SlotTaken
  <2>2. AssignedTracked'
    BY <1>15, JobsNotNone
    DEF Inv, TypeOK, OneAssigner, FInv, HandsEmpty, JInv, SlotOwned, AssignedTracked,
       InHand, AssignResumes, SlotTaken
  <2>3. CopiesRight'
    <3>1. ASSUME NEW j \in Jobs PROVE Copies(j)' = Copies(j)
      BY <1>15, CopiesSame
      DEF Inv, TypeOK, InHand, InQueue, InCall, AssignResumes, SlotTaken
    <3> QED
      BY <1>15, <3>1, CopiesKept DEF JInv, AssignResumes, SlotTaken
  <2> QED
    BY <2>1, <2>2, <2>3 DEF JInv
<1>16. ASSUME NEW c \in Clients, AssignWaitsAgain(c) PROVE JInv'
  <2>1. SlotOwned'
    BY <1>16, JobsNotNone
    DEF Inv, TypeOK, JInv, SlotOwned, Assigning, Jobs, AssignWaitsAgain, SlotTaken
  <2>2. AssignedTracked'
    BY <1>16, JobsNotNone
    DEF Inv, TypeOK, OneAssigner, FInv, HandsEmpty, JInv, SlotOwned, AssignedTracked,
       InHand, AssignWaitsAgain, SlotTaken
  <2>3. CopiesRight'
    <3>1. ASSUME NEW j \in Jobs PROVE Copies(j)' = Copies(j)
      BY <1>16, CopiesSame
      DEF Inv, TypeOK, InHand, InQueue, InCall, AssignWaitsAgain, SlotTaken
    <3> QED
      BY <1>16, <3>1, CopiesKept DEF JInv, AssignWaitsAgain, SlotTaken
  <2> QED
    BY <2>1, <2>2, <2>3 DEF JInv
<1>17. ASSUME NEW c \in Clients, Enqueue(c) PROVE JInv'
  <2>1. SlotOwned'
    BY <1>17, JobsNotNone DEF Inv, TypeOK, JInv, SlotOwned, Assigning, Jobs, Enqueue
  <2>2. AssignedTracked'
    BY <1>17, JobsNotNone
    DEF Inv, TypeOK, OneAssigner, FInv, HandsEmpty, JInv, SlotOwned, AssignedTracked,
       InHand, Enqueue
  <2>3. CopiesRight'
    <3>1. arg[c] \in Jobs
      BY <1>17 DEF Inv, TypeOK, JobsHeld, Enqueue
    <3>2. ASSUME NEW j \in Jobs PROVE Copies(j)' = Copies(j)
      <4>1. Cardinality(InCall(j)') = Cardinality(InCall(j)) - (IF j = arg[c] THEN 1 ELSE 0)
        BY <1>17, CallGives DEF Inv, Enqueue
      <4>2. Cardinality(InQueue(j)') = Cardinality(InQueue(j)) + (IF j = arg[c] THEN 1 ELSE 0)
        BY <1>17, <3>1, QueueGets DEF Inv, Enqueue
      <4>3. InHand(j)' = InHand(j) /\ priorityJob' = priorityJob /\ ran' = ran
        BY <1>17 DEF InHand, Enqueue
      <4> QED
        BY <4>1, <4>2, <4>3, PlacesFinite DEF Inv, Copies
    <3> QED
      BY <1>17, <3>2, CopiesKept DEF JInv, Enqueue
  <2> QED
    BY <2>1, <2>2, <2>3 DEF JInv
<1>18. ASSUME NEW c \in Clients, NotifyPool(c) PROVE JInv'
  <2>1. SlotOwned'
    BY <1>18, JobsNotNone DEF Inv, TypeOK, JInv, SlotOwned, Assigning, Jobs, NotifyPool
  <2>2. AssignedTracked'
    BY <1>18, JobsNotNone
    DEF Inv, TypeOK, OneAssigner, FInv, HandsEmpty, JInv, SlotOwned, AssignedTracked,
       InHand, NotifyPool
  <2>3. CopiesRight'
    <3>1. ASSUME NEW j \in Jobs PROVE Copies(j)' = Copies(j)
      BY <1>18, CopiesSame DEF Inv, TypeOK, InHand, InQueue, InCall, NotifyPool
    <3> QED
      BY <1>18, <3>1, CopiesKept DEF JInv, NotifyPool
  <2> QED
    BY <2>1, <2>2, <2>3 DEF JInv
<1>19. ASSUME NEW c \in Clients, WaitBlocks(c) PROVE JInv'
  <2>1. SlotOwned'
    BY <1>19, JobsNotNone DEF Inv, TypeOK, JInv, SlotOwned, Assigning, Jobs, WaitBlocks
  <2>2. AssignedTracked'
    BY <1>19, JobsNotNone
    DEF Inv, TypeOK, OneAssigner, FInv, HandsEmpty, JInv, SlotOwned, AssignedTracked,
       InHand, WaitBlocks
  <2>3. CopiesRight'
    <3>1. ASSUME NEW j \in Jobs PROVE Copies(j)' = Copies(j)
      BY <1>19, CopiesSame DEF Inv, TypeOK, InHand, InQueue, InCall, WaitBlocks
    <3> QED
      BY <1>19, <3>1, CopiesKept DEF JInv, WaitBlocks
  <2> QED
    BY <2>1, <2>2, <2>3 DEF JInv
<1>20. ASSUME NEW c \in Clients, WaitReturns(c) PROVE JInv'
  <2>1. SlotOwned'
    BY <1>20, JobsNotNone DEF Inv, TypeOK, JInv, SlotOwned, Assigning, Jobs, WaitReturns
  <2>2. AssignedTracked'
    BY <1>20, JobsNotNone
    DEF Inv, TypeOK, OneAssigner, FInv, HandsEmpty, JInv, SlotOwned, AssignedTracked,
       InHand, WaitReturns
  <2>3. CopiesRight'
    <3>1. ASSUME NEW j \in Jobs PROVE Copies(j)' = Copies(j)
      BY <1>20, CopiesSame DEF Inv, TypeOK, InHand, InQueue, InCall, WaitReturns
    <3> QED
      BY <1>20, <3>1, CopiesKept DEF JInv, WaitReturns
  <2> QED
    BY <2>1, <2>2, <2>3 DEF JInv
<1>21. ASSUME NEW c \in Clients, ClientTakesSignal(c) PROVE JInv'
  <2>1. SlotOwned'
    BY <1>21, JobsNotNone
    DEF Inv, TypeOK, JInv, SlotOwned, Assigning, Jobs, ClientTakesSignal
  <2>2. AssignedTracked'
    BY <1>21, JobsNotNone
    DEF Inv, TypeOK, OneAssigner, FInv, HandsEmpty, JInv, SlotOwned, AssignedTracked,
       InHand, ClientTakesSignal
  <2>3. CopiesRight'
    <3>1. ASSUME NEW j \in Jobs PROVE Copies(j)' = Copies(j)
      BY <1>21, CopiesSame DEF Inv, TypeOK, InHand, InQueue, InCall, ClientTakesSignal
    <3> QED
      BY <1>21, <3>1, CopiesKept DEF JInv, ClientTakesSignal
  <2> QED
    BY <2>1, <2>2, <2>3 DEF JInv
<1>22. ASSUME NEW c \in Clients, SetDone(c) PROVE JInv'
  <2>1. SlotOwned'
    BY <1>22, JobsNotNone DEF Inv, TypeOK, JInv, SlotOwned, Assigning, Jobs, SetDone
  <2>2. AssignedTracked'
    BY <1>22, JobsNotNone
    DEF Inv, TypeOK, OneAssigner, FInv, HandsEmpty, JInv, SlotOwned, AssignedTracked,
       InHand, SetDone
  <2>3. CopiesRight'
    <3>1. ASSUME NEW j \in Jobs PROVE Copies(j)' = Copies(j)
      BY <1>22, CopiesSame DEF Inv, TypeOK, InHand, InQueue, InCall, SetDone
    <3> QED
      BY <1>22, <3>1, CopiesKept DEF JInv, SetDone
  <2> QED
    BY <2>1, <2>2, <2>3 DEF JInv
<1>23. ASSUME NEW c \in Clients, ClearQueue(c) PROVE JInv'
  <2>1. SlotOwned'
    BY <1>23, JobsNotNone DEF Inv, TypeOK, JInv, SlotOwned, Assigning, Jobs, ClearQueue
  <2>2. AssignedTracked'
    BY <1>23, JobsNotNone
    DEF Inv, TypeOK, OneAssigner, FInv, HandsEmpty, JInv, SlotOwned, AssignedTracked,
       InHand, ClearQueue
  <2>3. CopiesRight'
    <3>1. done /\ done' = done /\ nextJob' = nextJob
      BY <1>23 DEF FInv, Stopping, ClearQueue
    <3>2. ASSUME NEW j \in Jobs
          PROVE  Copies(j) \in Nat /\ Copies(j)' \in Nat /\ Copies(j)' <= Copies(j)
      <4>1. InHand(j)' = InHand(j) /\ InCall(j)' = InCall(j) /\ UNCHANGED <<priorityJob, ran>>
        BY <1>23 DEF InHand, InCall, ClearQueue
      <4>2. InQueue(j)' = {}
        BY <1>23 DEF InQueue, ClearQueue
      <4>3. Cardinality(InQueue(j)') = 0
        BY <4>2, FS_EmptySet
      <4> QED
        BY <4>1, <4>3, PlacesFinite DEF Inv, Copies
    <3>3. nextJob \in Nat /\ Jobs \subseteq Nat
      BY MaxJobsNat, JobsNotNone DEF Inv, TypeOK
    <3> SUFFICES ASSUME NEW j \in Jobs
                 PROVE  IF j < nextJob THEN Copies(j)' = 1 \/ Copies(j)' = 0
                                       ELSE Copies(j)' = 0
      BY <3>1 DEF CopiesRight
    <3>4. IF j < nextJob THEN Copies(j) = 1 \/ Copies(j) = 0 ELSE Copies(j) = 0
      BY DEF JInv, CopiesRight
    <3> QED
      BY <3>2, <3>3, <3>4
  <2> QED
    BY <2>1, <2>2, <2>3 DEF JInv
<1>24. ASSUME NEW c \in Clients, Broadcast(c) PROVE JInv'
  <2>1. SlotOwned'
    BY <1>24, JobsNotNone DEF Inv, TypeOK, JInv, SlotOwned, Assigning, Jobs, Broadcast
  <2>2. AssignedTracked'
    BY <1>24, JobsNotNone
    DEF Inv, TypeOK, OneAssigner, FInv, HandsEmpty, JInv, SlotOwned, AssignedTracked,
       InHand, Broadcast
  <2>3. CopiesRight'
    <3>1. ASSUME NEW j \in Jobs PROVE Copies(j)' = Copies(j)
      BY <1>24, CopiesSame DEF Inv, TypeOK, InHand, InQueue, InCall, Broadcast
    <3> QED
      BY <1>24, <3>1, CopiesKept DEF JInv, Broadcast
  <2> QED
    BY <2>1, <2>2, <2>3 DEF JInv
<1>25. ASSUME NEW c \in Clients, Join(c) PROVE JInv'
  <2>1. SlotOwned'
    BY <1>25, JobsNotNone DEF Inv, TypeOK, JInv, SlotOwned, Assigning, Jobs, Join
  <2>2. AssignedTracked'
    BY <1>25, JobsNotNone
    DEF Inv, TypeOK, OneAssigner, FInv, HandsEmpty, JInv, SlotOwned, AssignedTracked,
       InHand, Join
  <2>3. CopiesRight'
    <3>1. ASSUME NEW j \in Jobs PROVE Copies(j)' = Copies(j)
      BY <1>25, CopiesSame DEF Inv, TypeOK, InHand, InQueue, InCall, Join
    <3> QED
      BY <1>25, <3>1, CopiesKept DEF JInv, Join
  <2> QED
    BY <2>1, <2>2, <2>3 DEF JInv
<1>26. CASE UNCHANGED vars
  BY <1>26
  DEF vars, JInv, SlotOwned, AssignedTracked, CopiesRight, Copies, InHand, InQueue,
     InCall
<1> QED
  BY <1>1, <1>2, <1>3, <1>4, <1>5, <1>6, <1>7, <1>8, <1>9, <1>10, <1>11, <1>12, <1>13,
     <1>14, <1>15, <1>16, <1>17, <1>18, <1>19, <1>20, <1>21, <1>22, <1>23, <1>24, <1>25,
     <1>26
  DEF Next, WorkerStep, ClientCalls, ClientStep

\* In a new pool no job is anywhere.
LEMMA InitJInv == Init => JInv
<1> SUFFICES ASSUME Init PROVE JInv
  OBVIOUS
<1>1. ASSUME NEW j \in Jobs PROVE Copies(j) = 0 /\ ~(j < nextJob)
  <2>1. InHand(j) = {} /\ InQueue(j) = {} /\ InCall(j) = {}
    BY JobsNotNone DEF Init, InHand, InQueue, InCall
  <2>2. priorityJob # j /\ j \notin ran /\ ~(j < nextJob)
    BY JobsNotNone DEF Init, Jobs
  <2> QED
    BY <2>1, <2>2, FS_EmptySet DEF Copies
<1> QED
  BY <1>1 DEF Init, JInv, SlotOwned, AssignedTracked, CopiesRight

\* With one assigner the invariants of jobs hold with them.
LEMMA JobsInvariance == OneAssigner => (Spec => [](Inv /\ FInv /\ JInv))
<1> SUFFICES ASSUME OneAssigner PROVE Spec => [](Inv /\ FInv /\ JInv)
  OBVIOUS
<1>1. Inv /\ FInv /\ JInv /\ [Next]_vars => (Inv /\ FInv /\ JInv)'
  BY NextInv, NextFInv, NextJInv
<1>2. Init => Inv /\ FInv /\ JInv
  BY InitInv, InitFInv, InitJInv
<1>3. QED
  BY <1>1, <1>2, PTL DEF Spec

\* When one client assigns, however many others append, wait and shut down, no
\* job is lost and none is run twice: each that is made is in one place, and
\* only shutdown drops jobs, those in its queue.
THEOREM JobsCorrect == OneAssigner => (Spec => []JobsKept)
<1> SUFFICES ASSUME OneAssigner PROVE Spec => []JobsKept
  OBVIOUS
<1>1. Inv /\ JInv => JobsKept
  <2> SUFFICES ASSUME Inv, JInv, NEW j \in Made PROVE Copies(j) = 1 \/ (done /\ Copies(j) = 0)
    BY DEF JobsKept
  <2>1. j \in Jobs /\ j < nextJob
    BY MaxJobsNat DEF Inv, TypeOK, Made, Jobs
  <2> QED
    BY <2>1 DEF JInv, CopiesRight
<1>2. QED
  BY <1>1, JobsInvariance, PTL

\* When one client assigns, assign returns with its job in the hands of a worker
\* or run, as its comment says: the slot it finds empty was emptied for it.
THEOREM AssignCorrect == OneAssigner => (Spec => AssignedJobIsTaken)
<1> SUFFICES ASSUME OneAssigner PROVE Spec => AssignedJobIsTaken
  OBVIOUS
<1> DEFINE Taken(c) == cpc[c] = "assignWoken" /\ cpc'[c] = "idle" =>
                           arg[c] \in ran \/ InHand(arg[c]) # {}
<1>1. Inv /\ JInv /\ [Next]_vars => [\A c \in Clients : Taken(c)]_vars
  <2> SUFFICES ASSUME Inv, JInv, Next, NEW c \in Clients,
                      cpc[c] = "assignWoken", cpc'[c] = "idle"
               PROVE  arg[c] \in ran \/ InHand(arg[c]) # {}
    OBVIOUS
  <2>1. AssignResumes(c)
    BY DEF Inv, TypeOK, Next, WorkerStep, ClientCalls, ClientStep, worker, client, conds,
       pool, hist, WGoto, CGoto, WorkerStops, WorkerSleeps, WorkerTakesSignal,
       TakePriorityJob, TakeQueuedJob, StartJob, EndJob, Report, CallAssign,
       CallTryAssign, CallAppend, CallShutdown, CallWait, CallWithJob, Assign,
       AssignResumes, AssignWaitsAgain, Enqueue, NotifyPool, WaitBlocks, WaitReturns,
       ClientTakesSignal, SetDone, ClearQueue, Broadcast, Join
  <2> QED
    BY <2>1 DEF JInv, SlotOwned, AssignedTracked, AssignResumes, SlotTaken
<1>2. QED
  BY <1>1, JobsInvariance, PTL DEF Spec, AssignedJobIsTaken
=============================================================================
