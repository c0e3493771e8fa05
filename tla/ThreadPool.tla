----------------------------- MODULE ThreadPool -----------------------------
(***************************************************************************)
(* tango.core.ThreadPool: worker threads that take jobs from a queue or    *)
(* from a one-place slot for priority jobs, over a Mutex and two           *)
(* Conditions.                                                             *)
(*                                                                         *)
(* What is done between m.lock() and m.unlock() or a wait is one action;   *)
(* what is done outside the mutex (the checks of pool.length and           *)
(* active_jobs, the counting of active jobs, the setting of done, the      *)
(* notifications of append and shutdown) is a step of its own.             *)
(*                                                                         *)
(* A job is a number, given out in the order in which clients make them.   *)
(* job.dg runs when the worker leaves "running"; what it does, and whether *)
(* it throws, is invisible to the pool.                                    *)
(***************************************************************************)
EXTENDS Integers, FiniteSets, Sequences, Monitor

CONSTANTS Workers,   \* the threads of pool
          Clients,   \* the threads that call the pool
          Ops,       \* the methods each of them calls
          MaxJobs,   \* bound on the jobs they make
          None       \* no job, no client

ASSUME WorkersFinite == IsFiniteSet(Workers) /\ Workers # {}
ASSUME ClientsFinite == IsFiniteSet(Clients) /\ None \notin Clients
ASSUME OpsKnown ==
    Ops \in [Clients ->
        SUBSET {"assign", "tryAssign", "append", "wait", "shutdown", "finish"}]
ASSUME MaxJobsNat == MaxJobs \in Nat /\ None \notin 1..MaxJobs

Jobs == 1..MaxJobs

VARIABLES
    wpc, job,           \* each worker: where it is in doJob, its local job
    cpc, arg,           \* each client: where it is in its call, its job
    finishing,          \* its call is finish
    q, priorityJob,     \* q, priority_job
    poolActivity, workerActivity,
    done, activeJobs, poolLength,
    nextJob, ran,       \* history: the next job to make, the jobs completed
    stopper, due        \* history: the client that called shutdown or finish;
                        \* the jobs the pool had when finish was called

worker == <<wpc, job>>
client == <<cpc, arg, finishing>>
conds  == <<poolActivity, workerActivity>>
pool   == <<q, priorityJob, done, activeJobs, poolLength>>
hist   == <<nextJob, ran, stopper, due>>
vars   == <<worker, client, conds, pool, hist>>

WGoto(w, l) == wpc' = [wpc EXCEPT ![w] = l]
CGoto(c, l) == cpc' = [cpc EXCEPT ![c] = l]

\* The places a job can be in: a worker's hands, the queue (the slot, the
\* call that has not handed it over yet: see Copies).
InHand(j)  == {w \in Workers : job[w] = j}
InQueue(j) == {i \in 1..Len(q) : q[i] = j}

\* The constructor has returned: pool.length workers are started.
Init ==
    /\ wpc = [w \in Workers |-> "loop"]
    /\ job = [w \in Workers |-> None]
    /\ cpc = [c \in Clients |-> "idle"]
    /\ arg = [c \in Clients |-> None]
    /\ finishing = [c \in Clients |-> FALSE]
    /\ q = <<>>
    /\ priorityJob = None
    /\ poolActivity = NoWaiters
    /\ workerActivity = NoWaiters
    /\ done = FALSE
    /\ activeJobs = 0
    /\ poolLength = Cardinality(Workers)
    /\ nextJob = 1
    /\ ran = {}
    /\ stopper = None
    /\ due = {}

-----------------------------------------------------------------------------
(* doJob *)

AtLoop(w) == wpc[w] \in {"loop", "poolWoken"}

\* done is seen, at the top of the loop or under the mutex.
WorkerStops(w) ==
    /\ AtLoop(w)
    /\ done
    /\ WGoto(w, "exiting")
    /\ UNCHANGED <<job, client, conds, pool, hist>>

WorkerSleeps(w) ==
    /\ AtLoop(w)
    /\ ~done /\ q = <<>> /\ priorityJob = None
    /\ GateOpen(poolActivity)
    /\ poolActivity' = Waits(poolActivity, w)
    /\ WGoto(w, "poolWait")
    /\ UNCHANGED <<job, client, workerActivity, pool, hist>>

WorkerTakesSignal(w) ==
    /\ wpc[w] = "poolWait"
    /\ CanTake(poolActivity, w)
    /\ poolActivity' = Takes(poolActivity, w)
    /\ WGoto(w, "poolWoken")
    /\ UNCHANGED <<job, client, workerActivity, pool, hist>>

\* Definitions named X_Mistake are X with a mistake one could make in it; no
\* specification uses them, they show that the properties notice it.
SlotAfterTake_Kept == priorityJob

SlotAfterTake == None

TakePriorityJob(w) ==
    /\ AtLoop(w)
    /\ ~done /\ priorityJob # None
    /\ job' = [job EXCEPT ![w] = priorityJob]
    /\ priorityJob' = SlotAfterTake
    /\ workerActivity' = Notifies(workerActivity)
    /\ WGoto(w, "taken")
    /\ UNCHANGED <<client, poolActivity, q, done, activeJobs, poolLength, hist>>

\* The source is compiled with version = Queued (line 19): first in, first out.
TakeQueuedJob(w) ==
    /\ AtLoop(w)
    /\ ~done /\ priorityJob = None /\ q # <<>>
    /\ job' = [job EXCEPT ![w] = Head(q)]
    /\ q' = Tail(q)
    /\ WGoto(w, "taken")
    /\ UNCHANGED <<client, conds, priorityJob, done, activeJobs, poolLength, hist>>

\* The mutex is already released when the job is counted as active.
StartJob(w) ==
    /\ wpc[w] = "taken"
    /\ activeJobs' = activeJobs + 1
    /\ WGoto(w, "running")
    /\ UNCHANGED <<job, client, conds, q, priorityJob, done, poolLength, hist>>

ActiveAfterEnd == activeJobs - 1

EndJob(w) ==
    /\ wpc[w] = "running"
    /\ ran' = ran \cup {job[w]}
    /\ job' = [job EXCEPT ![w] = None]
    /\ activeJobs' = ActiveAfterEnd
    /\ WGoto(w, "reporting")
    /\ UNCHANGED <<client, conds, q, priorityJob, done, poolLength, nextJob, stopper, due>>

ReportTo == Notifies(workerActivity)

\* workerActivity.notify() after a job, and once more before the thread ends.
Report(w) ==
    /\ wpc[w] \in {"reporting", "exiting"}
    /\ workerActivity' = ReportTo
    /\ WGoto(w, IF wpc[w] = "exiting" THEN "dead" ELSE "loop")
    /\ UNCHANGED <<job, client, poolActivity, pool, hist>>

-----------------------------------------------------------------------------
(* assign and tryAssign *)

\* A client makes its next job and calls a method with it.
CallWithJob(c, op, l) ==
    /\ op \in Ops[c]
    /\ cpc[c] = "idle"
    /\ nextJob <= MaxJobs
    /\ arg' = [arg EXCEPT ![c] = nextJob]
    /\ nextJob' = nextJob + 1
    /\ CGoto(c, l)
    /\ UNCHANGED <<worker, finishing, conds, pool, ran, stopper, due>>

\* The check for an empty pool; with one, assign throws.
CallAssign(c) ==
    /\ poolLength > 0
    /\ CallWithJob(c, "assign", "assign")

\* The check made without the mutex; if it fails tryAssign returns false.
\* assign, which it calls next, looks at the length of the pool (line 104):
\* it finds it zero only if a shutdown has ended in between, and throws as if
\* tryAssign had not been called; without that shutdown this check implies it.
CallTryAssign(c) ==
    /\ activeJobs < poolLength
    /\ CallWithJob(c, "tryAssign", "assign")

AlertOne_Nobody == poolActivity

\* poolActivity.notify(), of assign and of append.
AlertOne == Notifies(poolActivity)

\* The job is put in the slot, whatever is in it, and the client waits.
Assign(c) ==
    /\ cpc[c] = "assign"
    /\ GateOpen(workerActivity)
    /\ priorityJob' = arg[c]
    /\ poolActivity' = AlertOne
    /\ workerActivity' = Waits(workerActivity, c)
    /\ CGoto(c, "assignWait")
    /\ UNCHANGED <<worker, arg, finishing, q, done, activeJobs, poolLength, hist>>

SlotTaken_Assumed == TRUE

SlotTaken == priorityJob = None

AssignResumes(c) ==
    /\ cpc[c] = "assignWoken"
    /\ SlotTaken
    /\ arg' = [arg EXCEPT ![c] = None]
    /\ CGoto(c, "idle")
    /\ UNCHANGED <<worker, finishing, conds, pool, hist>>

AssignWaitsAgain(c) ==
    /\ cpc[c] = "assignWoken"
    /\ ~SlotTaken
    /\ GateOpen(workerActivity)
    /\ workerActivity' = Waits(workerActivity, c)
    /\ CGoto(c, "assignWait")
    /\ UNCHANGED <<worker, arg, finishing, poolActivity, pool, hist>>

(* append *)

CallAppend(c) ==
    /\ poolLength > 0
    /\ CallWithJob(c, "append", "append")

Enqueue(c) ==
    /\ cpc[c] = "append"
    /\ q' = Append(q, arg[c])
    /\ arg' = [arg EXCEPT ![c] = None]
    /\ CGoto(c, "appended")
    /\ UNCHANGED <<worker, finishing, conds, priorityJob, done, activeJobs,
                   poolLength, hist>>

\* poolActivity.notify() after the mutex is released.
NotifyPool(c) ==
    /\ cpc[c] = "appended"
    /\ poolActivity' = AlertOne
    /\ CGoto(c, "idle")
    /\ UNCHANGED <<worker, arg, finishing, workerActivity, pool, hist>>

(* wait, shutdown and finish *)

\* finish() is wait() followed by shutdown().  Clients call neither once the
\* pool is being shut down: nobody is left to work for them.
CallWait(c, op) ==
    /\ op \in Ops[c] \cap {"wait", "finish"}
    /\ cpc[c] = "idle"
    /\ stopper = None
    /\ IF op = "finish"
       THEN stopper' = c /\ due' = {j \in Jobs : InHand(j) # {} \/ InQueue(j) # {}}
       ELSE UNCHANGED <<stopper, due>>
    /\ finishing' = [finishing EXCEPT ![c] = op = "finish"]
    /\ CGoto(c, "wait")
    /\ UNCHANGED <<worker, arg, conds, pool, nextJob, ran>>

Busy_IgnoresQueue == activeJobs > 0

Busy == q # <<>> \/ activeJobs > 0

WaitBlocks(c) ==
    /\ cpc[c] \in {"wait", "waitWoken"}
    /\ Busy
    /\ GateOpen(workerActivity)
    /\ workerActivity' = Waits(workerActivity, c)
    /\ CGoto(c, "waitWait")
    /\ UNCHANGED <<worker, arg, finishing, poolActivity, pool, hist>>

WaitReturns(c) ==
    /\ cpc[c] \in {"wait", "waitWoken"}
    /\ ~Busy
    /\ CGoto(c, IF finishing[c] THEN "shutdown" ELSE "idle")
    /\ UNCHANGED <<worker, arg, finishing, conds, pool, hist>>

ClientTakesSignal(c) ==
    /\ cpc[c] \in {"assignWait", "waitWait"}
    /\ CanTake(workerActivity, c)
    /\ workerActivity' = Takes(workerActivity, c)
    /\ CGoto(c, IF cpc[c] = "assignWait" THEN "assignWoken" ELSE "waitWoken")
    /\ UNCHANGED <<worker, arg, finishing, poolActivity, pool, hist>>

\* A pool is shut down once.
CallShutdown(c) ==
    /\ "shutdown" \in Ops[c]
    /\ cpc[c] = "idle"
    /\ stopper = None
    /\ stopper' = c
    /\ CGoto(c, "shutdown")
    /\ UNCHANGED <<worker, arg, finishing, conds, pool, nextJob, ran, due>>

SetDone(c) ==
    /\ cpc[c] = "shutdown"
    /\ done' = TRUE
    /\ CGoto(c, "clear")
    /\ UNCHANGED <<worker, arg, finishing, conds, q, priorityJob, activeJobs,
                   poolLength, hist>>

ClearQueue(c) ==
    /\ cpc[c] = "clear"
    /\ q' = <<>>
    /\ CGoto(c, "broadcast")
    /\ UNCHANGED <<worker, arg, finishing, conds, priorityJob, done, activeJobs,
                   poolLength, hist>>

AlertAll_One == Notifies(poolActivity)

AlertAll == NotifiesAll(poolActivity)

Broadcast(c) ==
    /\ cpc[c] = "broadcast"
    /\ poolActivity' = AlertAll
    /\ CGoto(c, "join")
    /\ UNCHANGED <<worker, arg, finishing, workerActivity, pool, hist>>

Join(c) ==
    /\ cpc[c] = "join"
    /\ \A w \in Workers : wpc[w] = "dead"
    /\ poolLength' = 0
    /\ CGoto(c, "idle")
    /\ UNCHANGED <<worker, arg, finishing, conds, q, priorityJob, done, activeJobs,
                   hist>>

-----------------------------------------------------------------------------
WorkerStep(w) ==
    \/ WorkerStops(w) \/ WorkerSleeps(w) \/ WorkerTakesSignal(w)
    \/ TakePriorityJob(w) \/ TakeQueuedJob(w)
    \/ StartJob(w) \/ EndJob(w) \/ Report(w)

ClientCalls(c) ==
    \/ CallAssign(c) \/ CallTryAssign(c) \/ CallAppend(c) \/ CallShutdown(c)
    \/ \E op \in {"wait", "finish"} : CallWait(c, op)

ClientStep(c) ==
    \/ Assign(c) \/ AssignResumes(c) \/ AssignWaitsAgain(c)
    \/ Enqueue(c) \/ NotifyPool(c)
    \/ WaitBlocks(c) \/ WaitReturns(c) \/ ClientTakesSignal(c)
    \/ SetDone(c) \/ ClearQueue(c) \/ Broadcast(c) \/ Join(c)

Next ==
    \/ \E w \in Workers : WorkerStep(w)
    \/ \E c \in Clients : ClientCalls(c) \/ ClientStep(c)

Spec == Init /\ [][Next]_vars

\* Runnable threads run and get m when they wait for it; jobs end.
Fairness ==
    /\ \A w \in Workers : WF_vars(WorkerStep(w)) /\ SF_vars(WorkerTakesSignal(w))
    /\ \A c \in Clients : WF_vars(ClientStep(c)) /\ SF_vars(ClientTakesSignal(c))

FairSpec == Spec /\ Fairness

-----------------------------------------------------------------------------
\* Every variable has its type.
TypeOK ==
    /\ wpc \in [Workers -> {"loop", "poolWait", "poolWoken", "taken", "running",
                            "reporting", "exiting", "dead"}]
    /\ job \in [Workers -> Jobs \cup {None}]
    /\ cpc \in [Clients -> {"idle", "assign", "assignWait", "assignWoken", "append",
                            "appended", "wait", "waitWait", "waitWoken", "shutdown",
                            "clear", "broadcast", "join"}]
    /\ arg \in [Clients -> Jobs \cup {None}]
    /\ finishing \in [Clients -> BOOLEAN]
    /\ q \in Seq(Jobs)
    /\ priorityJob \in Jobs \cup {None}
    /\ poolActivity.waiting = {w \in Workers : wpc[w] = "poolWait"}
    /\ IsCondition(poolActivity, Workers)
    /\ workerActivity.waiting = {c \in Clients : cpc[c] \in {"assignWait", "waitWait"}}
    /\ IsCondition(workerActivity, Clients)
    /\ done \in BOOLEAN
    /\ activeJobs \in 0..Cardinality(Workers)
    /\ poolLength \in {0, Cardinality(Workers)}
    /\ nextJob \in 1..(MaxJobs + 1)
    /\ ran \subseteq Jobs
    /\ stopper \in Clients \cup {None}
    /\ due \subseteq Jobs

Made == 1..(nextJob - 1)

InCall(j)   == {c \in Clients : arg[c] = j /\ cpc[c] \in {"assign", "append"}}
Copies(j)   == Cardinality(InHand(j)) + Cardinality(InQueue(j)) + Cardinality(InCall(j))
               + (IF priorityJob = j THEN 1 ELSE 0) + (IF j \in ran THEN 1 ELSE 0)

\* No job is lost and none is run twice, whichever of the slot and the queue
\* it goes through and whichever worker takes it; only shutdown drops jobs.
JobsKept == \A j \in Made : Copies(j) = 1 \/ (done /\ Copies(j) = 0)

\* Work never waits for workers that all sleep: append notifies after it has
\* released the mutex, and a worker that finds work needs no signal.
WorkersAlerted ==
    (q # <<>> \/ priorityJob # None) /\ ~done =>
        \/ \E w \in Workers : wpc[w] # "poolWait"
        \/ poolActivity.signals > 0
        \/ \E c \in Clients : cpc[c] = "appended"

\* "finish all jobs currently executing or in queue" (ThreadPool.d:52): when
\* finish returns every job that a worker had or that was in the queue when it
\* was called has run.
FinishRunsAll ==
    \A c \in Clients : finishing[c] /\ poolLength = 0 => due \subseteq ran

\* "Assign the given job to a thread immediately or block until one is
\* available" (ThreadPool.d:99-100): when assign returns a worker has the job.
AssignedJobIsTaken ==
    [][\A c \in Clients : cpc[c] = "assignWoken" /\ cpc'[c] = "idle" =>
            arg[c] \in ran \/ InHand(arg[c]) # {}]_vars

\* Blocked calls of assign, tryAssign and wait return: of all notifications one
\* reaches each of them.
AssignEnds == \A c \in Clients : cpc[c] = "assignWait" ~> cpc[c] = "idle"
WaitEnds   == \A c \in Clients : cpc[c] = "waitWait" ~> cpc[c] \in {"idle", "shutdown"}

\* A job in the queue is run, unless the pool is shut down.
QueuedJobRuns == \A j \in Jobs : InQueue(j) # {} ~> j \in ran \/ done

\* shutdown ends: no worker sleeps through it, not even one that looks at
\* done just before it is set.
ShutdownEnds == \A c \in Clients : cpc[c] = "join" ~> cpc[c] = "idle"

\* Every call that blocks returns (the loops and notifications of ThreadPool.d:
\* 109-186 and 233-285).
CallsReturn == AssignEnds /\ WaitEnds /\ ShutdownEnds
=============================================================================
