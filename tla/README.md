# Verification of the synchronization core of Rulada English

Rulada English is a collection of D 1 libraries for Win32 under `src/dev/`: the runtime
`rt`, Tango, Mango, Phobos (`std`), dcollections, a port of SWT/JFace (`dwt`, `dwtx`),
game, GUI, mesh and script libraries, and C bindings. Most of it is sequential library
code, or declarations. Its own hard core is the code by which threads wait for each other
and the runtime under compiled code: critical sections, monitors, weak pointers,
exceptions. This directory holds TLA+ models of that core, the TLC configurations that
check them and TLAPS proofs about them.

    tlc -workers 2 -config Sync.cfg MCSync
    tlapm Sync_proofs.tla

## Inventory

| component | state it keeps | operations | interacts with | correct means |
|---|---|---|---|---|
| `rt/core/sync/condition.d` (Win32) | gate semaphore `m_blockLock`, queue semaphore `m_blockQueue`, critical section `m_unblockLock`, `m_numWaitersGone`, `m_numWaitersBlocked`, `m_numWaitersToUnblock` | `wait`, `wait(period)`, `notify`, `notifyAll` | releases and reacquires the associated `Mutex`; called by the three below and by user code | each signal releases exactly one thread that waited when it was issued; none is lost or outlives its group; the gate opens again; a wait ends |
| `rt/core/sync/rwmutex.d` | four counters, two Conditions, `m_policy` | `lock`, `tryLock`, `unlock` of `Reader` and `Writer` | one Mutex, two Conditions | exclusion, policy, no lost wakeup, no starvation of the preferred class |
| `rt/core/sync/barrier.d` | `m_group`, `m_count` | `wait` | one Mutex, one Condition | groups of exactly `m_limit`; nobody left behind in a complete group |
| `tango/core/ThreadPool.d` | queue `q`, slot `priority_job`, `active_jobs`, `done`, `pool` | `assign`, `tryAssign`, `append`, `wait`, `shutdown`, `finish`, and the workers' `doJob` | one Mutex, two Conditions, worker threads, jobs | no job lost or run twice; calls return; `wait` waits for all jobs |
| `rt/core/sync/{mutex,semaphore,atomic}.d` | an OS object each | one OS call or instruction each | all of the above | (OS) |
| `rt/critical.c` | list of critical sections | `_d_criticalenter`, `_d_criticalexit`, `_STI_critical_init`, `_STD_critical_term` | compiled `synchronized` statements, program start and end | exclusion; a section is initialized once, before anybody enters it, and released at the end |
| `rt/monitor.c`, `rt/object.d` | `Object.monitor` with its dispose events | `_d_monitorenter`, `_d_monitorexit`, `rt_attachDisposeEvent`, `rt_detachDisposeEvent` | `synchronized` statements and methods, `delete`, the collector | one monitor per object; exclusion; an event is called once, on something that exists |
| `rt/deh.c` | table index of each frame, OS list of handlers | `_d_throw`, `_d_framehandler`, `_d_local_unwind`, `_d_monitor_handler` | compiled code, the OS | the innermost handler of the class catches; finally blocks run once, inside out; monitors are left |
| `rt/core/thread.d` | thread lists, fiber stacks | `start`, `join`, `suspendAll`, `resumeAll`, `Fiber.call`/`yield` | rt, gc | no thread missed while the world is stopped |
| `rt/gc` | `gcLock`, weak pointers; pools, free lists, mark bits | `weakpointerCreate`, `Destroy`, `Get`; `malloc`, `free`, `fullCollect` | monitors, `rt_finalize`, thread suspension | a weak pointer is null when its object is gone; no reachable block freed |
| `mango/mango/locks` | CAS-built wait queue of nodes with a status | `ReentrantLock`, `ReadWriteLock`, `Semaphore`, `Countdown`, `CyclicBarrier`, `Exchanger` | `rt.core.sync` | exclusion, no lost unpark, cancellation |
| `mango/mango/cache` | hash map plus LRU list | `put`, `get`, `extract` | payloads with free lists | map and list agree, bound kept, least recently used goes first |
| `mango/mango/cluster` | queues and caches (`ChannelCache`) on servers, client channels | `put`, `get`, multicast alerts | network | delivery, cache invalidation |
| `dwtx` job manager, operation history | queues of jobs; undo and redo lists | schedule, undo, redo | UI thread, listeners | order and exclusion of jobs |
| everything else (`std`, `dcollections`, `dwt`, `derelict`, `win32`, ...) | | | | sequential, generated, vendored or bindings |

What is hard here: a woken thread runs long after the step that woke it, and the state
has changed; one Condition serves waiters of several kinds, or of several generations;
state is read or changed outside the mutex; a time-out races a notification; counters
have to account for threads that are asleep. `PROJECT.json` lists every such hazard at
its line with the property that watches it.

## Modules

* `Monitor` is what a Condition promises, as operators on the record `[waiting,
  signals]`: who is inside `wait` and not released, and how many signals are
  outstanding. `Waits` is the part of `wait` up to blocking, `Takes` the taking of a
  permit; while signals are outstanding nobody can be counted (`GateOpen`), because the
  code holds `m_blockLock` from a `notify` to the departure of the last released waiter.
* `Condition` is the Win32 code of condition.d itself (Terekhov's algorithm 8c), one
  action for each use of a semaphore or of the mutex, or passage through
  `m_unblockLock`. `ConditionSpec` is a state machine over `Monitor`; `Condition`
  refines it with `cond.waiting` the threads between `++m_numWaitersBlocked` and their
  passage through `m_unblockLock`, `cond.signals` the counter `m_numWaitersToUnblock`,
  and `phase` what the call will return.
* `ReadWriteMutex` models rwmutex.d over `Monitor`. The class does everything inside
  `synchronized(m_commonMutex)`, so a call is one action up to its first wait and one
  for each return from `wait`. `readWait` is a thread inside `wait`, `readWoken` one
  that has a signal and does not have the mutex yet; the counters are those of the code,
  changed where the code changes them. `tryLock` that fails changes nothing and is no
  action. `RWLock` is the class comment: who holds, who queues, what the policy lets
  through.
* `Barrier` models barrier.d; `BarrierSpec` is the abstract barrier (sets of arrived and
  of released threads; only all `m_limit` arrivals together become released). Its
  definitions are named `BInit`, `BNext`, ... and its threads `Travellers`, so that one
  module of proofs can extend it and `ReadWriteMutex`.
* `ThreadPool` models ThreadPool.d: workers (`wpc`), clients (`cpc`), and as separate
  steps what the code does outside `m`: the counting of active jobs, `done`, the
  notification of `append` and of `shutdown`, the test in `tryAssign`. A job is a
  number; `job.dg` runs in the worker's state `running`.
* `Critical` models critical.c, Win32 and Posix (`posix`), one action per access to the
  shared list or to a lock: the unlocked first test, the lock of the list, the second
  test, lines 39, 40 and 41, and the section itself. `cs` says whether a section is raw,
  ready or deleted. A thread that enters a raw section hangs on Win32 (zeroed
  structure), or locks the static zero mutex on Posix (`raw` records it). On Posix that
  mutex is then initialized while it is held, which is undefined; the model takes what
  the common implementation does: the mutex becomes free and no sleeper is woken, so any
  of those asleep in it (`Asleep`) hang.
* `WeakPointer` composes monitor.c, the monitor functions of object.d, the weak pointers
  of gcx.d and the part of lifetime.d that deletes or finalizes an object, for one
  object. `monitor`, `devt` and `gcOwner` are the fields they share; `then` is where a
  thread goes on after `_d_monitorenter`. The array of events grows by `Grow` slots (4
  in the code). Who takes `gcLock` is decided at run time, and not by one test: the weak
  pointers lock when either Thread class has started threads, `gc_free` and `fullCollect`
  only when both have. `unlocked` says that only one has; `Collect` then still holds the
  lock (it stands for a collection on behalf of `malloc`, which always locks), while
  `FullCollect` and the `gc_free` of a delete do without.
* `Unwind` models deh.c. A function is its table of guarded sections; the stack is a
  sequence of frames with the table index compiled code keeps up to date (Win32) or the
  return address it is worked out from (Posix). `search` and `unwind` are the two passes
  of Win32, `walk` the one of Posix; each turn of a loop is an action.
* `CyclicBarrier` models mango's CyclicBarrier.d over a ReentrantLock and its Condition:
  a call is one action up to `trip.wait()` and one for the return, as every method holds
  the lock throughout. `CyclicBarrierSpec` is the barrier of its comments: threads are
  held until `parties` of them wait and pass together, one failure fails everyone
  inside, a reset restores the initial state. The code does not implement it
  (`cyclic_documented`); `StepsAsDocumented` says that it does as long as `count` is the
  number of parties missing.
* `LockQueue` models the wait queue of LockImpl.d under a non-fair ReentrantLock and its
  Condition, one action per access to a shared field that another thread can tell from
  the next: the compare-and-set of `tail` and the store to `next`, the reading of `head`
  and of its status, the search for a successor, `Thread.resume`. A thread at `pause`
  has made its last test and is not suspended yet. What may be read in several steps and
  only ever becomes true (`isOnSyncQueue`, the tests of the first in the queue) is one.
* `QueuedCache` has the operations of QueuedCache.d as operators on a record, pointer by
  pointer; `ChannelCache` is the state machine of ClusterCache.d over it, with the free
  list of its payloads; `LRUCache` is the abstract cache, a sequence of keys. Nothing in
  the code locks the cache or the free list, so `put` is two steps (look the key up;
  change the cache), and so are the taking of a payload from the free list and the
  return of one (read `freelist`; set it). `Locked` says which of the two somebody
  serializes: none as the code stands. What single pointer writes of two unserialized
  list operations could do to each other is not modelled.
* `MC*` give the constants their model values; `MCSync` puts `ReadWriteMutex` and `Barrier`
  side by side, one behaviour being about one of them. `*_proofs` hold the theorems:
  `Sync_proofs` those of `ReadWriteMutex` and `Barrier`, the others those of one module.

`Barrier`, `ReadWriteMutex` and `ThreadPool` rely on `Monitor`; the runs of `Condition`
show that the real code keeps that promise when nobody uses time-outs, and these three
classes use none. A definition `X_Mistake` is `X` with a bug one could write; nothing
uses it but the runs that show each property can fail.

## Runs

| run | instance | what it shows |
|---|---|---|
| `sync` | 4 threads of a ReadWriteMutex, both policies, fair | `Exclusion`; the counters count (`Accounting`); nobody asleep whom nothing keeps out (`NoLostWakeup`); the last writer alerts every reader; refinement of `RWLock`; `PreferredProgress`: a queued reader (readers preferred) always enters, queued writers (writers preferred) as a class always progress |
| | 5 threads at a Barrier, groups of 3, numbers modulo 4, fair | one `notifyAll` per group reaches exactly its sleepers although 2 threads already form the next group (`NoneLeftBehind`); refinement of `BarrierSpec`; everyone released leaves (`ReleasedLeaves`) |
| `condition` | 3 waiters without time-outs and 2 notifiers (one is both), or 1 waiter with time-outs and the 2 notifiers, `GoneLimit` 3, fair | `GateSound` (the gate is a lock and opens again), `WaitersCounted`, `PermitsSound` (no permit is lost or outlives its group, and `wait` returns true only when notified), refinement of `ConditionSpec`, `notifyAll` releases all it covers; a time-out that loses against a notification leaves a permit and the last waiter takes it back |
| `pool` | 2 workers, 3 jobs, one client calling everything, one appending, fair | every job is in exactly one place, workers never all sleep beside work, `finish` runs what it found, `assign` returns after its job is taken; `assign`, `wait` and `shutdown` return (`CallsReturn`); queued jobs run |
| `critical` | 3 threads, 2 sections, one of them entered twice by its owner, both platforms, fair | a section excludes (`Exclusive`) unless it was entered raw, which happens only between lines 39 and 41 of another thread (`RawOnlyWhileLinking`); termination deletes every section once (`TermReleasesAll`); who enters gets in |
| `weak_pointer` | 2 threads, 3 weak pointers, 2 monitors, array growing by 2, with and without `unlocked`, fair | exclusion whoever creates the monitor (`MonitorExcludes`); no event lost (`EventsKept`); a collection that holds `gcLock` calls no event of a freed pointer, unless one was detached from a full array, and lets nobody get the object (`LockedCollectionSafe`); calls end unless the two locks are taken in opposite orders (`CallsEnd`, `Embrace`) |
| `unwind` | 2 functions (three nested sections; two consecutive ones), 2 classes and a structured exception, stack of 3, both platforms, fair | `CaughtByInnermost`: the innermost handler of the class catches; `FinallyOnce`: finally blocks inside it run once and in order; `StackSound`: every monitor passed is left; a throw ends |
| `cyclic` | 4 threads, groups of 3, generations -4..1 | who is to leave has been notified and nobody else, arrival indices are distinct (`CallsSound`); `count` never forgets a held thread (`HeldAreCounted`); while it counts right, every step is one of `CyclicBarrierSpec` (`StepsAsDocumented`) |
| `lock_queue` | 3 threads, two of them with 2 calls and 2 holds | `QueueSound`: from `tail`, `prev` reaches every queued node and `head`, and `next` leads back but for a link somebody is about to set; `ResumeOwed`: with the lock free, someone is on the way to the sleeper in front, or was there before it slept |
| `cache` | 4 keys, 3 entries, 2 threads, 4 payloads, symmetric, cache and free list serialized | list and key map agree (`StructureSound`); payloads are reused and never shared (`PayloadsSound`); refinement of `LRUCache` |
| the three below | | disagreements of the code with its comments |

Three runs end with a counterexample; they are the `findings` of `PROJECT.json`:

* `condition_gate_stays_closed`: two waiters with time-outs. One times out while a
  signal is outstanding and clears its local `numSignalsLeft`; its decrement then ends
  the group with nobody blocked, and none of the places that open the gate is reached.
  The next wait blocks on `m_blockLock`, with the associated mutex held, for ever.
* `weak_pointer_delete_races_destroy`: `weakpointerDestroy` waits for the object's
  monitor with `gcLock` held while a `delete` of the object, inside that monitor, takes
  the list of events. It then finds nothing to detach, frees the weak pointer, and the
  `delete` calls `ondestroy` of the freed memory.
* `cyclic_documented`: `count` is lowered by every call and restored only by a trip.
  After a breakage and a reset the barrier, though "in its initial state" by its comment
  (CyclicBarrier.d:339), trips before all parties have come; when refused calls take
  `count` below 1 it never trips.

### Further configurations

Each of these also ends with a counterexample and shows a disagreement of the code with
its comments that the properties of the runs above exclude by name. They are small
instances of the same modules (`tlc -config WeakPointer_full_array.cfg MCWeakPointer`).

| configuration | property violated | what happens |
|---|---|---|
| `WeakPointer_unlocked_collect` | `GetSafe` | `fullCollect` does without `gcLock` when only one of the two Thread classes has started threads (gcx.d:1336), while `weakpointerGet`, whose test is another (line 1540), locks. The object is found unreachable, and before its event is called a thread gets it from the weak pointer; then it is freed, against the comment of lines 1600-1603. |
| `WeakPointer_full_array` | `EventsRefer` | Four events in an array of four: detaching one shifts the others down and leaves the last one there twice (object.d:1627). When the object ends it is called twice, the second time for a reference that is null already, against the assertion of `ondestroy` (gcx.d:1552). After another attach and destroy it is the event of a freed weak pointer. |
| `CyclicBarrier_number_waiting` | `NumberWaiting` | A call that times out, or is refused, stays counted: `getNumberWaiting` reports a thread that has left (CyclicBarrier.d:369). |
| `CyclicBarrier_timed_call` | `TimedCallEnds` | The lines that would block a timed call are commented out (195-196): one with time left loops for ever with the lock held. |
| `LockQueue_lost_resume` | `LockReturns` | `Thread.pause` suspends the caller at once and `Thread.resume` keeps nothing for a thread that is not suspended. A release between the last test and the pause (LockImpl.d:678-682) is lost, and the thread sleeps beside a free lock. |
| `LockQueue_lost_notify` | `NotifiedWaitReturns` | The same in `wait` (lines 1545-1550): a notify, and the release after it, between `isOnSyncQueue` and the pause. Every blocking class of mango.locks stands on this. |
| `ChannelCache_freelist_race` | `CreatedApart` | Two clients read `freelist` before either sets it (ClusterCache.d:453-456) and hold the same payload. |
| `ChannelCache_unsynchronized` | `OneEntryPerKey` | Two threads that put one key both miss it and both add an entry, of which the map finds one; QueuedCache.d:112 promises one entry for a key. |

Seen while modelling, without a run:

* condition.d with two or more timed waiters: a permit left in `m_blockQueue` can be
  taken by a thread that begins to wait later, and its `wait` returns true though nobody
  notified it. The assertion at line 300 compares the nonzero result of
  `ReleaseSemaphore` with zero and can never hold, so in a build with assertions the
  settling of gone waiters ends in an `AssertException` (`Settle` is the build without
  them).
* ThreadPool.d: two callers of `assign` share the slot, and the second job replaces the
  first (line 112). A worker takes a job under the mutex and counts it after releasing
  it, so `wait` in between returns early (line 270). `workerActivity.notify()` wakes one
  of two threads in `wait`, and nobody wakes the other (line 278). A worker that sees
  `done` leaves the slot alone, and the loop of `assign` does not look at `done`: that
  caller stays blocked (line 115). Therefore in `pool` one client
  assigns, waits and stops the pool, and the other one only appends. `tryAssign` may
  block (lines 120-125), because a worker that has taken a job is not counted yet;
  `append` "acts as a stack" (line 134) while the module is compiled with
  `version = Queued` (line 19).
* QueuedCache.extract returns a payload which its own `set (null, null)` has destroyed
  (lines 166-168), so `ChannelCache.extract` answers null for a key that was there. A
  payload got from the cache may be destroyed, or reused for another key, before
  `getData` reads it. `PlainCache.extract` compares `timeLimit` with the time of the
  QueuedEntry, which nobody sets, so newer entries are extracted too.
  It reads that time, and ChannelCache its payload, through an object reference cast to
  an interface by way of `void*`, which is undefined in D: the model lets `extract` do
  its work or nothing, and claims nothing of what `getData` returns.
* critical.c: whether a section can be entered raw depends on one thread running
  between lines 39 and 41 of another; `RawOnlyWhileLinking` is the extent of it.

Type invariants: `TypeOK` of `ReadWriteMutex`, `ThreadPool` and `Critical` and `BTypeOK`
of `Barrier` are theorems of their own and the base of the other proofs; that of the other
modules is a conjunct of the first invariant of their run.

### Bounds

Every class is symmetric in its threads and its state is a few counters, so small numbers
reach every branch. `sync`: 4 threads give two readers and two writers that queue, hold
and wake at once, so a `notify` has a choice of sleepers and a woken thread can be
overtaken by either class. With 5 threads in groups of 3 a full group is leaving while two
more arrive, and the group number wraps. `condition`: 3 waiters give
`m_numWaitersToUnblock` 1 and more, groups that grow while they are released, and two
notifications at once. `GoneLimit` stands for `int.max / 2` (a state with 2^30 time-outs
cannot be enumerated); 3 lets the settling branch fire. `MaxJobs` bounds the number of
jobs; with 3 the queue holds two jobs while one is in the slot or running. `critical`: two
threads race to link a section while the third links another, and `MaxNest` lets one
section be entered twice. `weak_pointer`: three weak pointers fill an array that grows by
two, so attaching meets a gap, a full array and a duplicate; two monitors tell a second
creation from the first; each thread is in one call, and a second object would share
nothing but `gcLock`. `unwind`: three frames are a thrower, a frame to be unwound and a
catcher, with a monitor in any of them; the two tables have nesting, two sections in a
row, a try-finally inside and outside a catch, and a catch with two classes. `cyclic`: 4
threads, so that one can come early or reset while a group leaves; the generations allow
one reset before or after one trip; `MinCount` -1 lets a refused call pass 0.
`lock_queue`: two threads can be queued, or wait, while the third holds the lock, so a
notifyAll transfers two nodes between locks that are queueing, and a header is installed
or met; a call has a fresh node, so calls bound the nodes. Two threads with three calls
are enough for the violations. `cache`: one key more than entries, so that reuse happens,
and one payload more; a thread that finds none waits for the other to return one.

`CHECK_DEADLOCK FALSE` appears in the runs of components that really stop: the pool after
a shutdown or when all jobs are made, the program after termination (`critical`), the
object when it is gone (`weak_pointer`), a thread whose exception nobody catches
(`unwind`), a barrier whose counters have reached their bounds (`cyclic`), threads that
have made their calls or were lost (`lock_queue`); in `cache` because all payloads can be
in use, which is a bound too.

### Fairness

Fairness stands for the OS scheduler and its locks, nothing else.

* Weak fairness of a thread's steps inside a call: a runnable thread runs, and the
  critical section behind a Mutex is handed to a thread that waits for it. It is
  attached to the disjunction of a thread's next steps, so a thread in the middle of a
  call does not stop. `ReadWriteMutex` also assumes that holders unlock; new calls are never
  assumed.
* Strong fairness in `Condition` of `Relock`, `TakePermit` and `PassGate`, and in
  `ThreadPool` of the taking of a signal: Win32 semaphores queue their waiters, so a
  thread blocked on one that is released again and again is released in the end.
* In the pool, jobs end (weak fairness of `EndJob`); in `critical` and `weak_pointer`
  the statements inside a lock end, and a lock that is free again and again is given to
  a thread that waits for it (strong fairness: Win32 critical sections).
* `unwind`: the handlers run to their end once an exception is thrown.
* `cyclic`, `lock_queue` and `cache` assume no fairness and claim no liveness: a lock of
  mango.locks may be lost to a thread that waits for it, as `LockQueue_lost_resume`
  shows. The weak fairness in `CyclicBarrier` and `LockQueue` serves the further
  configurations only, whose counterexamples are not due to a scheduler that stops.
* `Barrier` assumes in the guard `NotLapped` that no thread is delayed while 2^32 - 1
  groups pass; without it a uint group number is reused and the thread would wait again.

### Assumptions on callers

The class comment of `ReadWriteMutex` forbids recursive locking (rwmutex.d:43-50): a
thread locks only when it holds nothing. A waiter of a Condition holds its mutex once (the
Mutex is recursive, `wait` unlocks it once). A pool is shut down once, nobody calls `wait`
or `finish` during a shutdown, and a job does not shut down its own pool. Statements on
different critical sections are not nested (what order is safe is the program's matter),
and termination runs when no thread is inside one. A Posix program that does not use the
runtime's `main` enters its first section before it starts threads. A thread deletes an
object that no other thread refers to, and no two threads destroy one weak pointer.
Finally blocks do not throw, and the compiler lists the sections of a function outer ones
first, each with the one around it as `prev_index` (deh.c:50-56). The CyclicBarrier's
scheduler does not delay a thread for a whole generation (`NotOvertaken`) or four
(`NoStraggler`), as the comment in `reset` presumes. Somebody
serializes the calls of a cache, and of the free list of its payloads (`Locked`), as the
comment at CacheInvalidatee.d:57-58 asks; the code itself does not.

## Proofs

For every finite set of threads, proved by TLAPS from the named assumptions of the modules
(finiteness of the sets of threads, which `WeakPointer` and `ChannelCache` do not need;
for the barriers also a positive limit, for `Barrier` a modulus of at least 2 and for
`CyclicBarrier` bounds around the initial values; for `Unwind` tables of the kind
compilers make; for the cache a positive capacity) and from the facts on finite sets and
sequences of the TLAPS library.

* The proofs about the classes that own a Condition begin with lemmas on what the
  operators of `Monitor` do to its type and its numbers (`WaitsType`, `TakesType`,
  `NotifiesType`, `NotifiesAllType`) and on how a cardinality changes when one thread
  comes or goes (`Counting`).
* `Sync_proofs` on `ReadWriteMutex`: `TypeCorrect`, `CountersCorrect`, `ExclusionHolds`,
  `NobodyForgotten`, `LastWriterLeaves` and `Refinement`. The inductive invariant is
  `Inv == TypeOK /\ Accounting /\ Exclusion /\ NoLostWakeup`. `Exclusion` alone is not
  inductive, because the guards look at counters: `Accounting` says what these count,
  and the lemma `Guards` turns them into conditions on the sets of threads at each
  place. After that a step moves one thread between places (`Moves`) and each conjunct
  is a set-theoretic argument. The hard case is `WriterUnlock`: it alerts one queue
  only, and the proof is the case split on whom the policy prefers and whether anybody
  of that class queues.
* `Sync_proofs` on `Barrier`: `BTypeCorrect`, `CountCorrect`
  (`CountMatches`: the countdown is the number of threads missing), `NobodyLeftBehind` and
  `BRefinement`. The inductive invariant joins `BTypeOK`, `CountMatches` and
  `NoneLeftBehind`; the latter is needed because the last arrival notifies
  `cond.waiting`, which has to be the current group and nobody else.

* `Condition_proofs`: `GateExclusive` holds of any use, time-outs included: the gate
  `m_blockLock` is a lock, so that `m_numWaitersBlocked` is never changed by a thread past
  the gate and by one in `m_unblockLock` at once. The other theorems, `GateCorrect`
  (`GateSound`), `WaitersCorrect` (`WaitersCounted`), `PermitsCorrect` (`PermitsSound`)
  and `Refinement` of `ConditionSpec`, have the hypothesis `Untimed`: no thread calls
  `wait(period)`. It is what `ReadWriteMutex`, `Barrier` and `ThreadPool` satisfy, and it
  is needed: with two timed waiters the code breaks each of these properties (see the
  violation `condition_gate_stays_closed`). The inductive invariant says who accounts for
  the gate when it is closed (`GateAccounted`), that one permit, or one thread that will
  release one, is under way as long as there are signals (`PermitAccounted`), that nobody
  is ever gone (`NobodyGone`), that a thread that is closing the gate has somebody to
  close it for (`ClosingForSomebody`: otherwise it would close it for ever), and who has
  been told (`Told`). In the refinement counting oneself in is `Wait`, the departure past
  `m_unblockLock` is `Wake`, the reacquisition of the mutex is `Return`, adding to a group
  and closing the gate for a new one are `Notify` or `NotifyAll`; every other step is a
  stutter.

* `ThreadPool_proofs`: `TypeCorrect`, `NoJobForgotten` (`WorkersAlerted`) and
  `FinishCorrect` (`FinishRunsAll`), for any number of workers, clients and jobs and any
  use of the methods, two callers of `assign` or `wait` included. The inductive invariant
  adds to `TypeOK` and `WorkersAlerted` that `active_jobs` counts the workers in
  `running` (`ActiveCounted`; without it the counter could go below zero) and that a
  worker or client that handles a job has one (`JobsHeld`). For `FinishRunsAll` it adds
  `HandsEmpty`, `Stopping` (an empty pool was emptied by the one thread that stops it,
  and its workers are dead) and `DueKept` (a job that is due is queued, in a hand or
  run). `JobsCorrect` (`JobsKept`) and `AssignCorrect` (`AssignedJobIsTaken`) have the
  hypothesis `OneAssigner`: at most one thread calls `assign` and `tryAssign`. It is
  needed, because a second one overwrites the slot. Their invariant counts the copies of
  a job over all the places it can be in (`CopiesRight`), says whose the slot is
  (`SlotOwned`) and where the job of a thread in `assign` is (`AssignedTracked`). The
  queue is a sequence, so the lemma `QueueTakes` shows by a bijection of its indices that
  taking its head takes one copy of one job.

* `WeakPointer_proofs`: `MonitorCorrect` (`MonitorExcludes`), `EventsCorrect`
  (`EventsKept`) and `CollectionCorrect` (`LockedCollectionSafe`: about collections that
  hold `gcLock`, the code's others being unsafe), for any sets of threads, weak
  pointers and Monitor structs and any growth of the array. That a monitor is not freed
  under a thread in it is the hard one. A thread in a statement has the object, so
  nobody disposes of it; but one in `weakpointerDestroy` has not. It keeps `gcLock` from
  the test of the reference to the end (`GCHeld`), which keeps the calls of events out,
  and what it found tells that its event is still to be detached (`DetachPending`); a
  thread frees the monitor only when no event is left in the array (`ListsEmpty`) or in
  its own list, and so not while the other is inside. The invariant needs besides that
  one thread disposes of the object (`OneDisposer`), to whom a weak pointer in use
  belongs (`ArgOwned`) and which events are listed (`Fresh`, `SetListed`); and, for
  `LockedCollectionSafe`, that without a full array no event is listed twice (`Once` in
  `NotDangling`). The lemmas `AttachedList`, `RemovedList` and `CalledList` say what
  attaching, the `memmove` of detaching and calling do to the events of a list.

* `Critical_proofs`: `TypeCorrect`, `Exclusion`, `RaceWindow` and `TerminationCorrect`
  (`TermReleasesAll`), for any set of threads and sections, both platforms. The inductive
  invariant adds to the types: who holds the lock of the list is between locking and
  unlocking it (`GlobalHeld`); at most one thread is there (`OneSection`); what a phase of
  the program says of the list (`Phases`); what a thread has found out about its section
  on the way (`Entering`); a linked section is initialized or about to be (`Linked`); and
  `depth` counts the statements of the owner that are inside (`Counted`), without which
  leaving an inner statement would look like leaving the section. Termination deletes what
  it finds along the pointers. Instead of an induction along them, `ListInv` says that
  some sequence of distinct sections is the list (`Chain`): linking a section puts it in
  front, termination takes the first away, and each step is shown to do to the sequence
  what it does to the pointers.

* `CyclicBarrier_proofs`: `TypeCorrect`, `CallsCorrect` (`CallsSound`), `CountCorrect`
  (`HeldAreCounted`) and `Documented` (`StepsAsDocumented`), for any number of threads and
  parties and any bounds of the counters. The code keeps no set of the threads of a
  group: they compare generations. The lemmas `StaysEffect`, `ReleaseEffect` and
  `ResumeEffect` say what each step does to the set of the held threads; a trip, a break
  and a reset all empty it, a trip because nobody is of the generation to come
  (`NotOvertaken`) and a reset because nobody is four behind (`NoStraggler`). Both are
  assumptions on the scheduler, which the comment of `reset` states too. The inductive
  invariant adds that only a thread that loops keeps the lock (`LockHeld`: otherwise a
  release would not reach it) and that the held threads have the indices from `count`
  upwards (`IndexAbove`: otherwise the next index could be taken already). That `count`
  is right is no invariant of the code, so the refinement of `CyclicBarrierSpec` is false
  (`cyclic_documented`); `Documented` takes each step from a state in which it is right
  (`TrueCount`) and shows that it is a step of the specification, one lemma for each
  action (`TripRefines`, `ResetRefines`, ...).

* `Unwind_proofs`: `StackCorrect` (`StackSound`), `CatchCorrect` (`CaughtByInnermost`)
  and `FinallyCorrect` (`FinallyOnce`), for any functions, classes and depth of the
  stack, both platforms, from what deh.c needs of the compiler: that sections nest and
  `prev_index` leads to the next one outwards (`TableNested`). The properties
  speak of the set of all sections around the throw (`Guarding`), the code follows a
  chain of indices through each frame. The invariant ties the two by the cursor: what is
  inside it has been searched and does not catch (`Searched`), and its finally blocks
  are those that have run (`Behind`). `EnterSection` and `EnterFrame` show that a step
  outwards passes one section, or none. On Win32 the second pass starts over, so the
  invariant adds that the target is the innermost that catches (`Aimed`) and that the
  cursor does not go past it (`NotPast`): `JumpToCatch` then happens at the target and
  not at an outer section. For the monitors it is needed that the frames which are left
  are those of the throw (`CursorOn`), that a frame lands where it was, and that on Posix
  nothing is synchronized.

* `ChannelCache_proofs`: `CacheCorrect`, `StructureCorrect` (`StructureSound`) and
  `Refinement` of `LRUCache` have the hypothesis `"cache" \in Locked`; `InvCorrect` and
  `PayloadsCorrect` (`PayloadsSound`) have `{"cache", "freelist"} \subseteq Locked`.
  Neither is true of the code by itself, and the two configurations of `ChannelCache`
  above show that each is needed. Otherwise they hold for any capacity, keys, payloads and
  number of threads. What is reachable along pointers would need an induction; instead the
  invariant says that some sequence `s` of the entries and some number `m` are the list:
  the links are those of `s`, and entries that do not exist yet have none (`Order`); the
  map and the entries agree on the keys, and an entry has a key exactly if it has a
  payload (`Content`); the first `m` entries of `s` and no others have a key
  (`HeldFirst`). The last one makes the reuse of the tail right: if an entry is left that
  was extracted, it is at the tail and is taken before any key is dropped. The pointer
  operations become operations on `s`, one lemma each for unlinking, prepending and
  appending, null pointers included; `get`, `put` in its three cases and `extract` are
  shown to do to the keys in order what `LRUCache` does (`GetStep`, `PutStep`,
  `ExtractStep`). That following the links yields `s` (`ChainIs`) and the keys up to the
  first extracted entry those of `LRUCache` (`InOrderIs`) is shown once, by a least index
  at which two sequences would differ. `CacheInv` is the invariant so far. For
  `PayloadsSound` `Inv` adds (`Shared`) where payloads are (`Places`) and that a thread
  that is about to put one has filled it with its key's content (`Contents`); the lemma
  `Exchange` is the step common to `put` and `extract`: an entry gets another payload or
  none, and the one it had is destroyed.

Only model-checked: everything temporal under fairness (starvation, `notifyAll`, the
calls that return), which is out of the prover's reach, and `LockQueue`, for which
`QueueSound` and `ResumeOwed` are still to be proved. Every other invariant, action
property and refinement that a passing run checks is also a theorem, with the hypotheses
named above; the Condition with time-outs has only `GateExclusive`, and the instance of
one timed waiter in `condition` is checked.

## Not modelled, and why

* The Posix branches of condition.d are wrappers of `pthread_cond_*`; failures of OS
  calls raise exceptions from states the code does not repair.
* `mutex.d`, `semaphore.d`, `atomic.d`: an OS call or an instruction per method.
* `rt.core.thread`: start, suspension and fibers are assembler or functions of the
  runtime DLL whose source is not in the tree.
* The job manager of `dwtx.core.internal.jobs` is unfinished: `Semaphore.acquire`,
  `OrderedLock.acquire(long)` and the interrupt of a worker call `implMissing()`, which
  exits the process (dwt/dwthelper/utils.d:36-40).
* C and C++ files: apart from critical.c, monitor.c and deh.c the tree has OpenGL headers
  (`gtkD/wrap/cHeaders/GL`, some 14000 lines of declarations), netlib's `dtoa.c` in
  `mango/convert` (3369 lines of third-party floating point conversion; its unguarded
  free list is noted here only), programs that print structure sizes, and bindings. They
  hold no protocol of this program, so the models cover a small share of the lines in
  those languages; the program itself is written in D.
* The mark and sweep part of `rt/gc`: a sequential algorithm over raw memory. The Posix
  half of monitor.c publishes a monitor before it is initialized (line 213), but
  does not link with the monitor functions of object.d. In deh.c the file with
  `_local_except_handler`, for finally blocks that throw, is not in the tree.
* The HashMap under the caches is a function: its own locks are one per segment and a
  cache operation needs several of its calls anyway.
* Widget toolkits, bindings, script engines, containers, text and numeric code:
  sequential, or owned by others.
* Exceptions of jobs: the worker catches and drops them, so they are invisible to the
  pool. `Barrier(0)` is excluded by the contract of its constructor.

## Plan

Done: `Monitor`, `ReadWriteMutex`, `Barrier`, `Condition`, `ThreadPool`, `Critical`,
`WeakPointer`, `Unwind`, `CyclicBarrier`, `QueuedCache` with `ChannelCache`, and proofs
for all of them; `LockQueue` model-checked.

1. The rest of LockImpl.d: timed calls and cancellation, the fair kind, shared mode; an
   inductive invariant of `LockQueue`. Then Semaphore, Countdown, ReadWriteLock; Exchanger.
2. `mango.cluster`: queues and cache invalidation over a network that loses messages.
3. The operation history of `dwtx.core.commands.operations` (limit, approvers,
   composites).
