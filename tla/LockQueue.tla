----------------------------- MODULE LockQueue -----------------------------
(***************************************************************************)
(* mango.locks: the wait queue of AbstractLock (LockImpl.d) under a        *)
(* ReentrantLock of the default, non-fair kind, with one Condition.        *)
(*                                                                         *)
(* The queue is a list of nodes spliced in at tail with a compare-and-set; *)
(* the head node is a dummy or the node of the last thread that came       *)
(* through the queue.  A thread blocks with Thread.pause, which suspends   *)
(* it, and is woken with Thread.resume, which leaves nothing behind for a  *)
(* thread that is not suspended (std/thread.d:395-408).                    *)
(*                                                                         *)
(* A step is what lies between two accesses that other threads can tell    *)
(* apart.  owner and state change together: the others can only find that  *)
(* they are not the owner.  Timed calls, tryLock, the fair kind, shared    *)
(* mode and cancellation (which needs one of those, or an exception) are   *)
(* left out; threads do not end.                                           *)
(***************************************************************************)
EXTENDS Integers, Sequences, SequencesExt, FiniteSets

CONSTANTS Threads,
          MaxCalls,        \* bound: calls of lock and wait by each thread
          MaxHolds,        \* bound: how often each thread may hold the lock
          Dummy,           \* the header node that enq makes
          None

\* Every call of lock or wait has a node of its own, if it comes to need one.
Nodes == UNION {{t} \X (1..MaxCalls[t]) : t \in Threads}
SIGNAL == -1                               \* LockImpl.d:314-317
CONDITION == -2

VARIABLES state, owner,                    \* of AbstractLock and Sync
          head, tail,
          prev, next, waitStatus, thread,  \* the fields of each node
          waiters,         \* firstWaiter to lastWaiter
          pc,
          calls,           \* calls made; numbers the node of the last one
          saved,           \* savedState of a thread in wait, else 0
          moving,          \* the nodes a notifier has still to transfer
          ref, seen,       \* a thread's local node (or thread) and status
          called           \* ghost: threads resumed between the test that
                           \* sends them to pause and the pause

lock  == <<state, owner>>
links == <<head, tail, prev, next, thread>>
local == <<calls, saved, moving, ref, seen>>
vars  == <<lock, links, waitStatus, waiters, pc, local, called>>

Init ==
    /\ state = 0 /\ owner = None
    /\ head = None /\ tail = None
    /\ prev = [n \in Nodes \cup {Dummy} |-> None]
    /\ next = [n \in Nodes \cup {Dummy} |-> None]
    /\ thread = [n \in Nodes \cup {Dummy} |-> None]
    /\ waitStatus = [n \in Nodes \cup {Dummy} |-> 0]
    /\ waiters = <<>>
    /\ pc = [t \in Threads |-> "out"]
    /\ calls = [t \in Threads |-> 0]
    /\ saved = [t \in Threads |-> 0]
    /\ moving = [t \in Threads |-> <<>>]
    /\ ref = [t \in Threads |-> None]
    /\ seen = [t \in Threads |-> 0]
    /\ called = {}

Goto(t, l) == pc' = [pc EXCEPT ![t] = l]
At(t, l) == pc[t] = l

Mine(t) == <<t, calls[t]>>
\* The node thread t is putting into the queue.
Node(t) == IF moving[t] = <<>> THEN Mine(t) ELSE Head(moving[t])

Holds(t) == owner = t
\* tryAcquire of the non-fair kind finds the lock free or its own.
Acquire(t, n) ==
    /\ owner = None
    /\ owner' = t
    /\ state' = n

----------------------------------------------------------------------------
(* lock: try to get past the queue, else join it.                           *)

Lock(t) ==
    /\ At(t, "out") /\ calls[t] < MaxCalls[t]
    /\ calls' = [calls EXCEPT ![t] = @ + 1]
    /\ IF owner = None
       THEN Acquire(t, 1) /\ Goto(t, "in")
       ELSE Goto(t, "try") /\ UNCHANGED lock
    /\ UNCHANGED <<links, waitStatus, waiters, saved, moving, ref, seen, called>>

LockAgain(t) ==
    /\ At(t, "in") /\ Holds(t) /\ state < MaxHolds[t]
    /\ state' = state + 1
    /\ UNCHANGED <<owner, links, waitStatus, waiters, pc, local, called>>

\* acquire's tryAcquire; if it fails addWaiter makes the node.
TryAcquire(t) ==
    /\ At(t, "try")
    /\ \/ /\ Acquire(t, 1)
          /\ Goto(t, "in")
          /\ UNCHANGED thread
       \/ /\ owner # None
          /\ thread' = [thread EXCEPT ![Mine(t)] = t]
          /\ Goto(t, "enq")
          /\ UNCHANGED lock
    /\ UNCHANGED <<head, tail, prev, next, waitStatus, waiters, local, called>>

(* enq, in which the first iteration of addWaiter or of transferForNotify is *)
(* no different from the others.                                             *)

Joined(t) == IF moving[t] = <<>> THEN "acquire" ELSE "mark"

\* Nobody has installed a header: this thread's becomes head.  One who finds
\* head set and tail still null goes round the loop.
InstallHeader(t) ==
    /\ At(t, "enq") /\ tail = None /\ head = None
    /\ head' = Dummy
    /\ next' = [next EXCEPT ![Dummy] = Node(t)]
    /\ prev' = [prev EXCEPT ![Node(t)] = Dummy]
    /\ Goto(t, "settail")
    /\ UNCHANGED <<lock, tail, thread, waitStatus, waiters, local, called>>

SetTail(t) ==
    /\ At(t, "settail")
    /\ tail' = Node(t)
    /\ ref' = [ref EXCEPT ![t] = IF moving[t] = <<>> THEN None ELSE Dummy]
    /\ Goto(t, Joined(t))
    /\ UNCHANGED <<lock, head, prev, next, thread, waitStatus, waiters, calls, saved, moving, seen, called>>

ReadTail(t) ==
    /\ At(t, "enq") /\ tail # None
    /\ prev' = [prev EXCEPT ![Node(t)] = tail]
    /\ ref' = [ref EXCEPT ![t] = tail]
    /\ Goto(t, "splice")
    /\ UNCHANGED <<lock, head, tail, next, thread, waitStatus, waiters, calls, saved, moving, seen, called>>

CanSplice_Always(t) == TRUE
CanSplice(t) == tail = ref[t]

Splice(t) ==
    /\ At(t, "splice")
    /\ IF CanSplice(t)
       THEN tail' = Node(t) /\ Goto(t, "link")
       ELSE Goto(t, "enq") /\ UNCHANGED tail
    /\ UNCHANGED <<lock, head, prev, next, thread, waitStatus, waiters, local, called>>

LinkNext(t) ==
    /\ At(t, "link")
    /\ next' = [next EXCEPT ![ref[t]] = Node(t)]
    /\ ref' = [ref EXCEPT ![t] = IF moving[t] = <<>> THEN None ELSE @]
    /\ Goto(t, Joined(t))
    /\ UNCHANGED <<lock, head, tail, prev, thread, waitStatus, waiters, calls, saved, moving, seen, called>>

----------------------------------------------------------------------------
(* acquireQueued: the first in the queue tries, the others wait for the     *)
(* node before theirs.                                                      *)

IsFirst(t) == prev[Mine(t)] = head

AcquireQueued(t) ==
    /\ At(t, "acquire")
    /\ IF IsFirst(t) /\ owner = None
       THEN /\ Acquire(t, IF saved[t] = 0 THEN 1 ELSE saved[t])
            /\ Goto(t, "sethead")
       ELSE Goto(t, "shouldpark") /\ UNCHANGED lock
    /\ called' = called \ {t}
    /\ UNCHANGED <<links, waitStatus, waiters, local>>

SetHead(t) ==
    /\ At(t, "sethead")
    /\ head' = Mine(t)
    /\ Goto(t, "clean")
    /\ UNCHANGED <<lock, tail, prev, next, thread, waitStatus, waiters, local, called>>

\* The rest of setHead, and p.next = null.
ClearNode(t) ==
    /\ At(t, "clean")
    /\ thread' = [thread EXCEPT ![Mine(t)] = None]
    /\ next' = [next EXCEPT ![prev[Mine(t)]] = None]
    /\ prev' = [prev EXCEPT ![Mine(t)] = None]
    /\ saved' = [saved EXCEPT ![t] = 0]
    /\ Goto(t, "in")
    /\ UNCHANGED <<lock, head, tail, waitStatus, waiters, calls, moving, ref, seen, called>>

\* shouldParkAfterFailedAcquire: the node before is asked for a signal, and
\* if it had not been asked before the thread tries once more.
WasAsked_NotChecked(p) == TRUE
WasAsked(p) == waitStatus[p] < 0

ShouldPark(t) ==
    /\ At(t, "shouldpark")
    /\ LET p == prev[Mine(t)]
       IN  /\ waitStatus' = [waitStatus EXCEPT ![p] = SIGNAL]
           /\ Goto(t, IF WasAsked(p) THEN "pause" ELSE "acquire")
    /\ UNCHANGED <<lock, links, waiters, local, called>>

\* Thread.pause, in acquireQueued or in wait
Pause(t) ==
    /\ pc[t] \in {"pause", "waitpause"}
    /\ Goto(t, IF At(t, "pause") THEN "paused" ELSE "waitpaused")
    /\ UNCHANGED <<lock, links, waitStatus, waiters, local, called>>

----------------------------------------------------------------------------
(* unlock and the release in wait.                                          *)

Released(t) == IF saved[t] = 0 THEN "out" ELSE "onqueue"

Unlock(t) ==
    /\ At(t, "in") /\ Holds(t)
    /\ state' = state - 1
    /\ IF state = 1
       THEN owner' = None /\ Goto(t, "release")
       ELSE UNCHANGED <<owner, pc>>
    /\ UNCHANGED <<links, waitStatus, waiters, local, called>>

ReadHead(t) ==
    /\ At(t, "release")
    /\ ref' = [ref EXCEPT ![t] = head]
    /\ Goto(t, IF head = None THEN Released(t) ELSE "readstatus")
    /\ UNCHANGED <<lock, links, waitStatus, waiters, calls, saved, moving, seen, called>>

ReadStatus(t) ==
    /\ At(t, "readstatus")
    /\ IF waitStatus[ref[t]] # 0
       THEN Goto(t, "clear") /\ UNCHANGED ref
       ELSE /\ Goto(t, Released(t))
            /\ ref' = [ref EXCEPT ![t] = None]
    /\ UNCHANGED <<lock, links, waitStatus, waiters, calls, saved, moving, seen, called>>

\* unparkSuccessor
ClearStatus(t) ==
    /\ At(t, "clear")
    /\ waitStatus' = [waitStatus EXCEPT ![ref[t]] = IF @ = SIGNAL THEN 0 ELSE @]
    /\ Goto(t, "find")
    /\ UNCHANGED <<lock, links, waiters, local, called>>

\* The nodes from tail along prev, the last in the queue first.
FromTail ==
    LET Further(q, k) ==
            IF prev[Last(q)] = None THEN q ELSE Append(q, prev[Last(q)])
    IN  IF tail = None THEN <<>>
        ELSE FoldLeftDomain(Further, <<tail>>, [k \in 1..Cardinality(Nodes) + 1 |-> k])

\* The search from tail stops before n, or at the end if n has left the queue.
SearchedFor(n) ==
    LET path == FromTail
        at   == SelectInSeq(path, LAMBDA m : m = n)
    IN  CASE at = 0 -> Last(path)
          [] at = 1 -> None
          [] OTHER  -> path[at - 1]

FoundSuccessor(n) == IF next[n] # None THEN next[n] ELSE SearchedFor(n)

FindSuccessor(t) ==
    /\ At(t, "find")
    /\ ref' = [ref EXCEPT ![t] = FoundSuccessor(ref[t])]
    /\ Goto(t, "readthread")
    /\ UNCHANGED <<lock, links, waitStatus, waiters, calls, saved, moving, seen, called>>

\* Where a thread that has resumed another, or found none, goes on.
Transferred(t) == IF moving[t] = <<>> THEN <<>> ELSE Tail(moving[t])
AfterResume(t) ==
    CASE moving[t] = <<>>      -> Released(t)
      [] Transferred(t) = <<>> -> "in"
      [] OTHER                 -> "transfer"

ReadThread(t) ==
    /\ At(t, "readthread")
    /\ LET x == IF ref[t] = None THEN None ELSE thread[ref[t]]
       IN  /\ ref' = [ref EXCEPT ![t] = x]
           /\ IF x = None
              THEN /\ Goto(t, AfterResume(t))
                   /\ moving' = [moving EXCEPT ![t] = Transferred(t)]
              ELSE Goto(t, "resume") /\ UNCHANGED moving
    /\ UNCHANGED <<lock, links, waitStatus, waiters, calls, saved, seen, called>>

\* Thread.resume: a thread that is not suspended does not notice it.
Woken(l) == CASE l = "paused" -> "acquire" [] l = "waitpaused" -> "onqueue" [] OTHER -> l

Resume(t) ==
    /\ At(t, "resume")
    /\ pc' = [pc EXCEPT ![ref[t]] = Woken(@), ![t] = AfterResume(t)]
    /\ called' = called \cup {x \in {ref[t]} : pc[x] \in {"shouldpark", "pause", "waitpause"}}
    /\ moving' = [moving EXCEPT ![t] = Transferred(t)]
    /\ ref' = [ref EXCEPT ![t] = None]
    /\ UNCHANGED <<lock, links, waitStatus, waiters, calls, saved, seen>>

----------------------------------------------------------------------------
(* The Condition.                                                           *)

Wait(t) ==
    /\ At(t, "in") /\ Holds(t) /\ calls[t] < MaxCalls[t]
    /\ LET n == <<t, calls[t] + 1>>
       IN  /\ waiters' = Append(waiters, n)
           /\ waitStatus' = [waitStatus EXCEPT ![n] = CONDITION]
           /\ thread' = [thread EXCEPT ![n] = t]
    /\ calls' = [calls EXCEPT ![t] = @ + 1]
    /\ saved' = [saved EXCEPT ![t] = state]
    /\ state' = 0 /\ owner' = None
    /\ Goto(t, "release")
    /\ UNCHANGED <<head, tail, prev, next, moving, ref, seen, called>>

\* isOnSyncQueue: once true it stays true, so its reads are one step.
IsOnSyncQueue(n) ==
    /\ waitStatus[n] # CONDITION
    /\ prev[n] # None
    /\ next[n] # None \/ Contains(FromTail, n)

TestQueue(t) ==
    /\ At(t, "onqueue")
    /\ Goto(t, IF IsOnSyncQueue(Mine(t)) THEN "acquire" ELSE "waitpause")
    /\ called' = called \ {t}
    /\ UNCHANGED <<lock, links, waitStatus, waiters, local>>

\* notify takes the first waiter, notifyAll all of them.
Notify(t) ==
    /\ At(t, "in") /\ Holds(t) /\ waiters # <<>>
    /\ \E n \in {1, Len(waiters)} :
          /\ moving' = [moving EXCEPT ![t] = SubSeq(waiters, 1, n)]
          /\ waiters' = SubSeq(waiters, n + 1, Len(waiters))
    /\ Goto(t, "transfer")
    /\ UNCHANGED <<lock, links, waitStatus, calls, saved, ref, seen, called>>

\* transferForNotify, whose first test fails for cancelled nodes only
Transfer(t) ==
    /\ At(t, "transfer")
    /\ waitStatus' = [waitStatus EXCEPT ![Node(t)] = 0]
    /\ Goto(t, "enq")
    /\ UNCHANGED <<lock, links, waiters, local, called>>

ReadPredStatus(t) ==
    /\ At(t, "mark")
    /\ seen' = [seen EXCEPT ![t] = waitStatus[ref[t]]]
    /\ Goto(t, "setsignal")
    /\ UNCHANGED <<lock, links, waitStatus, waiters, calls, saved, moving, ref, called>>

SetSignal(t) ==
    /\ At(t, "setsignal")
    /\ seen' = [seen EXCEPT ![t] = 0]
    /\ IF waitStatus[ref[t]] = seen[t]
       THEN /\ waitStatus' = [waitStatus EXCEPT ![ref[t]] = SIGNAL]
            /\ moving' = [moving EXCEPT ![t] = Transferred(t)]
            /\ ref' = [ref EXCEPT ![t] = None]
            /\ Goto(t, AfterResume(t))
       ELSE /\ ref' = [ref EXCEPT ![t] = Node(t)]
            /\ Goto(t, "readthread")
            /\ UNCHANGED <<waitStatus, moving>>
    /\ UNCHANGED <<lock, links, waiters, calls, saved, called>>

----------------------------------------------------------------------------
\* What a thread inside a call, or inside the lock, does in the end.
Proceed(t) ==
    \/ TryAcquire(t) \/ InstallHeader(t) \/ SetTail(t) \/ ReadTail(t)
    \/ Splice(t) \/ LinkNext(t) \/ AcquireQueued(t) \/ SetHead(t)
    \/ ClearNode(t) \/ ShouldPark(t) \/ Pause(t) \/ Unlock(t) \/ ReadHead(t)
    \/ ReadStatus(t) \/ ClearStatus(t) \/ FindSuccessor(t) \/ ReadThread(t)
    \/ Resume(t) \/ TestQueue(t) \/ Transfer(t) \/ ReadPredStatus(t)
    \/ SetSignal(t)

Next == \E t \in Threads :
            Lock(t) \/ LockAgain(t) \/ Wait(t) \/ Notify(t) \/ Proceed(t)

Spec == Init /\ [][Next]_vars

\* Threads are scheduled, and who has the lock gives it up.
FairSpec == Spec /\ \A t \in Threads : WF_vars(Proceed(t))

----------------------------------------------------------------------------
(* Properties                                                               *)

\* The queue of every thread that has joined it: from tail, prev leads over
\* each node once to head; the node of a thread in acquireQueued is on the
\* way; and next leads back, but to a node whose thread (or notifier) has
\* spliced it in and is about to set next (enq, LockImpl.d:489-512).
QueueSound ==
    LET path == FromTail IN
    /\ IsInjective(path)
    /\ tail # None => Contains(path, head)
    /\ \A t \in Threads :
          pc[t] \in {"acquire", "shouldpark", "pause", "paused", "sethead", "clean"}
              => Contains(path, Mine(t))
    /\ \A i \in 1..Len(path) - 1 :
          LET n == path[i] p == path[i + 1]
          IN  next[p] = n \/ \E t \in Threads : At(t, "link") /\ Node(t) = n /\ ref[t] = p

\* Thread r, which has released the lock, is going to resume x.
Heading(r, x) ==
    \/ At(r, "release") /\ waitStatus[head] # 0
    \/ At(r, "readstatus") /\ ref[r] = head /\ waitStatus[head] # 0
    \/ pc[r] \in {"clear", "find"} /\ ref[r] = head
    \/ At(r, "readthread") /\ ref[r] = Mine(x)
    \/ At(r, "resume") /\ ref[r] = x

\* While the lock is free, a first thread in the queue that has gone to sleep
\* or is about to, notified waiters included, is being woken, or was when it
\* did not sleep yet (LockImpl.d:552-582, 629-653, 1304-1322, 1542-1552).
\* What becomes of the latter the next two properties say.
ResumeOwed ==
    \A x \in Threads :
        /\ pc[x] \in {"pause", "paused", "waitpause", "waitpaused"}
        /\ owner = None
        /\ IsFirst(x) /\ Contains(FromTail, Mine(x))
        => x \in called \/ \E r \in Threads : Heading(r, x)

\* A thread that queues for the lock gets it (ReentrantLock.d:247-250).
LockReturns ==
    \A t \in Threads : At(t, "enq") /\ moving[t] = <<>> ~> Holds(t)

\* A waiter that was notified returns from wait (Condition.d:178-180).
NotifiedWaitReturns ==
    \A t \in Threads : saved[t] # 0 /\ waitStatus[Mine(t)] # CONDITION ~> saved[t] = 0
=============================================================================
