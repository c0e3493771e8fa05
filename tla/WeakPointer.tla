------------------------------ MODULE WeakPointer ------------------------------
(***************************************************************************)
(* The monitor of an object and its dispose events (rt/monitor.c,          *)
(* rt/object.d), and the weak pointers the collector builds on them        *)
(* (rt/gc/gcx.d): one object, its life from the first use of its monitor   *)
(* to delete or collection, and the threads that know it.                  *)
(*                                                                         *)
(* Two locks meet here.  weakpointerDestroy takes gcLock and then the      *)
(* monitor; a synchronized statement that allocates takes them the other   *)
(* way round.  Deletion takes the list of events under the monitor and     *)
(* calls them without it, each under gcLock.                               *)
(*                                                                         *)
(* gcLock is not taken by everybody who should.  The weak pointers take it *)
(* when either Thread class of the library has started a thread            *)
(* (thread_needLock() || dThreadsNumber() != 1); gc_free and fullCollect   *)
(* only when both have (thread_needLock() && dThreadsNumber() != 1, with   *)
(* threadNum left at its initial value).  The program uses threads: the    *)
(* weak pointers lock, and unlocked says that it uses those of one class,  *)
(* so that gc_free and fullCollect do not.  A collection on behalf of      *)
(* malloc always has the lock.                                             *)
(*                                                                         *)
(* Grain.  An unlocked read, the taking of a lock and the work under it up *)
(* to the next lock are steps.  A passage through _monitor_critsec blocks  *)
(* on nothing and is one step: the lock is initialized before it is        *)
(* published.  This is the Win32 build: the Posix half of monitor.c        *)
(* defines _d_monitorenter once more and cannot be linked with object.d.   *)
(***************************************************************************)
EXTENDS Integers, Sequences, FiniteSets

CONSTANTS Threads,
          Pointers,   \* WeakPointer structs the program makes, each once
          Monitors,   \* Monitor structs that calloc can return
          Grow,       \* slots by which devt grows (4)
          Null

ASSUME Locks == Threads # {} /\ Null \notin Threads \cup Pointers \cup Monitors
ASSUME GrowPositive == Grow \in Nat \ {0}

VARIABLES
    unlocked,    \* gc_free and fullCollect do without gcLock
    obj,         \* alive; deleting, collecting (with gcLock) or sweeping
                 \* (without); then deleted, collected or swept
    strong,      \* threads that have a reference to the object
    monitor,     \* its monitor field
    owner,       \* owner[m] is the thread in the critical section of m
    devt,        \* monitor.devt: pointers stand for their ondestroy
    gcOwner,     \* the thread in gcLock
    wp,          \* state of each WeakPointer: unborn; set or null, by its
                 \* reference; freed
    pc,
    then,        \* where the thread goes when it has the object's lock
    arg,         \* the WeakPointer of the call in progress
    events,      \* local devt of _d_monitor_devt, without the events called
    stale,       \* history: threads that got the object while it was dying
    dangling,    \* history: freed WeakPointers whose ondestroy was called
    crowded      \* history: an event was detached from an array without a gap

locks    == <<monitor, owner, gcOwner>>
locals   == <<then, arg, events>>
history  == <<stale, dangling, crowded>>
vars     == <<unlocked, obj, strong, locks, devt, wp, pc, locals, history>>

Goto(t, l) == pc' = [pc EXCEPT ![t] = l]

Init ==
    /\ unlocked \in BOOLEAN
    /\ obj = "alive"
    /\ strong = Threads
    /\ monitor = Null
    /\ owner = [m \in Monitors |-> Null]
    /\ devt = <<>>
    /\ gcOwner = Null
    /\ wp = [w \in Pointers |-> "unborn"]
    /\ pc = [t \in Threads |-> "idle"]
    /\ then = [t \in Threads |-> "idle"]
    /\ arg = [t \in Threads |-> Null]
    /\ events = [t \in Threads |-> <<>>]
    /\ stale = {}
    /\ dangling = {}
    /\ crowded = FALSE

-----------------------------------------------------------------------------
(* _d_monitorenter and _d_monitorexit *)

\* synchronized(h), to go on at l.
Enter(t, l) ==
    /\ Goto(t, "enter")
    /\ then' = [then EXCEPT ![t] = l]

\* h->monitor is read without a lock.
ReadMonitor(t) ==
    /\ pc[t] = "enter"
    /\ Goto(t, IF monitor = Null THEN "create" ELSE "lock")
    /\ UNCHANGED <<unlocked, obj, strong, locks, devt, wp, locals, history>>

\* Definitions named X_Mistake are X with a mistake one could make in it; no
\* specification uses them, they show that the properties notice it.
Created_Always(m) == m

\* The monitor field after a call of _d_monitor_create that could use m.
Created(m) == IF monitor = Null THEN m ELSE monitor

CreateMonitor(t) ==
    /\ pc[t] = "create"
    /\ \E m \in Monitors :
        /\ m # monitor /\ owner[m] = Null
        /\ monitor' = Created(m)
    /\ Goto(t, "lock")
    /\ UNCHANGED <<unlocked, obj, strong, owner, gcOwner, devt, wp, locals, history>>

\* _d_monitor_lock reads the field again.
LockMonitor(t) ==
    /\ pc[t] = "lock"
    /\ monitor # Null
    /\ owner[monitor] = Null
    /\ owner' = [owner EXCEPT ![monitor] = t]
    /\ Goto(t, then[t])
    /\ UNCHANGED <<unlocked, obj, strong, monitor, gcOwner, devt, wp, locals, history>>

\* _d_monitorexit, to go on at l.
Exit(t, l) ==
    /\ owner' = [owner EXCEPT ![monitor] = Null]
    /\ Goto(t, l)
    /\ then' = [then EXCEPT ![t] = "idle"]

-----------------------------------------------------------------------------
(* A synchronized statement of the program *)

Uses(t) == pc[t] = "idle" /\ t \in strong /\ obj = "alive"

Statement(t) ==
    /\ Uses(t)
    /\ Enter(t, "body")
    /\ UNCHANGED <<unlocked, obj, strong, locks, devt, wp, arg, events, history>>

\* The statement may allocate: gc_malloc passes through gcLock.
Allocate(t) ==
    /\ pc[t] = "body"
    /\ Goto(t, "malloc")
    /\ UNCHANGED <<unlocked, obj, strong, locks, devt, wp, locals, history>>

Malloc(t) ==
    /\ pc[t] = "malloc"
    /\ gcOwner = Null
    /\ Goto(t, "leave")
    /\ UNCHANGED <<unlocked, obj, strong, locks, devt, wp, locals, history>>

Leave(t) ==
    /\ pc[t] \in {"body", "leave"}
    /\ Exit(t, "idle")
    /\ UNCHANGED <<unlocked, obj, strong, monitor, gcOwner, devt, wp, arg, events, history>>

\* The thread forgets the object.
Drop(t) ==
    /\ pc[t] = "idle"
    /\ t \in strong
    /\ strong' = strong \ {t}
    /\ UNCHANGED <<unlocked, obj, locks, devt, wp, pc, locals, history>>

-----------------------------------------------------------------------------
(* weakpointerCreate *)

WeakpointerCreate(t) ==
    /\ Uses(t)
    /\ \E w \in Pointers :
        /\ wp[w] = "unborn"
        /\ wp' = [wp EXCEPT ![w] = "set"]
        /\ arg' = [arg EXCEPT ![t] = w]
    /\ Enter(t, "attach")
    /\ UNCHANGED <<unlocked, obj, strong, locks, devt, events, history>>

Taken_LastSlot(w) == {Len(devt)} \ {0}

\* Slots that can take the event: empty ones, or one that has it.
Taken(w) == {i \in 1..Len(devt) : devt[i] \in {Null, w}}

Least(S) == CHOOSE i \in S : \A j \in S : i <= j

\* rt_attachDisposeEvent: into the first such slot, or the array grows.
Attached(w) ==
    IF Taken(w) # {} THEN [devt EXCEPT ![Least(Taken(w))] = w]
    ELSE devt \o <<w>> \o [i \in 1..(Grow - 1) |-> Null]

AttachDisposeEvent(t) ==
    /\ pc[t] = "attach"
    /\ devt' = Attached(arg[t])
    /\ arg' = [arg EXCEPT ![t] = Null]
    /\ Exit(t, "idle")
    /\ UNCHANGED <<unlocked, obj, strong, monitor, gcOwner, wp, events, history>>

-----------------------------------------------------------------------------
(* weakpointerDestroy and weakpointerGet: under gcLock *)

WeakpointerDestroy(t) ==
    /\ pc[t] = "idle"
    /\ \E w \in Pointers :
        /\ wp[w] \in {"set", "null"}
        /\ \A u \in Threads : arg[u] # w
        /\ arg' = [arg EXCEPT ![t] = w]
    /\ Goto(t, "destroy")
    /\ UNCHANGED <<unlocked, obj, strong, locks, devt, wp, then, events, history>>

MustDetach(w) == wp[w] = "set"

\* The reference is tested, and used, with gcLock held.
TestReference(t) ==
    /\ pc[t] = "destroy"
    /\ gcOwner = Null
    /\ gcOwner' = t
    /\ IF MustDetach(arg[t])
       THEN Enter(t, "detach")
       ELSE Goto(t, "unlockGC") /\ UNCHANGED then
    /\ UNCHANGED <<unlocked, obj, strong, monitor, owner, devt, wp, arg, events, history>>

\* memmove from the next slot on; the last slot keeps what it has.
Removed(p) ==
    [i \in 1..Len(devt) |-> IF i < p \/ i = Len(devt) THEN devt[i] ELSE devt[i + 1]]

\* rt_detachDisposeEvent: the first slot that has the event, if any.
DetachDisposeEvent(t) ==
    LET at == {i \in 1..Len(devt) : devt[i] = arg[t]} IN
    /\ pc[t] = "detach"
    /\ devt' = IF at = {} THEN devt ELSE Removed(Least(at))
    /\ crowded' = (crowded \/ (at # {} /\ devt[Len(devt)] # Null))
    /\ Exit(t, "unlockGC")
    /\ UNCHANGED <<unlocked, obj, strong, monitor, gcOwner, wp, arg, events, stale, dangling>>

AfterUnlock_Kept == gcOwner

AfterUnlock == Null

UnlockGC(t) ==
    /\ pc[t] = "unlockGC"
    /\ gcOwner' = AfterUnlock
    /\ Goto(t, "free")
    /\ UNCHANGED <<unlocked, obj, strong, monitor, owner, devt, wp, locals, history>>

FreePointer(t) ==
    /\ pc[t] = "free"
    /\ wp' = [wp EXCEPT ![arg[t]] = "freed"]
    /\ arg' = [arg EXCEPT ![t] = Null]
    /\ Goto(t, "idle")
    /\ UNCHANGED <<unlocked, obj, strong, locks, devt, then, events, history>>

\* A thread without the object gets it from a weak pointer.
WeakpointerGet(t) ==
    /\ pc[t] = "idle"
    /\ t \notin strong
    /\ gcOwner = Null
    /\ \E w \in Pointers : wp[w] = "set" /\ \A u \in Threads : arg[u] # w
    /\ IF obj = "alive"
       THEN strong' = strong \cup {t} /\ UNCHANGED stale
       ELSE stale' = stale \cup {t} /\ UNCHANGED strong
    /\ UNCHANGED <<unlocked, obj, locks, devt, wp, pc, locals, dangling, crowded>>

-----------------------------------------------------------------------------
(* _d_delclass, or the collector, and _d_monitordelete *)

\* The destructor has run; the monitor and the length of devt are read without
\* a lock.
Dispose(t) ==
    IF monitor = Null THEN Goto(t, "end") /\ UNCHANGED then
    ELSE IF devt = <<>> THEN Goto(t, "release") /\ UNCHANGED then
    ELSE Enter(t, "take")

\* A thread deletes the object when no other has a reference to it.
Delete(t) ==
    /\ Uses(t)
    /\ strong = {t}
    /\ obj' = "deleting"
    /\ Dispose(t)
    /\ UNCHANGED <<unlocked, strong, locks, devt, wp, arg, events, history>>

Collector_Nobody(t) == gcOwner

\* Who has gcLock during a collection.
Collector(t) == t

\* The collector finalizes what no thread has a reference to, when the others
\* run again; on behalf of malloc, or by a fullCollect that locks, it holds
\* gcLock from here to the end.
Collect(t) ==
    /\ pc[t] = "idle"
    /\ obj = "alive"
    /\ strong = {}
    /\ gcOwner = Null
    /\ gcOwner' = Collector(t)
    /\ obj' = "collecting"
    /\ Dispose(t)
    /\ UNCHANGED <<unlocked, strong, monitor, owner, devt, wp, arg, events, history>>

\* fullCollect without gcLock, whoever holds it; a weakpointerDestroy that is
\* about to detach has the object on its stack.
FullCollect(t) ==
    /\ unlocked
    /\ pc[t] = "idle"
    /\ obj = "alive"
    /\ strong = {}
    /\ \A u \in Threads : then[u] # "detach"
    /\ obj' = "sweeping"
    /\ Dispose(t)
    /\ UNCHANGED <<unlocked, strong, locks, devt, wp, arg, events, history>>

TakeEvents(t) ==
    /\ pc[t] = "take"
    /\ events' = [events EXCEPT ![t] = devt]
    /\ devt' = <<>>
    /\ Exit(t, "call")
    /\ UNCHANGED <<unlocked, obj, strong, monitor, gcOwner, wp, arg, history>>

\* The slots whose events are still to be called, in their order.
ToCall(l) == {i \in 1..Len(l) : l[i] # Null}

\* WeakPointer.ondestroy: reference = null, under gcLock.
CallEvent(t) ==
    /\ pc[t] = "call"
    /\ gcOwner \in {Null, t}
    /\ ToCall(events[t]) # {}
    /\ LET i == Least(ToCall(events[t]))
           w == events[t][i]
       IN
        /\ IF wp[w] = "freed"
           THEN dangling' = dangling \cup {w} /\ UNCHANGED wp
           ELSE wp' = [wp EXCEPT ![w] = "null"] /\ UNCHANGED dangling
        /\ events' = [events EXCEPT ![t] = [events[t] EXCEPT ![i] = Null]]
    /\ UNCHANGED <<unlocked, obj, strong, locks, devt, pc, then, arg, stale, crowded>>

EventsDone(t) ==
    /\ pc[t] = "call"
    /\ ToCall(events[t]) = {}
    /\ events' = [events EXCEPT ![t] = <<>>]
    /\ Goto(t, "release")
    /\ UNCHANGED <<unlocked, obj, strong, locks, devt, wp, then, arg, history>>

\* _d_monitor_destroy
DestroyMonitor(t) ==
    /\ pc[t] = "release"
    /\ monitor' = Null
    /\ owner' = [owner EXCEPT ![monitor] = Null]
    /\ Goto(t, "end")
    /\ UNCHANGED <<unlocked, obj, strong, gcOwner, devt, wp, locals, history>>

Ended == [deleting |-> "deleted", collecting |-> "collected", sweeping |-> "swept"]

\* gc_free, or the end of the collection.
EndDispose(t) ==
    /\ pc[t] = "end"
    /\ unlocked \/ gcOwner \in {Null, t}
    /\ obj' = Ended[obj]
    /\ strong' = {}
    /\ gcOwner' = IF gcOwner = t THEN Null ELSE gcOwner
    /\ Goto(t, "idle")
    /\ UNCHANGED <<unlocked, monitor, owner, devt, wp, locals, history>>

-----------------------------------------------------------------------------
Call(t) ==
    \/ Statement(t) \/ Drop(t) \/ WeakpointerCreate(t) \/ WeakpointerDestroy(t)
    \/ WeakpointerGet(t) \/ Delete(t) \/ Collect(t)
    \/ FullCollect(t) \/ Allocate(t)

Continue(t) ==
    \/ ReadMonitor(t) \/ CreateMonitor(t) \/ LockMonitor(t)
    \/ Malloc(t) \/ Leave(t) \/ AttachDisposeEvent(t)
    \/ TestReference(t) \/ DetachDisposeEvent(t) \/ UnlockGC(t) \/ FreePointer(t)
    \/ TakeEvents(t) \/ CallEvent(t) \/ EventsDone(t) \/ DestroyMonitor(t) \/ EndDispose(t)

Next == \E t \in Threads : Call(t) \/ Continue(t)

Spec == Init /\ [][Next]_vars

\* Runnable threads run, and a lock that is free again and again is given to a
\* thread that waits for it.
Fairness ==
    \A t \in Threads :
        /\ WF_vars(Continue(t))
        /\ SF_vars(\/ LockMonitor(t) \/ Malloc(t) \/ TestReference(t)
                   \/ CallEvent(t) \/ EndDispose(t))

FairSpec == Spec /\ Fairness

-----------------------------------------------------------------------------
Pcs == {"idle", "enter", "create", "lock", "body", "malloc", "leave", "attach",
        "destroy", "detach", "unlockGC", "free", "take", "call", "release", "end"}

\* The array grows by Grow slots at a time.
Grown == \E k \in 0..Len(devt) : Len(devt) = Grow * k

\* Every variable has its type.
TypeOK ==
    /\ unlocked \in BOOLEAN
    /\ obj \in {"alive", "deleting", "deleted", "collecting", "collected", "sweeping", "swept"}
    /\ strong \subseteq Threads
    /\ monitor \in Monitors \cup {Null}
    /\ owner \in [Monitors -> Threads \cup {Null}]
    /\ devt \in Seq(Pointers \cup {Null}) /\ Grown
    /\ gcOwner \in Threads \cup {Null}
    /\ wp \in [Pointers -> {"unborn", "set", "null", "freed"}]
    /\ pc \in [Threads -> Pcs]
    /\ then \in [Threads -> {"idle", "body", "attach", "detach", "take"}]
    /\ arg \in [Threads -> Pointers \cup {Null}]
    /\ events \in [Threads -> Seq(Pointers \cup {Null})]
    /\ stale \subseteq Threads
    /\ dangling \subseteq Pointers
    /\ crowded \in BOOLEAN

\* Threads that are inside the object's lock.
Inside == {t \in Threads : pc[t] \in {"body", "malloc", "leave", "attach", "detach", "take"}}

\* Whichever threads race to create the monitor, one thread at a time is inside
\* it, and the monitor is not freed under it (monitor.c:134, object.d:1537).
Exclusion ==
    /\ \A t, u \in Inside : t = u
    /\ Inside # {} => monitor # Null /\ owner[monitor] \in Inside

\* The monitor excludes, its state well typed (monitor.c:125-168).
MonitorExcludes == TypeOK /\ Exclusion

\* No event is lost, in whatever order threads attach and detach theirs: a weak
\* pointer that refers to the object has its event in the array or in the list
\* of the thread that disposes of it, unless it is just being made or destroyed;
\* so none refers to it when it is gone.
EventsKept ==
    \A w \in Pointers :
        wp[w] = "set" /\ (\A t \in Threads : arg[t] # w) =>
            \/ \E i \in 1..Len(devt) : devt[i] = w
            \/ \E t \in Threads : \E i \in 1..Len(events[t]) : events[t][i] = w

\* The object ends, or has ended, without gcLock.
Unguarded == obj \in {"deleting", "deleted", "sweeping", "swept"}

\* A collection with gcLock calls no event of a WeakPointer that has been freed
\* (unless the event was detached from an array without a gap, whose last slot
\* keeps its old contents: EventsRefer) and no thread gets the object it disposes
\* of, however the calls of the others are interleaved with it.  Nothing is said
\* of an explicit delete and of a fullCollect without gcLock: DestroySafe, GetSafe.
LockedCollectionSafe ==
    /\ dangling # {} => crowded \/ Unguarded
    /\ stale # {} => Unguarded

\* weakpointerDestroy "can be called while another thread is freeing the
\* reference with delete" (gcx.d:1555): the delete then calls no event of the
\* freed WeakPointer.
DestroySafe == obj \in {"deleting", "deleted"} /\ ~crowded => dangling = {}

\* weakpointerGet returns "either the object passed to weakpointerCreate, or null
\* if it was free'd in the meantime" (gcx.d:1601): no collection frees what it
\* has returned.
GetSafe == obj \in {"collected", "swept"} => stale = {}

\* assert(r is reference) (gcx.d:1552): an event is called for a weak pointer that
\* refers to the object.
EventsRefer ==
    \A t \in Threads :
        pc[t] = "call" /\ ToCall(events[t]) # {} =>
            wp[events[t][Least(ToCall(events[t]))]] = "set"

\* A thread in a statement that wants gcLock, and one in gcLock that wants the
\* object.
Embrace ==
    \E t, u \in Threads :
        /\ pc[t] = "malloc"
        /\ gcOwner = u /\ u # t /\ pc[u] \in {"enter", "create", "lock"}

\* Every call returns, or the two locks have been taken in opposite orders.
CallsEnd == \A t \in Threads : pc[t] # "idle" ~> pc[t] = "idle" \/ Embrace
=============================================================================
