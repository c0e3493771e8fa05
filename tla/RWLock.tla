------------------------------- MODULE RWLock -------------------------------
(***************************************************************************)
(* What the class comments of ReadWriteMutex promise (rwmutex.d:39-73),    *)
(* without mutex, conditions or counters: who holds the lock, who has      *)
(* asked for it and waits, and when the policy lets a request through.     *)
(***************************************************************************)
CONSTANT Threads

VARIABLES policy,          \* which class of threads is preferred
          readers,         \* threads that hold the read lock
          writers,         \* threads that hold the write lock
          queuedReaders,   \* threads waiting for the read lock
          queuedWriters    \* threads waiting for the write lock

absVars == <<policy, readers, writers, queuedReaders, queuedWriters>>

Busy == readers \cup writers \cup queuedReaders \cup queuedWriters

Init ==
    /\ policy \in {"PREFER_READERS", "PREFER_WRITERS"}
    /\ readers = {}
    /\ writers = {}
    /\ queuedReaders = {}
    /\ queuedWriters = {}

\* A writer shuts readers out while it holds the lock and, if writers are
\* preferred, from the moment it queues.
ReadAllowed ==
    /\ writers = {}
    /\ policy = "PREFER_WRITERS" => queuedWriters = {}

\* Writers are passed through one at a time, when no reader holds the lock
\* and, if readers are preferred, when none queues for it.
WriteAllowed ==
    /\ readers = {}
    /\ writers = {}
    /\ policy = "PREFER_READERS" => queuedReaders = {}

QueueRead(t) ==
    /\ t \notin Busy
    /\ ~ReadAllowed
    /\ queuedReaders' = queuedReaders \cup {t}
    /\ UNCHANGED <<policy, readers, writers, queuedWriters>>

QueueWrite(t) ==
    /\ t \notin Busy
    /\ ~WriteAllowed
    /\ queuedWriters' = queuedWriters \cup {t}
    /\ UNCHANGED <<policy, readers, writers, queuedReaders>>

GrantRead(t) ==
    /\ t \notin Busy \/ t \in queuedReaders
    /\ ReadAllowed
    /\ readers' = readers \cup {t}
    /\ queuedReaders' = queuedReaders \ {t}
    /\ UNCHANGED <<policy, writers, queuedWriters>>

GrantWrite(t) ==
    /\ t \notin Busy \/ t \in queuedWriters
    /\ WriteAllowed
    /\ writers' = writers \cup {t}
    /\ queuedWriters' = queuedWriters \ {t}
    /\ UNCHANGED <<policy, readers, queuedReaders>>

Release(t) ==
    /\ t \in readers \cup writers
    /\ readers' = readers \ {t}
    /\ writers' = writers \ {t}
    /\ UNCHANGED <<policy, queuedReaders, queuedWriters>>

Next == \E t \in Threads :
    QueueRead(t) \/ QueueWrite(t) \/ GrantRead(t) \/ GrantWrite(t) \/ Release(t)

Spec == Init /\ [][Next]_absVars
=============================================================================
