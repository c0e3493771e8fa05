------------------------------- MODULE Critical -------------------------------
(***************************************************************************)
(* rt/critical.c: the critical sections behind synchronized statements.    *)
(* A section is initialized by the first thread that enters it and linked  *)
(* into a list, by which the program deletes them all when it ends.        *)
(*                                                                         *)
(* Grain.  Every access to dcs_list, to a next field and to a lock is a    *)
(* step of its own while threads run; initialization and end of the        *)
(* program happen while main is alone.                                     *)
(*                                                                         *)
(* The first test of _d_criticalenter reads next without the lock, and     *)
(* next is set two statements before the section is initialized, so a      *)
(* thread can enter a section whose memory is still zero.  On Win32 it     *)
(* looks locked and is never released.  On Posix it is an unlocked mutex,  *)
(* which is then initialized although it is held.  What that does is       *)
(* undefined; the build's pthread_mutex_init overwrites it with a free     *)
(* mutex and wakes nobody, so of the threads asleep in it any number       *)
(* sleeps for ever.  raw, a history variable, keeps the sections entered   *)
(* so; nothing is promised of them.                                        *)
(***************************************************************************)
EXTENDS Integers, Sequences, FiniteSets

CONSTANTS Threads,   \* threads of the program
          Main,      \* the one that starts and joins the others
          Sections,  \* static D_CRITICAL_SECTION objects of the program
          Global,    \* critical_section
          MaxNest,   \* bounds on the nesting of statements on each section
          Null

ASSUME MainThread == Main \in Threads
ASSUME ListNodes == /\ Global \notin Sections
                    /\ Null \notin Sections \cup {Global}
                    /\ Null \notin Threads
ASSUME NestBound == MaxNest \in [Sections -> Nat]

Nodes == Sections \cup {Global}

VARIABLES
    posix,    \* which half of the file is compiled
    phase,    \* of the program: start, run, term (in _STD_critical_term), end
    dcsList,  \* dcs_list
    next,     \* next[n] is n->next
    cs,       \* what n->cs is: raw (zeroed), ready or deleted
    owner,    \* the thread that holds n->cs
    depth,    \* how often it has entered
    pc,
    dcs,      \* argument of the call in progress
    inside,   \* sections of the synchronized statements the thread is in
    raw       \* history: sections entered before they were initialized

list   == <<dcsList, next>>
locks  == <<cs, owner, depth>>
locals == <<dcs, inside>>
vars   == <<posix, phase, list, locks, pc, locals, raw>>

Goto(t, l) == pc' = [pc EXCEPT ![t] = l]

Init ==
    /\ posix \in BOOLEAN
    /\ phase = "start"
    /\ dcsList = Null
    /\ next = [n \in Nodes |-> Null]
    /\ cs = [n \in Nodes |-> "raw"]
    /\ owner = [n \in Nodes |-> Null]
    /\ depth = [n \in Nodes |-> 0]
    /\ pc = [t \in Threads |-> "idle"]
    /\ dcs = [t \in Threads |-> Null]
    /\ inside = [t \in Threads |-> <<>>]
    /\ raw = {}

-----------------------------------------------------------------------------
(* _STI_critical_init *)

InitGlobal ==
    /\ dcsList = Null
    /\ cs' = [cs EXCEPT ![Global] = "ready"]
    /\ dcsList' = Global
    /\ phase' = "run"

\* Called by main() of the runtime (dmain2.d:290), or as a static constructor.
StaticInit ==
    /\ phase = "start"
    /\ pc[Main] = "idle"
    /\ InitGlobal
    /\ UNCHANGED <<posix, next, owner, depth, pc, locals, raw>>

\* The Posix code also makes up for it, in a program with a main of its own;
\* such a program enters its first section before it starts threads.
LazyInit(t) ==
    /\ pc[t] = "test"
    /\ InitGlobal
    /\ UNCHANGED <<posix, next, owner, depth, pc, locals, raw>>

-----------------------------------------------------------------------------
(* _d_criticalenter and _d_criticalexit *)

\* A synchronized statement nests only in one on the same section: what order
\* of different sections is safe is the program's matter.
Call(t) ==
    /\ pc[t] = "idle"
    /\ phase = "run" \/ (phase = "start" /\ t = Main /\ posix)
    /\ \E s \in Sections :
        /\ inside[t] # <<>> => s = inside[t][1]
        /\ Len(inside[t]) < MaxNest[s]
        /\ dcs' = [dcs EXCEPT ![t] = s]
    /\ Goto(t, "test")
    /\ UNCHANGED <<posix, phase, list, locks, inside, raw>>

\* The first test, made without the lock.
Test(t) ==
    /\ pc[t] = "test"
    /\ dcsList # Null
    /\ Goto(t, IF next[dcs[t]] = Null THEN "lockGlobal" ELSE "enter")
    /\ UNCHANGED <<posix, phase, list, locks, locals, raw>>

LockGlobal(t) ==
    /\ pc[t] = "lockGlobal"
    /\ owner[Global] = Null
    /\ owner' = [owner EXCEPT ![Global] = t]
    /\ Goto(t, "retest")
    /\ UNCHANGED <<posix, phase, list, cs, depth, locals, raw>>

StillUnlinked(s) == next[s] = Null

\* The second test fails: another thread has linked the section meanwhile.
Retest(t) ==
    /\ pc[t] = "retest"
    /\ ~StillUnlinked(dcs[t])
    /\ Goto(t, "unlockGlobal")
    /\ UNCHANGED <<posix, phase, list, locks, locals, raw>>

\* Definitions named X_Mistake are X with a mistake one could make in it; no
\* specification uses them, they show that the properties notice it.
LinkBefore_Nothing == Global

\* What the new section is linked in front of.
LinkBefore == dcsList

SetNext(t) ==
    /\ pc[t] = "retest"
    /\ StillUnlinked(dcs[t])
    /\ next' = [next EXCEPT ![dcs[t]] = LinkBefore]
    /\ Goto(t, "push")
    /\ UNCHANGED <<posix, phase, dcsList, locks, locals, raw>>

Push_Uninitialized(t) ==
    /\ pc[t] = "push"
    /\ dcsList' = dcs[t]
    /\ Goto(t, "unlockGlobal")
    /\ UNCHANGED <<posix, phase, next, locks, locals, raw>>

Push(t) ==
    /\ pc[t] = "push"
    /\ dcsList' = dcs[t]
    /\ Goto(t, "init")
    /\ UNCHANGED <<posix, phase, next, locks, locals, raw>>

\* Threads that may be asleep in a section that is held.
Asleep(s) == {t \in Threads : owner[s] # Null /\ pc[t] = "enter" /\ dcs[t] = s}

\* The initialization makes the section free, whoever is in it, and forgets that
\* anyone sleeps in it.
InitSection(t) ==
    /\ pc[t] = "init"
    /\ cs' = [cs EXCEPT ![dcs[t]] = "ready"]
    /\ owner' = [owner EXCEPT ![dcs[t]] = Null]
    /\ depth' = [depth EXCEPT ![dcs[t]] = 0]
    /\ \E lost \in SUBSET Asleep(dcs[t]) :
        pc' = [u \in Threads |-> IF u = t THEN "unlockGlobal"
                                ELSE IF u \in lost THEN "hung" ELSE pc[u]]
    /\ UNCHANGED <<posix, phase, list, locals, raw>>

UnlockGlobal(t) ==
    /\ pc[t] = "unlockGlobal"
    /\ owner' = [owner EXCEPT ![Global] = Null]
    /\ Goto(t, "enter")
    /\ UNCHANGED <<posix, phase, list, cs, depth, locals, raw>>

\* The thread gets the section and goes on with its statement.
Granted(t) ==
    LET s == dcs[t] IN
    /\ owner' = [owner EXCEPT ![s] = t]
    /\ depth' = [depth EXCEPT ![s] = @ + 1]
    /\ inside' = [inside EXCEPT ![t] = Append(@, s)]
    /\ dcs' = [dcs EXCEPT ![t] = Null]
    /\ Goto(t, "idle")

EnterSection(t) ==
    /\ pc[t] = "enter"
    /\ cs[dcs[t]] = "ready"
    /\ owner[dcs[t]] \in {Null, t}
    /\ Granted(t)
    /\ UNCHANGED <<posix, phase, list, cs, raw>>

\* A zeroed pthread_mutex_t is an unlocked mutex that is not recursive.
EnterRawPosix(t) ==
    /\ pc[t] = "enter"
    /\ posix
    /\ cs[dcs[t]] = "raw"
    /\ owner[dcs[t]] = Null
    /\ raw' = raw \cup {dcs[t]}
    /\ Granted(t)
    /\ UNCHANGED <<posix, phase, list, cs>>

\* A zeroed CRITICAL_SECTION looks locked: its LockCount is not -1.
EnterRawWin32(t) ==
    /\ pc[t] = "enter"
    /\ ~posix
    /\ cs[dcs[t]] = "raw"
    /\ raw' = raw \cup {dcs[t]}
    /\ Goto(t, "hung")
    /\ UNCHANGED <<posix, phase, list, locks, locals>>

OwnerAfterExit_Always(t, s) == IF owner[s] = t THEN Null ELSE owner[s]

OwnerAfterExit_Never(t, s) == owner[s]

OwnerAfterExit(t, s) == IF owner[s] = t /\ depth[s] = 1 THEN Null ELSE owner[s]

DepthAfterExit(t, s) == IF owner[s] = t THEN depth[s] - 1 ELSE depth[s]

\* To leave a section that somebody else holds, or nobody, changes nothing.
Exit(t) ==
    /\ pc[t] = "idle"
    /\ inside[t] # <<>>
    /\ LET s == inside[t][1] IN
        /\ owner' = [owner EXCEPT ![s] = OwnerAfterExit(t, s)]
        /\ depth' = [depth EXCEPT ![s] = DepthAfterExit(t, s)]
    /\ inside' = [inside EXCEPT ![t] = Tail(@)]
    /\ UNCHANGED <<posix, phase, list, cs, pc, dcs, raw>>

-----------------------------------------------------------------------------
(* _STD_critical_term: main has joined the other threads *)

Quiet == \A t \in Threads : pc[t] = "idle" /\ inside[t] = <<>>

BeginTerm ==
    /\ phase = "run"
    /\ Quiet
    /\ phase' = "term"
    /\ UNCHANGED <<posix, list, locks, pc, locals, raw>>

DeleteFirst ==
    /\ phase = "term"
    /\ dcsList # Null
    /\ cs' = [cs EXCEPT ![dcsList] = "deleted"]
    /\ dcsList' = next[dcsList]
    /\ UNCHANGED <<posix, phase, next, owner, depth, pc, locals, raw>>

EndTerm ==
    /\ phase = "term"
    /\ dcsList = Null
    /\ phase' = "end"
    /\ UNCHANGED <<posix, list, locks, pc, locals, raw>>

-----------------------------------------------------------------------------
EnterStep(t) ==
    \/ LazyInit(t) \/ Test(t) \/ LockGlobal(t) \/ Retest(t)
    \/ SetNext(t) \/ Push(t) \/ InitSection(t) \/ UnlockGlobal(t)
    \/ EnterSection(t) \/ EnterRawPosix(t) \/ EnterRawWin32(t)

ProgramStep == StaticInit \/ BeginTerm \/ DeleteFirst \/ EndTerm

Next ==
    \/ \E t \in Threads : Call(t) \/ EnterStep(t) \/ Exit(t)
    \/ ProgramStep

Spec == Init /\ [][Next]_vars

LeaveOutermost(t) == Len(inside[t]) = 1 /\ Exit(t)

\* Runnable threads run, and a section that is free again and again is given to
\* a thread that waits for it (each section is linked once, so the global lock
\* needs no such promise); statements end, however many are nested in them.
Fairness ==
    \A t \in Threads :
        /\ WF_vars(EnterStep(t))
        /\ SF_vars(EnterSection(t))
        /\ WF_vars(Exit(t)) /\ SF_vars(LeaveOutermost(t))

FairSpec == Spec /\ Fairness

-----------------------------------------------------------------------------
Pcs == {"idle", "test", "lockGlobal", "retest", "push", "init", "unlockGlobal",
        "enter", "hung"}

\* Every variable has its type.
TypeOK ==
    /\ posix \in BOOLEAN
    /\ phase \in {"start", "run", "term", "end"}
    /\ dcsList \in Nodes \cup {Null}
    /\ next \in [Nodes -> Nodes \cup {Null}]
    /\ cs \in [Nodes -> {"raw", "ready", "deleted"}]
    /\ owner \in [Nodes -> Threads \cup {Null}]
    /\ depth \in [Nodes -> Nat]
    /\ pc \in [Threads -> Pcs]
    /\ dcs \in [Threads -> Sections \cup {Null}]
    /\ inside \in [Threads -> Seq(Sections)]
    /\ raw \subseteq Sections

IsIn(t, s) == \E i \in 1..Len(inside[t]) : inside[t][i] = s

\* Threads between the two statements that link a section (critical.c:39-40)
\* and its initialization (line 41).
Linking(s) == {t \in Threads : pc[t] \in {"push", "init"} /\ dcs[t] = s}

\* A synchronized statement excludes every other thread, whichever threads race
\* to be the first to enter its section, as long as none has come in between
\* lines 39 and 41.
Exclusive ==
    \A s \in Sections \ raw, t, u \in Threads :
        IsIn(t, s) /\ IsIn(u, s) => t = u

\* The extent of the race: a thread that the unlocked test lets through finds
\* its section initialized, or in the hands of a thread that is about to do it.
RawOnlyWhileLinking ==
    \A t \in Threads :
        pc[t] = "enter" => cs[dcs[t]] = "ready" \/ Linking(dcs[t]) # {}

\* "In the static destructor code, walk the list and release them"
\* (critical.c:19): the walk meets every section that was ever initialized,
\* each once, however the threads that linked them were interleaved.
TermReleasesAll ==
    /\ phase = "term" /\ dcsList # Null => cs[dcsList] = "ready"
    /\ phase = "end" => \A n \in Nodes : cs[n] # "ready"

\* Who enters gets in, and hangs only on a section that somebody entered before
\* it was initialized: no order of the two locks and of nested statements blocks
\* a thread for ever, and neither does the broken double check outside its window.
EnterEnds ==
    \A t \in Threads :
        pc[t] = "test" ~> pc[t] = "idle" \/ (pc[t] = "hung" /\ dcs[t] \in raw)
=============================================================================
