--------------------------- MODULE Critical_proofs ---------------------------
(***************************************************************************)
(* Proofs about rt/critical.c: the double check links and initializes each *)
(* section once, and synchronized statements exclude each other wherever   *)
(* nobody came in before the initialization.                               *)
(***************************************************************************)
EXTENDS Critical, SequenceTheorems, TLAPS

\* What the types rest on: a call has its argument, a section that is held has
\* been entered.
TypeInv ==
    /\ TypeOK
    /\ \A t \in Threads : pc[t] # "idle" => dcs[t] \in Sections
    /\ \A s \in Sections : owner[s] # Null => depth[s] > 0

\* The global lock is held from the second test to its release.
Holding == {"retest", "push", "init", "unlockGlobal"}

GlobalHeld == \A t \in Threads : owner[Global] = t <=> pc[t] \in Holding

\* What a thread that is somewhere in _d_criticalenter knows.
Entering(t) ==
    /\ pc[t] # "idle" /\ inside[t] # <<>> => dcs[t] = inside[t][1]
    /\ pc[t] \in {"push", "init", "unlockGlobal", "enter"} => next[dcs[t]] # Null
    /\ pc[t] \in {"push", "init"} => cs[dcs[t]] = "raw"

\* A section is initialized between its linking and the next one, and nobody
\* holds it before unless the first test let somebody through.
Linked(s) ==
    /\ next[s] = Null => cs[s] = "raw"
    /\ next[s] # Null => cs[s] = "ready" \/ Linking(s) # {}
    /\ cs[s] = "raw" /\ s \notin raw => owner[s] = Null

\* The section counts the nesting of the one thread that is in it.
Counted(s) ==
    /\ owner[s] = Null => depth[s] = 0
    /\ \A t \in Threads :
        owner[s] = t => inside[t] # <<>> /\ inside[t][1] = s /\ depth[s] = Len(inside[t])
    /\ \A t \in Threads : IsIn(t, s) => owner[s] = t

OneSection == \A t \in Threads : \A i \in 1..Len(inside[t]) : inside[t][i] = inside[t][1]

Running == phase \in {"start", "run"}

Phases ==
    /\ phase = "start" => dcsList = Null /\ \A t \in Threads : pc[t] \in {"idle", "test"}
    /\ phase = "run" => dcsList # Null
    /\ ~Running => Quiet

\* Inductive.
IInv ==
    /\ TypeInv /\ GlobalHeld /\ OneSection /\ Phases
    /\ \A t \in Threads : Entering(t)
    /\ Running => \A s \in Sections : Linked(s)
    /\ \A s \in Sections \ raw : Counted(s)

-----------------------------------------------------------------------------
\* The steps of a thread, the steps of main alone.
ThreadStep(t) == Call(t) \/ EnterStep(t) \/ Exit(t)

\* The initial state satisfies the invariant.
LEMMA InitInv == Init => IInv
<1> USE MainThread, ListNodes, NestBound
<1> SUFFICES ASSUME Init PROVE IInv
    OBVIOUS
<1>1. TypeInv
    BY DEF Init, TypeInv, TypeOK, Nodes, Pcs
<1>2. GlobalHeld
    BY DEF Init, GlobalHeld, Holding, Nodes
<1>3. OneSection /\ Phases /\ \A t \in Threads : Entering(t)
    BY DEF Init, OneSection, Phases, Running, Entering
<1>4. ASSUME NEW s \in Sections PROVE Linked(s) /\ Counted(s)
    BY DEF Init, Linked, Counted, IsIn, Nodes
<1> QED
    BY <1>1, <1>2, <1>3, <1>4 DEF IInv

\* The initialization of a section moves the thread that does it, and loses some
\* that sleep in the section.
LEMMA AsleepStep ==
    ASSUME TypeInv, NEW t \in Threads, InitSection(t)
    PROVE  /\ pc[t] = "init" /\ dcs[t] \in Sections /\ pc' \in [Threads -> Pcs]
           /\ pc'[t] = "unlockGlobal"
           /\ \A u \in Threads \ {t} :
                pc'[u] = pc[u] \/ (pc[u] = "enter" /\ pc'[u] = "hung")
<1>1. PICK lost \in SUBSET Asleep(dcs[t]) :
        pc' = [u \in Threads |-> IF u = t THEN "unlockGlobal"
                                ELSE IF u \in lost THEN "hung" ELSE pc[u]]
  BY DEF InitSection
<1>2. pc[t] = "init" /\ dcs[t] \in Sections /\ \A u \in lost : pc[u] = "enter"
  BY DEF InitSection, TypeInv, Asleep
<1>3. pc \in [Threads -> Pcs] /\ {"unlockGlobal", "hung"} \subseteq Pcs
  BY DEF TypeInv, TypeOK, Pcs
<1> QED
  BY <1>1, <1>2, <1>3

\* Every variable keeps its type.
LEMMA TypeStep == TypeInv /\ [Next]_vars => TypeInv'
<1> USE MainThread, ListNodes, NestBound DEF TypeInv, TypeOK, Nodes, Pcs
<1> SUFFICES ASSUME TypeInv, [Next]_vars PROVE TypeInv'
    OBVIOUS
<1>1. ASSUME NEW t \in Threads, Call(t) PROVE TypeInv'
    BY <1>1 DEF Call, Goto, list, locks
<1>2. ASSUME NEW t \in Threads, LazyInit(t) \/ Test(t) PROVE TypeInv'
    BY <1>2 DEF LazyInit, InitGlobal, Test, Goto, list, locks, locals
<1>3. ASSUME NEW t \in Threads, LockGlobal(t) PROVE TypeInv'
    BY <1>3 DEF LockGlobal, Goto, list, locals
<1>4. ASSUME NEW t \in Threads, Retest(t) \/ UnlockGlobal(t) PROVE TypeInv'
    BY <1>4 DEF Retest, UnlockGlobal, Goto, list, locks, locals
<1>5. ASSUME NEW t \in Threads, SetNext(t) \/ Push(t) \/ InitSection(t)
      PROVE TypeInv'
  <2>1. dcs[t] \in Sections /\ pc' \in [Threads -> Pcs]
        /\ \A u \in Threads : pc'[u] # "idle" => pc[u] # "idle"
    <3>1. CASE SetNext(t) \/ Push(t)
      BY <3>1 DEF SetNext, Push, Goto
    <3>2. CASE InitSection(t)
      BY <3>2, AsleepStep
    <3> QED
      BY <1>5, <3>1, <3>2
  <2>2. CASE SetNext(t)
    BY <2>1, <2>2 DEF SetNext, LinkBefore, locks, locals
  <2>3. CASE Push(t)
    BY <2>1, <2>3 DEF Push, locks, locals
  <2>4. CASE InitSection(t)
    BY <2>1, <2>4 DEF InitSection, list, locals
  <2> QED
    BY <1>5, <2>2, <2>3, <2>4
<1>6. ASSUME NEW t \in Threads, EnterSection(t) \/ EnterRawPosix(t) PROVE TypeInv'
  <2> DEFINE s == dcs[t]
  <2>1. s \in Sections /\ Granted(t) /\ raw' \in SUBSET Sections
        /\ UNCHANGED <<posix, phase, dcsList, next, cs>>
    BY <1>6 DEF EnterSection, EnterRawPosix, Granted, list
  <2>2. owner' = [owner EXCEPT ![s] = t] /\ depth' = [depth EXCEPT ![s] = @ + 1]
    BY <2>1 DEF Granted
  <2>3. inside' = [inside EXCEPT ![t] = Append(inside[t], s)]
        /\ dcs' = [dcs EXCEPT ![t] = Null] /\ pc' = [pc EXCEPT ![t] = "idle"]
    BY <2>1 DEF Granted, Goto
  <2> QED
    BY <2>1, <2>2, <2>3
<1>7. ASSUME NEW t \in Threads, EnterRawWin32(t) PROVE TypeInv'
    BY <1>7 DEF EnterRawWin32, Goto, list, locks, locals
<1>8. ASSUME NEW t \in Threads, Exit(t) PROVE TypeInv'
    BY <1>8 DEF Exit, OwnerAfterExit, DepthAfterExit, list
<1>9. CASE ProgramStep
    BY <1>9 DEF ProgramStep, StaticInit, InitGlobal, BeginTerm, DeleteFirst, EndTerm,
                list, locks, locals
<1>10. CASE UNCHANGED vars
    BY <1>10 DEF vars, list, locks, locals
<1> QED
    BY <1>1, <1>2, <1>3, <1>4, <1>5, <1>6, <1>7, <1>8, <1>9, <1>10
    DEF Next, EnterStep
-----------------------------------------------------------------------------
\* The nesting is counted as long as neither it nor the section changes.
LEMMA CountedKept ==
    ASSUME NEW s, Counted(s), inside' = inside, owner'[s] = owner[s], depth'[s] = depth[s]
    PROVE  Counted(s)'
  BY DEF Counted, IsIn

\* A section nobody begins or ends to link, and whose links, state and holder
\* stay, is as linked as before.
LEMMA LinkedKept ==
    ASSUME NEW s, Linked(s), Linking(s)' = Linking(s), next'[s] = next[s],
           cs'[s] = cs[s], owner'[s] = owner[s], raw \subseteq raw'
    PROVE  Linked(s)'
  BY DEF Linked

\* The steps of _d_criticalenter up to the section's own lock keep the
\* invariant: first those that touch no section,
LEMMA LookStep ==
    ASSUME IInv, TypeInv', NEW t \in Threads,
           LazyInit(t) \/ Test(t) \/ LockGlobal(t) \/ Retest(t) \/ UnlockGlobal(t)
    PROVE  IInv'
<1> USE MainThread, ListNodes DEF IInv, Holding
<1> DEFINE Step == LazyInit(t) \/ Test(t) \/ LockGlobal(t) \/ Retest(t) \/ UnlockGlobal(t)
<1>1. /\ dcs[t] \in Sections /\ inside' = inside /\ dcs' = dcs /\ raw' = raw /\ next' = next
      /\ depth' = depth /\ Running /\ Running' /\ pc[t] \notin {"push", "init"}
      /\ \A u \in Threads \ {t} : pc'[u] = pc[u]
  BY DEF LazyInit, InitGlobal, Test, LockGlobal, Retest, UnlockGlobal, Goto, list, locks, locals,
         Phases, Quiet, TypeInv, TypeOK, Running
<1>2. \A s \in Sections : owner'[s] = owner[s] /\ cs'[s] = cs[s]
  <2>1. CASE LazyInit(t) \/ LockGlobal(t) \/ UnlockGlobal(t)
    BY <2>1 DEF LazyInit, InitGlobal, LockGlobal, UnlockGlobal, TypeInv, TypeOK, Nodes
  <2>2. CASE Test(t) \/ Retest(t)
    BY <2>2 DEF Test, Retest, locks
  <2> QED
    BY <2>1, <2>2
<1>3. pc'[t] \notin {"push", "init"} /\ pc'[t] \in Pcs
      /\ (pc'[t] \in {"unlockGlobal", "enter"} => next[dcs[t]] # Null)
  BY <1>1 DEF LazyInit, InitGlobal, Test, LockGlobal, Retest, StillUnlinked, UnlockGlobal, Goto,
         list, locks, TypeInv, TypeOK, Entering
<1>4. GlobalHeld'
  <2>1. CASE LazyInit(t) \/ Test(t)
    BY <2>1 DEF LazyInit, InitGlobal, Test, Goto, locks, GlobalHeld, TypeInv, TypeOK
  <2>2. CASE LockGlobal(t)
    BY <2>2 DEF LockGlobal, Goto, GlobalHeld, TypeInv, TypeOK, Nodes
  <2>3. CASE Retest(t)
    BY <2>3 DEF Retest, Goto, locks, GlobalHeld, TypeInv, TypeOK
  <2>4. CASE UnlockGlobal(t)
    BY <2>4 DEF UnlockGlobal, Goto, GlobalHeld, TypeInv, TypeOK, Nodes
  <2> QED
    BY <2>1, <2>2, <2>3, <2>4
<1>5. OneSection'
  BY <1>1 DEF OneSection
<1>6. Phases'
  BY <1>1 DEF LazyInit, InitGlobal, Test, LockGlobal, Retest, UnlockGlobal, Goto, list, Phases,
         TypeInv, TypeOK, Running
<1>7. \A u \in Threads : Entering(u)'
  <2> SUFFICES ASSUME NEW u \in Threads PROVE Entering(u)'
    OBVIOUS
  <2>1. CASE u = t
    BY <1>1, <1>3, <2>1 DEF Entering, LazyInit, Test, LockGlobal, Retest, UnlockGlobal
  <2>2. CASE u # t
    BY <1>1, <1>2, <2>2 DEF Entering, TypeInv
  <2> QED
    BY <2>1, <2>2
<1>8. \A s \in Sections : Linking(s)' = Linking(s)
  BY <1>1, <1>3 DEF Linking
<1>9. \A s \in Sections : Linked(s)'
  BY <1>1, <1>2, <1>8, LinkedKept
<1>10. \A s \in Sections \ raw' : Counted(s)'
  BY <1>1, <1>2, CountedKept
<1> QED
  BY <1>1, <1>4, <1>5, <1>6, <1>7, <1>9, <1>10

\* then the linking and initialization of one.
LEMMA LinkStep ==
    ASSUME IInv, TypeInv', NEW t \in Threads, SetNext(t) \/ Push(t) \/ InitSection(t)
    PROVE  IInv'
<1> USE MainThread, ListNodes DEF IInv, Holding
<1> DEFINE d == dcs[t]
<1>1. /\ d \in Sections /\ d \in Nodes /\ d # Global /\ inside' = inside /\ dcs' = dcs
      /\ raw' = raw /\ Running /\ Running' /\ phase = "run" /\ dcsList # Null
      /\ pc[t] \in {"retest", "push", "init"} /\ pc'[t] \in {"push", "init", "unlockGlobal"}
      /\ \A u \in Threads \ {t} : pc'[u] = pc[u] \/ (pc[u] = "enter" /\ pc'[u] = "hung")
  <2>1. CASE SetNext(t) \/ Push(t)
    BY <2>1 DEF SetNext, Push, Goto, list, locks, locals,
                Phases, Quiet, TypeInv, TypeOK, Running, Nodes
  <2>2. CASE InitSection(t)
    <3>1. pc[t] = "init" /\ d \in Sections
          /\ UNCHANGED <<phase, dcsList, inside, dcs, raw>>
      BY <2>2, AsleepStep DEF InitSection, list, locals
    <3>2. Running /\ phase = "run"
      BY <3>1 DEF Phases, Quiet, Running, TypeInv, TypeOK
    <3> QED
      BY <2>2, <3>1, <3>2, AsleepStep DEF Phases, Running, Nodes
  <2> QED
    BY <2>1, <2>2
<1>2. \A u \in Threads \ {t} : pc[u] \notin Holding
  BY <1>1 DEF GlobalHeld, TypeInv, TypeOK
<1>3. cs[d] = "raw" /\ next'[d] # Null
      /\ \A s \in Sections \ {d} : next'[s] = next[s]
  <2>1. CASE SetNext(t)
    BY <1>1, <2>1 DEF SetNext, StillUnlinked, LinkBefore, Linked, locks, TypeInv, TypeOK
  <2>2. CASE Push(t) \/ InitSection(t)
    BY <1>1, <2>2 DEF Push, InitSection, Entering, list, locks, TypeInv, TypeOK
  <2> QED
    BY <2>1, <2>2
<1>4. \A s \in Nodes \ {d} : cs'[s] = cs[s] /\ owner'[s] = owner[s] /\ depth'[s] = depth[s]
  BY <1>1 DEF SetNext, Push, InitSection, locks, TypeInv, TypeOK
<1>5. GlobalHeld' /\ OneSection' /\ Phases'
  <2>1. owner'[Global] = owner[Global] /\ owner[Global] = t
    BY <1>1, <1>4 DEF GlobalHeld, Nodes
  <2>2. GlobalHeld'
    BY <1>1, <1>2, <2>1 DEF GlobalHeld
  <2>3. dcsList' # Null /\ phase' = "run"
    BY <1>1 DEF SetNext, Push, InitSection, list
  <2> QED
    BY <1>1, <2>2, <2>3 DEF OneSection, Phases
<1>6. \A u \in Threads : Entering(u)'
  <2> SUFFICES ASSUME NEW u \in Threads PROVE Entering(u)'
    OBVIOUS
  <2>1. CASE u = t
    <3>1. CASE SetNext(t) \/ Push(t)
      BY <1>1, <1>3, <2>1, <3>1 DEF Entering, SetNext, Push, locks
    <3>2. CASE InitSection(t)
      BY <1>1, <1>3, <2>1, <3>2, AsleepStep DEF Entering
    <3> QED
      BY <3>1, <3>2
  <2>2. CASE u # t
    BY <1>1, <1>2, <1>3, <2>2 DEF Entering, TypeInv
  <2> QED
    BY <2>1, <2>2
<1>7. Linked(d)' /\ \A s \in Sections \ {d} : Linking(s)' = Linking(s)
  <2>1. \A s \in Sections \ {d} : Linking(s)' = Linking(s)
    BY <1>1 DEF Linking
  <2>2. CASE SetNext(t) \/ Push(t)
    <3>1. t \in Linking(d)' /\ locks' = locks
      BY <1>1, <2>2 DEF SetNext, Push, Goto, Linking, TypeInv, TypeOK
    <3>2. cs'[d] = "raw" /\ owner'[d] = owner[d]
      BY <1>3, <3>1 DEF locks
    <3> QED
      BY <1>1, <1>3, <2>1, <3>1, <3>2 DEF Linked
  <2>3. CASE InitSection(t)
    BY <1>1, <1>3, <2>1, <2>3 DEF InitSection, Linked, TypeInv, TypeOK
  <2> QED
    BY <2>1, <2>2, <2>3
<1>8. \A s \in Sections : Linked(s)'
  BY <1>1, <1>3, <1>4, <1>7, LinkedKept DEF Nodes
<1>9. \A s \in Sections \ raw' : Counted(s)'
  <2>1. d \notin raw => owner[d] = Null /\ depth[d] = 0
    BY <1>1, <1>3 DEF Linked, Counted
  <2>2. d \notin raw => owner'[d] = owner[d] /\ depth'[d] = depth[d]
    BY <1>1, <2>1 DEF SetNext, Push, InitSection, locks, TypeInv, TypeOK
  <2> QED
    BY <1>1, <1>4, <2>2, CountedKept DEF Nodes
<1> QED
  BY <1>1, <1>5, <1>6, <1>8, <1>9

\* A synchronized statement begins, gets its section, or hangs.
LEMMA StatementStep ==
    ASSUME IInv, TypeInv', NEW t \in Threads,
           Call(t) \/ EnterSection(t) \/ EnterRawPosix(t) \/ EnterRawWin32(t) \/ Exit(t)
    PROVE  IInv'
<1> USE MainThread, ListNodes DEF IInv, Holding
<1>1. /\ phase' = phase /\ Running /\ Running' /\ dcsList' = dcsList /\ next' = next /\ cs' = cs
      /\ \A u \in Threads \ {t} : pc'[u] = pc[u] /\ dcs'[u] = dcs[u] /\ inside'[u] = inside[u]
      /\ pc[t] \notin Holding /\ pc'[t] \in {"idle", "test", "hung"}
      /\ (phase = "start" => pc'[t] # "hung")
  BY DEF Call, EnterSection, EnterRawPosix, EnterRawWin32, Granted, Exit, Goto, list, locks, locals,
         Phases, Quiet, TypeInv, TypeOK, Running
<1>2. owner'[Global] = owner[Global]
  BY DEF Call, EnterSection, EnterRawPosix, EnterRawWin32, Granted, Exit, OwnerAfterExit, DepthAfterExit, list, locks,
         TypeInv, TypeOK, Nodes
<1>3. GlobalHeld' /\ Phases'
  BY <1>1, <1>2 DEF GlobalHeld, Phases
<1>4. \A s \in Sections : Linking(s)' = Linking(s)
  BY <1>1 DEF Linking
<1>5. \A u \in Threads \ {t} : Entering(u)'
  BY <1>1 DEF Entering
<1>6. CASE Call(t)
  <2>1. locks' = locks /\ inside' = inside /\ raw' = raw /\ pc'[t] = "test"
        /\ (inside[t] # <<>> => dcs'[t] = inside[t][1])
    BY <1>6 DEF Call, Goto, TypeInv, TypeOK
  <2>2. owner' = owner /\ depth' = depth
    BY <2>1 DEF locks
  <2>3. Entering(t)' /\ OneSection'
    BY <2>1 DEF Entering, OneSection
  <2> QED
    BY <1>1, <1>3, <1>4, <1>5, <2>1, <2>2, <2>3, LinkedKept, CountedKept
<1>7. CASE EnterRawWin32(t)
  <2>1. locks' = locks /\ inside' = inside /\ dcs' = dcs /\ raw \subseteq raw' /\ pc'[t] = "hung"
        /\ pc[t] = "enter"
    BY <1>7 DEF EnterRawWin32, Goto, locals, TypeInv, TypeOK
  <2>2. owner' = owner /\ depth' = depth
    BY <2>1 DEF locks
  <2>3. Entering(t)' /\ OneSection'
    BY <2>1 DEF Entering, OneSection
  <2> QED
    BY <1>1, <1>3, <1>4, <1>5, <2>1, <2>2, <2>3, LinkedKept, CountedKept
<1>8. CASE EnterSection(t) \/ EnterRawPosix(t)
  <2>0. dcs[t] \in Sections
    BY <1>8 DEF EnterSection, EnterRawPosix, TypeInv
  <2> SUFFICES ASSUME NEW d \in Sections, d = dcs[t] PROVE IInv'
    BY <2>0
  <2>1. /\ d \in Sections /\ d \in Nodes /\ raw \subseteq raw' /\ (d \notin raw' => EnterSection(t))
        /\ owner' = [owner EXCEPT ![d] = t] /\ depth' = [depth EXCEPT ![d] = @ + 1]
        /\ inside' = [inside EXCEPT ![t] = Append(inside[t], d)] /\ pc'[t] = "idle"
        /\ pc[t] = "enter" /\ (inside[t] # <<>> => d = inside[t][1])
    BY <1>8 DEF EnterSection, EnterRawPosix, Granted, Goto, TypeInv, TypeOK, Nodes, Entering
  <2>2. /\ inside[t] \in Seq(Sections) /\ inside'[t] = Append(inside[t], d)
        /\ Len(inside'[t]) = Len(inside[t]) + 1 /\ inside'[t] # <<>>
        /\ \A i \in 1..Len(inside[t]) : inside'[t][i] = inside[t][i]
        /\ inside'[t][Len(inside[t]) + 1] = d
    <3>1. inside[t] \in Seq(Sections) /\ inside'[t] = Append(inside[t], d)
      BY <2>1 DEF TypeInv, TypeOK
    <3> QED
      BY <3>1
  <2>3. inside'[t][1] = d
    BY <2>1, <2>2
  <2>4. \A i \in 1..Len(inside'[t]) : inside'[t][i] = d
    BY <2>1, <2>2, <2>3 DEF OneSection, TypeInv, TypeOK
  <2>5. OneSection'
    BY <1>1, <2>3, <2>4 DEF OneSection
  <2>6. Entering(t)'
    BY <2>1 DEF Entering
  <2>7. \A s \in Sections : Linked(s)'
    <3>1. ASSUME NEW s \in Sections \ {d} PROVE Linked(s)'
      BY <1>1, <1>4, <2>1, LinkedKept DEF TypeInv, TypeOK, Nodes
    <3>2. Linked(d)'
      <4>1. cs[d] = "raw" => d \in raw'
        BY <1>8, <2>1 DEF EnterSection
      <4> QED
        BY <1>1, <1>4, <2>1, <4>1 DEF Linked
    <3> QED
      BY <3>1, <3>2
  <2>8. ASSUME NEW s \in Sections \ raw', s # d PROVE Counted(s)'
    <3>1. Counted(s) /\ owner'[s] = owner[s] /\ depth'[s] = depth[s]
      BY <2>1, <2>8 DEF TypeInv, TypeOK, Nodes
    <3>2. ASSUME NEW u \in Threads PROVE (IsIn(u, s)' => IsIn(u, s))
      BY <1>1, <2>1, <2>2, <2>8 DEF IsIn
    <3>3. ASSUME NEW u \in Threads, owner[s] = u PROVE u # t
      BY <2>1, <2>8, <3>1, <3>3 DEF Counted
    <3> QED
      BY <1>1, <3>1, <3>2, <3>3 DEF Counted
  <2>9. ASSUME d \notin raw' PROVE Counted(d)'
    <3>1. Counted(d) /\ owner[d] \in {Null, t} /\ t # Null
      BY <2>1, <2>9, <1>1 DEF EnterSection
    <3>2. owner'[d] = t /\ depth'[d] = depth[d] + 1
      BY <2>1 DEF TypeInv, TypeOK
    <3>3. ASSUME NEW u \in Threads, u # t PROVE ~IsIn(u, d)'
      <4>1. ~IsIn(u, d)
        BY <3>1, <3>3 DEF Counted
      <4> QED
        BY <1>1, <3>3, <4>1 DEF IsIn
    <3>4. depth[d] = Len(inside[t])
      <4>1. CASE owner[d] = t
        BY <3>1, <4>1 DEF Counted
      <4>2. CASE owner[d] = Null
        <5>1. ~IsIn(t, d)
          BY <3>1, <4>2 DEF Counted
        <5>2. inside[t] = <<>>
          BY <2>1, <2>2, <5>1 DEF IsIn
        <5> QED
          BY <3>1, <4>2, <5>2 DEF Counted
      <4> QED
        BY <3>1, <4>1, <4>2
    <3> QED
      BY <2>2, <2>3, <3>1, <3>2, <3>3, <3>4 DEF Counted
  <2> QED
    BY <1>1, <1>3, <1>5, <2>5, <2>6, <2>7, <2>8, <2>9
<1>9. CASE Exit(t)
  <2>0. inside[t][1] \in Sections
    BY <1>9 DEF Exit, TypeInv, TypeOK
  <2> SUFFICES ASSUME NEW s0 \in Sections, s0 = inside[t][1] PROVE IInv'
    BY <2>0
  <2>1. /\ inside[t] \in Seq(Sections) /\ inside[t] # <<>> /\ s0 \in Sections /\ s0 \in Nodes
        /\ inside' = [inside EXCEPT ![t] = Tail(inside[t])] /\ raw' = raw /\ pc' = pc /\ dcs' = dcs
        /\ pc[t] = "idle"
        /\ owner' = [owner EXCEPT ![s0] = OwnerAfterExit(t, s0)]
        /\ depth' = [depth EXCEPT ![s0] = DepthAfterExit(t, s0)]
    BY <1>9 DEF Exit, TypeInv, TypeOK, Nodes
  <2>a. Len(inside[t]) \in Nat /\ Len(inside[t]) > 0
    <3>1. inside[t] \in Seq(Sections) /\ inside[t] # <<>>
      BY <2>1
    <3> QED
      BY <3>1, EmptySeq
  <2>2. /\ inside'[t] = Tail(inside[t]) /\ Len(inside'[t]) = Len(inside[t]) - 1
        /\ \A i \in 1..Len(inside'[t]) : inside'[t][i] = s0
    <3>1. inside[t] \in Seq(Sections) /\ inside[t] # <<>> /\ inside'[t] = Tail(inside[t])
      BY <2>1 DEF TypeInv, TypeOK
    <3>2. \A i \in 1..Len(inside[t]) : inside[t][i] = s0
      BY DEF OneSection
    <3> HIDE DEF IInv
    <3> QED
      BY <2>a, <3>1, <3>2, HeadTailProperties
  <2>3. OneSection' /\ Entering(t)'
    <3>1. OneSection'
      BY <1>1, <2>1, <2>2 DEF OneSection
    <3>2. Entering(t)'
      BY <2>1 DEF Entering
    <3> QED
      BY <3>1, <3>2
  <2>4. \A s \in Sections : Linked(s)'
    <3>1. ASSUME NEW s \in Sections, cs[s] = "raw", s \notin raw PROVE owner'[s] = Null
      <4>1. owner[s] = Null
        BY <3>1, <1>1 DEF Linked
      <4> QED
        BY <2>1, <4>1 DEF OwnerAfterExit, DepthAfterExit, TypeInv, TypeOK
    <3> QED
      BY <1>1, <1>4, <2>1, <3>1 DEF Linked
  <2>5. ASSUME NEW s \in Sections \ raw', s # s0 PROVE Counted(s)'
    <3>1. Counted(s) /\ owner'[s] = owner[s] /\ depth'[s] = depth[s]
      BY <2>1, <2>5 DEF TypeInv, TypeOK, Nodes
    <3>2. ASSUME NEW u \in Threads PROVE (IsIn(u, s)' => IsIn(u, s))
      BY <1>1, <2>2, <2>5 DEF IsIn
    <3>3. ASSUME NEW u \in Threads, owner[s] = u PROVE u # t
      BY <2>5, <3>1, <3>3 DEF Counted
    <3> QED
      BY <1>1, <3>1, <3>2, <3>3 DEF Counted
  <2>6. ASSUME s0 \notin raw' PROVE Counted(s0)'
    <3>1. Counted(s0) /\ IsIn(t, s0) /\ t # Null
      BY <2>1, <2>6 DEF IsIn
    <3>2. owner[s0] = t /\ depth[s0] = Len(inside[t])
      BY <3>1 DEF Counted
    <3>3. depth'[s0] = Len(inside'[t])
          /\ owner'[s0] = (IF depth[s0] = 1 THEN Null ELSE t)
      BY <2>1, <2>2, <3>2 DEF OwnerAfterExit, DepthAfterExit, TypeInv, TypeOK
    <3>4. ASSUME NEW u \in Threads, u # t PROVE ~IsIn(u, s0)'
      <4>1. ~IsIn(u, s0)
        BY <3>1, <3>2, <3>4 DEF Counted
      <4> QED
        BY <1>1, <3>4, <4>1 DEF IsIn
    <3>5. CASE depth[s0] = 1
      <4>1. ~IsIn(t, s0)'
        BY <2>2, <3>2, <3>5 DEF IsIn
      <4>2. owner'[s0] = Null /\ depth'[s0] = 0
        BY <2>1, <2>2, <3>2, <3>3, <3>5
      <4>3. ASSUME NEW u \in Threads PROVE owner'[s0] # u /\ ~IsIn(u, s0)'
        <5>1. owner'[s0] # u
          BY <4>2, ListNodes
        <5>2. CASE u = t
          BY <4>1, <5>1, <5>2
        <5>3. CASE u # t
          BY <3>4, <5>1, <5>3
        <5> QED
          BY <5>2, <5>3
      <4> QED
        BY <4>2, <4>3 DEF Counted
    <3>6. CASE depth[s0] # 1
      <4>1. Len(inside'[t]) >= 1 /\ inside'[t] # <<>> /\ inside'[t][1] = s0
        <5> HIDE DEF IInv
        <5>1. Len(inside[t]) \in Nat /\ Len(inside[t]) >= 2
          <6>1. Len(inside[t]) # 1
            BY <3>2, <3>6
          <6>2. ASSUME NEW n \in Nat, n > 0, n # 1 PROVE n >= 2
            BY <6>2
          <6> QED
            BY <2>a, <6>1, <6>2
        <5>2. Len(inside'[t]) \in Nat /\ Len(inside'[t]) >= 1
          <6>1. Len(inside'[t]) = Len(inside[t]) - 1
            BY <2>2
          <6> QED
            BY <5>1, <6>1
        <5>3. inside'[t] # <<>>
          BY <5>2
        <5> QED
          BY <2>2, <5>2, <5>3
      <4> QED
        BY <3>1, <3>3, <3>4, <3>6, <4>1 DEF Counted
    <3> QED
      BY <3>5, <3>6
  <2> QED
    BY <1>1, <1>3, <1>5, <2>3, <2>4, <2>5, <2>6
<1> QED
  BY <1>6, <1>7, <1>8, <1>9

\* The invariant is inductive.
LEMMA StepInv == IInv /\ [Next]_vars => IInv'
<1> USE MainThread, ListNodes DEF IInv
<1> SUFFICES ASSUME IInv, [Next]_vars PROVE IInv'
    OBVIOUS
<1>1. TypeInv'
  BY TypeStep
<1>2. ASSUME NEW t \in Threads, Call(t) \/ EnterStep(t) \/ Exit(t) PROVE IInv'
  BY <1>1, <1>2, LookStep, LinkStep, StatementStep DEF EnterStep
<1>3. CASE StaticInit
  <2>1. \A s \in Sections : cs'[s] = cs[s] /\ s # Global
    BY <1>3 DEF StaticInit, InitGlobal, TypeInv, TypeOK, Nodes
  <2>2. /\ phase = "start" /\ phase' = "run" /\ dcsList' = Global /\ Global # Null
        /\ UNCHANGED <<next, owner, depth, pc, dcs, inside, raw>>
    BY <1>3 DEF StaticInit, InitGlobal, locals
  <2>3. \A s \in Sections : Linking(s)' = Linking(s)
    BY <2>2 DEF Linking
  <2>4. Running /\ GlobalHeld' /\ OneSection' /\ Phases'
    BY <2>2 DEF GlobalHeld, OneSection, Phases, Running
  <2>5. \A t \in Threads : Entering(t)'
    BY <2>1, <2>2 DEF Entering, TypeInv
  <2> QED
    BY <1>1, <2>1, <2>2, <2>3, <2>4, <2>5, LinkedKept, CountedKept
<1>4. CASE BeginTerm \/ DeleteFirst \/ EndTerm
  <2>1. /\ ~Running' /\ Quiet
        /\ UNCHANGED <<owner, depth, pc, dcs, inside, raw>>
    BY <1>4 DEF BeginTerm, DeleteFirst, EndTerm, Running, Phases, list, locks, locals
  <2>2. GlobalHeld' /\ OneSection' /\ Phases'
    BY <2>1 DEF GlobalHeld, OneSection, Phases, Quiet, Running
  <2>3. \A t \in Threads : Entering(t)'
    BY <2>1 DEF Entering, Quiet
  <2> QED
    BY <1>1, <2>1, <2>2, <2>3, CountedKept
<1>5. CASE UNCHANGED vars
  BY <1>1, <1>5 DEF vars, list, locks, locals, GlobalHeld, OneSection, Phases, Quiet, Running,
     Entering, Linked, Linking, Counted, IsIn
<1> QED
  BY <1>2, <1>3, <1>4, <1>5 DEF Next, ProgramStep

\* The inductive invariant holds.
LEMMA Invariance == Spec => []IInv
  BY InitInv, StepInv, PTL DEF Spec

-----------------------------------------------------------------------------
\* Every variable has its type, for any number of threads, sections and nested
\* statements.
THEOREM TypeCorrect == Spec => []TypeOK
<1>1. IInv => TypeOK
  BY DEF IInv, TypeInv
<1> QED
  BY <1>1, Invariance, PTL

\* Synchronized statements on a section that was entered only after its
\* initialization exclude each other.
THEOREM Exclusion == Spec => []Exclusive
<1>1. IInv => Exclusive
  BY ListNodes DEF IInv, Exclusive, Counted
<1> QED
  BY <1>1, Invariance, PTL

\* Whom the first test of _d_criticalenter lets through finds the section
\* initialized, or another thread about to do it.
THEOREM RaceWindow == Spec => []RawOnlyWhileLinking
<1>1. IInv => RawOnlyWhileLinking
  <2> SUFFICES ASSUME IInv, NEW t \in Threads, pc[t] = "enter"
               PROVE  cs[dcs[t]] = "ready" \/ Linking(dcs[t]) # {}
    BY DEF RawOnlyWhileLinking
  <2>1. dcs[t] \in Sections /\ Running /\ next[dcs[t]] # Null
    BY DEF IInv, TypeInv, Entering, Phases, Quiet
  <2> QED
    BY <2>1 DEF IInv, Linked
<1> QED
  BY <1>1, Invariance, PTL

-----------------------------------------------------------------------------
(* The list of sections.  That the walk of _STD_critical_term meets them all *)
(* needs no induction along the list: there is a sequence of nodes that is   *)
(* the list, and each step that changes the one changes the other.           *)

\* A section is on the list, or was: from line 40 until it is deleted.
Listed(n) == cs[n] = "ready" \/ \E t \in Threads : pc[t] = "init" /\ dcs[t] = n

\* The list is q: no section twice, those that are listed, Global at the end.
Chain(q) ==
    /\ \A i, j \in 1..Len(q) : q[i] = q[j] => i = j
    /\ dcsList = IF Len(q) = 0 THEN Null ELSE q[1]
    /\ \A i \in 1..Len(q) : next[q[i]] = IF i = Len(q) THEN Null ELSE q[i + 1]
    /\ \A n \in Nodes : Listed(n) <=> \E i \in 1..Len(q) : q[i] = n
    /\ Len(q) # 0 => q[Len(q)] = Global

ListInv ==
    /\ \E q \in Seq(Nodes) : Chain(q)
    /\ next[Global] = Null
    /\ \A t \in Threads : pc[t] = "push" => next[dcs[t]] = dcsList
    /\ phase = "end" => dcsList = Null

\* The initial state has an empty list.
LEMMA InitListInv == Init => ListInv
<1> SUFFICES ASSUME Init PROVE ListInv
  OBVIOUS
<1>1. Chain(<<>>)
  BY DEF Init, Chain, Listed
<1>2. <<>> \in Seq(Nodes)
  OBVIOUS
<1> QED
  BY <1>1, <1>2 DEF Init, ListInv, Nodes

\* A step that changes neither the list nor who is linking.
LEMMA ListSame ==
    ASSUME ListInv, UNCHANGED <<dcsList, next, cs>>, phase' = "end" => dcsList = Null,
           \A t \in Threads : /\ pc'[t] \in {"push", "init"} <=> pc[t] \in {"push", "init"}
                              /\ pc[t] \in {"push", "init"} =>
                                     pc'[t] = pc[t] /\ dcs'[t] = dcs[t]
    PROVE  ListInv'
<1>1. \A n \in Nodes : Listed(n)' <=> Listed(n)
  BY DEF Listed
<1>2. PICK q \in Seq(Nodes) : Chain(q)
  BY DEF ListInv
<1>3. Chain(q)'
  BY <1>1, <1>2 DEF Chain
<1> QED
  BY <1>3 DEF ListInv

\* _STI_critical_init makes a list of Global alone.
LEMMA FirstOnList ==
    ASSUME IInv, ListInv, InitGlobal, UNCHANGED <<next, pc, dcs>>
    PROVE  ListInv'
<1> USE ListNodes
<1>1. PICK q \in Seq(Nodes) : Chain(q)
  BY DEF ListInv
<1>2. Len(q) = 0
  <2>1. Len(q) # 0 => q[1] \in Nodes
    OBVIOUS
  <2> QED
    BY <1>1, <2>1 DEF Chain, InitGlobal, Nodes
<1>3. \A n \in Nodes : ~Listed(n)
  BY <1>1, <1>2 DEF Chain
<1>4. \A n \in Nodes : Listed(n)' <=> n = Global
  BY <1>3 DEF Listed, InitGlobal, IInv, TypeInv, TypeOK
<1>5. PICK g \in Seq(Nodes) : Len(g) = 1 /\ g[1] = Global
  <2>1. <<Global>> \in Seq(Nodes) /\ Len(<<Global>>) = 1 /\ <<Global>>[1] = Global
    BY DEF Nodes
  <2> QED
    BY <2>1
<1>6. dcsList' = Global /\ phase' = "run" /\ next'[Global] = Null
  BY DEF InitGlobal, ListInv
<1>7. Chain(g)'
  <2>1. \A i \in 1..Len(g) : i = 1
    BY <1>5
  <2>2. 1 \in 1..Len(g) /\ Len(g) # 0
    BY <1>5
  <2>3. \A n \in Nodes : Listed(n)' <=> \E i \in 1..Len(g) : g[i] = n
    BY <1>4, <1>5, <2>1, <2>2
  <2>4. \A i \in 1..Len(g) : next'[g[i]] = Null /\ i = Len(g)
    BY <1>5, <1>6, <2>1
  <2> QED
    BY <1>5, <1>6, <2>1, <2>2, <2>3, <2>4 DEF Chain
<1>8. \A t \in Threads : pc[t] # "push"
  <2>1. CASE phase = "start"
    BY <2>1 DEF IInv, Phases
  <2>2. CASE phase = "run"
    BY <2>2 DEF IInv, Phases, InitGlobal
  <2>3. CASE ~Running
    BY <2>3 DEF IInv, Phases, Quiet
  <2> QED
    BY <2>1, <2>2, <2>3 DEF Running
<1> QED
  BY <1>5, <1>6, <1>7, <1>8 DEF ListInv

\* Lines 39 to 41 put a section that is not on the list in front of it.
LEMMA SetNextList == ASSUME IInv, ListInv, NEW t \in Threads, SetNext(t) PROVE ListInv'
<1> USE ListNodes
<1> DEFINE s == dcs[t]
<1>1. /\ s \in Sections /\ s \in Nodes /\ next[s] = Null /\ next' = [next EXCEPT ![s] = dcsList]
      /\ UNCHANGED <<dcsList, cs, dcs, phase>> /\ pc' = [pc EXCEPT ![t] = "push"]
      /\ pc[t] = "retest"
  BY DEF SetNext, StillUnlinked, LinkBefore, Goto, IInv, TypeInv, Nodes, locks, locals
<1>2. PICK q \in Seq(Nodes) : Chain(q)
  BY DEF ListInv
<1>3. \A i \in 1..Len(q) : q[i] \in Nodes /\ q[i] # s
  <2> SUFFICES ASSUME NEW i \in 1..Len(q), q[i] = s PROVE FALSE
    OBVIOUS
  <2>1. CASE i = Len(q)
    BY <1>1, <1>2, <2>1 DEF Chain
  <2>2. CASE i # Len(q)
    <3>1. i + 1 \in 1..Len(q) /\ q[i + 1] \in Nodes
      BY <2>2
    <3> QED
      BY <1>1, <1>2, <2>2, <3>1 DEF Chain, Nodes
  <2> QED
    BY <2>1, <2>2
<1>4. \A n \in Nodes : Listed(n)' <=> Listed(n)
  BY <1>1 DEF Listed, IInv, TypeInv, TypeOK
<1>5. \A i \in 1..Len(q) : next'[q[i]] = next[q[i]]
  BY <1>1, <1>3 DEF IInv, TypeInv, TypeOK
<1>6. Chain(q)'
  BY <1>1, <1>2, <1>4, <1>5 DEF Chain
<1>7. \A u \in Threads : pc'[u] = "push" => next'[dcs'[u]] = dcsList'
  BY <1>1 DEF IInv, TypeInv, TypeOK, GlobalHeld, Holding, Nodes
<1> QED
  BY <1>1, <1>6, <1>7 DEF ListInv, IInv, TypeInv, TypeOK, Nodes

\* dcs_list = dcs.
LEMMA PushList == ASSUME IInv, ListInv, NEW t \in Threads, Push(t) PROVE ListInv'
<1> USE ListNodes
<1> DEFINE s == dcs[t]
<1>1. /\ s \in Sections /\ s \in Nodes /\ pc[t] = "push" /\ next[s] = dcsList /\ cs[s] = "raw"
      /\ UNCHANGED <<next, cs, dcs, phase>> /\ pc' = [pc EXCEPT ![t] = "init"]
      /\ dcsList' = s
  BY DEF Push, Goto, IInv, TypeInv, Entering, ListInv, Nodes, locks, locals
<1>2. PICK q \in Seq(Nodes) : Chain(q)
  BY DEF ListInv
<1>3. \A u \in Threads : u # t => pc[u] \notin {"push", "init"}
  BY <1>1 DEF IInv, GlobalHeld, Holding
<1>4. ~Listed(s)
  BY <1>1, <1>3 DEF Listed
<1>5. \A n \in Nodes : Listed(n)' <=> Listed(n) \/ n = s
  BY <1>1 DEF Listed, IInv, TypeInv, TypeOK
<1>6. PICK p \in Seq(Nodes) : /\ Len(p) = Len(q) + 1 /\ p[1] = s
                              /\ \A i \in 1..Len(q) : p[i + 1] = q[i]
  <2> DEFINE p == <<s>> \o q
  <2>1. p \in Seq(Nodes) /\ Len(p) = Len(q) + 1 /\ p[1] = s
    BY <1>1
  <2>2. \A i \in 1..Len(q) : p[i + 1] = q[i]
    BY <1>1
  <2> QED
    BY <2>1, <2>2
<1>7. /\ Len(q) \in Nat
      /\ \A i \in 1..Len(p) : i # 1 => i - 1 \in 1..Len(q) /\ p[i] = q[i - 1]
      /\ \A i \in 1..Len(q) : q[i] # s
  <2>1. \A i \in 1..Len(q) : q[i] # s
    BY <1>1, <1>2, <1>4 DEF Chain
  <2>2. ASSUME NEW i \in 1..Len(p), i # 1 PROVE i - 1 \in 1..Len(q) /\ p[i] = q[i - 1]
    <3>1. i - 1 \in 1..Len(q) /\ (i - 1) + 1 = i
      BY <1>6, <2>2
    <3> QED
      BY <1>6, <3>1
  <2> QED
    BY <2>1, <2>2
<1>8. \A i, j \in 1..Len(p) : p[i] = p[j] => i = j
  <2> SUFFICES ASSUME NEW i \in 1..Len(p), NEW j \in 1..Len(p), p[i] = p[j] PROVE i = j
    OBVIOUS
  <2>1. CASE i = 1
    <3>1. j # 1 => p[j] # s
      BY <1>7
    <3> QED
      BY <1>6, <2>1, <3>1
  <2>2. CASE j = 1
    <3>1. i # 1 => p[i] # s
      BY <1>7
    <3> QED
      BY <1>6, <2>2, <3>1
  <2>3. CASE i # 1 /\ j # 1
    <3>1. i - 1 \in 1..Len(q) /\ j - 1 \in 1..Len(q) /\ q[i - 1] = q[j - 1]
      BY <1>7, <2>3
    <3>2. i - 1 = j - 1
      BY <1>2, <3>1 DEF Chain
    <3> QED
      BY <3>2
  <2> QED
    BY <2>1, <2>2, <2>3
<1>9. \A i \in 1..Len(p) : next[p[i]] = IF i = Len(p) THEN Null ELSE p[i + 1]
  <2> SUFFICES ASSUME NEW i \in 1..Len(p)
               PROVE  next[p[i]] = IF i = Len(p) THEN Null ELSE p[i + 1]
    OBVIOUS
  <2>1. CASE i = 1
    <3>1. CASE Len(q) = 0
      BY <1>1, <1>2, <1>6, <2>1, <3>1 DEF Chain
    <3>2. CASE Len(q) # 0
      <4>1. 1 \in 1..Len(q) /\ p[1 + 1] = q[1] /\ i # Len(p)
        BY <1>6, <1>7, <2>1, <3>2
      <4> QED
        BY <1>1, <1>2, <1>6, <2>1, <3>2, <4>1 DEF Chain
    <3> QED
      BY <3>1, <3>2
  <2>2. CASE i # 1
    <3>1. i - 1 \in 1..Len(q) /\ p[i] = q[i - 1] /\ (i = Len(p) <=> i - 1 = Len(q))
      BY <1>6, <1>7, <2>2
    <3>2. next[p[i]] = IF i - 1 = Len(q) THEN Null ELSE q[(i - 1) + 1]
      BY <1>2, <3>1 DEF Chain
    <3>3. i # Len(p) => i \in 1..Len(q) /\ p[i + 1] = q[i] /\ (i - 1) + 1 = i
      BY <1>6, <1>7
    <3> QED
      BY <3>1, <3>2, <3>3
  <2> QED
    BY <2>1, <2>2
<1>10. \A n \in Nodes : Listed(n)' <=> \E i \in 1..Len(p) : p[i] = n
  <2> SUFFICES ASSUME NEW n \in Nodes
               PROVE  Listed(n) \/ n = s <=> \E i \in 1..Len(p) : p[i] = n
    BY <1>5
  <2>1. ASSUME NEW i \in 1..Len(q), q[i] = n PROVE \E k \in 1..Len(p) : p[k] = n
    <3>1. i + 1 \in 1..Len(p) /\ p[i + 1] = n
      BY <1>6, <1>7, <2>1
    <3> QED
      BY <3>1
  <2>2. 1 \in 1..Len(p)
    BY <1>6, <1>7
  <2>3. ASSUME NEW k \in 1..Len(p), p[k] = n, n # s PROVE \E i \in 1..Len(q) : q[i] = n
    <3>1. k - 1 \in 1..Len(q) /\ q[k - 1] = n
      BY <1>6, <1>7, <2>3
    <3> QED
      BY <3>1
  <2>4. Listed(n) <=> \E i \in 1..Len(q) : q[i] = n
    BY <1>2 DEF Chain
  <2> QED
    BY <1>6, <2>1, <2>2, <2>3, <2>4
<1>11. p[Len(p)] = Global
  <2>1. CASE Len(q) = 0
    BY <1>1, <1>2, <2>1 DEF IInv, Phases, Running, Quiet, Chain, TypeInv, TypeOK
  <2>2. CASE Len(q) # 0
    BY <1>2, <1>6, <1>7, <2>2 DEF Chain
  <2> QED
    BY <2>1, <2>2
<1>12. Chain(p)'
  <2>1. dcsList' = p[1] /\ next' = next /\ Len(p) # 0
    BY <1>1, <1>6, <1>7
  <2> QED
    BY <1>8, <1>9, <1>10, <1>11, <2>1 DEF Chain
<1>13. \A u \in Threads : pc'[u] # "push"
  BY <1>1, <1>3 DEF IInv, TypeInv, TypeOK
<1>14. phase' # "end"
  BY <1>1 DEF IInv, Phases, Quiet, Running
<1> QED
  BY <1>1, <1>12, <1>13, <1>14 DEF ListInv

\* The section that is initialized has been listed since the push.
LEMMA InitSectionList ==
    ASSUME IInv, ListInv, NEW t \in Threads, InitSection(t) PROVE ListInv'
<1>1. /\ dcs[t] \in Sections /\ pc[t] = "init" /\ cs' = [cs EXCEPT ![dcs[t]] = "ready"]
      /\ UNCHANGED <<dcsList, next, dcs, phase>>
      /\ \A u \in Threads : pc'[u] = "push" => pc[u] = "push"
      /\ \A u \in Threads : pc'[u] = "init" <=> pc[u] = "init" /\ u # t
  <2>1. TypeInv
    BY DEF IInv
  <2>2. /\ pc[t] = "init" /\ dcs[t] \in Sections /\ pc'[t] = "unlockGlobal"
        /\ \A u \in Threads \ {t} :
            pc'[u] = pc[u] \/ (pc[u] = "enter" /\ pc'[u] = "hung")
    BY <2>1, AsleepStep
  <2>3. /\ cs' = [cs EXCEPT ![dcs[t]] = "ready"]
        /\ UNCHANGED <<dcsList, next, dcs, phase>>
    BY DEF InitSection, list, locals
  <2> QED
    BY <2>2, <2>3
<1>2. \A n \in Nodes : Listed(n)' <=> Listed(n)
  BY <1>1 DEF Listed, IInv, TypeInv, TypeOK
<1>3. PICK q \in Seq(Nodes) : Chain(q)
  BY DEF ListInv
<1>4. Chain(q)'
  BY <1>1, <1>2, <1>3 DEF Chain
<1> QED
  BY <1>1, <1>4 DEF ListInv

\* The walk deletes the first section and goes on with the rest.
LEMMA DeleteList == ASSUME IInv, ListInv, DeleteFirst PROVE ListInv'
<1> USE ListNodes
<1>1. /\ phase = "term" /\ phase' = phase /\ dcsList # Null
      /\ cs' = [cs EXCEPT ![dcsList] = "deleted"] /\ dcsList' = next[dcsList]
      /\ UNCHANGED <<next, pc, dcs>>
  BY DEF DeleteFirst, locals
<1>2. \A u \in Threads : pc[u] = "idle"
  BY <1>1 DEF IInv, Phases, Running, Quiet
<1>3. PICK q \in Seq(Nodes) : Chain(q)
  BY DEF ListInv
<1>4. Len(q) \in Nat /\ Len(q) # 0 /\ q[1] = dcsList /\ dcsList \in Nodes /\ 1 \in 1..Len(q)
  <2>1. Len(q) # 0 /\ q[1] = dcsList
    BY <1>1, <1>3 DEF Chain
  <2>2. Len(q) # 0 => q[1] \in Nodes
    OBVIOUS
  <2> QED
    BY <2>1, <2>2
<1>5. PICK r \in Seq(Nodes) : /\ Len(r) = Len(q) - 1
                              /\ \A i \in 1..Len(r) : r[i] = q[i + 1]
  <2>1. q # <<>>
    BY <1>4
  <2> QED
    BY <2>1, HeadTailProperties
<1>6. \A n \in Nodes : Listed(n)' <=> Listed(n) /\ n # dcsList
  BY <1>1, <1>2, <1>4 DEF Listed, IInv, TypeInv, TypeOK
<1>7. \A i \in 1..Len(r) : i + 1 \in 1..Len(q) /\ i + 1 # 1
  BY <1>4, <1>5
<1>8. \A i, j \in 1..Len(r) : r[i] = r[j] => i = j
  <2> SUFFICES ASSUME NEW i \in 1..Len(r), NEW j \in 1..Len(r), r[i] = r[j] PROVE i = j
    OBVIOUS
  <2>1. i + 1 = j + 1
    BY <1>3, <1>5, <1>7 DEF Chain
  <2> QED
    BY <2>1
<1>9. dcsList' = IF Len(r) = 0 THEN Null ELSE r[1]
  <2>1. next[q[1]] = IF 1 = Len(q) THEN Null ELSE q[1 + 1]
    BY <1>3, <1>4 DEF Chain
  <2>2. Len(r) # 0 => r[1] = q[1 + 1] /\ 1 # Len(q)
    BY <1>4, <1>5
  <2>3. Len(r) = 0 => 1 = Len(q)
    BY <1>4, <1>5
  <2> QED
    BY <1>1, <1>4, <2>1, <2>2, <2>3
<1>10. \A i \in 1..Len(r) : next[r[i]] = IF i = Len(r) THEN Null ELSE r[i + 1]
  <2> SUFFICES ASSUME NEW i \in 1..Len(r)
               PROVE  next[r[i]] = IF i = Len(r) THEN Null ELSE r[i + 1]
    OBVIOUS
  <2>1. next[q[i + 1]] = IF i + 1 = Len(q) THEN Null ELSE q[(i + 1) + 1]
    BY <1>3, <1>7 DEF Chain
  <2>2. i + 1 = Len(q) <=> i = Len(r)
    BY <1>4, <1>5
  <2>3. i # Len(r) => r[i + 1] = q[(i + 1) + 1]
    BY <1>4, <1>5
  <2> QED
    BY <1>5, <2>1, <2>2, <2>3
<1>11. \A n \in Nodes : Listed(n)' <=> \E i \in 1..Len(r) : r[i] = n
  <2> SUFFICES ASSUME NEW n \in Nodes
               PROVE  Listed(n) /\ n # dcsList <=> \E i \in 1..Len(r) : r[i] = n
    BY <1>6
  <2>1. ASSUME NEW k \in 1..Len(q), q[k] = n, n # dcsList
        PROVE  \E i \in 1..Len(r) : r[i] = n
    <3>1. k # 1
      BY <1>4, <2>1
    <3>2. k - 1 \in 1..Len(r) /\ (k - 1) + 1 = k
      BY <1>4, <1>5, <3>1
    <3> QED
      BY <1>5, <2>1, <3>2
  <2>2. ASSUME NEW i \in 1..Len(r), r[i] = n
        PROVE  (\E k \in 1..Len(q) : q[k] = n) /\ n # dcsList
    BY <1>3, <1>4, <1>5, <1>7, <2>2 DEF Chain
  <2> QED
    BY <1>3, <2>1, <2>2 DEF Chain
<1>12. Len(r) # 0 => r[Len(r)] = Global
  <2>1. Len(r) # 0 => Len(r) \in 1..Len(r) /\ Len(r) + 1 = Len(q)
    BY <1>4, <1>5
  <2> QED
    BY <1>3, <1>4, <1>5, <2>1 DEF Chain
<1>13. Chain(r)'
  BY <1>1, <1>8, <1>9, <1>10, <1>11, <1>12 DEF Chain
<1> QED
  BY <1>1, <1>2, <1>13 DEF ListInv

\* With IInv, ListInv is inductive.
LEMMA NextListInv == IInv /\ ListInv /\ [Next]_vars => ListInv'
<1> SUFFICES ASSUME IInv, ListInv, [Next]_vars PROVE ListInv'
  OBVIOUS
<1> USE DEF list, locks, locals
<1>1. ASSUME NEW t \in Threads, Call(t) \/ Test(t) \/ LockGlobal(t) \/ Retest(t) \/ UnlockGlobal(t)
      PROVE  ListInv'
  <2>1. /\ UNCHANGED <<phase, dcsList, next, cs>>
        /\ \A u \in Threads \ {t} : dcs'[u] = dcs[u]
        /\ pc[t] \notin {"push", "init"}
        /\ \E l \in Pcs \ {"push", "init"} : pc' = [pc EXCEPT ![t] = l]
    BY <1>1 DEF Call, Test, LockGlobal, Retest, UnlockGlobal, Goto, Pcs, IInv, TypeInv, TypeOK
  <2> QED
    BY <2>1, ListSame DEF IInv, TypeInv, TypeOK, ListInv
<1>2. ASSUME NEW t \in Threads,
             EnterSection(t) \/ EnterRawPosix(t) \/ EnterRawWin32(t) \/ Exit(t)
      PROVE  ListInv'
  <2>1. /\ UNCHANGED <<phase, dcsList, next, cs>>
        /\ \A u \in Threads \ {t} : dcs'[u] = dcs[u]
        /\ pc[t] \notin {"push", "init"}
        /\ pc' = pc \/ \E l \in Pcs \ {"push", "init"} : pc' = [pc EXCEPT ![t] = l]
    BY <1>2 DEF EnterSection, EnterRawPosix, EnterRawWin32, Exit, Granted, Goto, Pcs, IInv,
       TypeInv, TypeOK
  <2> QED
    BY <2>1, ListSame DEF IInv, TypeInv, TypeOK, ListInv
<1>3. ASSUME NEW t \in Threads, LazyInit(t) PROVE ListInv'
  BY <1>3, FirstOnList DEF LazyInit
<1>4. CASE StaticInit
  BY <1>4, FirstOnList DEF StaticInit
<1>5. CASE BeginTerm \/ EndTerm
  BY <1>5, ListSame DEF BeginTerm, EndTerm
<1>6. CASE UNCHANGED vars
  BY <1>6, ListSame DEF vars, ListInv
<1> QED
  BY <1>1, <1>2, <1>3, <1>4, <1>5, <1>6, SetNextList, PushList, InitSectionList, DeleteList
  DEF Next, EnterStep, ProgramStep

\* With it, the list of sections is right.
LEMMA ListInvariance == Spec => [](IInv /\ ListInv)
<1>1. Init => IInv /\ ListInv
  BY InitInv, InitListInv
<1>2. IInv /\ ListInv /\ [Next]_vars => (IInv /\ ListInv)'
  BY StepInv, NextListInv
<1> QED
  BY <1>1, <1>2, PTL DEF Spec

\* Termination meets every section that was initialized, each once, in whatever
\* order the threads linked them, and leaves none undeleted.
THEOREM TerminationCorrect == Spec => []TermReleasesAll
<1>1. IInv /\ ListInv => TermReleasesAll
  <2> SUFFICES ASSUME IInv, ListInv, phase \in {"term", "end"}
               PROVE  TermReleasesAll
    BY DEF TermReleasesAll
  <2>1. \A n \in Nodes : Listed(n) <=> cs[n] = "ready"
    BY DEF Listed, IInv, Phases, Running, Quiet
  <2>2. PICK q \in Seq(Nodes) : Chain(q)
    BY DEF ListInv
  <2>3. Len(q) # 0 => q[1] \in Nodes /\ 1 \in 1..Len(q)
    OBVIOUS
  <2>4. dcsList # Null => cs[dcsList] = "ready"
    BY <2>1, <2>2, <2>3 DEF Chain
  <2>5. phase = "end" => \A n \in Nodes : cs[n] # "ready"
    <3>1. dcsList = Null => Len(q) = 0
      BY <2>2, <2>3, ListNodes DEF Chain, Nodes
    <3> QED
      BY <2>1, <2>2, <3>1 DEF Chain, ListInv
  <2> QED
    BY <2>4, <2>5 DEF TermReleasesAll
<1> QED
  BY <1>1, ListInvariance, PTL
=============================================================================
