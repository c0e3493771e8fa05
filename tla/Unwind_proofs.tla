---------------------------- MODULE Unwind_proofs ----------------------------
(***************************************************************************)
(* Proofs about Unwind, for any functions and tables that nest, any        *)
(* classes, any depth of the stack, both platforms: that the stack and the *)
(* monitors agree (StackSound), that an exception is caught by the         *)
(* innermost section that has a block for it (CaughtByInnermost), and that *)
(* the finally blocks on the way run once, innermost first (FinallyOnce).  *)
(*                                                                         *)
(* The loops of deh.c follow prev, frame by frame.  The invariant compares *)
(* the cursor with the set Guarding of all sections around the throw:      *)
(* those inside the cursor are the ones the handler has seen.  A step adds *)
(* at most the section at the cursor to them (EnterSection, EnterFrame),   *)
(* so nothing has to be said of the table as a whole.                      *)
(***************************************************************************)
EXTENDS Unwind, FiniteSetTheorems, SequenceTheorems, TLAPS

-----------------------------------------------------------------------------
(* Sets of indices, sections, catch blocks *)

\* A nonempty set of indices has a greatest and a least element.
LEMMA Extremes ==
    ASSUME NEW n \in Nat, NEW S \in SUBSET (1..n), S # {}
    PROVE  /\ \E i \in S : \A j \in S : j <= i
           /\ \E i \in S : \A j \in S : i <= j
<1> DEFINE above(i) == {j \in S : j > i}
           below(i) == {j \in S : j < i}
<1>1. \A X \in SUBSET S : X \in FiniteSubsetsOf(1..n)
  <2>1. IsFiniteSet(1..n)
    BY FS_Interval
  <2> QED
    BY <2>1, FS_Subset DEF FiniteSubsetsOf
<1>2. \E i \in S : \A j \in S : j <= i
  <2> DEFINE A == {above(i) : i \in S}
  <2>1. A \subseteq FiniteSubsetsOf(1..n) /\ A # {}
    BY <1>1
  <2>2. PICK b \in A : \A c \in A : <<c, b>> \notin StrictSubsetOrdering(1..n)
    <3> HIDE DEF A
    <3> QED
      BY <2>1, FS_StrictSubsetOrderingWellFounded, WFMin
  <2>3. PICK i \in S : b = above(i)
    OBVIOUS
  <2>4. ASSUME NEW j \in S, j > i PROVE FALSE
    <3>1. (\A m \in S : m > j => m > i) /\ ~(j > j)
      BY <2>3, <2>4
    <3>2. above(j) \subseteq above(i) /\ j \in above(i) /\ j \notin above(j)
      BY <2>3, <2>4, <3>1
    <3>3. above(j) \in SUBSET (1..n) /\ above(i) \in SUBSET (1..n)
      OBVIOUS
    <3> HIDE DEF above
    <3> QED
      BY <2>2, <2>3, <3>2, <3>3 DEF StrictSubsetOrdering
  <2>5. \A j \in S : j <= i
    BY <2>4
  <2> QED
    BY <2>3, <2>5
<1>3. \E i \in S : \A j \in S : i <= j
  <2> DEFINE B == {below(i) : i \in S}
  <2>1. B \subseteq FiniteSubsetsOf(1..n) /\ B # {}
    BY <1>1
  <2>2. PICK b \in B : \A c \in B : <<c, b>> \notin StrictSubsetOrdering(1..n)
    <3> HIDE DEF B
    <3> QED
      BY <2>1, FS_StrictSubsetOrderingWellFounded, WFMin
  <2>3. PICK i \in S : b = below(i)
    OBVIOUS
  <2>4. ASSUME NEW j \in S, j < i PROVE FALSE
    <3>1. (\A m \in S : m < j => m < i) /\ ~(j < j)
      BY <2>3, <2>4
    <3>2. below(j) \subseteq below(i) /\ j \in below(i) /\ j \notin below(j)
      BY <2>3, <2>4, <3>1
    <3>3. below(j) \in SUBSET (1..n) /\ below(i) \in SUBSET (1..n)
      OBVIOUS
    <3> HIDE DEF below
    <3> QED
      BY <2>2, <2>3, <3>2, <3>3 DEF StrictSubsetOrdering
  <2>5. \A j \in S : i <= j
    BY <2>4
  <2> QED
    BY <2>3, <2>5
<1> QED
  BY <1>2, <1>3

\* Inner gives the greatest index of a set, or 0.
LEMMA InnerGreatest ==
    ASSUME NEW n \in Nat, NEW S \in SUBSET (1..n)
    PROVE  /\ Inner(S) \in 0..n
           /\ Inner(S) = 0 <=> S = {}
           /\ S # {} => Inner(S) \in S
           /\ \A j \in S : j <= Inner(S)
<1>1. CASE S = {}
  BY <1>1 DEF Inner
<1>2. CASE S # {}
  <2>1. \E i \in S : \A j \in S : j <= i
    BY <1>2, Extremes
  <2>2. Inner(S) \in S /\ \A j \in S : j <= Inner(S)
    BY <1>2, <2>1 DEF Inner
  <2> QED
    BY <1>2, <2>2, Inner(S) \in 1..n
<1> QED
  BY <1>1, <1>2

Entry == [start : Nat, end : Nat, prev : Nat, catches : Seq(Classes)]

\* A section of a function, and the next one outwards.
LEMMA SectionType ==
    ASSUME NEW f \in Functions
    PROVE  /\ Len(Table[f]) \in Nat
           /\ \A i \in 1..Len(Table[f]) :
                /\ Table[f][i] \in Entry
                /\ Table[f][i].prev \in 0..Len(Table[f])
<1>1. Table[f] \in Seq(Entry)
  BY TableType DEF Entry
<1>2. /\ Len(Table[f]) \in Nat
      /\ \A i \in 1..Len(Table[f]) : Table[f][i] \in Entry
  BY <1>1
<1>3. ASSUME NEW i \in 1..Len(Table[f])
      PROVE Table[f][i].prev \in 0..Len(Table[f])
  <2>1. Table[f][i].prev \in Nat /\ Table[f][i].prev < i
    BY <1>2, TableOrder DEF Entry
  <2> QED
    BY <1>2, <2>1
<1> QED
  BY <1>2, <1>3

\* prev leads to the next section around the same address.
LEMMA PrevIsNext ==
    ASSUME NEW f \in Functions, NEW r \in 1..Size, NEW i \in Around(f, r)
    PROVE  /\ Table[f][i].prev \in Nat /\ Table[f][i].prev < i
           /\ Table[f][i].prev # 0 => Table[f][i].prev \in Around(f, r)
           /\ \A j \in Around(f, r) : j < i => j <= Table[f][i].prev
<1> DEFINE S == {j \in Around(f, r) : j < i}
<1>1. Len(Table[f]) \in Nat /\ i \in 1..Len(Table[f])
  BY SectionType DEF Around
<1>2. S \in SUBSET (1..Len(Table[f]))
  BY DEF Around
<1>3. Table[f][i].prev = Inner(S)
  BY TableNested
<1> HIDE DEF S
<1>4. /\ Inner(S) \in 0..Len(Table[f])
      /\ Inner(S) # 0 => Inner(S) \in S
      /\ \A j \in S : j <= Inner(S)
  BY <1>1, <1>2, InnerGreatest
<1> USE DEF S
<1> QED
  BY <1>1, <1>3, <1>4

\* The block of a section that is chosen.
LEMMA BlockChosen ==
    ASSUME NEW s \in Entry
    PROVE  /\ Block(s) \in 0..Len(s.catches)
           /\ Block(s) # 0 => <<ThrownClass(exc), s.catches[Block(s)]>> \in IsBaseOf
<1> DEFINE B == {b \in 1..Len(s.catches) : <<ThrownClass(exc), s.catches[b]>> \in IsBaseOf}
<1>1. Len(s.catches) \in Nat /\ B \in SUBSET (1..Len(s.catches))
  BY DEF Entry
<1>2. CASE B = {}
  BY <1>1, <1>2 DEF Block
<1>3. CASE B # {}
  <2>1. \E b \in B : \A c \in B : b <= c
    <3> HIDE DEF B
    <3> QED
      BY <1>1, <1>3, Extremes
  <2>2. Block(s) \in B
    BY <1>3, <2>1 DEF Block
  <2> QED
    BY <1>1, <2>2
<1> QED
  BY <1>2, <1>3

-----------------------------------------------------------------------------
(* The inductive invariant *)

\* The sections around the call a frame is in.
Own(f) == IF f.monitor = Null THEN Around(f.fn, f.at) ELSE {}

\* What a frame is.  Its index is that of the innermost of its sections; where
\* a catch block runs on Posix nobody has set it.
Sound(f, p) ==
    /\ f \in Frames
    /\ f.monitor = Null => /\ f.fn \in Functions /\ f.at \in 1..Size
                           /\ f.index = Inner(Own(f)) \/ (p /\ f.index = 0)
    /\ f.monitor # Null => f.index = 0 /\ ~p

IsStack(s, p) ==
    /\ s \in Seq(Frames)
    /\ Len(s) <= MaxDepth
    /\ \A j \in 1..Len(s) : Sound(s[j], p)

StackInv == TypeOK /\ IsStack(stack, posix) /\ IsStack(origin, posix) /\ MonitorsHeld

\* While an exception is handled, the cursor is in a frame of the throw that is
\* still there, and at one of its sections.
CursorOn ==
    phase \in {"search", "unwind", "walk"} =>
        /\ exc # Null
        /\ phase = "walk" <=> posix
        /\ k \in 0..Len(origin)
        /\ k = 0 => ndx = 0
        /\ ndx # 0 => /\ origin[k].monitor = Null
                      /\ ndx \in 1..Len(Table[origin[k].fn])
                      /\ Exact => ndx \in Own(origin[k])
        /\ phase # "unwind" => stack = origin
        /\ phase = "unwind" => k = Len(stack) /\ \A j \in 1..k : stack[j] = origin[j]

\* What was searched does not catch it.
Searched ==
    Exact /\ phase \in {"search", "walk"} =>
        \A p \in Guarding : Inside(p, cursor) => Block(SectionAt(p)) = 0

Goal == <<target.frame, target.section>>

\* The target is the innermost section that catches it,
Aimed ==
    Exact /\ phase \in {"unwind", "caught"} =>
        /\ exc # Null
        /\ Goal \in Catching
        /\ \A q \in Catching \ {Goal} : Inside(Goal, q)
        /\ target.block = Block(SectionAt(Goal))
        /\ target.gets = ClassOf(exc)

\* and the unwinding does not go past it.
NotPast == phase = "unwind" => ~Inside(Goal, cursor)

\* The finally blocks the handler has passed have run.
Behind ==
    Exact =>
        /\ \A m, n \in 1..Len(ran) : m < n => Inside(ran[m], ran[n])
        /\ phase \in {"run", "search"} => ran = <<>>
        /\ phase \in {"unwind", "walk"} =>
            HasRun = {p \in Guarding : Runs(SectionAt(p)) /\ Inside(p, cursor)}
        /\ phase = "caught" =>
            HasRun = {p \in Guarding : Runs(SectionAt(p)) /\ Inside(p, Goal)}
        /\ phase = "uncaught" =>
            HasRun = IF posix THEN {p \in Guarding : Runs(SectionAt(p))} ELSE {}

NobodyCatches == Exact /\ phase = "uncaught" => Catching = {}

Handled ==
    /\ k \in 0..MaxDepth /\ ndx \in Nat /\ CursorOn
    /\ Searched /\ Aimed /\ NotPast /\ NobodyCatches
    /\ ran \in Seq(Nat \X Nat) /\ Behind

IInv == StackInv /\ Handled

-----------------------------------------------------------------------------
(* Frames and stacks *)

\* The sections of a frame are sections of its function, and so is the one
\* that its return address tells.
LEMMA FrameSections ==
    ASSUME NEW f, Sound(f, posix)
    PROVE  /\ Inner(Own(f)) \in Nat
           /\ Inner(Own(f)) = 0 <=> Own(f) = {}
           /\ Own(f) # {} => Inner(Own(f)) \in Own(f)
           /\ \A i \in Own(f) : i \in Nat /\ i # 0 /\ i <= Inner(Own(f))
           /\ f.monitor = Null =>
                /\ Own(f) = Around(f.fn, f.at)
                /\ Own(f) \subseteq 1..Len(Table[f.fn])
                /\ Inner(Own(f)) \in 0..Len(Table[f.fn])
                /\ f.index \in 0..Len(Table[f.fn])
                /\ IndexByAddress(f) \in 0..Len(Table[f.fn])
<1>1. CASE f.monitor # Null
  <2>1. Own(f) = {} /\ Inner({}) = 0
    BY <1>1 DEF Own, Inner
  <2> QED
    BY <1>1, <2>1
<1>2. CASE f.monitor = Null
  <2> DEFINE n == Len(Table[f.fn])
             S == {i \in 1..n : f.at >= Table[f.fn][i].start}
  <2>1. f.fn \in Functions /\ f.at \in 1..Size /\ n \in Nat
    BY <1>2, SectionType DEF Sound
  <2>2. Own(f) = Around(f.fn, f.at) /\ Own(f) \in SUBSET (1..n)
    BY <1>2 DEF Own, Around
  <2>3. S \in SUBSET (1..n)
    OBVIOUS
  <2>4. Inner(S) \in 0..n
    <3> HIDE DEF n, S
    <3> QED
      BY <2>1, <2>3, InnerGreatest
  <2>5. IndexByAddress(f) \in 0..n
    BY <2>1, <2>4 DEF IndexByAddress
  <2>6. /\ Inner(Own(f)) \in 0..n
        /\ Inner(Own(f)) = 0 <=> Own(f) = {}
        /\ Own(f) # {} => Inner(Own(f)) \in Own(f)
        /\ \A j \in Own(f) : j <= Inner(Own(f))
    BY <2>1, <2>2, InnerGreatest
  <2>7. f.index \in 0..n
    BY <1>2, <2>1, <2>6 DEF Sound
  <2> HIDE DEF n, S
  <2>8. Inner(Own(f)) \in Nat /\ \A i \in Own(f) : i \in Nat /\ i # 0 /\ i <= Inner(Own(f))
    BY <2>1, <2>2, <2>6
  <2> QED
    BY <2>2, <2>5, <2>6, <2>7, <2>8 DEF n
<1> QED
  BY <1>1, <1>2

\* A frame of a function that is in a call, and one of a synchronized method.
LEMMA FrameSound ==
    ASSUME NEW f \in Functions, NEW r \in 1..Size
    PROVE  Sound(Frame(f, r), posix) /\ Frame(f, r).monitor = Null
<1>1. Around(f, r) \in SUBSET (1..Len(Table[f])) /\ Len(Table[f]) \in Nat
  BY SectionType DEF Around
<1>2. Inner(Around(f, r)) \in Nat
  BY <1>1, InnerGreatest
<1> QED
  BY <1>2, Bounds DEF Sound, Frame, Frames, Own

\* A stack that is cut off, or grows.
LEMMA CutStack ==
    ASSUME NEW s, IsStack(s, posix), NEW n \in 0..Len(s)
    PROVE  /\ IsStack(SubSeq(s, 1, n), posix)
           /\ Len(SubSeq(s, 1, n)) = n
           /\ \A j \in 1..n : SubSeq(s, 1, n)[j] = s[j]
<1>1. Len(s) \in Nat /\ \A j \in 1..n : s[j] \in Frames
  BY DEF IsStack
<1>2. /\ SubSeq(s, 1, n) \in Seq(Frames)
      /\ Len(SubSeq(s, 1, n)) = n
      /\ \A j \in 1..n : SubSeq(s, 1, n)[j] = s[j]
  BY <1>1, SubSeqProperties
<1> QED
  BY <1>1, <1>2, Bounds DEF IsStack

\* A stack with one more frame.
LEMMA PushStack ==
    ASSUME NEW s, IsStack(s, posix), Len(s) < MaxDepth, NEW f, Sound(f, posix)
    PROVE  /\ IsStack(Append(s, f), posix)
           /\ Len(Append(s, f)) = Len(s) + 1
           /\ \A j \in 1..Len(s) : Append(s, f)[j] = s[j]
           /\ Append(s, f)[Len(s) + 1] = f
<1>1. s \in Seq(Frames) /\ f \in Frames /\ Len(s) \in Nat
  BY DEF IsStack, Sound
<1>2. /\ Append(s, f) \in Seq(Frames)
      /\ Len(Append(s, f)) = Len(s) + 1
      /\ \A j \in 1..Len(s) : Append(s, f)[j] = s[j]
      /\ Append(s, f)[Len(s) + 1] = f
  BY <1>1, AppendProperties
<1> QED
  BY <1>1, <1>2, Bounds DEF IsStack

\* The frames of methods that have locked an object.
Holders(s, o) == {j \in 1..Len(s) : s[j].monitor = o}

\* Who holds a monitor when a frame is entered.
LEMMA PushHolders ==
    ASSUME NEW s, IsStack(s, posix), Len(s) < MaxDepth, NEW f, Sound(f, posix),
           NEW o \in Objects
    PROVE  /\ Cardinality(Holders(s, o)) \in Nat
           /\ Cardinality(Holders(Append(s, f), o)) =
                IF f.monitor = o THEN Cardinality(Holders(s, o)) + 1
                ELSE Cardinality(Holders(s, o))
<1> DEFINE t == Append(s, f)
           n == Len(s)
<1>1. /\ Len(t) = n + 1 /\ n \in Nat
      /\ \A j \in 1..n : t[j] = s[j]
      /\ t[n + 1] = f
  BY PushStack DEF IsStack
<1>2. IsFiniteSet(Holders(s, o)) /\ n + 1 \notin Holders(s, o)
  <2>1. IsFiniteSet(1..n)
    BY <1>1, FS_Interval
  <2> QED
    BY <1>1, <2>1, FS_Subset DEF Holders
<1>3. Holders(t, o) = IF f.monitor = o THEN Holders(s, o) \cup {n + 1} ELSE Holders(s, o)
  <2> HIDE DEF t, n
  <2>1. ASSUME NEW j PROVE j \in 1..(n + 1) <=> j \in 1..n \/ j = n + 1
    BY <1>1
  <2>2. \A j : j \in Holders(t, o) <=> j \in Holders(s, o) \/ (j = n + 1 /\ f.monitor = o)
    BY <1>1, <2>1 DEF Holders, n
  <2> QED
    BY <2>2
<1> QED
  BY <1>2, <1>3, FS_AddElement, FS_CardinalityType

\* Two stacks of one length whose frames hold the same monitors.
LEMMA SameHolders ==
    ASSUME NEW s, NEW t, Len(s) = Len(t), \A j \in 1..Len(s) : s[j].monitor = t[j].monitor
    PROVE  \A o \in Objects : Holders(s, o) = Holders(t, o)
  BY DEF Holders

\* The frame on top goes.
LEMMA PopStack ==
    ASSUME NEW s, IsStack(s, posix), s # <<>>
    PROVE  /\ Len(s) \in Nat /\ Len(s) # 0
           /\ IsStack(Up(s), posix) /\ Len(Up(s)) = Len(s) - 1
           /\ \A j \in 1..Len(s) - 1 : Up(s)[j] = s[j]
           /\ Sound(Top(s), posix)
<1>1. Len(s) \in Nat /\ Len(s) # 0
  BY EmptySeq DEF IsStack
<1>2. Len(s) - 1 \in 0..Len(s) /\ Len(s) \in 1..Len(s)
  BY <1>1
<1>3. Sound(Top(s), posix)
  BY <1>2 DEF IsStack, Top
<1> QED
  BY <1>1, <1>2, <1>3, CutStack DEF Up

\* Who holds a monitor when a frame is left.
LEMMA PopHolders ==
    ASSUME NEW s, IsStack(s, posix), s # <<>>, NEW o \in Objects
    PROVE  /\ Cardinality(Holders(Up(s), o)) \in Nat
           /\ Cardinality(Holders(s, o)) =
                IF Top(s).monitor = o THEN Cardinality(Holders(Up(s), o)) + 1
                ELSE Cardinality(Holders(Up(s), o))
<1> DEFINE t == Append(Up(s), Top(s))
<1>1. /\ Len(s) \in Nat /\ Len(s) # 0
      /\ IsStack(Up(s), posix) /\ Len(Up(s)) = Len(s) - 1
      /\ \A j \in 1..Len(s) - 1 : Up(s)[j] = s[j]
      /\ Sound(Top(s), posix)
  BY PopStack
<1>2. Len(Up(s)) < MaxDepth
  BY <1>1, Bounds DEF IsStack
<1>3. /\ Len(t) = Len(s) /\ t[Len(s)] = Top(s)
      /\ \A j \in 1..Len(s) - 1 : t[j] = s[j]
  BY <1>1, <1>2, PushStack
<1>4. \A j \in 1..Len(s) : t[j] = s[j]
  <2> HIDE DEF t
  <2> QED
    BY <1>1, <1>3 DEF Top
<1>5. Holders(t, o) = Holders(s, o)
  BY <1>3, <1>4, SameHolders
<1> QED
  BY <1>1, <1>2, <1>5, PushHolders

-----------------------------------------------------------------------------
(* What a step does to the stack and the locks *)

\* The stack fits the type invariant.
LEMMA StackTyped ==
    ASSUME NEW s, IsStack(s, posix)
    PROVE  \A j \in 1..Len(s) :
              /\ s[j].monitor = Null => s[j].index \in 0..Len(Table[s[j].fn])
              /\ s[j].monitor # Null => s[j].index = 0
<1>1. \A j \in 1..Len(s) : Sound(s[j], posix)
  BY DEF IsStack
<1> QED
  BY <1>1, FrameSections DEF Sound

\* The ways in which stack and locks change: not at all; a frame comes; the one
\* on top goes; frames are replaced with the same monitors; and anything, where
\* nothing is synchronized.
LEMMA StackMoves ==
    ASSUME StackInv, posix' = posix,
           \/ UNCHANGED <<stack, locked>>
           \/ /\ Len(stack) < MaxDepth
              /\ \E f : /\ Sound(f, posix)
                        /\ stack' = Append(stack, f)
                        /\ f.monitor = Null => locked' = locked
                        /\ f.monitor # Null =>
                             locked' = [locked EXCEPT ![f.monitor] = @ + 1]
           \/ stack # <<>> /\ stack' = Up(stack) /\ locked' = Unlocked(Top(stack))
           \/ /\ locked' = locked
              /\ IsStack(stack', posix)
              /\ posix \/ /\ Len(stack') = Len(stack)
                          /\ \A j \in 1..Len(stack) : stack[j].monitor = stack'[j].monitor
    PROVE  IsStack(stack', posix) /\ locked' \in [Objects -> Nat] /\ MonitorsHeld'
<1> USE DEF StackInv
<1>1. /\ IsStack(stack, posix) /\ locked \in [Objects -> Nat]
      /\ \A o \in Objects : locked[o] = Cardinality(Holders(stack, o))
      /\ Null \notin Objects
  BY NullIsNone DEF TypeOK, MonitorsHeld, Holders
<1>2. SUFFICES /\ IsStack(stack', posix) /\ locked' \in [Objects -> Nat]
               /\ \A o \in Objects : locked'[o] = Cardinality(Holders(stack', o))
  BY DEF MonitorsHeld, Holders
<1>3. CASE UNCHANGED <<stack, locked>>
  BY <1>1, <1>3
<1>4. ASSUME Len(stack) < MaxDepth, NEW f, Sound(f, posix), stack' = Append(stack, f),
             f.monitor = Null => locked' = locked,
             f.monitor # Null => locked' = [locked EXCEPT ![f.monitor] = @ + 1]
      PROVE  /\ IsStack(stack', posix) /\ locked' \in [Objects -> Nat]
             /\ \A o \in Objects : locked'[o] = Cardinality(Holders(stack', o))
  <2>1. IsStack(stack', posix)
    BY <1>1, <1>4, PushStack
  <2>2. locked' \in [Objects -> Nat]
    BY <1>1, <1>4
  <2>3. ASSUME NEW o \in Objects PROVE locked'[o] = Cardinality(Holders(stack', o))
    <3>1. Cardinality(Holders(stack', o)) =
            IF f.monitor = o THEN Cardinality(Holders(stack, o)) + 1
            ELSE Cardinality(Holders(stack, o))
      BY <1>1, <1>4, PushHolders
    <3> QED
      BY <1>1, <1>4, <3>1
  <2> QED
    BY <2>1, <2>2, <2>3
<1>5. CASE stack # <<>> /\ stack' = Up(stack) /\ locked' = Unlocked(Top(stack))
  <2> DEFINE m == Top(stack).monitor
  <2>1. IsStack(stack', posix)
    BY <1>1, <1>5, PopStack
  <2>2. ASSUME NEW o \in Objects
        PROVE /\ Cardinality(Holders(stack', o)) \in Nat
              /\ m = o => locked[o] = Cardinality(Holders(stack', o)) + 1
              /\ m # o => locked[o] = Cardinality(Holders(stack', o))
    BY <1>1, <1>5, PopHolders
  <2>3. /\ m = Null => locked' = locked
        /\ m # Null => locked' = [locked EXCEPT ![m] = @ - 1]
    BY <1>5 DEF Unlocked
  <2> HIDE DEF m
  <2>4. ASSUME NEW o \in Objects
        PROVE locked'[o] = Cardinality(Holders(stack', o))
    BY <1>1, <2>2, <2>3
  <2>5. locked' \in [Objects -> Nat]
    <3>1. locked' = [o \in Objects |-> locked'[o]]
      BY <1>1, <2>3
    <3> QED
      BY <2>2, <2>4, <3>1
  <2> QED
    BY <2>1, <2>4, <2>5
<1>6. ASSUME locked' = locked, IsStack(stack', posix),
             posix \/ /\ Len(stack') = Len(stack)
                      /\ \A j \in 1..Len(stack) : stack[j].monitor = stack'[j].monitor
      PROVE  \A o \in Objects : locked'[o] = Cardinality(Holders(stack', o))
  <2>1. CASE posix
    <3>1. \A o \in Objects : Holders(stack, o) = {} /\ Holders(stack', o) = {}
      BY <1>1, <1>6, <2>1 DEF Holders, IsStack, Sound
    <3> QED
      BY <1>1, <1>6, <3>1
  <2>2. CASE ~posix
    BY <1>1, <1>6, <2>2, SameHolders
  <2> QED
    BY <2>1, <2>2
<1> QED
  BY <1>1, <1>3, <1>4, <1>5, <1>6

\* A frame lands in its catch block, and those above it are gone.
LEMMA LandStack ==
    ASSUME IsStack(stack, posix), k \in 1..Len(stack), stack[k].monitor = Null,
           NEW i, Land(i), i = Section(target'.section).prev \/ (posix /\ i = 0)
    PROVE  /\ IsStack(stack', posix) /\ phase' = "caught"
           /\ Len(stack') = k /\ stack'[k].monitor = Null
           /\ \A j \in 1..k - 1 : stack'[j] = stack[j]
<1> DEFINE s == SubSeq(stack, 1, k - 1)
<1>1. PICK r \in 1..Size :
        /\ Inner(Around(stack[k].fn, r)) = Section(target'.section).prev
        /\ stack' = Append(s, [fn |-> stack[k].fn, at |-> r, index |-> i, monitor |-> Null])
  BY DEF Land
<1> DEFINE f == [fn |-> stack[k].fn, at |-> r, index |-> i, monitor |-> Null]
<1>2. Len(stack) \in Nat /\ Len(stack) <= MaxDepth /\ Sound(stack[k], posix)
  BY DEF IsStack
<1>3. k - 1 \in 0..Len(stack) /\ k \in Nat
  BY <1>2
<1>4. /\ IsStack(s, posix) /\ Len(s) = k - 1
      /\ \A j \in 1..k - 1 : s[j] = stack[j]
  BY <1>3, CutStack
<1>5. Sound(f, posix)
  <2>1. stack[k].fn \in Functions
    BY <1>2 DEF Sound
  <2>2. Sound(Frame(stack[k].fn, r), posix)
    BY <2>1, FrameSound
  <2>3. i = Inner(Around(stack[k].fn, r)) \/ (posix /\ i = 0)
    BY <1>1
  <2> QED
    BY <2>1, <2>2, <2>3 DEF Sound, Frame, Frames, Own
<1>6. f.monitor = Null /\ stack' = Append(s, f)
  BY <1>1
<1> HIDE DEF s, f
<1>7. Len(s) < MaxDepth
  BY <1>2, <1>3, <1>4, Bounds
<1>8. /\ IsStack(stack', posix) /\ Len(stack') = k /\ stack'[k] = f
      /\ \A j \in 1..k - 1 : stack'[j] = s[j]
  BY <1>3, <1>4, <1>5, <1>6, <1>7, PushStack
<1> QED
  BY <1>4, <1>6, <1>8 DEF Land

-----------------------------------------------------------------------------
(* What a step does to the cursor *)

\* The index at which a handler begins with a frame is that of the innermost
\* section, on Posix if the return address tells it.
LEMMA FrameIndex ==
    ASSUME NEW f, Sound(f, posix), NEW i,
           i = IF posix THEN IndexByAddress(f) ELSE f.index
    PROVE  /\ i \in Nat
           /\ i # 0 => f.monitor = Null /\ i \in 1..Len(Table[f.fn])
           /\ ~posix \/ (f.monitor = Null => IndexByAddress(f) = Inner(Around(f.fn, f.at)))
                => i = Inner(Own(f))
<1>1. CASE f.monitor # Null
  BY <1>1, FrameSections DEF Sound, Own, Inner
<1>2. CASE f.monitor = Null
  <2>1. /\ Own(f) = Around(f.fn, f.at) /\ f.fn \in Functions
        /\ f.index \in 0..Len(Table[f.fn]) /\ IndexByAddress(f) \in 0..Len(Table[f.fn])
    BY <1>2, FrameSections DEF Sound
  <2>2. Len(Table[f.fn]) \in Nat
    BY <2>1, SectionType
  <2>3. CASE posix
    BY <1>2, <2>1, <2>2, <2>3
  <2>4. CASE ~posix
    BY <1>2, <2>1, <2>2, <2>4 DEF Sound
  <2> QED
    BY <2>3, <2>4
<1> QED
  BY <1>1, <1>2

\* The sections around the throw, by frames.
LEMMA GuardingIs ==
    ASSUME IsStack(origin, posix)
    PROVE  /\ Len(origin) \in Nat
           /\ \A j \in 1..Len(origin) : \A i \in Own(origin[j]) : <<j, i>> \in Guarding
           /\ \A p \in Guarding : /\ p[1] \in 1..Len(origin) /\ p[2] \in Own(origin[p[1]])
                                  /\ p[2] \in Nat /\ p[2] # 0
                                  /\ p = <<p[1], p[2]>>
                                  /\ origin[p[1]].monitor = Null
                                  /\ SectionAt(p) \in Entry
<1>1. Len(origin) \in Nat /\ \A j \in 1..Len(origin) : Sound(origin[j], posix)
  BY DEF IsStack
<1>2. ASSUME NEW j \in 1..Len(origin), NEW i \in Own(origin[j])
      PROVE  <<j, i>> \in Guarding
  BY <1>2 DEF Guarding, Own
<1>3. ASSUME NEW p \in Guarding
      PROVE  /\ p[1] \in 1..Len(origin) /\ p[2] \in Own(origin[p[1]])
             /\ p[2] \in Nat /\ p[2] # 0
             /\ p = <<p[1], p[2]>>
             /\ origin[p[1]].monitor = Null
             /\ SectionAt(p) \in Entry
  <2>1. PICK j \in 1..Len(origin) : /\ origin[j].monitor = Null
                                    /\ \E i \in Around(origin[j].fn, origin[j].at) : p = <<j, i>>
    BY <1>3 DEF Guarding
  <2> PICK i \in Around(origin[j].fn, origin[j].at) : p = <<j, i>>
    BY <2>1
  <2>2. p[1] = j /\ p[2] = i /\ i \in Own(origin[j])
    BY <2>1 DEF Own
  <2>3. Sound(origin[j], posix) /\ origin[j].fn \in Functions
    BY <1>1, <2>1 DEF Sound
  <2>4. i \in Nat /\ i # 0 /\ i \in 1..Len(Table[origin[j].fn])
    BY <2>1, <2>2, <2>3, FrameSections
  <2>5. SectionAt(p) \in Entry
    BY <2>2, <2>3, <2>4, SectionType DEF SectionAt
  <2> QED
    BY <2>1, <2>2, <2>4, <2>5
<1> QED
  BY <1>1, <1>2, <1>3

\* The same throw is handled by the same sections.
LEMMA SameThrow ==
    ASSUME UNCHANGED <<origin, exc, posix>>
    PROVE  /\ Guarding' = Guarding /\ Catching' = Catching /\ (Exact' <=> Exact)
           /\ \A p : SectionAt(p)' = SectionAt(p) /\ Block(SectionAt(p))' = Block(SectionAt(p))
  BY DEF Guarding, Catching, Exact, AddressesTell, Block, SectionAt

\* The next frame: nothing lies between its innermost section and the frame
\* before.
LEMMA EnterFrame ==
    ASSUME IsStack(origin, posix), NEW n \in 0..Len(origin), NEW m \in Nat,
           n # 0 => m = Inner(Own(origin[n]))
    PROVE  \A p \in Guarding : Inside(p, <<n, m>>) <=> Inside(p, <<n + 1, 0>>)
<1> SUFFICES ASSUME NEW p \in Guarding
             PROVE  Inside(p, <<n, m>>) <=> Inside(p, <<n + 1, 0>>)
  OBVIOUS
<1>1. /\ p[1] \in 1..Len(origin) /\ p[2] \in Own(origin[p[1]]) /\ p[2] \in Nat /\ p[2] # 0
      /\ Len(origin) \in Nat
  BY GuardingIs
<1>2. p[1] = n => p[2] <= m
  BY <1>1, FrameSections DEF IsStack
<1> QED
  BY <1>1, <1>2 DEF Inside

\* The next section: nothing lies between it and the one before.
LEMMA EnterSection ==
    ASSUME IsStack(origin, posix), NEW n \in 1..Len(origin), NEW i \in Own(origin[n]),
           NEW m, m = SectionAt(<<n, i>>).prev
    PROVE  /\ m \in Nat /\ m < i
           /\ m # 0 => m \in Own(origin[n])
           /\ \A p \in Guarding : Inside(p, <<n, m>>) <=> Inside(p, <<n, i>>) \/ p = <<n, i>>
<1>1. /\ origin[n].monitor = Null /\ origin[n].fn \in Functions /\ origin[n].at \in 1..Size
      /\ i \in Around(origin[n].fn, origin[n].at)
      /\ Own(origin[n]) = Around(origin[n].fn, origin[n].at)
  BY DEF IsStack, Sound, Own
<1>2. m = Table[origin[n].fn][i].prev
  BY DEF SectionAt
<1>3. /\ m \in Nat /\ m < i
      /\ m # 0 => m \in Own(origin[n])
      /\ \A j \in Own(origin[n]) : j < i => j <= m
  BY <1>1, <1>2, PrevIsNext
<1>4. i \in Nat
  BY FrameSections DEF IsStack
<1>5. ASSUME NEW p \in Guarding
      PROVE  Inside(p, <<n, m>>) <=> Inside(p, <<n, i>>) \/ p = <<n, i>>
  <2>1. /\ p[1] \in 1..Len(origin) /\ p[2] \in Own(origin[p[1]]) /\ p[2] \in Nat
        /\ p = <<p[1], p[2]>> /\ Len(origin) \in Nat
    BY GuardingIs
  <2>2. p[1] = n => (p[2] > m <=> p[2] > i \/ p[2] = i)
    BY <1>3, <1>4, <2>1
  <2>3. p = <<n, i>> <=> p[1] = n /\ p[2] = i
    BY <2>1
  <2> QED
    BY <2>1, <2>2, <2>3 DEF Inside
<1> QED
  BY <1>3, <1>5

\* The finally block of a section that is left has run last.
LEMMA RunsNext ==
    ASSUME ran \in Seq(Nat \X Nat), NEW c \in Nat \X Nat, ran' = Append(ran, c)
    PROVE  /\ ran' \in Seq(Nat \X Nat)
           /\ HasRun' = HasRun \cup {c}
           /\ (\A m, n \in 1..Len(ran) : m < n => Inside(ran[m], ran[n]))
                /\ (\A p \in HasRun : Inside(p, c))
              => \A m, n \in 1..Len(ran') : m < n => Inside(ran'[m], ran'[n])
<1>1. /\ ran' \in Seq(Nat \X Nat) /\ Len(ran) \in Nat
      /\ Len(ran') = Len(ran) + 1
      /\ \A m \in 1..Len(ran) : ran'[m] = ran[m]
      /\ ran'[Len(ran) + 1] = c
  BY AppendProperties
<1>2. \A m : m \in 1..Len(ran') <=> m \in 1..Len(ran) \/ m = Len(ran) + 1
  BY <1>1
<1>3. HasRun' = HasRun \cup {c}
  BY <1>1, <1>2 DEF HasRun
<1>4. ASSUME \A m, n \in 1..Len(ran) : m < n => Inside(ran[m], ran[n]),
             \A p \in HasRun : Inside(p, c),
             NEW m \in 1..Len(ran'), NEW n \in 1..Len(ran'), m < n
      PROVE  Inside(ran'[m], ran'[n])
  <2>1. m \in 1..Len(ran)
    BY <1>1, <1>4
  <2>2. ran'[m] = ran[m] /\ ran[m] \in HasRun
    BY <1>1, <2>1 DEF HasRun
  <2>3. CASE n \in 1..Len(ran)
    BY <1>1, <1>4, <2>1, <2>2, <2>3
  <2>4. CASE n = Len(ran) + 1
    BY <1>1, <1>4, <2>2, <2>4
  <2> QED
    BY <1>2, <2>3, <2>4
<1> QED
  BY <1>1, <1>3, <1>4

-----------------------------------------------------------------------------
(* What a step does to an exception *)

\* The program goes on, or nothing happens.
LEMMA NoStep ==
    ASSUME IInv, UNCHANGED <<posix, phase, exc, cursor, target, ran, origin>>,
           phase = "run" \/ stack' = stack
    PROVE  Handled'
<1>1. /\ cursor' = cursor /\ k' = k /\ ndx' = ndx /\ Goal' = Goal /\ HasRun' = HasRun
      /\ phase' = phase /\ exc' = exc /\ target' = target /\ ran' = ran /\ posix' = posix
      /\ origin' = origin
  BY DEF cursor, Goal, HasRun
<1>2. /\ Guarding' = Guarding /\ Catching' = Catching /\ (Exact' <=> Exact)
      /\ \A p : SectionAt(p)' = SectionAt(p) /\ Block(SectionAt(p))' = Block(SectionAt(p))
  BY <1>1, SameThrow
<1>3. Handled
  BY DEF IInv
<1>4. CursorOn'
  BY <1>1, <1>2, <1>3 DEF Handled, CursorOn
<1>5. Searched' /\ NobodyCatches' /\ NotPast'
  BY <1>1, <1>2, <1>3 DEF Handled, Searched, NobodyCatches, NotPast
<1>6. Aimed'
  BY <1>1, <1>2, <1>3 DEF Handled, Aimed
<1>7. Behind'
  BY <1>1, <1>2, <1>3 DEF Handled, Behind
<1> QED
  BY <1>1, <1>3, <1>4, <1>5, <1>6, <1>7 DEF Handled

\* An exception is thrown: the cursor is inside every section around the throw.
LEMMA ThrowStep ==
    ASSUME IInv, Throw
    PROVE  Handled'
<1> DEFINE f == Top(stack)
<1>1. /\ stack # <<>> /\ f.monitor = Null /\ origin' = stack /\ stack' = stack
      /\ ran' = <<>> /\ k' = Len(stack) /\ posix' = posix
      /\ exc' \in Classes \cup Codes
      /\ posix => phase' = "walk" /\ ndx' = IndexByAddress(f)
      /\ ~posix => phase' = "search" /\ ndx' = f.index
  BY DEF Throw
<1>2. IsStack(stack, posix) /\ posix \in BOOLEAN
  BY DEF IInv, StackInv, TypeOK
<1>3. Len(stack) \in Nat /\ Len(stack) # 0 /\ Sound(f, posix) /\ f = stack[Len(stack)]
  BY <1>1, <1>2, PopStack DEF Top
<1>4. Exact' => (~posix \/ (f.monitor = Null => IndexByAddress(f) = Inner(Around(f.fn, f.at))))
  BY <1>1, <1>3 DEF Exact, AddressesTell
<1>5. /\ ndx' \in Nat
      /\ ndx' # 0 => f.monitor = Null /\ ndx' \in 1..Len(Table[f.fn])
      /\ Exact' => ndx' = Inner(Own(f))
  BY <1>1, <1>2, <1>3, <1>4, FrameIndex
<1>6. Exact' /\ ndx' # 0 => ndx' \in Own(f)
  BY <1>3, <1>5, FrameSections
<1>7. exc' # Null /\ Len(stack) <= MaxDepth
  BY <1>1, <1>2, NullIsNone DEF IsStack
<1>8. phase' \in {"walk", "search"} /\ (phase' = "walk" <=> posix')
  BY <1>1, <1>2
<1>9. k' \in 0..MaxDepth /\ k' \in 0..Len(stack) /\ k' # 0
  BY <1>1, <1>3, <1>7, Bounds
<1>10. CursorOn'
  <2> HIDE DEF f
  <2>1. origin'[k'] = f
    BY <1>1, <1>3
  <2> QED
    BY <1>1, <1>5, <1>6, <1>7, <1>8, <1>9, <2>1 DEF CursorOn
<1>11. ASSUME Exact', NEW p \in Guarding' PROVE ~Inside(p, cursor')
  <2>1. PICK j \in 1..Len(stack) :
            /\ stack[j].monitor = Null
            /\ \E i \in Around(stack[j].fn, stack[j].at) : p = <<j, i>>
    BY <1>1, <1>11 DEF Guarding
  <2> PICK i \in Around(stack[j].fn, stack[j].at) : p = <<j, i>>
    BY <2>1
  <2>2. i \in Own(stack[j]) /\ p[1] = j /\ p[2] = i
    BY <2>1 DEF Own
  <2>3. i \in Nat
    BY <1>2, <2>2, FrameSections DEF IsStack
  <2>4. j = Len(stack) => i <= ndx'
    BY <1>3, <1>5, <1>11, <2>2, FrameSections
  <2>5. cursor'[1] = Len(stack) /\ cursor'[2] = ndx'
    BY <1>1 DEF cursor
  <2> QED
    BY <1>3, <1>5, <2>2, <2>3, <2>4, <2>5 DEF Inside
<1>12. HasRun' = {} /\ ran' \in Seq(Nat \X Nat) /\ Len(ran') = 0
  BY <1>1 DEF HasRun
<1>13. Behind'
  BY <1>1, <1>8, <1>11, <1>12 DEF Behind
<1>14. Searched' /\ Aimed' /\ NotPast' /\ NobodyCatches'
  BY <1>8, <1>11 DEF Searched, Aimed, NotPast, NobodyCatches
<1> QED
  BY <1>5, <1>9, <1>10, <1>12, <1>13, <1>14 DEF Handled

\* While it is handled the cursor is in a frame of the throw.
LEMMA CursorFrame ==
    ASSUME IInv, phase \in {"search", "unwind", "walk"}, k # 0
    PROVE  /\ IsStack(origin, posix) /\ IsStack(stack, posix) /\ posix \in BOOLEAN
           /\ k \in 1..Len(origin) /\ k \in 1..Len(stack)
           /\ \A j \in 1..k : stack[j] = origin[j]
           /\ cursor = <<k, ndx>> /\ cursor \in Nat \X Nat
           /\ \A i : Section(i) = SectionAt(<<k, i>>)
           /\ ndx # 0 =>
                /\ Section(ndx) \in Entry
                /\ Section(ndx).prev \in 0..Len(Table[origin[k].fn])
                /\ origin[k].monitor = Null
                /\ Exact => ndx \in Own(origin[k]) /\ cursor \in Guarding
<1>1. /\ IsStack(origin, posix) /\ IsStack(stack, posix) /\ posix \in BOOLEAN
      /\ CursorOn /\ ndx \in Nat
  BY DEF IInv, StackInv, Handled, TypeOK
<1>2. /\ k \in 0..Len(origin) /\ Len(origin) \in Nat /\ Len(stack) \in Nat
      /\ phase # "unwind" => stack = origin
      /\ phase = "unwind" => k = Len(stack) /\ \A j \in 1..k : stack[j] = origin[j]
  BY <1>1 DEF CursorOn, IsStack
<1>3. k \in 1..Len(origin) /\ k \in 1..Len(stack) /\ stack[k] = origin[k]
      /\ \A j \in 1..k : stack[j] = origin[j]
  BY <1>2
<1>4. cursor = <<k, ndx>> /\ cursor \in Nat \X Nat
  BY <1>1, <1>2 DEF cursor
<1>5. \A i : Section(i) = SectionAt(<<k, i>>)
  BY <1>3 DEF Section, SectionAt
<1>6. ASSUME ndx # 0
      PROVE  /\ Section(ndx) \in Entry
             /\ Section(ndx).prev \in 0..Len(Table[origin[k].fn])
             /\ origin[k].monitor = Null
             /\ Exact => ndx \in Own(origin[k]) /\ cursor \in Guarding
  <2>1. /\ origin[k].monitor = Null /\ ndx \in 1..Len(Table[origin[k].fn])
        /\ Exact => ndx \in Own(origin[k])
    BY <1>1, <1>6 DEF CursorOn
  <2>2. origin[k].fn \in Functions
    BY <1>1, <1>3, <2>1 DEF IsStack, Sound
  <2>3. Section(ndx) = Table[origin[k].fn][ndx]
    BY <1>3 DEF Section
  <2>4. Exact => cursor \in Guarding
    BY <1>1, <1>3, <1>4, <2>1, GuardingIs
  <2> QED
    BY <2>1, <2>2, <2>3, <2>4, SectionType
<1> QED
  BY <1>1, <1>3, <1>4, <1>5, <1>6

\* A section is left: the cursor goes to the one around it.
LEMMA SectionStep ==
    ASSUME IInv, phase \in {"search", "unwind", "walk"}, ndx # 0, phase' = phase,
           k' = k, ndx' = Section(ndx).prev,
           UNCHANGED <<posix, stack, exc, target, origin>>,
           phase # "unwind" => Block(Section(ndx)) = 0,
           phase = "unwind" => ndx # StopIndex,
           phase = "search" => ran' = ran,
           phase # "search" =>
                ran' = IF Runs(Section(ndx)) THEN Append(ran, <<k, ndx>>) ELSE ran
    PROVE  Handled'
<1>1. /\ CursorOn /\ Searched /\ Aimed /\ NotPast /\ Behind /\ ran \in Seq(Nat \X Nat)
      /\ k \in 0..MaxDepth /\ k # 0
  BY DEF IInv, Handled, CursorOn
<1>2. /\ IsStack(origin, posix) /\ k \in 1..Len(origin)
      /\ cursor = <<k, ndx>> /\ cursor \in Nat \X Nat
      /\ Section(ndx) = SectionAt(cursor)
      /\ ndx' \in 0..Len(Table[origin[k].fn])
      /\ origin[k].monitor = Null /\ origin[k].fn \in Functions
      /\ Exact => ndx \in Own(origin[k]) /\ cursor \in Guarding
  BY <1>1, CursorFrame DEF IsStack, Sound
<1>3. Len(Table[origin[k].fn]) \in Nat /\ ndx' \in Nat
  BY <1>2, SectionType
<1>4. /\ Guarding' = Guarding /\ Catching' = Catching /\ (Exact' <=> Exact)
      /\ \A p : SectionAt(p)' = SectionAt(p) /\ Block(SectionAt(p))' = Block(SectionAt(p))
  BY SameThrow
<1>5. cursor' = <<k, ndx'>> /\ Goal' = Goal
  BY DEF cursor, Goal
<1>6. ASSUME Exact
      PROVE  /\ ndx' # 0 => ndx' \in Own(origin[k])
             /\ \A p \in Guarding : Inside(p, cursor') <=> Inside(p, cursor) \/ p = cursor
  BY <1>2, <1>5, <1>6, EnterSection
<1>7. CursorOn'
  BY <1>1, <1>2, <1>3, <1>4, <1>6 DEF CursorOn
<1>8. Searched'
  BY <1>1, <1>2, <1>4, <1>6 DEF Searched
<1>9. Aimed' /\ NobodyCatches'
  BY <1>1, <1>4, <1>5 DEF Aimed, NobodyCatches
<1>10. NotPast'
  <2> SUFFICES ASSUME phase = "unwind" PROVE ~Inside(Goal, cursor')
    BY <1>5 DEF NotPast
  <2>1. Exact
    BY <1>1 DEF CursorOn, Exact
  <2>2. Goal \in Guarding /\ ~Inside(Goal, cursor)
    BY <1>1, <2>1 DEF Aimed, Catching, NotPast
  <2>3. Goal # cursor
    BY <1>2 DEF StopIndex, Goal
  <2> QED
    BY <1>6, <2>1, <2>2, <2>3
<1>11. ran' \in Seq(Nat \X Nat) /\ Behind'
  <2>1. CASE phase = "search" \/ ~Runs(Section(ndx))
    <3>1. ran' = ran /\ HasRun' = HasRun
      BY <2>1 DEF HasRun
    <3>2. ASSUME Exact, phase # "search"
          PROVE HasRun' = {p \in Guarding : Runs(SectionAt(p)) /\ Inside(p, cursor')}
      <4>1. HasRun = {p \in Guarding : Runs(SectionAt(p)) /\ Inside(p, cursor)}
        BY <1>1, <3>2 DEF Behind
      <4>2. ~Runs(SectionAt(cursor))
        BY <1>2, <2>1, <3>2
      <4>3. \A p \in Guarding : Runs(SectionAt(p)) /\ Inside(p, cursor')
                                    <=> Runs(SectionAt(p)) /\ Inside(p, cursor)
        BY <1>6, <3>2, <4>2
      <4> QED
        BY <3>1, <4>1, <4>3
    <3> QED
      BY <1>1, <1>4, <3>1, <3>2 DEF Behind
  <2>2. CASE phase # "search" /\ Runs(Section(ndx))
    <3>1. ran' = Append(ran, cursor)
      BY <1>2, <2>2
    <3>2. /\ ran' \in Seq(Nat \X Nat) /\ HasRun' = HasRun \cup {cursor}
          /\ (\A m, n \in 1..Len(ran) : m < n => Inside(ran[m], ran[n]))
                /\ (\A p \in HasRun : Inside(p, cursor))
              => \A m, n \in 1..Len(ran') : m < n => Inside(ran'[m], ran'[n])
      BY <1>1, <1>2, <3>1, RunsNext
    <3>3. ASSUME Exact
          PROVE  /\ \A m, n \in 1..Len(ran') : m < n => Inside(ran'[m], ran'[n])
                 /\ HasRun' = {p \in Guarding : Runs(SectionAt(p)) /\ Inside(p, cursor')}
      <4>1. /\ HasRun = {p \in Guarding : Runs(SectionAt(p)) /\ Inside(p, cursor)}
            /\ \A m, n \in 1..Len(ran) : m < n => Inside(ran[m], ran[n])
        BY <1>1, <2>2, <3>3 DEF Behind
      <4>2. cursor \in Guarding /\ Runs(SectionAt(cursor))
        BY <1>2, <2>2, <3>3
      <4>3. \A p \in Guarding : Inside(p, cursor') <=> Inside(p, cursor) \/ p = cursor
        BY <1>6, <3>3
      <4> QED
        BY <3>2, <4>1, <4>2, <4>3
    <3> QED
      BY <1>1, <1>4, <2>2, <3>2, <3>3 DEF Behind
  <2> QED
    BY <2>1, <2>2
<1> QED
  BY <1>1, <1>3, <1>7, <1>8, <1>9, <1>10, <1>11 DEF Handled

\* A frame is left: the cursor goes to the innermost section of the next one.
LEMMA FrameStep ==
    ASSUME IInv, phase \in {"search", "unwind", "walk"}, k # 0, ndx = 0, phase' = phase,
           NextFrame, UNCHANGED <<posix, exc, target, ran, origin>>,
           phase # "unwind" => stack' = stack,
           phase = "unwind" => stack' = Up(stack)
    PROVE  Handled'
<1> DEFINE n == k - 1
<1>1. /\ CursorOn /\ Searched /\ Aimed /\ NotPast /\ Behind /\ ran \in Seq(Nat \X Nat)
      /\ k \in 0..MaxDepth
  BY DEF IInv, Handled
<1>2. /\ IsStack(origin, posix) /\ IsStack(stack, posix) /\ k \in 1..Len(origin)
      /\ cursor = <<k, 0>> /\ posix \in BOOLEAN
      /\ \A j \in 1..k : stack[j] = origin[j]
  BY <1>1, CursorFrame
<1>3. Len(origin) \in Nat /\ n \in 0..Len(origin) /\ n + 1 = k /\ n \in 0..MaxDepth
  BY <1>1, <1>2, Bounds DEF IsStack
<1>4. /\ Guarding' = Guarding /\ Catching' = Catching /\ (Exact' <=> Exact)
      /\ \A p : SectionAt(p)' = SectionAt(p) /\ Block(SectionAt(p))' = Block(SectionAt(p))
  BY SameThrow
<1>5. k' = n /\ ndx' = IndexOf(n)
  BY DEF NextFrame
<1>6. /\ ndx' \in Nat /\ (n = 0 => ndx' = 0)
      /\ ndx' # 0 => origin[n].monitor = Null /\ ndx' \in 1..Len(Table[origin[n].fn])
      /\ Exact /\ n # 0 => ndx' = Inner(Own(origin[n]))
  <2>1. CASE n = 0
    BY <1>5, <2>1 DEF IndexOf
  <2>2. CASE n # 0
    <3>1. n \in 1..Len(origin) /\ stack[n] = origin[n]
      BY <1>2, <1>3, <2>2
    <3>2. Sound(origin[n], posix)
      BY <1>2, <3>1 DEF IsStack
    <3>3. ndx' = IF posix THEN IndexByAddress(origin[n]) ELSE origin[n].index
      BY <1>5, <2>2, <3>1 DEF IndexOf
    <3>4. Exact => (~posix \/ (origin[n].monitor = Null =>
                IndexByAddress(origin[n]) = Inner(Around(origin[n].fn, origin[n].at))))
      BY <3>1 DEF Exact, AddressesTell
    <3> HIDE DEF n
    <3> QED
      BY <2>2, <3>2, <3>3, <3>4, FrameIndex
  <2> QED
    BY <2>1, <2>2
<1>7. Exact /\ ndx' # 0 => ndx' \in Own(origin[n])
  <2>1. n # 0 => Sound(origin[n], posix)
    BY <1>2, <1>3 DEF IsStack
  <2> QED
    BY <1>6, <2>1, FrameSections
<1>8. cursor' = <<n, ndx'>> /\ Goal' = Goal /\ HasRun' = HasRun
  BY <1>5 DEF cursor, Goal, HasRun
<1>9. Exact => \A p \in Guarding : Inside(p, cursor') <=> Inside(p, cursor)
  <2> HIDE DEF n
  <2> QED
    BY <1>2, <1>3, <1>6, <1>8, EnterFrame
<1>10. CursorOn'
  <2>1. phase # "unwind" => stack' = origin
    BY <1>1 DEF CursorOn
  <2>2. phase = "unwind" => n = Len(stack') /\ \A j \in 1..n : stack'[j] = origin[j]
    <3> SUFFICES ASSUME phase = "unwind"
                 PROVE  n = Len(stack') /\ \A j \in 1..n : stack'[j] = origin[j]
      OBVIOUS
    <3>1. k = Len(stack) /\ stack # <<>>
      BY <1>1, <1>2, EmptySeq DEF CursorOn, IsStack
    <3>2. Len(stack') = Len(stack) - 1 /\ \A j \in 1..Len(stack) - 1 : stack'[j] = stack[j]
      BY <1>2, <3>1, PopStack
    <3>3. \A j \in 1..n : j \in 1..k
      BY <1>3
    <3> QED
      BY <1>2, <3>1, <3>2, <3>3
  <2> HIDE DEF n
  <2> QED
    BY <1>1, <1>3, <1>4, <1>5, <1>6, <1>7, <2>1, <2>2 DEF CursorOn
<1> HIDE DEF n
<1>11. Searched'
  BY <1>1, <1>4, <1>9 DEF Searched
<1>12. Aimed' /\ NobodyCatches'
  BY <1>1, <1>4, <1>8 DEF Aimed, NobodyCatches
<1>13. NotPast'
  <2> SUFFICES ASSUME phase = "unwind" PROVE ~Inside(Goal, cursor')
    BY <1>8 DEF NotPast
  <2>1. Exact
    BY <1>1 DEF CursorOn, Exact
  <2>2. Goal \in Guarding /\ ~Inside(Goal, cursor)
    BY <1>1, <2>1 DEF Aimed, Catching, NotPast
  <2> QED
    BY <1>9, <2>1, <2>2
<1>14. Behind'
  <2>1. Exact => {p \in Guarding : Runs(SectionAt(p)) /\ Inside(p, cursor')}
                    = {p \in Guarding : Runs(SectionAt(p)) /\ Inside(p, cursor)}
    BY <1>9
  <2> QED
    BY <1>1, <1>4, <1>8, <2>1 DEF Behind
<1> QED
  BY <1>1, <1>3, <1>5, <1>6, <1>10, <1>11, <1>12, <1>13, <1>14 DEF Handled

\* The section at the cursor catches it: it is the innermost one that does.
LEMMA FoundIs ==
    ASSUME IInv, phase \in {"search", "walk"}, k # 0, ndx # 0, Catches(Section(ndx)),
           target' = Found, UNCHANGED <<posix, exc, origin>>
    PROVE  /\ Goal' = cursor
           /\ Exact =>
                /\ exc # Null
                /\ cursor \in Catching
                /\ \A q \in Catching \ {cursor} : Inside(cursor, q)
                /\ target'.block = Block(SectionAt(cursor))
                /\ target'.gets = ClassOf(exc)
<1>1. CursorOn /\ Searched
  BY DEF IInv, Handled
<1>2. /\ IsStack(origin, posix)
      /\ cursor = <<k, ndx>> /\ cursor \in Nat \X Nat
      /\ Section(ndx) = SectionAt(cursor)
      /\ Exact => cursor \in Guarding
  BY CursorFrame
<1>3. /\ Goal' = cursor
      /\ target'.block = Block(SectionAt(cursor))
      /\ target'.gets = ClassOf(exc)
  BY <1>2 DEF Goal, Found
<1>4. ASSUME Exact, NEW q \in Catching \ {cursor} PROVE Inside(cursor, q)
  <2>1. q \in Guarding /\ ~Inside(q, cursor)
    BY <1>1, <1>4 DEF Searched, Catching
  <2>2. q[1] \in Nat /\ q[2] \in Nat /\ q = <<q[1], q[2]>>
    BY <1>2, <2>1, GuardingIs
  <2>3. q[1] # k \/ q[2] # ndx
    BY <1>2, <1>4, <2>2
  <2> QED
    BY <1>2, <2>1, <2>2, <2>3 DEF Inside
<1> QED
  BY <1>1, <1>2, <1>3, <1>4 DEF CursorOn, Catching, Catches

\* Win32 has found the catch block and unwinds from where the throw was.
LEMMA SearchFoundStep ==
    ASSUME IInv, SearchFound
    PROVE  Handled'
<1> DEFINE f == Top(stack)
<1>1. /\ phase = "search" /\ k # 0 /\ ndx # 0 /\ Catches(Section(ndx))
      /\ target' = Found /\ phase' = "unwind" /\ k' = Len(stack) /\ ndx' = f.index
      /\ UNCHANGED <<posix, stack, exc, ran, origin>>
  BY DEF SearchFound, IInv, Handled
<1>2. /\ CursorOn /\ Behind /\ posix \in BOOLEAN
      /\ IsStack(stack, posix) /\ stack = origin /\ ~posix /\ exc # Null
  BY <1>1 DEF IInv, StackInv, Handled, TypeOK, CursorOn
<1>3. /\ Len(stack) \in Nat /\ Len(stack) # 0 /\ Len(stack) <= MaxDepth
      /\ Sound(f, posix) /\ f = stack[Len(stack)]
  <2>1. stack # <<>>
    BY <1>1, <1>2, CursorFrame
  <2> QED
    BY <1>2, <2>1, PopStack DEF Top, IsStack
<1>4. /\ ndx' \in Nat /\ ndx' = Inner(Own(f))
      /\ ndx' # 0 => f.monitor = Null /\ ndx' \in 1..Len(Table[f.fn])
  BY <1>1, <1>2, <1>3, FrameIndex
<1>5. ndx' # 0 => ndx' \in Own(f)
  BY <1>3, <1>4, FrameSections
<1>6. k' \in 0..MaxDepth /\ k' \in 0..Len(origin) /\ k' # 0
  BY <1>1, <1>2, <1>3, Bounds
<1> HIDE DEF f
<1>7. CursorOn'
  BY <1>1, <1>2, <1>3, <1>4, <1>5, <1>6 DEF CursorOn
<1>8. Exact /\ Exact'
  BY <1>1, <1>2 DEF Exact
<1>9. /\ Guarding' = Guarding /\ Catching' = Catching
      /\ \A p : SectionAt(p)' = SectionAt(p) /\ Block(SectionAt(p))' = Block(SectionAt(p))
  BY <1>1, SameThrow
<1>10. /\ Goal' = cursor
       /\ cursor \in Catching
       /\ \A q \in Catching \ {cursor} : Inside(cursor, q)
       /\ target'.block = Block(SectionAt(cursor))
       /\ target'.gets = ClassOf(exc)
  BY <1>1, <1>8, FoundIs
<1>11. Aimed'
  BY <1>1, <1>2, <1>9, <1>10 DEF Aimed
<1>12. \A p \in Guarding : ~Inside(p, cursor')
  <2>1. cursor' = <<Len(origin), ndx'>>
    BY <1>1, <1>2 DEF cursor
  <2>2. \A p \in Guarding : Inside(p, cursor') <=> Inside(p, <<Len(origin) + 1, 0>>)
    <3>1. Len(origin) \in 0..Len(origin)
      BY <1>2, <1>3
    <3> QED
      BY <1>2, <1>3, <1>4, <2>1, <3>1, EnterFrame
  <2>3. \A p \in Guarding : p[1] \in 1..Len(origin)
    BY <1>2, GuardingIs
  <2> QED
    BY <1>2, <1>3, <2>2, <2>3 DEF Inside
<1>13. NotPast'
  BY <1>10, <1>12 DEF NotPast, Catching
<1>14. ran' = <<>> /\ HasRun' = {} /\ Len(ran') = 0 /\ ran' \in Seq(Nat \X Nat)
  <2>1. ran' = <<>>
    BY <1>1, <1>2, <1>8 DEF Behind
  <2> QED
    BY <2>1 DEF HasRun
<1>15. Behind'
  BY <1>1, <1>9, <1>12, <1>14 DEF Behind
<1> QED
  BY <1>1, <1>4, <1>6, <1>7, <1>11, <1>13, <1>14, <1>15
  DEF Handled, Searched, NobodyCatches

\* All frames have been searched.
LEMMA FailedStep ==
    ASSUME IInv, SearchFailed \/ WalkFailed
    PROVE  Handled'
<1>1. /\ phase \in {"search", "walk"} /\ k = 0 /\ phase' = "uncaught"
      /\ UNCHANGED <<posix, stack, exc, cursor, target, ran, origin>>
  BY DEF SearchFailed, WalkFailed
<1>2. /\ CursorOn /\ Searched /\ Behind /\ IsStack(origin, posix) /\ posix \in BOOLEAN
      /\ ran \in Seq(Nat \X Nat) /\ k \in 0..MaxDepth /\ ndx \in Nat
      /\ phase = "walk" <=> posix
  BY <1>1 DEF IInv, StackInv, TypeOK, Handled, CursorOn
<1>3. /\ Guarding' = Guarding /\ Catching' = Catching /\ (Exact' <=> Exact)
      /\ \A p : SectionAt(p)' = SectionAt(p)
      /\ k' = k /\ ndx' = ndx /\ ran' = ran /\ HasRun' = HasRun
  BY <1>1, SameThrow DEF cursor, HasRun
<1>4. \A p \in Guarding : Inside(p, cursor)
  BY <1>1, <1>2, GuardingIs DEF Inside, cursor
<1>5. Exact => Catching = {}
  BY <1>1, <1>2, <1>4 DEF Searched, Catching
<1>6. Exact => HasRun = IF posix THEN {p \in Guarding : Runs(SectionAt(p))} ELSE {}
  <2>1. CASE posix
    <3>1. {p \in Guarding : Runs(SectionAt(p)) /\ Inside(p, cursor)}
            = {p \in Guarding : Runs(SectionAt(p))}
      BY <1>4
    <3> QED
      BY <1>2, <2>1, <3>1 DEF Behind
  <2>2. CASE ~posix
    BY <1>1, <1>2, <2>2 DEF Behind, HasRun
  <2> QED
    BY <2>1, <2>2
<1>7. Behind'
  BY <1>1, <1>2, <1>3, <1>6 DEF Behind
<1> QED
  BY <1>1, <1>2, <1>3, <1>5, <1>7
  DEF Handled, CursorOn, Searched, Aimed, NotPast, NobodyCatches

\* The catch block is entered.
LEMMA CaughtStep ==
    ASSUME IInv, JumpToCatch \/ WalkFound
    PROVE  Handled' /\ stack[k].monitor = Null /\ k \in 1..Len(stack)
<1>1. /\ phase \in {"unwind", "walk"} /\ phase' = "caught"
      /\ UNCHANGED <<posix, exc, cursor, ran, origin>>
  BY DEF JumpToCatch, WalkFound, Land
<1>2. /\ CursorOn /\ Aimed /\ NotPast /\ Behind /\ IsStack(origin, posix) /\ posix \in BOOLEAN
      /\ ran \in Seq(Nat \X Nat) /\ k \in 0..MaxDepth /\ ndx \in Nat
      /\ phase = "walk" <=> posix
  BY <1>1 DEF IInv, StackInv, TypeOK, Handled, CursorOn
<1>3. /\ Guarding' = Guarding /\ Catching' = Catching /\ (Exact' <=> Exact)
      /\ \A p : SectionAt(p)' = SectionAt(p) /\ Block(SectionAt(p))' = Block(SectionAt(p))
      /\ k' = k /\ ndx' = ndx /\ ran' = ran /\ HasRun' = HasRun /\ exc' = exc
  BY <1>1, SameThrow DEF cursor, HasRun
<1>4. /\ ndx # 0 /\ k # 0
      /\ Goal' = cursor
      /\ Exact =>
            /\ exc # Null
            /\ cursor \in Catching
            /\ \A q \in Catching \ {cursor} : Inside(cursor, q)
            /\ target'.block = Block(SectionAt(cursor))
            /\ target'.gets = ClassOf(exc)
  <2>1. CASE WalkFound
    <3>1. /\ phase = "walk" /\ k # 0 /\ ndx # 0 /\ Catches(Section(ndx)) /\ target' = Found
      BY <1>2, <2>1 DEF WalkFound
    <3> QED
      BY <1>1, <3>1, FoundIs
  <2>2. CASE JumpToCatch
    <3>1. /\ phase = "unwind" /\ k = target.frame /\ ndx \in {0, target.section}
          /\ target' = target
      BY <2>2 DEF JumpToCatch, StopIndex
    <3>2. Exact
      BY <1>2, <3>1 DEF Exact
    <3>3. Goal \in Guarding /\ ~Inside(Goal, cursor)
      BY <1>2, <3>1, <3>2 DEF Aimed, Catching, NotPast
    <3>4. target.section \in Nat /\ target.section # 0 /\ target.frame \in 1..Len(origin)
      BY <1>2, <3>3, GuardingIs DEF Goal
    <3>5. ~(target.section > ndx)
      BY <3>1, <3>3 DEF Goal, Inside, cursor
    <3>6. ndx = target.section
      BY <1>2, <3>1, <3>4, <3>5
    <3>7. Goal' = Goal /\ Goal = cursor
      BY <3>1, <3>6 DEF Goal, cursor
    <3> QED
      BY <1>2, <3>1, <3>2, <3>4, <3>6, <3>7 DEF Aimed
  <2> QED
    BY <2>1, <2>2
<1>5. k \in 1..Len(stack) /\ stack[k].monitor = Null
  BY <1>1, <1>4, CursorFrame
<1>6. Aimed'
  BY <1>1, <1>3, <1>4 DEF Aimed
<1>7. Behind'
  BY <1>1, <1>2, <1>3, <1>4 DEF Behind
<1> QED
  BY <1>1, <1>2, <1>3, <1>5, <1>6, <1>7
  DEF Handled, CursorOn, Searched, NotPast, NobodyCatches

\* The catch block runs.
LEMMA ResumeStep ==
    ASSUME IInv, Resume
    PROVE  Handled'
<1>1. /\ phase' = "run" /\ k' = 0 /\ ndx' = 0 /\ ran' = <<>>
  BY DEF Resume
<1>2. Len(ran') = 0 /\ ran' \in Seq(Nat \X Nat) /\ 0 \in 0..MaxDepth
  BY <1>1, Bounds
<1> QED
  BY <1>1, <1>2
  DEF Handled, CursorOn, Searched, Aimed, NotPast, NobodyCatches, Behind

-----------------------------------------------------------------------------
(* The stack and the locks, at each step *)

StackNext ==
    IsStack(stack', posix) /\ locked' \in [Objects -> Nat] /\ MonitorsHeld'

\* The program calls and returns.
LEMMA ProgramStack ==
    ASSUME IInv, Call \/ CallSynchronized \/ Return \/ GoOn
    PROVE  StackNext
<1>1. StackInv /\ IsStack(stack, posix) /\ Null \notin Objects
  BY NullIsNone DEF IInv, StackInv
<1>2. CASE Call
  <2>1. PICK f \in Functions, r \in 1..Size : stack' = Append(stack, Frame(f, r))
    BY <1>2 DEF Call
  <2>2. Sound(Frame(f, r), posix) /\ Frame(f, r).monitor = Null
    BY FrameSound
  <2> QED
    BY <1>1, <1>2, <2>1, <2>2, StackMoves DEF Call, StackNext
<1>3. CASE CallSynchronized
  <2>1. PICK o \in Objects :
            /\ stack' = Append(stack, [fn |-> Null, at |-> 0, index |-> 0, monitor |-> o])
            /\ locked' = [locked EXCEPT ![o] = @ + 1]
    BY <1>3 DEF CallSynchronized
  <2> DEFINE f == [fn |-> Null, at |-> 0, index |-> 0, monitor |-> o]
  <2>2. Sound(f, posix) /\ f.monitor = o /\ o # Null
    BY <1>1, <1>3, Bounds DEF CallSynchronized, Sound, Frames
  <2> QED
    BY <1>1, <1>3, <2>1, <2>2, StackMoves DEF CallSynchronized, StackNext
<1>4. CASE Return
  <2>1. /\ stack # <<>> /\ stack' = Up(stack) /\ locked' = Unlocked(Top(stack))
        /\ posix' = posix
    BY <1>4 DEF Return
  <2>2. IsStack(stack', posix) /\ locked' \in [Objects -> Nat] /\ MonitorsHeld'
    BY <1>1, <2>1, StackMoves
  <2> QED
    BY <2>2 DEF StackNext
<1>5. CASE GoOn
  <2>1. PICK r \in 1..Size :
            stack' = [stack EXCEPT ![Len(stack)] = Frame(Top(stack).fn, r)]
    BY <1>5 DEF GoOn
  <2> DEFINE n == Len(stack)
             f == Frame(Top(stack).fn, r)
  <2>2. /\ n \in Nat /\ n # 0 /\ Sound(Top(stack), posix)
        /\ Top(stack).monitor = Null /\ Top(stack) = stack[n]
        /\ stack \in Seq(Frames) /\ n <= MaxDepth
    BY <1>1, <1>5, PopStack DEF GoOn, Top, IsStack
  <2>3. Sound(f, posix) /\ f.monitor = Null /\ f \in Frames
    BY <2>2, FrameSound DEF Sound
  <2> HIDE DEF f
  <2>4. /\ stack' \in Seq(Frames) /\ Len(stack') = n
        /\ stack'[n] = f /\ \A j \in 1..n : j # n => stack'[j] = stack[j]
    BY <2>1, <2>2, <2>3 DEF f
  <2>5. IsStack(stack', posix)
    BY <1>1, <2>2, <2>3, <2>4 DEF IsStack
  <2>6. \A j \in 1..n : stack[j].monitor = stack'[j].monitor
    BY <2>2, <2>3, <2>4
  <2>7. locked' = locked /\ posix' = posix
    BY <1>5 DEF GoOn
  <2>8. IsStack(stack', posix) /\ locked' \in [Objects -> Nat] /\ MonitorsHeld'
    BY <1>1, <2>4, <2>5, <2>6, <2>7, StackMoves
  <2> QED
    BY <2>8 DEF StackNext
<1> QED
  BY <1>2, <1>3, <1>4, <1>5

\* A frame is unwound, or lands in its catch block.
LEMMA UnwoundStack ==
    ASSUME IInv, UnwindFrame
    PROVE  StackNext /\ k # 0 /\ stack' = Up(stack)
<1>1. /\ phase = "unwind" /\ k > target.frame /\ posix' = posix /\ stack' = Up(stack)
      /\ locked' = Unlocked(stack[k])
  BY DEF UnwindFrame, UnlockedByUnwind
<1>2. /\ StackInv /\ CursorOn /\ Aimed /\ IsStack(stack, posix) /\ IsStack(origin, posix)
      /\ k = Len(stack) /\ k \in 0..MaxDepth /\ Exact
  BY <1>1 DEF IInv, StackInv, Handled, CursorOn, Exact
<1>3. target.frame \in 1..Len(origin)
  BY <1>1, <1>2, GuardingIs DEF Aimed, Catching, Goal
<1>4. k # 0 /\ stack # <<>>
  <2>1. k # 0
    BY <1>1, <1>2, <1>3
  <2> QED
    BY <1>2, <2>1
<1> QED
  BY <1>1, <1>2, <1>4, StackMoves DEF Top, StackNext

\* Finding a catch takes the stack to the frame that catches.
LEMMA CaughtStack ==
    ASSUME IInv, JumpToCatch \/ WalkFound
    PROVE  StackNext
<1>1. /\ StackInv /\ IsStack(stack, posix) /\ CursorOn
      /\ posix' = posix /\ locked' = locked
  BY DEF IInv, StackInv, Handled, JumpToCatch, WalkFound
<1>2. k \in 1..Len(stack) /\ stack[k].monitor = Null
  BY CaughtStep
<1>3. CASE WalkFound
  <2>1. posix /\ Land(0)
    BY <1>1, <1>3 DEF WalkFound, CursorOn
  <2>2. IsStack(stack', posix)
    BY <1>1, <1>2, <2>1, LandStack
  <2> QED
    BY <1>1, <2>1, <2>2, StackMoves DEF StackNext
<1>4. CASE JumpToCatch
  <2>1. /\ Land(IndexInCatch(target.section)) /\ target' = target
        /\ IndexInCatch(target.section) = Section(target'.section).prev
        /\ k = Len(stack)
    BY <1>1, <1>4 DEF JumpToCatch, IndexInCatch, CursorOn
  <2>2. /\ IsStack(stack', posix) /\ Len(stack') = k /\ stack'[k].monitor = Null
        /\ \A j \in 1..k - 1 : stack'[j] = stack[j]
    BY <1>1, <1>2, <2>1, LandStack
  <2>3. \A j \in 1..Len(stack) : j = k \/ j \in 1..k - 1
    BY <1>1, <2>1 DEF IsStack
  <2>4. \A j \in 1..Len(stack) : stack[j].monitor = stack'[j].monitor
    BY <1>2, <2>2, <2>3
  <2> QED
    BY <1>1, <2>1, <2>2, <2>4, StackMoves DEF StackNext
<1> QED
  BY <1>3, <1>4

-----------------------------------------------------------------------------
(* The inductive invariant *)

\* A thread starts with an empty stack.
LEMMA InitIInv ==
    ASSUME Init
    PROVE  IInv
<1>1. <<>> \in Seq(Frames) /\ <<>> \in Seq(Nat \X Nat) /\ Len(<<>>) = 0
  OBVIOUS
<1>2. \A s : s = <<>> => IsStack(s, posix)
  BY <1>1, Bounds DEF IsStack
<1>3. \A o \in Objects : {j \in 1..Len(stack) : stack[j].monitor = o} = {}
  BY <1>1 DEF Init
<1>4. MonitorsHeld
  BY <1>3, FS_EmptySet DEF MonitorsHeld, Init
<1>5. TypeOK
  BY <1>1, Bounds DEF Init, TypeOK
<1>6. Handled
  BY <1>1, Bounds
  DEF Init, Handled, CursorOn, Searched, Aimed, NotPast, NobodyCatches, Behind
<1> QED
  BY <1>2, <1>4, <1>5, <1>6 DEF Init, IInv, StackInv

\* What the exception's part of the invariant does not say of the types.
LEMMA OtherTypes ==
    ASSUME IInv, Next
    PROVE  /\ posix' = posix
           /\ phase' \in {"run", "search", "unwind", "walk", "caught", "uncaught"}
           /\ exc' \in Classes \cup Codes \cup {Null}
           /\ origin' = origin \/ origin' = stack \/ origin' = <<>>
<1>1. /\ phase \in {"run", "search", "unwind", "walk", "caught", "uncaught"}
      /\ exc \in Classes \cup Codes \cup {Null}
  BY DEF IInv, StackInv, TypeOK
<1>2. CASE Throw
  BY <1>2 DEF Throw
<1>3. CASE Resume
  BY <1>3 DEF Resume
<1>4. CASE Call \/ CallSynchronized \/ Return \/ GoOn
  BY <1>1, <1>4 DEF Call, CallSynchronized, Return, GoOn
<1>5. CASE SearchOn \/ SearchFound \/ SearchFailed \/ UnwindSection \/ UnwindFrame
  BY <1>1, <1>5 DEF SearchOn, SearchFound, SearchFailed, UnwindSection, UnwindFrame
<1>6. CASE JumpToCatch \/ WalkSection \/ WalkFrame \/ WalkFound \/ WalkFailed
  BY <1>1, <1>6 DEF JumpToCatch, WalkSection, WalkFrame, WalkFound, WalkFailed, Land
<1> QED
  BY <1>2, <1>3, <1>4, <1>5, <1>6 DEF Next, Program, Handling

\* A step keeps the part of the invariant about the search and the handlers and
\* takes the stack where StackNext says.
LEMMA NextHandled ==
    ASSUME IInv, Next
    PROVE  Handled' /\ StackNext
<1>1. /\ StackInv /\ k \in 0..MaxDepth /\ ndx \in Nat
      /\ \A s : Catches(s) <=> Block(s) # 0
      /\ UNCHANGED <<stack, locked, posix>> => StackNext
  <2>1. StackInv
    BY DEF IInv
  <2> QED
    BY <2>1, StackMoves DEF IInv, Handled, Catches, StackNext
<1>2. posix' = posix
  BY OtherTypes
<1>3. CASE Call \/ CallSynchronized \/ Return \/ GoOn
  BY <1>3, NoStep, ProgramStack DEF Call, CallSynchronized, Return, GoOn
<1>4. CASE Throw
  BY <1>1, <1>4, ThrowStep DEF Throw
<1>5. CASE SearchOn
  <2>1. CASE ndx = 0
    BY <1>1, <1>5, <2>1, FrameStep DEF SearchOn
  <2>2. CASE ndx # 0
    BY <1>1, <1>5, <2>2, SectionStep DEF SearchOn, Outward
  <2> QED
    BY <2>1, <2>2
<1>6. CASE SearchFound
  BY <1>1, <1>6, SearchFoundStep DEF SearchFound
<1>7. CASE SearchFailed \/ WalkFailed
  BY <1>1, <1>7, FailedStep DEF SearchFailed, WalkFailed
<1>8. CASE UnwindSection
  BY <1>1, <1>8, SectionStep DEF UnwindSection, Outward
<1>9. CASE UnwindFrame
  BY <1>9, UnwoundStack, FrameStep DEF UnwindFrame
<1>10. CASE JumpToCatch \/ WalkFound
  BY <1>10, CaughtStep, CaughtStack
<1>11. CASE WalkSection
  BY <1>1, <1>11, SectionStep DEF WalkSection, Outward
<1>12. CASE WalkFrame
  BY <1>1, <1>12, FrameStep DEF WalkFrame
<1>13. CASE Resume
  BY <1>1, <1>13, ResumeStep DEF Resume
<1> QED
  BY <1>3, <1>4, <1>5, <1>6, <1>7, <1>8, <1>9, <1>10, <1>11, <1>12, <1>13
  DEF Next, Program, Handling

\* Every step keeps the invariant.
LEMMA NextIInv ==
    ASSUME IInv, [Next]_vars
    PROVE  IInv'
<1>1. CASE Next
  <2>1. /\ Handled' /\ IsStack(stack', posix) /\ locked' \in [Objects -> Nat] /\ MonitorsHeld'
        /\ posix' = posix /\ posix \in BOOLEAN
        /\ phase' \in {"run", "search", "unwind", "walk", "caught", "uncaught"}
        /\ exc' \in Classes \cup Codes \cup {Null}
        /\ k' \in 0..MaxDepth /\ ndx' \in Nat
    BY <1>1, NextHandled, OtherTypes DEF StackNext, Handled, IInv, StackInv, TypeOK
  <2>2. IsStack(<<>>, posix)
    BY Bounds DEF IsStack
  <2>3. IsStack(origin', posix)
    BY <1>1, <2>2, OtherTypes DEF IInv, StackInv
  <2>4. TypeOK'
    <3>1. \A j \in 1..Len(stack') :
            IF stack'[j].monitor = Null THEN stack'[j].index \in 0..Len(Table[stack'[j].fn])
            ELSE stack'[j].index = 0
      BY <2>1, StackTyped
    <3> QED
      BY <2>1, <3>1 DEF TypeOK, IsStack
  <2> QED
    BY <2>1, <2>3, <2>4 DEF IInv, StackInv
<1>2. CASE UNCHANGED vars
  <2>1. Handled'
    BY <1>2, NoStep DEF vars
  <2>2. TypeOK' /\ MonitorsHeld' /\ IsStack(stack', posix') /\ IsStack(origin', posix')
    BY <1>2 DEF vars, cursor, IInv, StackInv, TypeOK, MonitorsHeld
  <2> QED
    BY <2>1, <2>2 DEF IInv, StackInv
<1> QED
  BY <1>1, <1>2

\* The inductive invariant holds.
LEMMA Invariance == Spec => []IInv
<1> QED
  BY InitIInv, NextIInv, PTL DEF Spec

-----------------------------------------------------------------------------
(* Theorems *)

\* For every table, stack and exception: the types, and every monitor is held as
\* often as frames on the stack have locked it.
THEOREM StackCorrect == Spec => []StackSound
<1>1. IInv => StackSound
  BY DEF IInv, StackInv, StackSound
<1> QED
  BY <1>1, Invariance, PTL

\* The target is the innermost section that catches the exception.
LEMMA TargetInnermost ==
    ASSUME IInv, Exact, phase = "caught"
    PROVE  /\ Goal \in Catching /\ Goal = Innermost(Catching)
           /\ Goal = <<target.frame, target.section>>
           /\ target.block = Block(SectionAt(Goal))
           /\ <<target.gets, SectionAt(Goal).catches[target.block]>> \in IsBaseOf
<1>1. /\ exc \in Classes \cup Codes
      /\ Goal \in Catching
      /\ \A q \in Catching \ {Goal} : Inside(Goal, q)
      /\ target.block = Block(SectionAt(Goal))
      /\ target.gets = ClassOf(exc)
      /\ IsStack(origin, posix)
  BY DEF IInv, StackInv, TypeOK, Handled, Aimed
<1>2. ASSUME NEW p \in Catching, \A q \in Catching \ {p} : Inside(p, q) PROVE p = Goal
  <2> SUFFICES ASSUME p # Goal PROVE FALSE
    OBVIOUS
  <2>1. Inside(p, Goal) /\ Inside(Goal, p)
    BY <1>1, <1>2
  <2>2. p[1] \in Nat /\ p[2] \in Nat /\ Goal[1] \in Nat /\ Goal[2] \in Nat
    BY <1>1, GuardingIs DEF Catching, IsStack
  <2> QED
    BY <2>1, <2>2 DEF Inside
<1>3. Goal = Innermost(Catching)
  BY <1>1, <1>2 DEF Innermost
<1>4. SectionAt(Goal) \in Entry /\ Block(SectionAt(Goal)) # 0
  BY <1>1, GuardingIs DEF Catching
<1>5. ClassOf(exc) = ThrownClass(exc)
  BY <1>1, Translated DEF ClassOf, ThrownClass
<1>6. <<ThrownClass(exc), SectionAt(Goal).catches[Block(SectionAt(Goal))]>> \in IsBaseOf
  BY <1>4, BlockChosen
<1> QED
  BY <1>1, <1>3, <1>5, <1>6 DEF Goal

\* An exception is caught by the innermost section that has a block for it, and
\* by the first such block, or by none.
THEOREM CatchCorrect == Spec => []CaughtByInnermost
<1>1. ASSUME IInv PROVE CaughtByInnermost
  BY <1>1, TargetInnermost DEF CaughtByInnermost, IInv, Handled, NobodyCatches
<1> QED
  BY <1>1, Invariance, PTL

\* The finally blocks on the way run once each, innermost first, and no other.
THEOREM FinallyCorrect == Spec => []FinallyOnce
<1>1. ASSUME IInv PROVE FinallyOnce
  BY <1>1, TargetInnermost DEF FinallyOnce, IInv, Handled, Behind
<1> QED
  BY <1>1, Invariance, PTL
=============================================================================
