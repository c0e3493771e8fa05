-------------------------------- MODULE Unwind --------------------------------
(***************************************************************************)
(* rt/deh.c: how an exception finds its catch block and which finally      *)
(* blocks and monitors it passes on the way.  On Win32 the system calls a  *)
(* handler for each frame twice, first to find the catch block, then to    *)
(* unwind; the frame's table index, which compiled code keeps up to date,  *)
(* tells where in its function the frame is.  On Posix _d_throw walks the  *)
(* stack once and works the index out from the return address.             *)
(*                                                                         *)
(* A function is its table of guarded sections.  Addresses are offsets     *)
(* from its start; a call that returns to r lies before r, so it is in the *)
(* section from s to e when s < r <= e.  Indices count from 1, and 0 is    *)
(* the -1 of the code.  Finally blocks do not throw.                       *)
(***************************************************************************)
EXTENDS Integers, Sequences, FiniteSets

CONSTANTS Functions,
          Table,     \* Table[f] lists f's sections, [start, end, prev,
                     \* catches]; a try-finally catches <<>>
          Size,      \* the offset at which a function ends
          Objects,   \* objects with synchronized methods
          Classes,   \* classes of exceptions
          Codes,     \* of structured exceptions
          Exception, \* the class they are translated to
          IsBaseOf,  \* pairs of a class and a base of it, or itself
          MaxDepth,  \* bound on the stack
          Null

\* prev leads outwards.
ASSUME TableOrder ==
    \A f \in Functions : \A i \in 1..Len(Table[f]) : Table[f][i].prev < i
ASSUME TableType ==
    Table \in [Functions -> Seq([start : Nat, end : Nat, prev : Nat, catches : Seq(Classes)])]
ASSUME Bounds == Size \in Nat /\ MaxDepth \in Nat
ASSUME Translated == Exception \in Classes /\ Codes \cap Classes = {}
ASSUME NullIsNone == Null \notin Functions \cup Objects \cup Classes \cup Codes

VARIABLES
    posix,   \* which half of the file is compiled
    stack,   \* frames, outermost first: fn; at, the address it returns to;
             \* index, its table_index; monitor, the object of a method that is
             \* synchronized, which is a frame of its own
    phase,   \* run; search and unwind on Win32, walk on Posix; then caught or
             \* uncaught
    exc,     \* what was thrown: an object of a class, or a code
    k, ndx,  \* frame and section that are looked at
    target,  \* the catch block found: frame, section, which block, and the
             \* class of the object it gets
    ran,     \* finally blocks run since the throw
    origin,  \* history: the stack at the throw
    locked   \* how often each object is locked

cursor == <<k, ndx>>
vars   == <<posix, stack, phase, exc, cursor, target, ran, origin, locked>>

Init ==
    /\ posix \in BOOLEAN
    /\ stack = <<>>
    /\ phase = "run"
    /\ exc = Null
    /\ k = 0
    /\ ndx = 0
    /\ target = Null
    /\ ran = <<>>
    /\ origin = <<>>
    /\ locked = [o \in Objects |-> 0]

Top(s) == s[Len(s)]
Up(s)  == SubSeq(s, 1, Len(s) - 1)

-----------------------------------------------------------------------------
(* What the compiler generates *)

\* Sections around a call that returns to r, and the innermost.
Around(f, r) == {i \in 1..Len(Table[f]) : Table[f][i].start < r /\ r <= Table[f][i].end}
Inner(S)     == IF S = {} THEN 0 ELSE CHOOSE i \in S : \A j \in S : j <= i

\* Sections nest, an inner one comes after those around it, and prev is the
\* innermost of these.
ASSUME TableNested ==
    \A f \in Functions, r \in 1..Size : \A i \in Around(f, r) :
        Table[f][i].prev = Inner({j \in Around(f, r) : j < i})

Frame(f, r) == [fn |-> f, at |-> r, index |-> Inner(Around(f, r)), monitor |-> Null]

Call ==
    /\ phase = "run"
    /\ Len(stack) < MaxDepth
    /\ \E f \in Functions, r \in 1..Size : stack' = Append(stack, Frame(f, r))
    /\ UNCHANGED <<posix, phase, exc, cursor, target, ran, origin, locked>>

\* A synchronized method, only Win32 has a handler for it: _d_monitor_prolog,
CallSynchronized ==
    /\ phase = "run"
    /\ ~posix
    /\ Len(stack) < MaxDepth
    /\ \E o \in Objects :
        /\ stack' = Append(stack, [fn |-> Null, at |-> 0, index |-> 0, monitor |-> o])
        /\ locked' = [locked EXCEPT ![o] = @ + 1]
    /\ UNCHANGED <<posix, phase, exc, cursor, target, ran, origin>>

Unlocked(f) == IF f.monitor = Null THEN locked ELSE [locked EXCEPT ![f.monitor] = @ - 1]

\* and _d_monitor_epilog.
Return ==
    /\ phase = "run"
    /\ stack # <<>>
    /\ stack' = Up(stack)
    /\ locked' = Unlocked(Top(stack))
    /\ UNCHANGED <<posix, phase, exc, cursor, target, ran, origin>>

\* The function on top goes on to its next call, out of its catch block if it
\* is in one.
GoOn ==
    /\ phase = "run"
    /\ stack # <<>> /\ Top(stack).monitor = Null
    /\ \E r \in 1..Size :
        stack' = [stack EXCEPT ![Len(stack)] = Frame(Top(stack).fn, r)]
    /\ UNCHANGED <<posix, phase, exc, cursor, target, ran, origin, locked>>

-----------------------------------------------------------------------------
(* Handlers *)

Section(i) == Table[stack[k].fn][i]

\* _d_translate_se_to_d_exception: the class of the object for a code.
ClassOf(x) == IF x \in Codes THEN Exception ELSE x

\* The class by which a catch block is chosen.
ThrownClass(x) == IF x \in Classes THEN x ELSE Exception

\* The first block of section s that catches the exception, or 0.
Block(s) ==
    LET B == {b \in 1..Len(s.catches) : <<ThrownClass(exc), s.catches[b]>> \in IsBaseOf}
    IN  IF B = {} THEN 0 ELSE CHOOSE b \in B : \A c \in B : b <= c

Catches(s) == Block(s) # 0

Found == [frame |-> k, section |-> ndx, block |-> Block(Section(ndx)), gets |-> ClassOf(exc)]

\* The index of a frame by its return address: the last section that starts at
\* or before it, if the function is found.
IndexByAddress(f) ==
    IF f.at >= Size THEN 0
    ELSE Inner({i \in 1..Len(Table[f.fn]) : f.at >= Table[f.fn][i].start})

\* _d_throw: RaiseException on Win32, where the system also raises codes of its
\* own.
Throw ==
    /\ phase = "run"
    /\ stack # <<>> /\ Top(stack).monitor = Null
    /\ \E x \in Classes \cup (IF posix THEN {} ELSE Codes) : exc' = x
    /\ origin' = stack
    /\ ran' = <<>>
    /\ k' = Len(stack)
    /\ IF posix
       THEN phase' = "walk" /\ ndx' = IndexByAddress(Top(stack))
       ELSE phase' = "search" /\ ndx' = Top(stack).index
    /\ UNCHANGED <<posix, stack, target, locked>>

IndexOf(j) ==
    IF j = 0 THEN 0
    ELSE IF posix THEN IndexByAddress(stack[j]) ELSE stack[j].index

\* Definitions named X_Mistake are X with a mistake one could make in it; no
\* specification uses them, they show that the properties notice it.
Outward_Stays(i) == i

\* The section around section i.
Outward(i) == Section(i).prev

\* The next frame outwards.
NextFrame == k' = k - 1 /\ ndx' = IndexOf(k - 1)

-----------------------------------------------------------------------------
(* Win32: _d_framehandler without EXCEPTION_UNWIND *)

\* A section that does not catch it; the search goes on outside it, or in the
\* next frame.
SearchOn ==
    /\ phase = "search"
    /\ k > 0
    /\ IF ndx = 0 THEN NextFrame
       ELSE ~Catches(Section(ndx)) /\ ndx' = Outward(ndx) /\ UNCHANGED k
    /\ UNCHANGED <<posix, stack, phase, exc, target, ran, origin, locked>>

\* The catch block is found: _global_unwind starts with the frame on top.
SearchFound ==
    /\ phase = "search"
    /\ k > 0 /\ ndx # 0
    /\ Catches(Section(ndx))
    /\ target' = Found
    /\ phase' = "unwind"
    /\ k' = Len(stack)
    /\ ndx' = Top(stack).index
    /\ UNCHANGED <<posix, stack, exc, ran, origin, locked>>

SearchFailed ==
    /\ phase = "search"
    /\ k = 0
    /\ phase' = "uncaught"
    /\ UNCHANGED <<posix, stack, exc, cursor, target, ran, origin, locked>>

-----------------------------------------------------------------------------
(* Win32: _d_local_unwind, and _d_monitor_handler *)

StopIndex_None == 0

\* stop_index: in its own frame the section that catches, in others -1.
StopIndex == IF k = target.frame THEN target.section ELSE 0

Runs(s) == s.catches = <<>>

\* One turn of the loop of _d_local_unwind.
UnwindSection ==
    /\ phase = "unwind"
    /\ ndx \notin {0, StopIndex}
    /\ ran' = IF Runs(Section(ndx)) THEN Append(ran, <<k, ndx>>) ELSE ran
    /\ ndx' = Outward(ndx)
    /\ UNCHANGED <<posix, stack, phase, exc, k, target, origin, locked>>

UnlockedByUnwind_Never(f) == locked

UnlockedByUnwind(f) == Unlocked(f)

\* A frame above the target's has been unwound.
UnwindFrame ==
    /\ phase = "unwind"
    /\ k > target.frame
    /\ ndx = 0
    /\ locked' = UnlockedByUnwind(stack[k])
    /\ stack' = Up(stack)
    /\ NextFrame
    /\ UNCHANGED <<posix, phase, exc, target, ran, origin>>

IndexInCatch_Same(i) == i

\* "we are out of this handler"
IndexInCatch(i) == Section(i).prev

\* The frame's function continues in the catch block, at an address outside the
\* section and inside those around it.
Land(index) ==
    LET f == stack[k].fn IN
    /\ \E r \in 1..Size :
        /\ Inner(Around(f, r)) = Section(target'.section).prev
        /\ stack' = Append(SubSeq(stack, 1, k - 1),
                           [fn |-> f, at |-> r, index |-> index, monitor |-> Null])
    /\ phase' = "caught"

JumpToCatch ==
    /\ phase = "unwind"
    /\ k = target.frame
    /\ ndx \in {0, StopIndex}
    /\ UNCHANGED <<posix, exc, cursor, target, ran, origin, locked>>
    /\ Land(IndexInCatch(target.section))

-----------------------------------------------------------------------------
(* Posix: _d_throw *)

WalkSection ==
    /\ phase = "walk"
    /\ k > 0 /\ ndx # 0
    /\ ~Catches(Section(ndx))
    /\ ran' = IF Runs(Section(ndx)) THEN Append(ran, <<k, ndx>>) ELSE ran
    /\ ndx' = Outward(ndx)
    /\ UNCHANGED <<posix, stack, phase, exc, k, target, origin, locked>>

WalkFrame ==
    /\ phase = "walk"
    /\ k > 0 /\ ndx = 0
    /\ NextFrame
    /\ UNCHANGED <<posix, stack, phase, exc, target, ran, origin, locked>>

WalkFound ==
    /\ phase = "walk"
    /\ k > 0 /\ ndx # 0
    /\ Catches(Section(ndx))
    /\ target' = Found
    /\ Land(0)
    /\ UNCHANGED <<posix, exc, cursor, ran, origin, locked>>

\* The end of the call chain: _d_throw returns.
WalkFailed ==
    /\ phase = "walk"
    /\ k = 0
    /\ phase' = "uncaught"
    /\ UNCHANGED <<posix, stack, exc, cursor, target, ran, origin, locked>>

-----------------------------------------------------------------------------
\* The catch block runs, and may throw again.
Resume ==
    /\ phase = "caught"
    /\ phase' = "run"
    /\ exc' = Null /\ k' = 0 /\ ndx' = 0
    /\ target' = Null /\ ran' = <<>> /\ origin' = <<>>
    /\ UNCHANGED <<posix, stack, locked>>

Program == Call \/ CallSynchronized \/ Return \/ GoOn \/ Throw

Handling ==
    \/ SearchOn \/ SearchFound \/ SearchFailed
    \/ UnwindSection \/ UnwindFrame \/ JumpToCatch
    \/ WalkSection \/ WalkFrame \/ WalkFound \/ WalkFailed
    \/ Resume

Next == Program \/ Handling

Spec == Init /\ [][Next]_vars /\ WF_vars(Handling)

-----------------------------------------------------------------------------
Frames ==
    [fn : Functions \cup {Null}, at : 0..Size, index : Nat, monitor : Objects \cup {Null}]

\* Every variable has its type, and a frame's index is one of its function's.
TypeOK ==
    /\ posix \in BOOLEAN
    /\ stack \in Seq(Frames)
    /\ \A j \in 1..Len(stack) :
        IF stack[j].monitor = Null THEN stack[j].index \in 0..Len(Table[stack[j].fn])
        ELSE stack[j].index = 0
    /\ phase \in {"run", "search", "unwind", "walk", "caught", "uncaught"}
    /\ exc \in Classes \cup Codes \cup {Null}
    /\ k \in 0..MaxDepth
    /\ ndx \in Nat
    /\ locked \in [Objects -> Nat]

\* The sections around the throw, in every frame, by their addresses.
Guarding ==
    UNION {{j} \X Around(origin[j].fn, origin[j].at) :
           j \in {m \in 1..Len(origin) : origin[m].monitor = Null}}

SectionAt(p)  == Table[origin[p[1]].fn][p[2]]
Inside(p, q)  == p[1] > q[1] \/ (p[1] = q[1] /\ p[2] > q[2])
Catching      == {p \in Guarding : Block(SectionAt(p)) # 0}
Innermost(S)  == CHOOSE p \in S : \A q \in S \ {p} : Inside(p, q)

\* The return address identifies the sections of every frame: none of its
\* function's sections lies wholly before it or starts exactly there, and the
\* call is not the last thing in the function.
AddressesTell ==
    \A j \in 1..Len(origin) :
        origin[j].monitor = Null =>
            IndexByAddress(origin[j]) = Inner(Around(origin[j].fn, origin[j].at))

Exact == ~posix \/ AddressesTell

\* An exception is caught by the innermost section around the throw that has a
\* block for it, and by the first such block, which gets an object of a class it
\* catches ("This code must match the translation code", deh.c:147); it is
\* uncaught only if there is none.  On Win32 that holds always, also for one
\* thrown again from a catch block.
CaughtByInnermost ==
    Exact =>
        /\ phase = "caught" =>
            /\ Catching # {}
            /\ <<target.frame, target.section>> = Innermost(Catching)
            /\ target.block = Block(SectionAt(Innermost(Catching)))
            /\ <<target.gets, SectionAt(Innermost(Catching)).catches[target.block]>> \in IsBaseOf
        /\ phase = "uncaught" => Catching = {}

\* The finally blocks that have run.
HasRun == {ran[m] : m \in 1..Len(ran)}

\* On the way each finally block inside the section that catches runs once,
\* innermost first, and no other does.  (An exception nobody catches runs none
\* on Win32 and all on Posix.)
FinallyOnce ==
    Exact =>
        /\ \A m, n \in 1..Len(ran) : m < n => Inside(ran[m], ran[n])
        /\ phase = "caught" =>
            HasRun = {p \in Guarding : /\ Runs(SectionAt(p))
                                       /\ Inside(p, Innermost(Catching))}
        /\ phase = "uncaught" =>
            HasRun = IF posix THEN {p \in Guarding : Runs(SectionAt(p))} ELSE {}

\* A synchronized method that an exception leaves unlocks its object, as often
\* as it is left, and no method that goes on does.
MonitorsHeld ==
    \A o \in Objects :
        locked[o] = Cardinality({j \in 1..Len(stack) : stack[j].monitor = o})

\* The stack and the locks agree whatever passes over them.
StackSound == TypeOK /\ MonitorsHeld

\* Every exception is caught or found to be uncaught.
ThrowEnds == phase \in {"search", "walk"} ~> phase \in {"caught", "uncaught"}
=============================================================================
