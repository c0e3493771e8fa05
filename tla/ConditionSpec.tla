---------------------------- MODULE ConditionSpec ----------------------------
(***************************************************************************)
(* The promise of rt.core.sync.condition: a wait ends with a signal issued *)
(* while the thread waited ("true if notified") or, for wait(period), with *)
(* the period; notify issues one signal, notifyAll one for every waiter,   *)
(* and none that nobody is there to take.  The classes that use a          *)
(* Condition are modelled over the same operators of module Monitor.       *)
(***************************************************************************)
EXTENDS Monitor

CONSTANT Threads

VARIABLES cond,     \* the Condition
          phase,    \* where each thread is: out of wait, in it, or on its way
                    \* out having been notified or having timed out
          period    \* threads whose wait has a period

absVars == <<cond, phase, period>>

Init ==
    /\ cond = NoWaiters
    /\ phase = [t \in Threads |-> "out"]
    /\ period = {}

Wait(t) ==
    /\ phase[t] = "out"
    /\ GateOpen(cond)
    /\ cond' = Waits(cond, t)
    /\ phase' = [phase EXCEPT ![t] = "in"]
    /\ period' \in {period, period \cup {t}}

Wake(t) ==
    /\ phase[t] = "in"
    /\ CanTake(cond, t)
    /\ cond' = Takes(cond, t)
    /\ phase' = [phase EXCEPT ![t] = "notified"]
    /\ period' = period \ {t}

TimeOut(t) ==
    /\ phase[t] = "in"
    /\ t \in period
    /\ cond' = TimesOut(cond, t)
    /\ phase' = [phase EXCEPT ![t] = "timedOut"]
    /\ period' = period \ {t}

Return(t) ==
    /\ phase[t] \in {"notified", "timedOut"}
    /\ phase' = [phase EXCEPT ![t] = "out"]
    /\ UNCHANGED <<cond, period>>

Notify ==
    /\ cond' = Notifies(cond)
    /\ UNCHANGED <<phase, period>>

NotifyAll ==
    /\ cond' = NotifiesAll(cond)
    /\ UNCHANGED <<phase, period>>

Next ==
    \/ \E t \in Threads : Wait(t) \/ Wake(t) \/ TimeOut(t) \/ Return(t)
    \/ Notify \/ NotifyAll

Spec == Init /\ [][Next]_absVars
=============================================================================
