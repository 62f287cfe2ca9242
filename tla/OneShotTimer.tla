---------------------------- MODULE OneShotTimer ----------------------------
(***************************************************************************)
(* The timer slot spec.md promises (sections 3 and 4): a caller schedules  *)
(* a one-shot callback at a date; a rejected schedule has no side effect;  *)
(* the slot fires at or after its date and runs the callback it was armed  *)
(* with, once.  A caller may also drop the arming (SinglePass, Inactive).  *)
(***************************************************************************)
EXTENDS Naturals

CONSTANTS
    Funcs,      \* the callbacks
    NoFunc,     \* no callback
    Dates       \* the dates a slot may be armed for

VARIABLES
    clock,      \* the hardware clock
    timer,      \* the arming: callback and date, or NoArm
    ran         \* the callback the last firing ran

vars == <<clock, timer, ran>>

NoArm == [func |-> NoFunc, date |-> 0]

Init ==
    /\ clock = 0
    /\ timer = NoArm
    /\ ran = NoFunc

\* A successful schedule, or a SinglePass slot armed for its next tick.
Arm(f, d) ==
    /\ timer' = [func |-> f, date |-> d]
    /\ UNCHANGED <<clock, ran>>

\* The caller drops the arming.
Disarm ==
    /\ timer' = NoArm
    /\ UNCHANGED <<clock, ran>>

\* The slot fires: not before its date, running its own callback.
Fire ==
    /\ timer # NoArm
    /\ clock >= timer.date
    /\ ran' = timer.func
    /\ timer' = NoArm
    /\ UNCHANGED clock

Tick ==
    /\ clock' = clock + 1
    /\ UNCHANGED <<timer, ran>>

Next ==
    \/ \E f \in Funcs, d \in Dates : Arm(f, d)
    \/ Disarm
    \/ Fire
    \/ Tick

Spec == Init /\ [][Next]_vars

====
