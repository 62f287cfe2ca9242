---------------------------- MODULE RTimerAtomic ----------------------------
(***************************************************************************)
(* RTIMER_0 as the clustering model ClusterNode uses it.  rtimer_schedule  *)
(* is one atomic step: a SINGLEPASS timer is promoted, otherwise func is   *)
(* stored and the timer is armed only when the date is still ahead (ok).   *)
(* An expiry runs the stored func and leaves the timer INACTIVE.  Callers  *)
(* mark a timer SINGLEPASS or INACTIVE by hand.  ClusterNode's Schedule    *)
(* and TimerFire take exactly these steps; RTimer refines this module,     *)
(* which justifies treating them as atomic there.                          *)
(***************************************************************************)
EXTENDS Naturals

CONSTANTS
    Funcs,      \* the callbacks a caller may pass to rtimer_schedule
    NoFunc      \* the func of the zeroed rt[] before the first schedule

VARIABLES
    state,      \* rt[RTIMER_0].state
    func,       \* rt[RTIMER_0].func
    ran         \* the func the last expiry ran

vars == <<state, func, ran>>

\* rtimer_state_t (rtimer.h:91-96)
JUST_EXPIRED == 0
INACTIVE == 1
SCHEDULED == 2
SINGLEPASS == 3

\* rtimer_init clears rt[] with memset, so the state is 0 (JUST_EXPIRED).
Init ==
    /\ state = JUST_EXPIRED
    /\ func = NoFunc
    /\ ran = NoFunc

\* rtimer_schedule(RTIMER_0, .., f) finding its date ahead (ok) or past.
Schedule(f, ok) ==
    /\ IF state = SINGLEPASS
       THEN state' = SCHEDULED /\ UNCHANGED func
       ELSE /\ func' = f
            /\ state' = IF ok THEN SCHEDULED ELSE state
    /\ UNCHANGED ran

\* RTIMER0_HF_CALLBACK taking the branch: the stored func runs.
Expire ==
    /\ state = SCHEDULED
    /\ ran' = func
    /\ state' = INACTIVE
    /\ UNCHANGED func

\* A callback marks the timer it has just armed SINGLEPASS.
MarkSinglePass ==
    /\ state' = SINGLEPASS
    /\ UNCHANGED <<func, ran>>

\* A callback whose schedule failed marks the timer INACTIVE.
Cancel ==
    /\ state' = INACTIVE
    /\ UNCHANGED <<func, ran>>

Next ==
    \/ \E f \in Funcs, ok \in BOOLEAN : Schedule(f, ok)
    \/ Expire
    \/ MarkSinglePass
    \/ Cancel

Spec == Init /\ [][Next]_vars

====
