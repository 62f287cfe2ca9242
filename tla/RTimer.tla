------------------------------- MODULE RTimer -------------------------------
(***************************************************************************)
(* RTIMER_0 of the MSP430 port at interrupt level: rtimer_schedule         *)
(* (rtimer.c:603-706) in the steps an interrupt can fall between,          *)
(* rtimer_lf_overflow and rtimer_lf_update (rtimer.c:100-155), the two     *)
(* callback macros of rtimer.h (183-216) and the TIMERA1 and TIMERB1       *)
(* interrupt handlers of clock.c (170-243) that call them.                 *)
(*                                                                         *)
(* Time is counted in update ticks, the RTIMER_AB_UPDATE periods of the    *)
(* 512 Hz timer A; P of them make one coarse period (one TA overflow).     *)
(* A hardware date t has coarse part t \div P (time_coarse_hw) and fine    *)
(* part t % P (the TA count, ta).  Timer B only refines the instant inside *)
(* a tick, so its compare (TBCCR4) is a flag that may fire at any moment   *)
(* while enabled: TB wraps a thousand times per coarse period.             *)
(*                                                                         *)
(* The process context (the protothread and the announcement callbacks,   *)
(* which never preempt each other) is the caller "main".  Interrupts do    *)
(* not nest, preempt main, and are serviced before the next tick.          *)
(***************************************************************************)
EXTENDS Naturals

CONSTANTS
    Funcs,      \* the enter_* callbacks a caller may pass
    NoFunc,     \* the func of the zeroed rt[] (rtimer_init, memset)
    Dates,      \* hardware dates a caller may request, in update ticks
    P,          \* update ticks per coarse period
    MaxTime     \* bound on the hardware clock

ASSUME /\ P >= 3
       /\ Dates \subseteq 1..MaxTime
       /\ NoFunc \notin Funcs

VARIABLES
    now,          \* timer A, in update ticks since boot
    coarse_count, \* rtimer.c:54, counted by the overflow interrupt
    pend,         \* timer A interrupt flags set and not yet serviced
    lfcmp,        \* TACCR2: its interrupt enable and the ta it was set for
    hfOn,         \* TBCCTL4 CCIE: the timer B compare of RTIMER_0 is enabled
    sched,        \* scheduler_state (rtimer.c:69)
    rt,           \* rt[RTIMER_0]: state, func, hardware date hw, fine date ta
    isr,          \* NONE, or SPIN: the overflow handler waiting at rtimer.c:102
    pc,           \* where main is inside rtimer_schedule or its caller
    arg,          \* the date main passed to rtimer_schedule
    armed,        \* history: func and date of the schedule now armed
    ran           \* history: the func the last expiry ran

vars == <<now, coarse_count, pend, lfcmp, hfOn, sched, rt, isr, pc, arg,
          armed, ran>>

\* rtimer_state_t (rtimer.h:91-96)
JUST_EXPIRED == 0
INACTIVE == 1
SCHEDULED == 2
SINGLEPASS == 3

\* scheduler_state_t (rtimer.c:64-67)
SCHEDULER_FREE == 0
SCHEDULER_OCCUPIED == 1

\* Timer A interrupt sources behind TAIV (clock.c:174-186).
OVF == "overflow"   \* TAIV 10
LFC == "taccr2"     \* TAIV 4, which TAIV reports first

NONE == "none"
SPIN == "spin"
NoArm == [func |-> NoFunc, date |-> 0]

Coarse(t) == t \div P
Fine(t) == t % P

\* TACCR2 = ta - RTIMER_AB_UPDATE (rtimer.c:140): the tick whose start
\* raises the compare flag.
LfMatch(ta) == (ta + P - 1) % P

(***************************************************************************)
(* rtimer.c:143: ta < TACCR0 + RTIMER_AB_UPDATE.  TACCR0 is the next       *)
(* update boundary, so the sum is two ticks ahead of now; it is 16-bit     *)
(* arithmetic and wraps in the last two ticks of a coarse period.  The     *)
(* second test, TACCR1 == TACCR2, holds only at one instant inside the     *)
(* match tick and is left out.                                             *)
(***************************************************************************)
Imminent(ta, t) == ta < (Fine(t) + 2) % P

\* RTIMER_LF_CALLBACK for RTIMER_0 (rtimer.h:206-211): enable the timer B
\* compare when TACCR2 belongs to the timer and its coarse period has come.
\* The second block, for RTIMER_1, never finds RTIMER_1 SCHEDULED here.
LfCallback(r, cmpTa, cc) ==
    r.state = SCHEDULED /\ cmpTa = r.ta /\ Coarse(r.hw) <= cc

(***************************************************************************)
(* rtimer_lf_update (rtimer.c:109-155) for the one timer in use: the new   *)
(* TACCR2 (enable, ta) and whether it enabled the timer B compare.  A      *)
(* SCHEDULED timer gets TACCR2; when its ta is imminent TACCR2 is disabled *)
(* again and RTIMER_LF_CALLBACK is called at once.                         *)
(***************************************************************************)
LfUpdate(r, cmpTa, cc, t) ==
    IF r.state # SCHEDULED
    THEN [on |-> FALSE, ta |-> cmpTa, arm |-> FALSE]
    ELSE IF Imminent(r.ta, t)
         THEN [on |-> FALSE, ta |-> r.ta, arm |-> LfCallback(r, r.ta, cc)]
         ELSE [on |-> TRUE, ta |-> r.ta, arm |-> FALSE]

\* The registers after an rtimer_lf_update of r, with hf the compare enable
\* before it.
ProgramCompares(r, cc, hf) ==
    LET u == LfUpdate(r, lfcmp.ta, cc, now)
    IN  /\ lfcmp' = [on |-> u.on, ta |-> u.ta]
        /\ hfOn' = (hf \/ u.arm)

\* An enabled timer A interrupt is requesting service.
Requesting == OVF \in pend \/ (LFC \in pend /\ lfcmp.on)

\* Main runs only when no interrupt is running or requesting.
MainRuns == isr = NONE /\ ~Requesting

Init ==
    /\ now = 0
    /\ coarse_count = 0
    /\ pend = {}
    /\ lfcmp = [on |-> FALSE, ta |-> 0]
    /\ hfOn = FALSE
    /\ sched = SCHEDULER_FREE
    /\ rt = [state |-> JUST_EXPIRED, func |-> NoFunc, hw |-> 0, ta |-> 0]
    /\ isr = NONE
    /\ pc = "idle"
    /\ arg = 0
    /\ armed = NoArm
    /\ ran = NoFunc

(***************************************************************************)
(* Timer A counts one tick.  Entering a new coarse period raises the       *)
(* overflow flag (TAIE, clock.c:124); entering TACCR2's tick raises its    *)
(* compare flag, enabled or not.  Pending interrupts are serviced within   *)
(* a tick, unless the overflow handler is stuck.                           *)
(***************************************************************************)
Tick ==
    /\ now < MaxTime
    /\ isr = SPIN \/ ~Requesting
    /\ now' = now + 1
    /\ pend' = pend \cup (IF Fine(now + 1) = 0 THEN {OVF} ELSE {})
                    \cup (IF Fine(now + 1) = LfMatch(lfcmp.ta) THEN {LFC} ELSE {})
    /\ UNCHANGED <<coarse_count, lfcmp, hfOn, sched, rt, isr, pc, arg, armed, ran>>

(***************************************************************************)
(* TIMERA1 with TAIV 10: rtimer_lf_overflow (rtimer.c:100-105).  It waits  *)
(* while scheduler_state is OCCUPIED.  Only main clears it, and main       *)
(* cannot run until the handler returns, so then it waits for ever.        *)
(***************************************************************************)
OverflowIsr ==
    /\ isr = NONE
    /\ OVF \in pend
    /\ ~(LFC \in pend /\ lfcmp.on)
    /\ pend' = pend \ {OVF}
    /\ IF sched = SCHEDULER_FREE
       THEN /\ coarse_count' = coarse_count + 1
            /\ ProgramCompares(rt, coarse_count + 1, hfOn)
            /\ UNCHANGED isr
       ELSE /\ isr' = SPIN
            /\ UNCHANGED <<coarse_count, lfcmp, hfOn>>
    /\ UNCHANGED <<now, sched, rt, pc, arg, armed, ran>>

\* TIMERA1 with TAIV 4: RTIMER_LF_CALLBACK.
LfCompareIsr ==
    /\ isr = NONE
    /\ LFC \in pend /\ lfcmp.on
    /\ pend' = pend \ {LFC}
    /\ hfOn' = (hfOn \/ LfCallback(rt, lfcmp.ta, coarse_count))
    /\ UNCHANGED <<now, coarse_count, lfcmp, sched, rt, isr, pc, arg, armed, ran>>

\* The test of RTIMER0_HF_CALLBACK (rtimer.h:184): ta <= TACCR0 - UPDATE,
\* a test of the fine part only, and the timer SCHEDULED.  The second
\* disjunct of the code implies the first.
HfExpires(r, t) == r.ta <= Fine(t) /\ r.state = SCHEDULED

(***************************************************************************)
(* TIMERB1 with TBIV 8: RTIMER0_HF_CALLBACK (rtimer.h:183-192) taking its  *)
(* branch.  JUST_EXPIRED, the compare disabled, rtimer_lf_update (which    *)
(* finds no timer SCHEDULED), func, INACTIVE: one step, as nothing else    *)
(* runs inside the handler.  Without the branch the handler changes        *)
(* nothing.                                                                *)
(***************************************************************************)
HfCompareIsr ==
    /\ isr = NONE
    /\ hfOn
    /\ HfExpires(rt, now)
    /\ rt' = [rt EXCEPT !.state = INACTIVE]
    /\ ProgramCompares([rt EXCEPT !.state = JUST_EXPIRED], coarse_count, FALSE)
    /\ ran' = rt.func
    /\ armed' = NoArm
    /\ UNCHANGED <<now, coarse_count, pend, sched, isr, pc, arg>>

(***************************************************************************)
(* rtimer_schedule(RTIMER_0, .., f) up to the lock (rtimer.c:610-631).     *)
(* Callers never pass a zero date, so the return at 612-615 is not taken.  *)
(* A SINGLEPASS timer is promoted and 1 returned; otherwise func is stored *)
(* and scheduler_state becomes OCCUPIED.                                   *)
(***************************************************************************)
ScheduleCall(f, d) ==
    /\ MainRuns /\ pc = "idle"
    /\ IF rt.state = SINGLEPASS
       THEN /\ rt' = [rt EXCEPT !.state = SCHEDULED]
            /\ armed' = [func |-> rt.func, date |-> rt.hw]
            /\ pc' = "ret1"
            /\ UNCHANGED <<sched, arg>>
       ELSE /\ rt' = [rt EXCEPT !.func = f]
            /\ sched' = SCHEDULER_OCCUPIED
            /\ arg' = d
            /\ pc' = "convert"
            /\ UNCHANGED armed
    /\ UNCHANGED <<now, coarse_count, pend, lfcmp, hfOn, isr, ran>>

(***************************************************************************)
(* The date test (rtimer.c:641 and 664): past when its coarse period is    *)
(* over, or when it is in this period less than the safety margin ahead    *)
(* of now.  The margin is shorter than a tick, so a date in the current    *)
(* tick may pass or fail.                                                  *)
(***************************************************************************)
DateOutcomes(d, cc, t) ==
    IF Coarse(d) = cc /\ Fine(d) = Fine(t) THEN BOOLEAN
    ELSE {Coarse(d) > cc \/ (Coarse(d) = cc /\ Fine(d) > Fine(t))}

\* The conversion and date test under the lock (rtimer.c:633-647, 657-670):
\* both paths set scheduler_state FREE; a past date returns 0.
ScheduleConvert ==
    /\ MainRuns /\ pc = "convert"
    /\ sched' = SCHEDULER_FREE
    /\ \E ok \in DateOutcomes(arg, coarse_count, now) :
         pc' = IF ok THEN "dates" ELSE "ret0"
    /\ UNCHANGED <<now, coarse_count, pend, lfcmp, hfOn, rt, isr, arg, armed, ran>>

\* rtimer.c:649-655 (and 672-681): the dates are stored.
ScheduleStoreDates ==
    /\ MainRuns /\ pc = "dates"
    /\ rt' = [rt EXCEPT !.hw = arg]
    /\ pc' = "ta"
    /\ UNCHANGED <<now, coarse_count, pend, lfcmp, hfOn, sched, isr, arg, armed, ran>>

\* A store of the fine date without the shift of rtimer.c:654.
ScheduleStoreTaFromHw ==
    /\ MainRuns /\ pc = "ta"
    /\ rt' = [rt EXCEPT !.ta = arg]
    /\ pc' = "arm"
    /\ UNCHANGED <<now, coarse_count, pend, lfcmp, hfOn, sched, isr, arg, armed, ran>>

\* rtimer.c:691-692: rt.ta and rt.tb are stored.
ScheduleStoreTa ==
    /\ MainRuns /\ pc = "ta"
    /\ rt' = [rt EXCEPT !.ta = Fine(arg)]
    /\ pc' = "arm"
    /\ UNCHANGED <<now, coarse_count, pend, lfcmp, hfOn, sched, isr, arg, armed, ran>>

\* rtimer.c:695: the timer becomes SCHEDULED.
ScheduleArm ==
    /\ MainRuns /\ pc = "arm"
    /\ rt' = [rt EXCEPT !.state = SCHEDULED]
    /\ armed' = [func |-> rt.func, date |-> rt.hw]
    /\ pc' = "update"
    /\ UNCHANGED <<now, coarse_count, pend, lfcmp, hfOn, sched, isr, arg, ran>>

\* rtimer.c:696-698: rtimer_lf_update, then return 1.
ScheduleUpdate ==
    /\ MainRuns /\ pc = "update"
    /\ ProgramCompares(rt, coarse_count, hfOn)
    /\ pc' = "ret1"
    /\ UNCHANGED <<now, coarse_count, pend, sched, rt, isr, arg, armed, ran>>

\* The caller goes on with the result.
CallerReturns ==
    /\ MainRuns /\ pc \in {"ret0", "ret1"}
    /\ pc' = "idle"
    /\ UNCHANGED <<now, coarse_count, pend, lfcmp, hfOn, sched, rt, isr, arg, armed, ran>>

\* A callback that armed the timer marks it SINGLEPASS and calls the enter_*
\* function itself (received_declaration_announcement.c:81-86).
CallerSinglePass ==
    /\ MainRuns /\ pc = "ret1"
    /\ rt' = [rt EXCEPT !.state = SINGLEPASS]
    /\ armed' = NoArm
    /\ pc' = "idle"
    /\ UNCHANGED <<now, coarse_count, pend, lfcmp, hfOn, sched, isr, arg, ran>>

\* A discovery callback whose schedule failed marks the timer INACTIVE
\* (received_discovery_announcement.c:111-116).
CallerCancel ==
    /\ MainRuns /\ pc = "ret0"
    /\ rt' = [rt EXCEPT !.state = INACTIVE]
    /\ armed' = NoArm
    /\ pc' = "idle"
    /\ UNCHANGED <<now, coarse_count, pend, lfcmp, hfOn, sched, isr, arg, ran>>

Next ==
    \/ Tick
    \/ OverflowIsr
    \/ LfCompareIsr
    \/ HfCompareIsr
    \/ \E f \in Funcs, d \in Dates : ScheduleCall(f, d)
    \/ ScheduleConvert
    \/ ScheduleStoreDates
    \/ ScheduleStoreTa
    \/ ScheduleArm
    \/ ScheduleUpdate
    \/ CallerReturns
    \/ CallerSinglePass
    \/ CallerCancel

Spec == Init /\ [][Next]_vars

(***************************************************************************)
(* Fairness: the hardware clock advances, a requesting interrupt is        *)
(* serviced, and main, once inside rtimer_schedule, goes on to its return. *)
(* Callers need not call again.                                            *)
(***************************************************************************)
FairSpec ==
    /\ Spec
    /\ WF_vars(Tick)
    /\ WF_vars(OverflowIsr) /\ WF_vars(LfCompareIsr) /\ WF_vars(HfCompareIsr)
    /\ WF_vars(ScheduleConvert) /\ WF_vars(ScheduleStoreDates)
    /\ WF_vars(ScheduleStoreTa) /\ WF_vars(ScheduleArm) /\ WF_vars(ScheduleUpdate)

-----------------------------------------------------------------------------

TypeOK ==
    /\ now \in 0..MaxTime
    /\ coarse_count \in 0..Coarse(MaxTime)
    /\ pend \subseteq {OVF, LFC}
    /\ lfcmp \in [on : BOOLEAN, ta : 0..P-1]
    /\ hfOn \in BOOLEAN
    /\ sched \in {SCHEDULER_FREE, SCHEDULER_OCCUPIED}
    /\ rt \in [state : {JUST_EXPIRED, INACTIVE, SCHEDULED, SINGLEPASS},
               func : Funcs \cup {NoFunc}, hw : {0} \cup Dates, ta : 0..P-1]
    /\ isr \in {NONE, SPIN}
    /\ pc \in {"idle", "convert", "dates", "ta", "arm", "update", "ret0", "ret1"}
    /\ armed \in {NoArm} \cup [func : Funcs, date : Dates]
    /\ ran \in Funcs \cup {NoFunc}

(***************************************************************************)
(* Every overflow of timer A is eventually counted in coarse_count, the    *)
(* coarse part of every date the node computes (rtimer_lf_overflow).       *)
(***************************************************************************)
OverflowCounted ==
    \A k \in 1..Coarse(MaxTime) : (now >= k * P) ~> (coarse_count >= k)

(***************************************************************************)
(* Refinement of the promise of spec.md: the implementation fires only an  *)
(* armed timer, not before the date it was armed with, and runs the func   *)
(* of that arming; a rejected schedule changes nothing.  armed is the      *)
(* arming, set where rtimer_schedule makes the timer SCHEDULED.            *)
(***************************************************************************)
OneShot == INSTANCE OneShotTimer WITH clock <- now, timer <- armed, ran <- ran
OneShotSpec == OneShot!Spec

(***************************************************************************)
(* A callback marks RTIMER_0 SINGLEPASS right after its own successful     *)
(* rtimer_schedule (received_declaration_announcement.c:81-86), meaning    *)
(* "armed, the enter_* has run by hand".  The mark must find the timer     *)
(* still SCHEDULED: if the interrupt has already run func, the thread's    *)
(* next rtimer_schedule promotes an expired timer (rtimer.c:616-619).      *)
(***************************************************************************)
SinglePassOnArmed == [][rt'.state = SINGLEPASS => rt.state \in {SCHEDULED, SINGLEPASS}]_vars

====
