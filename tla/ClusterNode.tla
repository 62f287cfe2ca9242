---------------------------- MODULE ClusterNode ----------------------------
(***************************************************************************)
(* One C-sync node running the clustering protocol of c-sync.c (the        *)
(* default build: no hard-coded topology, no TEST_* flags), with its       *)
(* neighbours as the environment that sends it announcements.              *)
(*                                                                         *)
(* The node is three execution contexts on one core:                       *)
(*  - the protothread c_gtsp_process (PROCESS_THREAD in c-sync.c), which   *)
(*    runs from one PROCESS_YIELD to the next when it has been polled;     *)
(*  - the announcement callbacks received_*_announcement, each run to      *)
(*    completion by the Rime input process;                               *)
(*  - the RTIMER_0 interrupt, which calls the enter_* function the last    *)
(*    rtimer_schedule stored.                                              *)
(* Each thread segment, callback and timer expiry is one atomic step: the  *)
(* callbacks and the thread are both cooperative processes, and a timer is *)
(* only armed RTIMER_SCHEDULE_SAFETY_MARGIN ticks or more in the future.   *)
(*                                                                         *)
(* Time is abstracted: whether rtimer_schedule finds its date still ahead  *)
(* of now is a choice, and logical dates are drawn from the set Dates.     *)
(* The clock-offset arithmetic of gtsp_update_rtimer is abstracted to its  *)
(* effect on the neighbours' synced flags.                                 *)
(***************************************************************************)
EXTENDS CandidateList, FiniteSets, TLC

CONSTANTS MyAddr,       \* linkaddr_node_addr of this node
          Nbrs,         \* addresses of the nodes within radio range
          Degrees,      \* degrees the neighbours may announce
          Dates,        \* logical dates a schedule or announcement may carry
          MaxRxSync,    \* MAX_RX_SYNC_DISCOVERY
          MaxCycles,    \* bound on the protocol cycles (soft resets) explored
          Closeness,    \* whether a sender's clock offset may be within / beyond the threshold
          InitDegrees,  \* the degrees the neighbours may announce in the first cycle
          ScheduleResults, \* whether an rtimer_schedule may find its date ahead / past
          Slots,        \* consensus slot numbers a slot-phase announcement may carry
          MaxStage,     \* the last phase (index into Stages) the neighbours reach
          MaxSkew       \* how many instructions one neighbour may be ahead of another

ASSUME /\ MyAddr \in Nat \ {0} /\ Nbrs \subseteq Nat \ {0} /\ MyAddr \notin Nbrs
       /\ Degrees \subseteq Nat /\ Dates \subseteq Nat \ {0}
       /\ MaxRxSync \in Nat \ {0} /\ MaxCycles \in Nat \ {0}
       /\ Closeness \subseteq BOOLEAN /\ Closeness # {}
       /\ InitDegrees \subseteq [Nbrs -> Degrees]
       /\ ScheduleResults \subseteq BOOLEAN /\ ScheduleResults # {}
       /\ MaxSkew \in Nat \ {0} /\ Slots \subseteq 0..255 /\ MaxStage \in 1..7

\* rtimer_state_t of rtimer.h
JUST_EXPIRED == 0
INACTIVE == 1
SCHEDULED == 2
SINGLEPASS == 3

\* The phase each timer callback enters; enter_discovery only polls.
EnterTarget ==
    [enter_election_revelation |-> ELECTION_REVELATION,
     enter_election_declaration |-> ELECTION_DECLARATION,
     enter_connection_revelation |-> CONNECTION_REVELATION,
     enter_connection_declaration |-> CONNECTION_DECLARATION,
     enter_convergence |-> CONSENSUS_CONVERGENCE,
     enter_consensus_revelation |-> CONSENSUS_REVELATION,
     enter_consensus_synchronization |-> CONSENSUS_SYNCHRONIZATION]
Funcs == DOMAIN EnterTarget \cup {"enter_discovery", "none"}

VARIABLES
    my_state,        \* the phase (state_t)
    my_cluster,      \* role, CHs_list, CBs_list and their memb pool counts
    my_degree,       \* number of neighbours ever added (uint8_t)
    nbr,             \* neighbour_list: [known, degree, state, synced] per address
    rt,              \* rt[RTIMER_0]: state, func, logical date
    polled,          \* a process_poll of c_gtsp_process is pending
    tpc,             \* where the protothread is suspended
    synced_counter,  \* synced discovery announcements heard (saturates at MaxRxSync)
    disc_instr,      \* instr of this node's own discovery_announcement
    cycle,           \* protocol cycles started
    envDeg,          \* the degree each neighbour announces in this cycle
    cand,            \* history: outranking declarers offered to the CHs list
    bridged,         \* history: each bridge declaration heard and the head pair it summed
    heard            \* the phase each neighbour was last heard in this cycle (0: not yet)

vars == <<my_state, my_cluster, my_degree, nbr, rt, polled, tpc,
          synced_counter, disc_instr, cycle, envDeg, cand, bridged, heard>>

Me == [addr |-> MyAddr, degree |-> my_degree]
NoNbr == [known |-> FALSE, degree |-> 0, state |-> DISCOVERY, close |-> FALSE, synced |-> FALSE]

(***************************************************************************)
(* reset_c_gtsp (c-sync.c:880-963) at boot, followed by the thread's entry *)
(* into its main loop just before soft_reset.                              *)
(***************************************************************************)
Init ==
    /\ my_state = DISCOVERY
    /\ my_cluster = [role |-> CH, chs |-> <<>>, cbs |-> <<>>, chsUsed |-> 0, cbsUsed |-> 0]
    /\ my_degree = 0
    /\ nbr = [m \in Nbrs |-> NoNbr]
    /\ rt = [state |-> JUST_EXPIRED, func |-> "none", date |-> 0]
    /\ polled = FALSE
    /\ tpc = "soft_reset"
    /\ synced_counter = 0
    /\ disc_instr = DISCOVERY
    /\ cycle = 0
    /\ envDeg \in InitDegrees
    /\ cand = {}
    /\ bridged = {}
    /\ heard = [m \in Nbrs |-> 0]

(***************************************************************************)
(* rtimer_schedule (rtimer.c:603-706) on RTIMER_0.  A SINGLEPASS timer is  *)
(* only promoted to SCHEDULED.  Otherwise func is stored first, and the    *)
(* timer is armed at date d when ok (the date is far enough ahead) and     *)
(* left as it was when not.                                               *)
(***************************************************************************)
Schedule(t, f, ok, d) ==
    IF t.state = SINGLEPASS
    THEN [t |-> [t EXCEPT !.state = SCHEDULED], ok |-> TRUE]
    ELSE IF ok
         THEN [t |-> [state |-> SCHEDULED, func |-> f, date |-> d], ok |-> TRUE]
         ELSE [t |-> [t EXCEPT !.func = f], ok |-> FALSE]

\* rtimer_compare (rtimer.c:564-600): 1 when date d is later than the timer's
\* or the timer is not armed, -1 when earlier, 0 when equal.
RtimerCompare(t, d) ==
    IF t.state < SCHEDULED THEN 1
    ELSE IF t.date < d THEN 1 ELSE IF t.date > d THEN -1 ELSE 0

\* csync_all_synced (c-sync.c:1180-1207)
AllSynced(nb) == \A m \in Nbrs : nb[m].known => nb[m].synced /\ nb[m].state <= 1

(***************************************************************************)
(* add_to_neighbour (c-sync.c:3063-3143) for an announcement from m with   *)
(* instruction instr and degree deg.  gtsp_recv stores the sender's clock  *)
(* offset: close is whether it is within GTSP_JUMP_THRESHOLD.  A known     *)
(* neighbour's state is updated (the instructions one below a phase count  *)
(* as that phase) and, when it is in this node's phase or the node is      *)
(* discovering, gtsp_update_rtimer (gtsp-changed.c:220-300) re-judges the  *)
(* synced flag of every neighbour in this node's phase from its stored     *)
(* offset.  A new neighbour starts unsynced and raises my_degree.          *)
(***************************************************************************)
AddToNeighbour(nb, m, instr, deg, close) ==
    IF ~nb[m].known
    THEN [nb EXCEPT ![m] = [known |-> TRUE, synced |-> FALSE, state |-> instr, close |-> close,
                            degree |-> IF my_state < CONNECTION_DECLARATION THEN deg ELSE 0]]
    ELSE IF my_state = IDLE THEN [nb EXCEPT ![m].close = close]
    ELSE LET st == IF instr \in {DISC_TO_EREV, CONVERGENCE_PROACTIVE} THEN instr - 1 ELSE instr
             nb1 == [nb EXCEPT ![m].state = st, ![m].close = close,
                               ![m].degree = IF my_state < CONNECTION_DECLARATION THEN deg ELSE @]
         IN IF (my_state < CONSENSUS_SYNCHRONIZATION /\ st = my_state) \/ my_state = DISCOVERY
            THEN [k \in Nbrs |-> IF nb1[k].known /\ nb1[k].state = my_state
                                 THEN [nb1[k] EXCEPT !.synced = nb1[k].close] ELSE nb1[k]]
            ELSE nb1

DegreeAfterAdd(nb, m) == IF nb[m].known THEN my_degree ELSE U8(my_degree + 1)

\* A callback's timer argument: rtimer_schedule(RTIMER_DATE, ...) armed by the
\* callback, then marked RTIMER_SINGLEPASS before it calls an enter_* itself.
PreArmed(s) == [s.t EXCEPT !.state = SINGLEPASS]

\* The phase entered by calling enter_f (also from the timer interrupt).
EnterPhase(f) == IF f \in DOMAIN EnterTarget THEN EnterTarget[f] ELSE my_state

-----------------------------------------------------------------------------
(***************************************************************************)
(* received_discovery_announcement (received_discovery_announcement.c:16-  *)
(* 151), default build.  A discovering node that is not all-synced falls   *)
(* back to DISCOVERY; with enough synced announcements it proposes the     *)
(* DISC_TO_EREV date d, and it adopts a later date proposed by a neighbour.*)
(***************************************************************************)
ReceivedDiscovery(m, instr, d, close, ok) ==
    LET nb == AddToNeighbour(nbr, m, instr, envDeg[m], close)
        cnt0 == IF nb[m].synced /\ synced_counter < MaxRxSync
                THEN synced_counter + 1 ELSE synced_counter
        di == IF AllSynced(nb) THEN disc_instr ELSE DISCOVERY
        cnt == IF AllSynced(nb) THEN cnt0 ELSE 0
        s == Schedule(rt, "enter_election_revelation", ok, d)
    IN /\ nbr' = nb
       /\ my_degree' = DegreeAfterAdd(nbr, m)
       /\ IF my_state # DISCOVERY
          THEN /\ synced_counter' = cnt0
               /\ UNCHANGED <<rt, disc_instr>>
          ELSE IF instr = DISCOVERY /\ di = DISCOVERY /\ cnt >= MaxRxSync
          THEN /\ rt' = s.t
               /\ disc_instr' = IF s.ok THEN DISC_TO_EREV ELSE di
               /\ synced_counter' = cnt
          ELSE IF instr = DISC_TO_EREV /\ RtimerCompare(rt, d) = 1
          THEN IF s.ok
               THEN /\ rt' = s.t /\ disc_instr' = DISC_TO_EREV /\ synced_counter' = cnt
               ELSE /\ rt' = [s.t EXCEPT !.state = INACTIVE]
                    /\ disc_instr' = DISCOVERY /\ synced_counter' = 0
          ELSE /\ disc_instr' = di /\ synced_counter' = cnt
               /\ UNCHANGED rt
       /\ UNCHANGED <<my_state, my_cluster, polled, tpc, cycle, envDeg, cand, bridged>>

-----------------------------------------------------------------------------
(***************************************************************************)
(* What a callback does to the phase, cluster record, timer and poll flag  *)
(* is computed as an outcome record and applied by the callback's action.  *)
(***************************************************************************)
Stay == [st |-> my_state, cl |-> my_cluster, t |-> rt, p |-> polled]

\* A callback's rtimer_schedule(RTIMER_0, RTIMER_DATE, d, g); when it succeeds
\* the timer is marked SINGLEPASS, the cluster record becomes clOk and enter_f
\* is called; when it fails the cluster record is clFail.
ArmAndEnter(g, f, ok, d, clOk, clFail) ==
    LET s == Schedule(rt, g, ok, d)
    IN IF s.ok THEN [st |-> EnterPhase(f), cl |-> clOk, t |-> PreArmed(s), p |-> TRUE]
       ELSE [st |-> my_state, cl |-> clFail, t |-> s.t, p |-> polled]

ListAddrs(lst) == {lst[i].addr : i \in 1..Len(lst)}

\* received_revelation_announcement.c:107-117: with an empty CHs list the
\* callback allocates a CHB but pushes the memb struct m_CH itself; list_push
\* zeroes its first word (the block size) and its second word, the pool's
\* block count, reads as the entry's address.  The degree byte is the low
\* byte of a pointer and is taken to be 0.
SlotHeadOrGarbage(cl) ==
    IF cl.chs # <<>> THEN cl
    ELSE [cl EXCEPT !.chs = <<[addr |-> NUM_CH_MAX, degree |-> 0, refA |-> 0]>>,
                    !.chsUsed = IF @ < NUM_CH_MAX THEN @ + 1 ELSE @]

\* The switch of received_revelation_announcement (received_revelation_
\* announcement.c:38-219) for a synced neighbour n; the cases that only
\* touch consensus slots or the polite announcement leave the state alone.
RevelationOutcome(n, instr, a, ok) ==
    LET asCM == [my_cluster EXCEPT !.role = CM]
        cl == my_cluster
    IN IF my_state = DISCOVERY /\ instr = ELECTION_REVELATION
       THEN IF Outranks(n, Me)
            THEN ArmAndEnter("enter_connection_revelation", "enter_election_revelation",
                             ok, a.date, cl, cl)
            ELSE Stay
       ELSE IF my_state = DISCOVERY /\ instr = CONNECTION_REVELATION
       THEN ArmAndEnter("enter_consensus_synchronization", "enter_connection_revelation",
                        ok, a.date, asCM, asCM)
       ELSE IF my_state = DISCOVERY /\ instr = CONSENSUS_REVELATION
       THEN ArmAndEnter("enter_consensus_synchronization", "enter_consensus_revelation",
                        ok, a.date, SlotHeadOrGarbage(asCM), asCM)
       ELSE IF my_state = CONSENSUS_CONVERGENCE /\ instr = CONSENSUS_REVELATION
       THEN ArmAndEnter("enter_consensus_synchronization", "enter_consensus_revelation",
                        ok, a.date,
                        IF cl.role = CH /\ cl.cbs = <<>>
                        THEN HandleLists(my_state, cl, n, a, Me).cl ELSE cl, cl)
       ELSE Stay

\* The switch of received_declaration_announcement (received_declaration_
\* announcement.c:65-160).  A discovering node becomes a commoner whatever
\* it hears; in DISCOVERY handle_lists does nothing.
DeclarationOutcome(n, instr, a, ok) ==
    LET asCM == [my_cluster EXCEPT !.role = CM]
        cl == my_cluster
    IN IF my_state = DISCOVERY
       THEN IF instr = CONNECTION_DECLARATION
            THEN [st |-> CONNECTION_DECLARATION, cl |-> asCM, t |-> rt, p |-> TRUE]
            ELSE ArmAndEnter("enter_connection_revelation", "enter_election_declaration",
                             ok, a.date, asCM, asCM)
       ELSE IF my_state = ELECTION_REVELATION /\ instr = ELECTION_DECLARATION
       THEN ArmAndEnter("enter_connection_revelation", "enter_election_declaration",
                        ok, a.date, cl, cl)
       ELSE IF my_state = ELECTION_DECLARATION /\ instr = ELECTION_DECLARATION
       THEN IF Outranks(n, Me)
            THEN [Stay EXCEPT !.cl = HandleLists(my_state, cl, n, a, Me).cl]
            ELSE Stay
       ELSE IF my_state = ELECTION_DECLARATION /\ instr = CONNECTION_DECLARATION
       THEN ArmAndEnter("enter_convergence", "enter_connection_revelation",
                        ok, a.date, [cl EXCEPT !.chs = <<>>], cl)
       ELSE IF my_state = CONNECTION_DECLARATION /\ instr = CONNECTION_DECLARATION
               /\ cl.role = CH
       THEN [Stay EXCEPT !.cl = HandleLists(my_state, cl, n, a, Me).cl]
       ELSE Stay

\* The switch of received_convergence_announcement (received_convergence_
\* announcement.c:35-186); the slot negotiation of lines 102-141 changes
\* only consensus slots.
ConvergenceOutcome(n, instr, a, ok) ==
    LET cl == my_cluster
        ceded == [cl EXCEPT !.role = CM, !.cbs = <<>>]
    IN IF my_state = CONNECTION_DECLARATION /\ instr = CONSENSUS_CONVERGENCE
       THEN ArmAndEnter("enter_consensus_revelation", "enter_convergence", ok, a.date,
                        IF cl.role = CH THEN HandleLists(my_state, ceded, n, a, Me).cl
                        ELSE cl, cl)
       ELSE IF my_state = CONSENSUS_CONVERGENCE
               /\ n.addr \notin ListAddrs(cl.chs) \cup ListAddrs(cl.cbs)
               /\ cl.role = CH /\ cl.cbs = <<>>
       THEN [Stay EXCEPT !.cl = HandleLists(my_state, cl, n, a, Me).cl]
       ELSE IF my_state = CONSENSUS_SYNCHRONIZATION /\ instr = CONSENSUS_CONVERGENCE
       THEN ArmAndEnter("enter_consensus_revelation", "enter_discovery", ok, a.date,
                        IF cl.role = CH THEN ceded ELSE cl, cl)
       ELSE Stay

-----------------------------------------------------------------------------
(***************************************************************************)
(* The announcements the neighbours send.  A neighbour announces its       *)
(* degree and its own address (ref_addr), except that a bridge's           *)
(* CONNECTION_DECLARATION carries ref_n_CHB_degree and ref_n_CHB_addr, the *)
(* sums over the two heads at the front of its CHs list (c-sync.c:409-417, *)
(* 440-447), and the slot-phase announcements carry a slot number in the   *)
(* degree field (c-sync.c:614, 677), drawn here from Slots.                 *)
(***************************************************************************)
\* The date a phase announcement proposes: it is only ever compared by
\* rtimer_compare in DISCOVERY, so one date serves every later phase.
PhaseDate == CHOOSE d \in Dates : \A e \in Dates : d <= e

HeadDegree(h) == IF h = MyAddr THEN my_degree ELSE envDeg[h]

Plain(m) == {[degree |-> envDeg[m], ref |-> m, date |-> PhaseDate]}

HeadPairs(m) == {p \in (Nbrs \cup {MyAddr}) \X (Nbrs \cup {MyAddr}) :
                    p[1] < p[2] /\ m \notin {p[1], p[2]}}

BridgeDeclaration(p) ==
    [degree |-> U8(HeadDegree(p[1]) + HeadDegree(p[2])), ref |-> U16(p[1] + p[2]),
     date |-> PhaseDate]

BridgeDeclarations(m) == {BridgeDeclaration(p) : p \in HeadPairs(m)}

SlotValues(m) == {[degree |-> k, ref |-> m, date |-> PhaseDate] : k \in Slots}

\* The synced neighbour record handle_lists and the rank test see.
NbrOf(nb, m) == [addr |-> m, degree |-> nb[m].degree]

\* The part every callback shares: add_to_neighbour gave table nb, then the
\* callback returns when the sender is not synced, else applies outcome r.
Receive(nb, m, r) ==
    /\ nbr' = nb
    /\ my_degree' = DegreeAfterAdd(nbr, m)
    /\ my_state' = r.st /\ my_cluster' = r.cl /\ rt' = r.t /\ polled' = r.p

\* The table after add_to_neighbour for an announcement from m.
Added(m, instr, a, close) == AddToNeighbour(nbr, m, instr, a.degree, close)

\* The outranking ED declarers the CHs list was offered since it was last
\* emptied, with the rank each had when offered.
CandAfter(nb, m, instr) ==
    IF my_state = ELECTION_DECLARATION /\ instr = ELECTION_DECLARATION
       /\ nb[m].synced /\ Outranks(NbrOf(nb, m), Me)
    THEN {c \in cand : c.addr # m} \cup {NbrOf(nb, m)}
    ELSE IF my_state = ELECTION_DECLARATION /\ instr = CONNECTION_DECLARATION
            /\ nb[m].synced /\ my_state' # my_state
    THEN {}
    ELSE cand

\* The phases a neighbour goes through in one cycle, in order; an
\* instruction one below a phase belongs to that phase.
Stages == <<DISCOVERY, ELECTION_REVELATION, ELECTION_DECLARATION, CONNECTION_REVELATION,
            CONNECTION_DECLARATION, CONSENSUS_CONVERGENCE, CONSENSUS_REVELATION>>
AnnouncedInstrs == {DISCOVERY, DISC_TO_EREV, ELECTION_REVELATION, ELECTION_DECLARATION,
                    CONNECTION_REVELATION, CONNECTION_DECLARATION, CONSENSUS_CONVERGENCE,
                    CONVERGENCE_PROACTIVE, CONSENSUS_REVELATION}

StageOf == [i \in AnnouncedInstrs |->
               CHOOSE k \in 1..Len(Stages) :
                   Stages[k] = IF i \in {DISC_TO_EREV, CONVERGENCE_PROACTIVE} THEN i - 1 ELSE i]

(***************************************************************************)
(* The instructions neighbour m may announce next.  A neighbour moves      *)
(* forward through its cycle, possibly unheard for a while, so it never    *)
(* announces from a phase before the one it was last heard in; the         *)
(* neighbours run the same schedule, so none is heard more than MaxSkew    *)
(* phases ahead of another.                                                *)
(***************************************************************************)
Announceable(m) ==
    {i \in AnnouncedInstrs :
        /\ StageOf[i] >= heard[m] /\ StageOf[i] <= MaxStage
        /\ \A o \in Nbrs \ {m} : heard[o] > 0 => StageOf[i] - heard[o] <= MaxSkew}

Heard(m, instr) == heard' = [heard EXCEPT ![m] = StageOf[instr]]

RecvDiscovery ==
    /\ cycle > 0
    /\ \E m \in Nbrs, instr \in {DISCOVERY, DISC_TO_EREV}, d \in Dates, close \in Closeness,
       ok \in ScheduleResults :
         /\ instr \in Announceable(m)
         /\ ReceivedDiscovery(m, instr, d, close, ok)
         /\ Heard(m, instr)

RecvRevelation ==
    /\ cycle > 0
    /\ \E m \in Nbrs, close \in Closeness, ok \in ScheduleResults :
         \E instr \in Announceable(m) :
            /\ instr \in {ELECTION_REVELATION, CONNECTION_REVELATION, CONSENSUS_REVELATION}
            /\ \E a \in IF instr = CONSENSUS_REVELATION THEN SlotValues(m) ELSE Plain(m) :
                 LET nb == Added(m, instr, a, close)
                 IN Receive(nb, m, IF nb[m].synced THEN RevelationOutcome(NbrOf(nb, m), instr, a, ok) ELSE Stay)
            /\ Heard(m, instr)
    /\ UNCHANGED <<tpc, synced_counter, disc_instr, cycle, envDeg, cand, bridged>>

\* received_declaration_announcement for announcement a from m.
DeclarationHeard(m, instr, a, close, ok) ==
    LET nb == Added(m, instr, a, close)
    IN /\ Receive(nb, m, IF nb[m].synced THEN DeclarationOutcome(NbrOf(nb, m), instr, a, ok) ELSE Stay)
       /\ cand' = CandAfter(nb, m, instr)

RecvDeclaration ==
    /\ cycle > 0
    /\ \E m \in Nbrs, close \in Closeness, ok \in ScheduleResults :
         \E instr \in Announceable(m) :
            /\ instr \in {ELECTION_DECLARATION, CONNECTION_DECLARATION}
            /\ IF instr = CONNECTION_DECLARATION
               THEN \E p \in HeadPairs(m) :
                      /\ DeclarationHeard(m, instr, BridgeDeclaration(p), close, ok)
                      /\ bridged' = bridged \cup {[bridge |-> m, heads |-> {p[1], p[2]}]}
               ELSE \E a \in Plain(m) :
                      /\ DeclarationHeard(m, instr, a, close, ok)
                      /\ UNCHANGED bridged
            /\ Heard(m, instr)
    /\ UNCHANGED <<tpc, synced_counter, disc_instr, cycle, envDeg>>

RecvConvergence ==
    /\ cycle > 0
    /\ \E m \in Nbrs, close \in Closeness, ok \in ScheduleResults :
         \E instr \in Announceable(m) :
            /\ instr \in {CONSENSUS_CONVERGENCE, CONVERGENCE_PROACTIVE}
            /\ \E a \in SlotValues(m) :
                 LET nb == Added(m, instr, a, close)
                 IN Receive(nb, m, IF nb[m].synced THEN ConvergenceOutcome(NbrOf(nb, m), instr, a, ok) ELSE Stay)
            /\ Heard(m, instr)
    /\ UNCHANGED <<tpc, synced_counter, disc_instr, cycle, envDeg, cand, bridged>>

-----------------------------------------------------------------------------
(***************************************************************************)
(* The protothread c_gtsp_process.                                        *)
(***************************************************************************)
\* soft_reset (c-sync.c:966-1027) at the top of the main loop (346), then
\* PROCESS_YIELD (350).  The role, both lists and their pools, the neighbour
\* table and my_degree are left as they are.
SoftReset ==
    /\ tpc = "soft_reset" /\ cycle < MaxCycles
    /\ my_state' = DISCOVERY
    /\ rt' = [state |-> JUST_EXPIRED, func |-> "none", date |-> 0]
    /\ synced_counter' = 0
    /\ disc_instr' = DISCOVERY
    /\ cycle' = cycle + 1
    /\ tpc' = "yield"
    /\ UNCHANGED <<my_cluster, my_degree, nbr, polled, envDeg, cand, bridged, heard>>

\* The cases of the election switch (c-sync.c:355-459) in their order, with
\* the enter_* each one schedules RTIMER_INTERVAL_REF + REGULAR_SLOT_INTERVAL.
ElectionCase == <<ELECTION_REVELATION, ELECTION_DECLARATION,
                  CONNECTION_REVELATION, CONNECTION_DECLARATION>>
CaseFunc == <<"enter_election_declaration", "enter_connection_revelation",
              "enter_connection_declaration", "enter_convergence">>

(***************************************************************************)
(* One pass of the election switch from case k: a case whose schedule      *)
(* fails falls through to the next.  Every case schedules the same         *)
(* interval from the same reference, so a schedule that failed would fail  *)
(* again later in the pass: one ok serves the whole pass.  The connection  *)
(* revelation case makes a commoner with two heads a bridge, and falls     *)
(* through, with the timer marked SINGLEPASS, only when the timer's func   *)
(* is still enter_convergence.                                             *)
(***************************************************************************)
\* c-sync.c:391-394: a commoner that has heard two or more heads becomes a
\* bridge when the connection revelation case schedules its timer.
BecomeBridge(cl, ok) ==
    IF ok /\ Len(cl.chs) > 1 /\ cl.role = CM THEN [cl EXCEPT !.role = CB] ELSE cl

RECURSIVE ElectionSwitch(_, _, _, _)
ElectionSwitch(k, t, cl, ok) ==
    LET s == Schedule(t, CaseFunc[k], ok, t.date)
    IN IF k = 3
       THEN LET cl1 == BecomeBridge(cl, s.ok)
            IN IF s.t.func = "enter_convergence"
               THEN ElectionSwitch(4, [s.t EXCEPT !.state = SINGLEPASS], cl1, ok)
               ELSE [t |-> s.t, cl |-> cl1]
       ELSE IF s.ok \/ k = 4 THEN [t |-> s.t, cl |-> cl]
       ELSE ElectionSwitch(k + 1, s.t, cl, ok)

\* The thread resumed while my_state < CONSENSUS_CONVERGENCE (c-sync.c:353-
\* 462): one pass of the switch, then PROCESS_YIELD (461).
ElectionStep ==
    /\ tpc = "yield" /\ polled /\ my_state < CONSENSUS_CONVERGENCE
    /\ polled' = FALSE
    /\ \E ok \in ScheduleResults :
         IF \E k \in 1..4 : ElectionCase[k] = my_state
         THEN LET k == CHOOSE i \in 1..4 : ElectionCase[i] = my_state
                  r == ElectionSwitch(k, rt, my_cluster, ok)
              IN rt' = r.t /\ my_cluster' = r.cl
         ELSE UNCHANGED <<rt, my_cluster>>
    /\ UNCHANGED <<my_state, my_degree, nbr, tpc, synced_counter, disc_instr,
                   cycle, envDeg, cand, bridged, heard>>

\* The thread resumed in CONSENSUS_CONVERGENCE or later (c-sync.c:537-575,
\* first iteration, cons_ctrl_counter = 0): it schedules enter_consensus_
\* revelation and, when that succeeds, a head rebuilds its CHs list from
\* its bridges (init_consensus_convergence).  The consensus slots and the
\* synchronization phase that follow are not modelled.
ConvergenceStep ==
    /\ tpc = "yield" /\ polled /\ my_state >= CONSENSUS_CONVERGENCE
    /\ polled' = FALSE
    /\ \E ok \in ScheduleResults :
         LET s == Schedule(rt, "enter_consensus_revelation", ok, rt.date)
         IN /\ rt' = s.t
            /\ my_cluster' = IF s.ok /\ my_cluster.role = CH
                             THEN InitConsensusConvergence(my_cluster) ELSE my_cluster
    /\ tpc' = "consensus"
    /\ UNCHANGED <<my_state, my_degree, nbr, synced_counter, disc_instr,
                   cycle, envDeg, cand, bridged, heard>>

\* The rest of the cycle (c-sync.c:576-873) ends back at soft_reset; the
\* neighbours may have found more neighbours of their own by then.  The
\* bound on cycles is SoftReset's: after the last cycle the thread stays at
\* soft_reset while the radio callbacks go on.
CycleEnd ==
    /\ tpc = "consensus"
    /\ tpc' = "soft_reset"
    /\ envDeg' \in {f \in [Nbrs -> Degrees] : \A m \in Nbrs : f[m] >= envDeg[m]}
    /\ heard' = [m \in Nbrs |-> 0]
    /\ UNCHANGED <<my_state, my_cluster, my_degree, nbr, rt, polled,
                   synced_counter, disc_instr, cycle, cand, bridged>>

\* Mutant: an enter_* that sets the phase but forgets process_poll.
TimerFireNoPoll ==
    /\ rt.state = SCHEDULED
    /\ my_state' = EnterPhase(rt.func)
    /\ rt' = [rt EXCEPT !.state = INACTIVE]
    /\ UNCHANGED <<my_cluster, my_degree, nbr, polled, tpc, synced_counter, disc_instr,
                   cycle, envDeg, cand, bridged, heard>>

\* The RTIMER_0 interrupt (rtimer_arch, rtimer.c) on an armed timer: it runs
\* the stored enter_* and leaves the timer INACTIVE.
TimerFire ==
    /\ rt.state = SCHEDULED
    /\ my_state' = EnterPhase(rt.func)
    /\ polled' = TRUE
    /\ rt' = [rt EXCEPT !.state = INACTIVE]
    /\ UNCHANGED <<my_cluster, my_degree, nbr, tpc, synced_counter, disc_instr,
                   cycle, envDeg, cand, bridged, heard>>

Next ==
    \/ SoftReset \/ ElectionStep \/ ConvergenceStep \/ CycleEnd \/ TimerFire
    \/ RecvDiscovery \/ RecvRevelation \/ RecvDeclaration \/ RecvConvergence

Spec == Init /\ [][Next]_vars

\* The RTIMER_0 interrupt fires once its date is reached, and Contiki runs a
\* polled process once the callbacks have returned: both steps stay enabled
\* until taken, so weak fairness.  The neighbours' announcements get none.
FairSpec == Spec /\ WF_vars(TimerFire) /\ WF_vars(ElectionStep) /\ WF_vars(ConvergenceStep)

-----------------------------------------------------------------------------
(***************************************************************************)
(* Properties                                                              *)
(***************************************************************************)
CHBs == [addr : Nat, degree : 0..255, refA : 0..65535]

TypeOK ==
    /\ my_state \in {DISCOVERY, ELECTION_REVELATION, ELECTION_DECLARATION,
                     CONNECTION_REVELATION, CONNECTION_DECLARATION, CONSENSUS_CONVERGENCE,
                     CONSENSUS_REVELATION, CONSENSUS_SYNCHRONIZATION}
    /\ my_cluster.role \in Roles
    /\ my_cluster.chs \in Seq(CHBs) /\ my_cluster.cbs \in Seq(CHBs)
    /\ Len(my_cluster.chs) <= NUM_CH_MAX /\ Len(my_cluster.cbs) <= NUM_CH_MAX
    /\ my_cluster.chsUsed \in 0..NUM_CH_MAX /\ my_cluster.cbsUsed \in 0..NUM_CB_MAX
    /\ my_degree \in 0..255
    /\ rt.state \in {JUST_EXPIRED, INACTIVE, SCHEDULED, SINGLEPASS} /\ rt.func \in Funcs
    /\ polled \in BOOLEAN
    /\ tpc \in {"soft_reset", "yield", "consensus"}
    /\ synced_counter \in 0..MaxRxSync /\ disc_instr \in {DISCOVERY, DISC_TO_EREV}

\* The reference ranking of the election: by degree, ties to the higher address.
RankedAbove(x, y) == <<x.degree, x.addr>> \in
                        {<<dg, ad>> \in Nat \X Nat : dg > y.degree \/ (dg = y.degree /\ ad > y.addr)}

\* The NUM_CH_MAX best-ranked of the candidates, best first.
ElectedHeads ==
    LET ranked == SetToSortSeq(cand, RankedAbove)
    IN SubSeq(ranked, 1, IF Len(ranked) < NUM_CH_MAX THEN Len(ranked) ELSE NUM_CH_MAX)

\* From ELECTION_DECLARATION until the node leaves CONNECTION_DECLARATION,
\* the CHs list that handle_lists built is exactly the NUM_CH_MAX best of
\* the outranking neighbours whose declarations this node heard, best first
\* (spec: the candidate list is sorted and bounded at K), whatever order
\* the declarations arrived in and however often they were repeated.
HeadListTopK ==
    my_state \in {ELECTION_DECLARATION, CONNECTION_REVELATION, CONNECTION_DECLARATION}
    => [i \in 1..Len(my_cluster.chs) |-> [addr |-> my_cluster.chs[i].addr,
                                          degree |-> my_cluster.chs[i].degree]]
       = ElectedHeads

(***************************************************************************)
(* Spec section 4, consensus convergence: a head builds its peer graph     *)
(* from the bridges it shares with other heads.  Every entry of a head's   *)
(* CBs list, which handle_lists fills from CONNECTION_DECLARATIONs         *)
(* (handle_lists.c:82-85, storing ref_addr - my_addr as the peer head and  *)
(* init_consensus_convergence then making it a CHs entry), is a bridge     *)
(* that named this node as one of its two heads, and its peer head is the  *)
(* other one.                                                              *)
(***************************************************************************)
BridgesLinkPeerHeads ==
    my_cluster.role = CH =>
        \A i \in 1..Len(my_cluster.cbs) :
            \E b \in bridged : /\ b.bridge = my_cluster.cbs[i].addr
                              /\ b.heads = {MyAddr, my_cluster.cbs[i].refA}

\* Within one protocol cycle the phase only moves forward: no callback or
\* timer expiry takes the node back to an earlier phase; only soft_reset
\* returns it to DISCOVERY.
PhaseMonotone == [][my_state' < my_state => SoftReset]_vars

\* A bridge relays between the two heads at the front of its CHs list
\* (c-sync.c:409-417 reads list_head and its successor unchecked): once the
\* connection revelation case has made the node a bridge, every later
\* callback and timer expiry keeps at least two heads in its list.
BridgeHasTwoHeads == my_cluster.role = CB => Len(my_cluster.chs) >= 2

\* Spec section 7, forward progress: whenever the protothread waits at its
\* election PROCESS_YIELD with nothing polled, in a phase of the election,
\* RTIMER_0 is armed to wake it.  Otherwise only a neighbour's announcement
\* can move the node on.
ElectionTimerArmed ==
    (tpc = "yield" /\ ~polled /\ my_state \in {ELECTION_REVELATION, ELECTION_DECLARATION,
                                               CONNECTION_REVELATION, CONNECTION_DECLARATION})
    => rt.state = SCHEDULED

\* Spec section 7, forward progress: a node in a phase of the election
\* eventually reaches CONSENSUS_CONVERGENCE, whatever its neighbours do,
\* by the timer the election switch and the callbacks arm.
ElectionProgress ==
    my_state \in {ELECTION_REVELATION, ELECTION_DECLARATION,
                  CONNECTION_REVELATION, CONNECTION_DECLARATION}
    ~> my_state >= CONSENSUS_CONVERGENCE

\* A commoner that reaches the consensus phases knows its head:
\* csync_trusted_synchronization (c-sync.c:3250-3253) dereferences the head
\* of the CHs list of every CM without a check.
MemberHasHead ==
    my_cluster.role = CM /\ my_state >= CONSENSUS_CONVERGENCE => my_cluster.chs # <<>>

\* Every entry of the CHs list names a neighbour this node has heard.
HeadsAreNeighbours ==
    \A i \in 1..Len(my_cluster.chs) :
        my_cluster.chs[i].addr \in {m \in Nbrs : nbr[m].known}

=============================================================================
