# TLA+ models of C-sync clustering

C-sync (src/) is a Contiki application for MSP430 sensor nodes. It groups the
nodes of a radio network into clusters and then synchronises their clocks
through those clusters. This directory holds TLA+ models of one node's
clustering protocol, of the consensus-slot negotiation and the synchronization
phase between all the heads and bridges of a network, of the timer under them, of the GTSP clock offsets between neighbouring nodes, and of the Rime announcement layer that carries one node's announcements. It also holds the TLC
configurations that check them, and the results.

The models follow the clustering build: project-conf.h with TEST_FTSP,
TEST_GTSP and TEST_BYZ all 0. The project-conf.h in the repository sets
TEST_FTSP 1. That build registers only the discovery announcement and runs
the IDLE loop of c-sync.c:467-535 in place of the consensus phases. It also
calls `ftsp_update_rtimer` (c-sync.c:3034), which nothing in src/ defines.
project-conf.h:49 also sets MOD_NEIGHBOURS 1, so `add_to_neighbour` takes the
branch of c-sync.c:3014-3051, which admits only the hard-coded neighbours of
each address. The models take the neighbour relation as a constant (`Nbrs`,
the topologies), which is exactly what that branch yields; the branch's
admission test adds no other behaviour.

## The system

Every node runs three execution contexts on one core:

* **the protothread** `c_gtsp_process` (`PROCESS_THREAD`, c-sync.c:317-877).
  Each cycle it calls `soft_reset` and then walks through the phases
  DISCOVERY, ELECTION_REVELATION, ELECTION_DECLARATION, CONNECTION_REVELATION,
  CONNECTION_DECLARATION, CONSENSUS_CONVERGENCE, CONSENSUS_REVELATION and
  CONSENSUS_SYNCHRONIZATION. In each election phase it schedules RTIMER_0 for
  the next phase's `enter_*` function and yields (the election switch,
  353-462).
* **the announcement callbacks** `received_{discovery,revelation,declaration,
  convergence}_announcement`. Rime calls them when a neighbour's announcement
  arrives. Each first runs `add_to_neighbour` (c-sync.c:3063-3143), which
  updates the neighbour table and GTSP's synced flags. It then reacts to the
  sender's phase: a callback may
  * jump the node ahead to the sender's phase (by arming RTIMER_0, marking it
    SINGLEPASS and calling an `enter_*` itself),
  * change the node's role (commoner CM, head CH, bridge CB),
  * update the candidate lists through `handle_lists`.
* **the RTIMER_0 interrupt**. It calls the `enter_*` function that the last
  successful `rtimer_schedule` stored. That function sets `my_state` and polls
  the thread.

The cluster record holds the role and two ranked lists:
* CHs: candidate heads, or a bridge's two heads;
* CBs: a head's bridges.

Each list has a memb pool. `handle_lists` (handle_lists.c) inserts by rank
(degree, then address), keeps at most NUM_CH_MAX entries, and makes a node
that lists a head a commoner. `init_consensus_convergence` rebuilds a head's
CHs list from its bridges.

These parts interact through shared globals: `my_state`, `my_cluster`,
`rt[RTIMER_0]`, the neighbour table and the poll flag. They run in any order
the radio and the timer produce. What is hard to test:
* a timer armed in one phase that fires after a callback has moved the node on;
* callbacks that run between the thread's schedule and its yield;
* list bookkeeping under declarations that arrive in any order;
* state kept across `soft_reset`.

## Modules

| module | models | source |
|---|---|---|
| `CandidateList` | enumerations of c-sync.h, `handle_lists` (`HandleListOn`, `HandleLists`, `Outranks`, `CHBEntry`, `MakeRoom`), `init_consensus_convergence` (`PeerHeads`, `InitConsensusConvergence`, RECURSIVE) | handle_lists.c, init_consensus_convergence.c, c-sync.h |
| `ClusterNode` | one node: its state as VARIABLES, one action per context step, neighbours as the environment | c-sync.c, received_*_announcement.c, rtimer.c, rtimer.h |
| `MC_ClusterNode` | the neighbour-degree assignments the configurations use | — |
| `RTimer` | RTIMER_0 at interrupt level: `rtimer_schedule` in the steps an interrupt can fall between, the timer A overflow and TACCR2 handlers, the timer B expiry, `rtimer_lf_update` | rtimer.c, rtimer.h, clock.c |
| `RTimerAtomic` | RTIMER_0 as ClusterNode uses it: `rtimer_schedule` and the expiry as single steps; no run checks RTimer against it (it lets more happen than the code) | rtimer.c, rtimer.h |
| `ConsensusSlots` | every head and bridge of a clustered network from CONSENSUS_CONVERGENCE to IDLE: the slot loop of the thread, `received_convergence_announcement`'s convergence case, `init_consensus_synchronization`, the synchronization slot loop, `received_synchronization_announcement`'s synchronization case, `csync_trusted_synchronization`, the node's queued polite announcement | c-sync.c, received_convergence_announcement.c, init_consensus_convergence.c, init_consensus_synchronization.c, received_synchronization_announcement.c, polite-announcement.c, ipolite.c |
| `MC_ConsensusSlots` | the topologies (bridge to head pairs) the configurations use | — |
| `Gtsp` | the clock offsets of a network of nodes: `add_to_neighbour`'s GTSP branch (c-sync.c:3063-3143), `gtsp_recv`'s measurement, `gtsp_update_rtimer`, `rtimer_adjust_coarse_count` and `rtimer_adjust_fine_offset` | gtsp-changed.c, c-sync.c, rtimer.c, c-sync.h |
| `MC_Gtsp` | the radio ranges and phase assignments the configurations use | — |
| `Announcement` | one node's Rime announcement layer: the registry and its single observer, the broadcast announcement, the polite announcement over ipolite, a MAC queue with late sent callbacks, and the calls of the election phase entries, the election switch and `received_declaration_announcement` | announcement.c, broadcast-announcement.c, polite-announcement.c, ipolite.c, c-sync.c, received_declaration_announcement.c |
| `OneShotTimer` | what spec.md promises of the timer: it fires an armed callback at or after its date, once, and a rejected schedule changes nothing | spec.md |

### ClusterNode: state

* `my_state` and `my_cluster`: the role, both lists and both pool counts.
* `my_degree` and `nbr`: the neighbour table, keeping whether each neighbour
  is known, its degree, its state, its last clock verdict and its synced flag.
* `rt`: the state, func and date of RTIMER_0.
* `polled`: a poll of the thread is pending.
* `tpc`: where the thread is suspended.
* `synced_counter`: the synced discovery announcements heard, saturated at
  MAX_RX_SYNC_DISCOVERY, since the code only compares it with `>=`.
* `disc_instr`: the instruction of the node's own discovery announcement.

Four variables describe the environment or exist for the properties:
* `cycle` counts soft resets;
* `envDeg` is the degree each neighbour announces;
* `heard` is the phase each neighbour was last heard in;
* `cand` is a history variable: the outranking declarers offered to the CHs
  list.
* `bridged` is a history variable: each bridge declaration heard, with the
  head pair its sums were taken over.

### ClusterNode: actions

| action | code |
|---|---|
| `SoftReset` | `soft_reset` (c-sync.c:966-1027), then the yield at 350 |
| `ElectionStep` | one resumption of the election loop, with the switch's fall-through (`ElectionSwitch`, RECURSIVE) and the bridge promotion (`BecomeBridge`) |
| `ConvergenceStep` | the first convergence schedule and `init_consensus_convergence` (529-575) |
| `CycleEnd` | the rest of the cycle (576-873), abstracted to one step back to `soft_reset`. The bound on cycles is on `SoftReset`, so after the last cycle the thread waits at `soft_reset` while the callbacks still run. |
| `TimerFire` | `RTIMER0_HF_CALLBACK` running the stored `enter_*` |
| `RecvDiscovery` … `RecvConvergence` | each callback as a whole: `add_to_neighbour`, the early return for an unsynced sender, then the phase switch (`RevelationOutcome`, `DeclarationOutcome`, `ConvergenceOutcome`) |

`Schedule` is `rtimer_schedule`:
* a SINGLEPASS timer is only promoted to SCHEDULED;
* otherwise func is stored first, and the timer is armed only if the date is
  still ahead.

### ClusterNode: abstractions

* **Time.** Whether a date is still ahead is a choice from `ScheduleResults`.
  Dates come from `Dates`.
* **Clocks.** GTSP's clock arithmetic is reduced to a per-message choice from
  `Closeness` of whether the sender's offset is within threshold. The synced
  flags are re-judged from that exactly where `gtsp_update_rtimer` runs.
* **Neighbours.** They are an environment that announces phases in order.
  * A bridge may declare any pair of heads other than itself, with or
    without this node.
  * A neighbour may be unheard for a while, which models lost announcements.
    It may be heard again in the same phase, which models duplicates.
  * It never goes back to an earlier phase within a cycle.
  * It is never more than `MaxSkew` phases ahead of another heard neighbour.
    All nodes run the same schedule.
* **Bridge declarations** carry the sums of a head pair, exactly as c-sync.c
  sends them (409-447).
* **Steps.** A callback, a thread segment and a timer expiry are each one
  atomic step. The callbacks and the thread are cooperative Contiki processes.
  The timer is only armed at least a safety margin ahead.

### ConsensusSlots: slot negotiation

After clustering, each head needs a consensus slot (1..NUM_CONS_SLOTS = 3).
In CONSENSUS_SYNCHRONIZATION a bridge takes its time from one head in that
head's slot and passes it on in the other head's slot. The slots are
negotiated in CONSENSUS_CONVERGENCE:
* Each node's thread walks `my_cons_slot` from 1 to 3 (c-sync.c:580-663).
  RTIMER_0 marks each slot's end (`enter_convergence_slot`).
* A head bumps a claim of the slot when both hold:
  * it is not acknowledged;
  * at most one of its peer heads has an unknown slot, or the slot is its
    `my_proactive_slot`.
* A bridge acknowledges the first claim it hears in a slot, from a head it
  has not recorded. It records the slot and bumps an announcement whose
  `ref_addr` names that head.
* The head named takes the slot. A head that hears an acknowledgement naming
  a peer cancels its own claim and records the peer's slot.

State: `node[n]` holds:
* `slot`: `my_cons_slot`;
* `ack`: `my_slot_ack`;
* `rec`: the `cons_slot` of each CHs entry;
* `pend`: the announcement queued by the polite announcement;
* `pc`: where the thread is.

`now` is the slot in progress. The topology `BridgeHeads` gives each bridge
its two heads:
* a head's CHs list is its peer heads, one entry per peer, as
  `init_consensus_convergence` rebuilds it;
* a node hears only the other end of its head-bridge links.

| action | code |
|---|---|
| `Transmit(s, R)` | a copy of s's queued announcement (`send_adv`, `adv_packet_sent`) reaches the listening nodes R, whose callbacks run (`BridgeHeard`, lines 102-123; `HeadHeard`, 124-141) |
| `SlotEnd` | every node's `enter_convergence_slot` cancels the queued announcement; each waiting thread resumes (`Resume`, c-sync.c:628-651) and runs the loop body (`SlotBody`, 580-627) up to the next yield |
| `EnterRevelation` | the last slot ends; `enter_consensus_revelation` cancels and removes the value |

Abstractions:
* **Lockstep slots.** All slot timers count from the shared reference date,
  so the slots change together. A claim waits at least
  POLITE_INTERVAL * `my_placing` ticks in `ipolite_send`, so a thread reaches
  its yield before the next slot's announcements arrive. A failed
  `rtimer_schedule` ("failed A/B") is left out: it puts a thread a slot
  behind.
* **Transmission order.** `ipolite_send` delays a claim by interval +
  random % interval. A proactive claim's interval adds
  POLITE_PROACTIVE_OFFSET, which makes it late only on average. So any
  order of transmissions is possible.
* **Delivery.** With `Lossy = FALSE`, a copy reaches every listening
  neighbour, and the slot (0.3 s) ends only when nothing is left queued. The
  repeated copies change nothing more. With `Lossy = TRUE`, any copy may miss
  any listener.
* **The instruction is dropped.** The callbacks treat CONSENSUS_CONVERGENCE
  and CONVERGENCE_PROACTIVE alike.
* **A head's claim carries `ref_addr` 0**, because nothing sets it for the
  convergence announcement.
* **Heads do not hear each other.** A head within range of a peer head would
  cancel its own claim on hearing the peer's claim.

### ConsensusSlots: the synchronization phase

The same module continues through CONSENSUS_REVELATION (heads and bridges do
nothing there) into one CONSENSUS_SYNCHRONIZATION phase. A clock is
abstracted to `org`: the node whose time the node's clock was last set to.
The synchronization announcement's `ref_addr` is `ann`.

| action | code |
|---|---|
| `SyncInit(n)` | the thread saves its slot state and runs `init_consensus_synchronization` (c-sync.c:692-745): every slot is reversed to N+1-slot (`Rev`); a head wakes at the earliest of its own and its peers' slots and is a border head when no peer is due before it and every peer's slot is known (`HeadSyncInits`); a bridge takes the head due first before slot N as reference and the other head's slot as its own (`BridgeSyncInit`). `csync_print_status`, called next, sets `sync_LC_addr` (`LocalCenters`). |
| `BeginSync` | `enter_consensus_synchronization` and the thread's first slot (`SyncWake(., 1)`) |
| `Transmit(s, R)` | as in convergence; a node in synchronization runs `SyncHeard` (bounce check, then `BridgeSyncHeard`, lines 126-203, or `HeadSyncHeard`, 204-221, both through `TrustedSync`, c-sync.c:3237-3345) |
| `SyncSlotEnd` | `enter_synchronization_slot` cancels the queued announcement; each thread past its wake slot sets `this_sync_slot` and, as a border node in its own slot, bumps its time (`SyncWake`, c-sync.c:751-836) |
| `EnterIdle` | `enter_idle` stops the announcement and turns the radio off |

What the code does here, as modelled:
* **Slot 1 is silent.** For `ref_n_CHB_degree` = 1 the thread schedules the
  slot timer at interval `CONS_CTRL_SLOT_INTERVAL * 0`, and
  `rtimer_schedule` returns 0 for a zero date (rtimer.c:612). The thread
  takes the failure branch: it turns the radio on but neither sets
  `this_sync_slot` nor bumps. `SyncWake` does nothing else in slot 1.
* **A head's trusted synchronization** returns at the first CBs entry that
  is not the sender (c-sync.c:3296). A head with two bridges never adjusts
  its clock (the multi-bridge head trace below).
* **Local centres.** A head that switched its radio off after its
  acknowledgement never records a later peer's slot. Reversed, that slot is
  N+1, so the head is not a border head, and the peer is a candidate for
  `sync_LC_addr`. The leaves of the star are synchronized by that branch.
* **Offsets within the thresholds.** Every sender is taken to be GTSP-synced
  and within BYZANTINE_FINE_DIFF and BYZANTINE_COARSE_DIFF, so the blacklist
  stays empty and BYZANTINE_CONSENSUS is never entered.
* **One iteration.** The code repeats the synchronization phase
  NUM_CONS_CTRL_ITERATIONS = 3 times from the saved slot state; the model
  stops at the first IDLE.

### RTimer: the timer under interrupts

ClusterNode treats `rtimer_schedule` and the timer's expiry as atomic steps.
RTimer checks that assumption against the MSP430 port. Three contexts share
`rt[RTIMER_0]`, `scheduler_state`, `coarse_count` and the compare registers:
* **main**: the protothread and the callbacks, which never preempt each
  other, calling `rtimer_schedule`;
* **TIMERA1** (clock.c:170-189): with TAIV 10, `rtimer_lf_overflow` counts a
  coarse period and reprograms TACCR2. With TAIV 4, which TAIV reports first,
  `RTIMER_LF_CALLBACK` enables the timer B compare when the coarse period has
  come;
* **TIMERB1** case 8: `RTIMER0_HF_CALLBACK` runs func.

Interrupts do not nest and preempt main (`MainRuns`).

**Time.** One tick is one RTIMER_AB_UPDATE period and `P` ticks make one
coarse period (one timer A overflow). A hardware date `t` has coarse part
`t \div P` and fine part `t % P`. Timer B only places an instant inside a
tick, so its compare is a flag `hfOn` that may fire at any moment while it is
enabled. A pending enabled interrupt is serviced before the next tick, except
while the overflow handler is stuck.

**State.**
* `now`, `coarse_count` and `pend` are timer A, the software overflow count
  and the pending flags.
* `lfcmp` is TACCR2 (enable and ta) and `hfOn` is TBCCTL4's CCIE.
* `sched` is `scheduler_state`. `rt` holds state, func, `hw` (the hardware
  date) and `ta`.
* `isr = SPIN` means the overflow handler is waiting at rtimer.c:102.
* `pc` and `arg` give where main is inside `rtimer_schedule`.
* `armed` and `ran` are history variables for the refinements.

**Actions.**

| action | code |
|---|---|
| `Tick` | timer A counting (clock.c:117-125): overflow and TACCR2 flags |
| `OverflowIsr` | `rtimer_lf_overflow` (rtimer.c:100-105): spin while OCCUPIED, else count and `rtimer_lf_update` |
| `LfCompareIsr` | `RTIMER_LF_CALLBACK` (rtimer.h:206-216) |
| `HfCompareIsr` | `RTIMER0_HF_CALLBACK` (rtimer.h:183-192): the fine-only test `HfExpires`, then `rtimer_lf_update` and func |
| `ScheduleCall` | rtimer.c:610-631: SINGLEPASS promotion, or store func and take the lock |
| `ScheduleConvert` | the conversion and the date test under the lock (633-670) |
| `ScheduleStoreDates`, `ScheduleStoreTa`, `ScheduleArm`, `ScheduleUpdate` | 649-655, 691, 695, 696 |
| `CallerReturns`, `CallerSinglePass`, `CallerCancel` | what the callers do with the result: go on, mark SINGLEPASS (received_declaration_announcement.c:81-86), mark INACTIVE (received_discovery_announcement.c:104-116) |

`LfUpdate` is `rtimer_lf_update` for the one timer in use. It includes the
16-bit test `ta < TACCR0 + RTIMER_AB_UPDATE` (`Imminent`), which wraps in the
last two ticks of a coarse period.

Left out of RTimer:
* the offset and rate arithmetic, that is, the date conversions and
  `rtimer_adjust_*`;
* `rtimer_now_fine`'s clock_state wait, which only process context takes;
* `rtimer_sync_send`;
* RTIMER_1, which C-sync never schedules. Its `RTIMER_LF_CALLBACK` block
  (rtimer.h:212) tests `rt[RTIMER_0].state`, a latent copy-paste slip.

### Gtsp: clock offsets

Every announcement a node hears goes through `add_to_neighbour`, and its
GTSP branch is what moves the node's clock. Gtsp models it for a whole
network.

State:
* `lc[n]`: n's logical date, the integer `coarse * FINE_MAX + fine`.
  `coarse_count` and the fine date after `rtimer_hwdate_to_lgdate` are its
  quotient and remainder.
* `nbr[n][m]`: n's `neighbour_t` for m, keeping `coarse_diff`, `fine_diff`,
  `synced` and `state`.
* `order[n]`: `neighbour_list` in `list_add` order. The DISCOVERY loop
  depends on it.
* `fresh[n]`: the neighbours whose date has not moved since n last measured
  them. It is what a property may compare a record with.
* `msgs` and `ticks` bound the announcements and the fine ticks.

Actions:
* `Discover(me, s)`: a first contact. `memb_alloc`, `gtsp_recv` with
  `new_neighbour = 1`, `n->state = state` and `list_add`. No update runs.
* `Hear(me, s)`: a known neighbour, with me not in IDLE. `gtsp_recv` runs,
  then `n->state = state`, then, when `UpdateDue` holds (c-sync.c:3080),
  `gtsp_update_rtimer`. That update is `Adjustment` and the two
  `rtimer_adjust_*` calls (`Adjusted`), then the last loop (`Compensated`).
  It is one step, as in the code: the receive callback runs to its end
  before anything else touches these variables.
* `HearIdle(me, s)`: in IDLE, `gtsp_recv` runs and `add_to_neighbour`
  returns. IDLE_BROADCAST keeps the radio on in IDLE.
* `Tick`: a fine tick passes on every clock.

`Measure` keeps the three branches of gtsp-changed.c:141-154 as they are,
including the coarse-boundary folds. `Adjustment` keeps:
* the same-phase filter;
* the averages over `count + 1` with C's truncating division (`Quot`);
* the DISCOVERY loop, in which the group of the last unsynced neighbour in
  list order sets the fine offset (the support test at line 341 is
  commented out).

Abstractions:
* All clocks run at one rate.
* The MAC and transmission delays are exact, so a measured offset is the
  difference of the two dates at one instant.
* The rate estimation is left out (`relative_rate`, `jumped`, `avg_rate`,
  gtsp-changed.c:77-125).
* The timer re-arm in `rtimer_adjust_fine_offset` is left out.
* A node's phase is fixed for the run: the phase changes are ClusterNode's.

### Announcement: the Rime announcement layer

A node announces through two Rime modules that share one registry
(announcement.c). Each announcement has a `has_value` flag, kept in
registration order (c-sync.c:1018-1023: discovery, revelation, declaration,
convergence, synchronization). There is ONE observer callback, and the last
module to call `announcement_register_observer_callback` owns it.
`announcement_bump` calls it.

* The broadcast announcement (DISCOVERY beacons) has two ctimers. The send
  timer sends the valued *prefix* of the list: the loop of
  broadcast-announcement.c:102 stops at the first announcement without a
  value. The interval timer doubles the interval up to its maximum and
  restarts both.
* The polite announcement (election and later phases) sends *every* valued
  announcement through ipolite. With interval 0 ipolite hands the packet to
  the MAC at once; otherwise it keeps a copy `q` for a random delay and drops
  it once it has heard `maxdups` identical packets. Each sent callback
  increments the 8-bit `send_dups` and resends while it is below
  `max_send_dups`. `polite_announcement_cancel` sets it to 0xFF and frees
  `q`.

State: `hasValue`, `observer`, `ba` (the two timers, the interval), `pa`
(`last_event`, `interval`, `send_dups`, `max_send_dups`), `ip` (`q`,
`dups`, `maxdups`), `mac` (frames handed to `broadcast_send`, oldest first),
`state` (`my_state`), `armed` (the `enter_*` function RTIMER_0 will call),
`polled`, and the ghost `quiet`. A frame is the set of ids it carries, its
connection, and whether it was built while `quiet`.

Actions: `BaSendAdv`, `BaSendTimer`, `IpoliteTimer`, `IpoliteHearsCopy` and
`MacSent` are the layer's timers and callbacks. `TimerFires` runs the armed
phase entry. `RevelationScheduled`, `DeclarationScheduled` and
`ScheduleFails` are the election switch (c-sync.c:353-388), with its
fall-through from ELECTION_REVELATION into ELECTION_DECLARATION.
`DeclarationInDiscovery`, `DeclarationInRevelation`,
`StrongerDeclaration` and `ConnectionDeclarationHeard` are the four branches
of `received_declaration_announcement`. The phase entries are operators that
take the state their caller left, so a callback that initialises, cancels
and enters a phase is one step, as in the code.

Abstractions: values, dates and the payload layout are left out, and so is
the rest of each callback (ClusterNode models it). The MAC is a FIFO whose
head is confirmed at any time. A failed `queuebuf_new_from_packetbuf` is a
nondeterministic choice. The model starts in DISCOVERY with RTIMER_0 armed
for `enter_election_revelation` and ends in CONNECTION_REVELATION.

## Runs

The `cfg` column names the file ClusterNode_*.cfg, ConsensusSlots_*.cfg, RTimer_*.cfg, Gtsp_*.cfg or Announcement_*.cfg.

| run | cfg | expect | what it shows |
|---|---|---|---|
| election | election | pass | `HeadListTopK`: from ELECTION_DECLARATION to CONNECTION_DECLARATION the CHs list is exactly the top NUM_CH_MAX of the outranking declarers heard, in rank order, for any arrival order. `TypeOK`: this includes the lists' NUM_CH_MAX bound. |
| cluster | cluster | pass | Under `FairSpec`:<br>• `ElectionProgress`: every election phase is eventually left for CONSENSUS_CONVERGENCE. |
| phase_regress | phase_regress | violation | `PhaseMonotone` fails: the timer armed in DISCOVERY fires after a bridge's declaration moved the node to CONNECTION_DECLARATION. |
| member_no_head | member_no_head | violation | `MemberHasHead` fails: a commoner enters the consensus phases with an empty CHs list, and c-sync.c:3252 dereferences it. |
| slots | slots | pass | Topology: a pair of heads, and a star of one head with three leaf heads. Delivery is reliable. When convergence ends:<br>• `HeadsAcknowledged`: every head is acknowledged, so none reveals the fall-through slot.<br>• `TypeOK`: a bridge's acknowledgement names one of its own heads.<br>Slot distinctness, the bridges' view and the synchronization outcome are not asserted here: on other topologies the code breaks them (Shared slot, Silent first slot and Multi-bridge head below). |
| phantom_peer | phantom_peer | violation | `BridgesLinkPeerHeads` fails. Head 1 hears bridge 2, which declared the sum of heads 3 and 4. handle_lists stores 3 + 4 - 1 = 6 as a peer head, and 6 is no node. |
| rtimer_atomic | atomic | pass | `TypeOK`, with interrupts between every step of `rtimer_schedule`; the run reaches every step of schedule, overflow, update and both expiries, and is the base the retarget, early-expiry and overflow-deadlock traces vary. |
| retarget | retarget | violation | `OneShotSpec` fails: a schedule call on an armed timer stores its func before the date test, and the armed expiry runs the new func at the old date. |
| singlepass_expired | singlepass_expired | violation | `SinglePassOnArmed` fails: the timer expires between a successful schedule and the callback's SINGLEPASS mark. |
| gtsp_offsets | offsets | pass | Four nodes in range of each other: one in DISCOVERY, two in ELECTION_REVELATION, one in IDLE. Their dates are 18 or 21, across a coarse boundary (FINE_MAX 20).<br>• `TypeOK`: this includes `order` listing each known neighbour once and every record within its bounds. |
| cancel_wrap | cancel_wrap | violation | `CancelSilences` fails in 5 states. 1. `RevelationScheduled` sends the revelation (interval 0, straight to the MAC). 2. A declaration arrives in ELECTION_REVELATION, and the callback calls `polite_announcement_cancel` (send_dups = 0xFF). 3. The MAC confirms the first frame: `send_dups++` wraps to 0, below `max_send_dups`, and `send_adv` sends the revelation again. |
| sign_flip | sign | violation | `SyncedMeansClose` fails on the line 1-2-3, all in DISCOVERY, with node 2 at 18 and node 3 at 21 (coarse 1, fine 1).<br>1. Node 2 hears node 3 across the coarse boundary. Line 143 stores +3 where the offset is -3.<br>2. Node 2 hears node 3 again. Its update moves its clock back to 15, away from node 3, and marks node 3 synced 6 ticks away (JUMP 2). Dates 18 and 20 give the same failure with +2, 16 and 4 ticks. |

RTimerAtomic, like the code, lets a schedule replace func while the timer
stays SCHEDULED, and spec.md's one-shot timer does not. It is so permissive
that refining it says little, so no run checks it; `retarget` checks RTimer
against `OneShotSpec` instead.

Twelve traces reached while modelling have no run of their own. A run is kept for each distinct question, and the set of runs is kept small. These traces are the second failure of a module whose run already shows one, or the failure of a property that, on the configurations where it holds, holds only because they avoid the failing case; such a property is not checked by a passing run, and the trace stands for it.
* **Overflow deadlock.** RTimer's `FairSpec` with Funcs = {f1}, Dates = 1..6,
  P = 3 and MaxTime = 6 breaks `OverflowCounted`. A timer A overflow during
  `rtimer_schedule`'s date conversion is never counted: `rtimer_lf_overflow`
  runs in the TIMERA1 handler and spins at rtimer.c:102 while
  `scheduler_state` is OCCUPIED, and only the interrupted code can free it.
  spec.md section 5 says the interrupt-context writer must never block.
* **Silent declaration.** `cancel_wrap`'s constants reach, in 4 states, a
  node in ELECTION_DECLARATION whose declaration is valued but can never be
  sent. `enter_election_revelation` stops the broadcast announcement but
  leaves `observer_ba` registered. The ELECTION_REVELATION schedule fails, so
  `polite_announcement_init` (c-sync.c:361) never runs. The switch falls
  through, and the declaration bump (c-sync.c:386) restarts the broadcast
  timers. `send_adv` stops at the valueless discovery announcement at the
  head of the list, so it sends nothing. A declaration callback that enters
  ELECTION_DECLARATION before the thread has run ends the same way. This is
  the stale_state hazard at c-sync.c:386.
* **Early expiry.** Run `rtimer_atomic`'s bounds with `Funcs = {f1}` against
  `OneShotSpec`. TLC then shows a timer fired before its date:
  * the timer B compare was enabled for an earlier arming;
  * `RTIMER0_HF_CALLBACK` tests only the fine date (rtimer.h:184).

  This is the stale_state hazard at rtimer.h:184.
* **Stalled election.** Let `ScheduleResults` be {FALSE, TRUE}, so that a
  schedule may miss its date. `ElectionTimerArmed` then fails, because the
  election switch (c-sync.c:433) falls through and yields with RTIMER_0 not
  armed. With schedules in time the property holds by construction, so no
  run checks it; this trace is the timeout_retry hazard at c-sync.c:359.
* **Stale bridge.** The `cluster` configuration over two cycles breaks
  `BridgeHasTwoHeads`: a node keeps its CB role across `soft_reset` and loses
  its heads to a later declaration. Within one cycle the property only
  restates the `list_length > 1` test of c-sync.c:395, so no run checks it.
* **Stale list.** The `election` configuration with MaxCycles = 2 breaks
  `HeadListTopK`:
  * `soft_reset` (c-sync.c:967) keeps the role and both lists;
  * in the second cycle, `handle_lists` finds a head's old entry and returns
    without updating it.
* **Garbage head.** The `cluster` configuration breaks `HeadsAreNeighbours`.
  With an empty CHs list, received_revelation_announcement.c:114 pushes the
  memb struct, not the CHB it filled.
* **Lost acknowledgements.** `slots` with a single pair and `Lossy = TRUE`
  breaks `HeadSlotsDistinct`, `HeadsAcknowledged` and `BridgeViewAgrees`.
  A head that is never acknowledged leaves the loop at slot 3 and reveals
  slot 3 anyway. Two such heads share it. A bridge that recorded an earlier
  slot for a head disagrees with the head.
* **Silent first slot.** `slots` with the topology `TwoHubs` breaks
  `ClocksSet`. Hub 2 loses slot 2 to hub 1 at bridge 11 and takes slot 3,
  reversed 1. It is a border head, but slot 1 is silent, so bridges 14 and
  15 and the leaves behind them never get a time. This is the numeric_edge
  hazard at c-sync.c:753. With that slot fixed, the shared slot still breaks
  `ClocksSet` on `TwoHubs`, so the topology has no run of its own.

* **Shared slot.** `slots` on the chain 1-11-2-12-3 (`Chain`) breaks
  `HeadSlotsDistinct`, with no loss. In slot 1 all three heads claim. Head
  2 claims proactively, because it has two peers.
  1. Bridge 11 acknowledges head 1.
  2. Head 2's claim reaches bridge 12 before head 3's, and bridge 12
     acknowledges head 2.
  3. Heads 1 and 2 both take slot 1. Bridge 11 never records head 2.

  A head takes the slot of any acknowledgement naming it
  (received_convergence_announcement.c:126).
* **Multi-bridge head.** The same chain breaks `RelayedTimeTaken`. After
  the shared slot, head 3 is due first and sends in slot 2.
  1. Bridge 12 takes head 3's time and relays it in slot 3, head 2's slot.
  2. Head 2 bumps that announcement with `ref_addr` 3.
  3. `csync_trusted_synchronization` returned at bridge 11, the first entry
     of head 2's CBs list (c-sync.c:3296), so head 2's clock is still its
     own.
* **One coarse period apart.** `sign_flip`'s constants with
  `InitDates = {0, 20}` break `SyncedMeansClose` without the sign bug.
  Node 2 at 0 hears node 3 at 20: `coarse_diff = -1`, `fine_diff = 0`, and
  node 3 is marked synced. The coarse step is `Quot(-1, 2) = 0`
  (gtsp-changed.c:300), and node 3's update gives `Quot(1, 2) = 0`, so
  neither node ever corrects the whole period between them. This is the
  numeric_edge hazard at gtsp-changed.c:300.

The findings in PROJECT.json explain each violation.

In DISCOVERY `gtsp_update_rtimer` keeps the group of the last unsynced
neighbour in list order (gtsp-changed.c:341). With unsynced neighbours at
offsets 10, 10 and -10, listed in that order, a node adopts the lone -10
over the pair at 10.
spec.md 4.2 adopts the best-supported group instead. No run states that rule:
it would restate the loop's own computation.

### Mutants

Each property of a passing run is checked against a plausible bug in the
mapped code:
* `OutranksByDegree`: the rank without its address tie-break;
* `KeepTail`: no `list_chop` on a full list;
* `TimerFireNoPoll`: an `enter_*` that forgets its `process_poll`;
* `ScheduleStoreTaFromHw`: ta stored without the shift of rtimer.c:654.
* `BridgeHeardAckSelf`: a bridge's acknowledgement with `ref_addr` set to
  its own address, as the election phases set it;
* `ClaimsStrict`: a head claims only when no peer is unslotted
  (`n_CH_count < 1`);
* `DiscoverAgain`: `add_to_neighbour` without its lookup of the known
  neighbours, which lists a neighbour twice.

### Bounds

* **election.**
  * Three neighbours with degrees 3, 2 and 3, and NUM_CH_MAX = 2, so that
    three outrankers compete for two slots.
  * Two of them tie on degree, which exercises the address tie-break.
  * The list's full branch runs.
  * MaxStage 3 stops at ELECTION_DECLARATION, the phase the property is about.
* **cluster.**
  * Two neighbours of degree 2 can both outrank node 1, so node 1 can become a
    bridge.
  * MaxStage 7 reaches CONSENSUS_REVELATION, so convergence announcements
    are heard in every phase.
  * One cycle. Over two cycles `ElectionProgress` with MaxStage 7 over two cycles does not
    finish in 25 minutes. Progress in a second cycle that starts with the
    first cycle's role and lists is not checked.
  * The run explores about 1.6 million states in two minutes: after
    `CycleEnd` the neighbours' degrees may grow while the thread waits.
* **RTimer.**
  * P = 3 ticks per coarse period and MaxTime 6 give two overflows. Every
    date falls in the current tick, the next tick, or a later coarse period.
  * With P = 3, every tick is within two of a period's end, so `Imminent`
    wraps.
  * Two funcs are enough to tell a retarget from a correct fire.
  * retarget uses P = 7 > MaxTime, so that no overflow occurs and the only
    fault left is the func swap.
* **slots.**
  * The pair is the smallest topology in which two heads compete for one
    bridge.
  * The star's centre has three peers. It waits for its proactive slot 3
    or for all three leaves to be slotted, and so takes a later slot than
    any leaf.
  * NUM_CONS_SLOTS = 3, as in project-conf.h.
  * The chain 1-11-2-12-3 of the shared-slot trace is the smallest
    topology with a head that has two peers, and so with two bridges.
  * The synchronization phase of the pair and of the star has one border
    head each (head 2 and the centre), a bridge that relays, and heads
    synchronized both in their own slot and through a local centre.
* **Gtsp.**
  * FINE_MAX 20 is a scaled-down RTIMER_FINE_MAX. JUMP 2 and COARSE_OVF 4
    keep the code's order JUMP < COARSE_OVF < FINE_MAX / 2, so each branch
    of `Measure` and each synced test has both outcomes.
  * Dates 18 and 21 put nodes on both sides of a coarse boundary, inside
    both fold windows.
  * gtsp_offsets has four nodes, in range of each other:
    * the DISCOVERY node has three neighbours, so the group loop compares
      groups;
    * the ELECTION_REVELATION pair updates on each other only;
    * the IDLE node only records.
  * Five messages let a node discover two neighbours and then hear one
    again with an update. One tick moves every clock together, past the
    boundary.
* **cancel_wrap.**
  * MaxSendDups = 2, not 10: one resend after a bump is enough for a sent
    callback to arrive after a cancel. `send_dups` keeps its 8 bits, so the
    wrap is the code's.
  * MaxRecvDups = 2 lets ipolite count one duplicate before it drops.
  * PoliteInterval 4, BaInitial 10 and BaMax 20 are the build's values; one
    declaration interval (4) stands for POLITE_INTERVAL * my_placing.
  * MacCap = 2 (CONSTRAINT `MacBound`) keeps a frame waiting in the MAC while
    the next is built. The whole reachable space is 1,495 states.
* **Dates and Slots.** Each is a single value. No modelled decision compares
  a date except `rtimer_compare` in DISCOVERY.
* **Pass runs.** These fix `Closeness` and `ScheduleResults` to {TRUE}.
  Failures are explored by the violation run that is about them.

### Fairness

`FairSpec` adds weak fairness to three steps:
* `TimerFire`: an armed RTIMER_0 reaches its date and the interrupt runs.
* `ElectionStep` and `ConvergenceStep`: Contiki's scheduler runs a polled
  process once the running callbacks return.

These steps stay enabled until they are taken, so weak fairness is enough.

RTimer's `FairSpec` (used by the overflow-deadlock trace) adds weak fairness to:
* `Tick`: the crystal runs;
* the three interrupt actions: an enabled, pending interrupt is serviced;
* the steps of `rtimer_schedule` after the call: main, once inside it, runs
  to its return whenever no interrupt is running.

Callers get no fairness. RTimer's runs say CHECK_DEADLOCK FALSE for two
reasons:
* time is bounded by MaxTime, and a bounded clock with no caller left
  stops;
* the overflow handler can really wait for ever (the overflow-deadlock trace).
ConsensusSlots' runs check safety only, and say CHECK_DEADLOCK FALSE: the
model stops when every node has entered IDLE.
Gtsp's runs check safety only, and say CHECK_DEADLOCK FALSE: the model
stops when its messages and ticks are used up.
Announcement's run checks safety under `Spec` and says CHECK_DEADLOCK FALSE:
the model ends in CONNECTION_REVELATION, and stops once the MAC has
confirmed its last frame.
The neighbours' announcements get no fairness: a neighbour may stay silent
for ever. Only the cluster run uses `FairSpec`. The other runs check
safety under `Spec`.

## Not modelled (yet)

* **The rest of the synchronization phase.** The commoners' side (the
  revelation announcement and the CM branches), the blacklist and
  BYZANTINE_CONSENSUS, rates and offsets, the IDLE wait and the later
  iterations of c-sync.c:692-873.
* **The rest of the Rime announcement layer.** Announcement stops at
  CONNECTION_REVELATION. The convergence and synchronization phases use the
  polite announcement as ConsensusSlots models it. `adv_packet_received`'s
  parsing, `polite_announcement_stop`, `broadcast_announcement_pause` and
  `ipolite_close` are left out. ClusterNode models only which messages
  arrive.
* **FTSP** (ftsp.c) belongs to the TEST_FTSP build, which cannot link (see
  the top of this file). Even there, `add_to_regression_table`,
  `linear_regression` and `ftsp_recv` are never called: their calls are
  commented out. `add_to_regression_table` increments `table_entries` past
  FTSP_MAX_ENTRIES without a cap.
* **The byzantine callback** is compiled out (`#if 0`).
* **GTSP rates and delays.** These are the floating-point rate estimation
  in `gtsp_recv` (gtsp-changed.c:77-125), the rate average and
  `rtimer_set_avg_rate`, and the MAC and transmission delay compensation.
  Gtsp runs every clock at one rate and takes delays as exact. Its offset
  arithmetic is exact integers.
* **The rest of the MSP430 clock driver**: TIMERA0 (the rate reference), the
  SFD capture and the etimer compare.
* **nullsec and powertrace** hold no protocol state.

## Plan

1. Liveness with schedules that may miss their date: what recovers a node?
2. Commoners in ConsensusSlots: the revelation announcement and the CM
   branch of the synchronization callback, and the later iterations.
3. A two-node composition, to check agreement on heads between a node and its
   neighbour.
4. An abstract cluster-formation spec refined by ClusterNode.
   (RTimer is checked against OneShotTimer; RTimerAtomic needs tightening before a refinement of it says much.)
5. The CBs pool leak across cycles.
6. Peer-head reconstruction in `init_consensus_convergence`, checked against a
   reference definition.
7. GTSP convergence: with fairness on the neighbours' beacons, do the nodes
   of a DISCOVERY line eventually mark each other synced? A GTSP phase
   that follows ClusterNode's `my_state` would be the composition.
