-------------------------------- MODULE Gtsp --------------------------------
(***************************************************************************)
(* The clock offsets of GTSP (gtsp-changed.c) between the nodes of a       *)
(* network.  Every time a node hears a known neighbour, add_to_neighbour   *)
(* (c-sync.c) runs gtsp_recv, which stores the neighbour's offset from the *)
(* node's logical clock, and then, in DISCOVERY or when the neighbour is   *)
(* in the node's own election phase, gtsp_update_rtimer, which moves the   *)
(* node's clock by the average offset of its neighbours and corrects every *)
(* stored offset by that move.                                             *)
(*                                                                         *)
(* A logical date is the integer coarse * FINE_MAX + fine (coarse_count    *)
(* and the fine date after rtimer_hwdate_to_lgdate).  All clocks run at    *)
(* one rate: the rate estimation (relative_rate, avg_rate, the moving      *)
(* average) and the MAC and transmission delays are left out, so the      *)
(* offset a node measures is its date minus the sender's date at the same  *)
(* instant.  rtimer_adjust_coarse_count moves the date by whole coarse     *)
(* periods and rtimer_adjust_fine_offset by fine ticks; the re-centring of *)
(* fine_offset inside the latter leaves the date as it is.                 *)
(***************************************************************************)
EXTENDS Integers, Sequences, SequencesExt, FiniteSets, FiniteSetsExt

CONSTANTS
    Nodes,          \* node addresses
    Nbrs,           \* Nbrs[n]: the nodes n hears (the radio range)
    Phase,          \* Phase[n]: my_state of n while it is modelled
    FINE_MAX,       \* RTIMER_FINE_MAX, the length of a coarse period
    JUMP,           \* GTSP_JUMP_THRESHOLD
    COARSE_OVF,     \* GTSP_COARSE_OVERFLOW_THRESHOLD
    InitDates,      \* the logical dates the nodes may start from
    MaxTicks,       \* bound on the fine ticks that pass
    MaxMsgs         \* bound on the announcements heard

ASSUME /\ \A n \in Nodes : Nbrs[n] \subseteq Nodes \ {n}
       /\ 0 < JUMP /\ JUMP < COARSE_OVF /\ 2 * COARSE_OVF < FINE_MAX
       /\ InitDates \subseteq Nat /\ MaxTicks \in Nat /\ MaxMsgs \in Nat

\* state_t of c-sync.h (the ones add_to_neighbour tests)
DISCOVERY == 0
ELECTION_REVELATION == 2
CONSENSUS_SYNCHRONIZATION == 14
IDLE == 16

VARIABLES
    lc,         \* lc[n]: n's logical date
    nbr,        \* nbr[n][m]: n's record of m (struct neighbour)
    order,      \* order[n]: neighbour_list of n, in the order list_add built it
    ticks,      \* fine ticks passed
    msgs,       \* announcements heard
    fresh       \* fresh[n]: the m whose date has not moved since n measured it

vars == <<lc, nbr, order, ticks, msgs, fresh>>

Coarse(d) == d \div FINE_MAX
Fine(d) == d % FINE_MAX
Abs(x) == IF x < 0 THEN -x ELSE x
\* C's integer division of int32_t truncates toward zero.
Quot(a, b) == IF a >= 0 THEN a \div b ELSE -((-a) \div b)
\* rtimer_diff (rtimer.c:748-752)
Diff(a, b) == a - b

Known(n) == ToSet(order[n])

\* The record memb_alloc hands out; gtsp_recv fills every field the model keeps.
NoRecord == [coarse_diff |-> 0, fine_diff |-> 0, synced |-> 0, state |-> DISCOVERY]

Init ==
    /\ lc \in [Nodes -> InitDates]
    /\ nbr = [n \in Nodes |-> [m \in Nbrs[n] |-> NoRecord]]
    /\ order = [n \in Nodes |-> <<>>]
    /\ ticks = 0
    /\ msgs = 0
    /\ fresh = [n \in Nodes |-> {}]

(***************************************************************************)
(* gtsp_recv: the offset of sender s as node me measures it.  A coarse     *)
(* difference of one period with both fine dates near the period's edge is *)
(* folded into the fine offset (lines 141-150); otherwise the two parts    *)
(* are kept apart (line 153).                                              *)
(***************************************************************************)
Measure(me, s) ==
    LET myC == Coarse(lc[me])   myF == Fine(lc[me])
        nC == Coarse(lc[s])     nF == Fine(lc[s])
        cd == Diff(myC, nC)
    IN CASE cd = -1 /\ myF > FINE_MAX - COARSE_OVF /\ nF < COARSE_OVF ->
              [coarse_diff |-> 0, fine_diff |-> Diff(FINE_MAX, myF) + nF]
         [] cd = 1 /\ myF < COARSE_OVF /\ nF > FINE_MAX - COARSE_OVF ->
              [coarse_diff |-> 0, fine_diff |-> Diff(FINE_MAX, nF) + myF]
         [] OTHER -> [coarse_diff |-> cd, fine_diff |-> Diff(myF, nF)]

\* gtsp_recv on the record r: a new neighbour starts unsynced (lines 61-66).
GtspRecv(me, s, r, new) ==
    [r EXCEPT !.coarse_diff = Measure(me, s).coarse_diff,
              !.fine_diff = Measure(me, s).fine_diff,
              !.synced = IF new THEN 0 ELSE @]

Close(x) == -JUMP < x /\ x < JUMP

(***************************************************************************)
(* gtsp_update_rtimer(neighbour_list) on node me whose records are recs.   *)
(* Only neighbours last heard in me's own phase count (line 242).  The     *)
(* coarse offsets that are not zero, and the fine offsets within JUMP, are *)
(* averaged with me's own zero (lines 247-305).  In DISCOVERY the fine     *)
(* offset is then replaced by the mean of the group each unsynced          *)
(* neighbour forms with the neighbours after it in the list; the last      *)
(* unsynced neighbour's group is the one that stays (lines 315-350).       *)
(***************************************************************************)
\* The sum of one field of the records of S.
SumOf(recs, S, field) == MapThenSumSet(LAMBDA m : recs[m][field], S)

CoarseStep(me, recs) ==
    LET same == {m \in Known(me) : recs[m].state = Phase[me]}
        off == {m \in same : recs[m].coarse_diff # 0}
    IN Quot(SumOf(recs, off, "coarse_diff"), Cardinality(off) + 1)

\* The neighbours of me's phase whose fine offset is within JUMP.
SyncedSet(me, recs) ==
    {m \in Known(me) : recs[m].state = Phase[me] /\ Close(recs[m].fine_diff)}

\* The synced flags after the first loop (lines 291, 295).
FirstSynced(me, recs) ==
    [m \in DOMAIN recs |->
        IF m \in Known(me) /\ recs[m].state = Phase[me]
        THEN IF m \in SyncedSet(me, recs) THEN 1 ELSE 0
        ELSE recs[m].synced]

FineStep(me, recs) ==
    LET S == SyncedSet(me, recs)
    IN Quot(SumOf(recs, S, "fine_diff"), Cardinality(S) + 1)

\* The group of the unsynced i-th entry of list L: itself and every later
\* entry within JUMP of it (lines 327-338), as <<count, sum>>.
Group(L, recs, i) ==
    LET fd(j) == recs[L[j]].fine_diff
        G == {j \in i + 1 .. Len(L) : Close(Diff(fd(i), fd(j)))}
    IN <<1 + Cardinality(G), fd(i) + MapThenSumSet(fd, G)>>

DiscoveryStep(me, recs, fso) ==
    LET L == order[me]
        syn == FirstSynced(me, recs)
        step(acc, i) == IF syn[L[i]] = 1 THEN acc
                        ELSE Quot(Group(L, recs, i)[2], Group(L, recs, i)[1])
    IN FoldLeft(step, fso, [i \in 1 .. Len(L) |-> i])

\* The coarse and fine adjustment gtsp_update_rtimer makes.
Adjustment(me, recs) ==
    <<CoarseStep(me, recs),
      IF Phase[me] = DISCOVERY
      THEN DiscoveryStep(me, recs, FineStep(me, recs))
      ELSE FineStep(me, recs)>>

\* rtimer_adjust_coarse_count and rtimer_adjust_fine_offset (rtimer.c:281-
\* 320): coarse_count -= co, fine_offset -= fo.
Adjusted(d, adj) == d - adj[1] * FINE_MAX - adj[2]

\* The last loop (lines 354-366): every record follows the move.
Compensated(me, recs, adj) ==
    [m \in DOMAIN recs |->
        IF m \in Known(me)
        THEN LET fd == recs[m].fine_diff - adj[2]
             IN [recs[m] EXCEPT !.coarse_diff = @ - adj[1], !.fine_diff = fd,
                                 !.synced = IF Close(fd) THEN 1 ELSE 0]
        ELSE recs[m]]

(***************************************************************************)
(* add_to_neighbour(s, state, ..) on node me (c-sync.c:3063-3128).          *)
(***************************************************************************)
\* Mutant: add_to_neighbour without its lookup of the known neighbours.
DiscoverAgain(me, s) ==
    /\ msgs < MaxMsgs /\ s \in Nbrs[me]
    /\ nbr' = [nbr EXCEPT ![me][s] = [GtspRecv(me, s, @, TRUE) EXCEPT !.state = Phase[s]]]
    /\ order' = [order EXCEPT ![me] = Append(@, s)]
    /\ fresh' = [fresh EXCEPT ![me] = @ \cup {s}]
    /\ msgs' = msgs + 1
    /\ UNCHANGED <<lc, ticks>>

\* A neighbour heard for the first time: memb_alloc, gtsp_recv with
\* new_neighbour = 1, list_add; no update.
Discover(me, s) ==
    /\ msgs < MaxMsgs /\ s \in Nbrs[me] \ Known(me)
    /\ nbr' = [nbr EXCEPT ![me][s] = [GtspRecv(me, s, @, TRUE) EXCEPT !.state = Phase[s]]]
    /\ order' = [order EXCEPT ![me] = Append(@, s)]
    /\ fresh' = [fresh EXCEPT ![me] = @ \cup {s}]
    /\ msgs' = msgs + 1
    /\ UNCHANGED <<lc, ticks>>

\* Whether add_to_neighbour calls gtsp_update_rtimer for a sender in phase st.
UpdateDue(me, st) ==
    \/ Phase[me] < CONSENSUS_SYNCHRONIZATION /\ st = Phase[me]
    \/ Phase[me] = DISCOVERY

\* A known neighbour heard in IDLE: gtsp_recv, then add_to_neighbour returns
\* (IDLE_BROADCAST keeps the radio on for the idle beacons).
HearIdle(me, s) ==
    /\ msgs < MaxMsgs /\ s \in Known(me) /\ Phase[me] = IDLE
    /\ nbr' = [nbr EXCEPT ![me][s] = GtspRecv(me, s, @, FALSE)]
    /\ fresh' = [fresh EXCEPT ![me] = @ \cup {s}]
    /\ msgs' = msgs + 1
    /\ UNCHANGED <<lc, order, ticks>>

\* A known neighbour in any other phase: gtsp_recv, n->state = state, and
\* gtsp_update_rtimer when it is due.
Hear(me, s) ==
    /\ msgs < MaxMsgs /\ s \in Known(me) /\ Phase[me] # IDLE
    /\ LET recs == [nbr[me] EXCEPT ![s] = [GtspRecv(me, s, @, FALSE) EXCEPT !.state = Phase[s]]]
           due == UpdateDue(me, Phase[s])
           adj == IF due THEN Adjustment(me, recs) ELSE <<0, 0>>
           moved == Adjusted(lc[me], adj) # lc[me]
       IN /\ nbr' = [nbr EXCEPT ![me] = IF due THEN Compensated(me, recs, adj) ELSE recs]
          /\ lc' = [lc EXCEPT ![me] = Adjusted(@, adj)]
          /\ fresh' = [n \in Nodes |->
                         IF n = me THEN fresh[me] \cup {s}
                         ELSE IF moved THEN fresh[n] \ {me} ELSE fresh[n]]
    /\ msgs' = msgs + 1
    /\ UNCHANGED <<order, ticks>>

\* A fine tick passes on every clock.
Tick ==
    /\ ticks < MaxTicks
    /\ lc' = [n \in Nodes |-> lc[n] + 1]
    /\ ticks' = ticks + 1
    /\ UNCHANGED <<nbr, order, msgs, fresh>>

Next ==
    \/ \E me \in Nodes, s \in Nodes : Discover(me, s) \/ HearIdle(me, s) \/ Hear(me, s)
    \/ Tick

Spec == Init /\ [][Next]_vars

(***************************************************************************)
(* Properties                                                              *)
(***************************************************************************)
Records == [coarse_diff : Int, fine_diff : Int, synced : {0, 1}, state : Nat]

TypeOK ==
    /\ lc \in [Nodes -> Int]
    /\ \A n \in Nodes : nbr[n] \in [Nbrs[n] -> Records]
    /\ \A n \in Nodes : order[n] \in Seq(Nbrs[n]) /\ Len(order[n]) = Cardinality(Known(n))
    /\ ticks \in 0 .. MaxTicks /\ msgs \in 0 .. MaxMsgs
    /\ \A n \in Nodes : fresh[n] \subseteq Known(n)

\* spec.md 4.2: a neighbour is synced when its logical-time offset is
\* within the jump threshold.  gtsp_recv measures the offset (lines 136-154)
\* and gtsp_update_rtimer marks synced from fine_diff alone (lines 358-365):
\* a neighbour marked synced whose date has not moved since is within JUMP
\* of the node.
SyncedMeansClose ==
    \A n \in Nodes : \A m \in fresh[n] :
        nbr[n][m].synced = 1 => Abs(lc[n] - lc[m]) < JUMP

====
