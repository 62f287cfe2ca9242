--------------------------- MODULE ConsensusSlots ---------------------------
(***************************************************************************)
(* The consensus-slot negotiation of CONSENSUS_CONVERGENCE, run by every   *)
(* cluster-head and bridge of a clustered network at once.                 *)
(*                                                                         *)
(* Each node's protothread walks my_cons_slot from 1 to NUM_CONS_SLOTS     *)
(* (c-sync.c:580-663), one convergence slot per RTIMER_0 expiry            *)
(* (enter_convergence_slot).  A head that is not yet acknowledged bumps a  *)
(* claim of the slot; the first claim a bridge hears in a slot it          *)
(* acknowledges with an announcement naming that head                      *)
(* (received_convergence_announcement.c:69-142).  The head so named takes  *)
(* the slot; a head that hears an acknowledgement naming another head      *)
(* withdraws its own claim and records the peer's slot.                    *)
(*                                                                         *)
(* Every slot timer is scheduled from the same reference date, so the     *)
(* nodes change slot together: SlotEnd fires all of them in one step and  *)
(* runs every thread to its next PROCESS_YIELD.  A claim waits at least    *)
(* POLITE_INTERVAL * my_placing ticks in ipolite_send, so no announcement  *)
(* of a slot reaches a node whose thread is still in the previous one.     *)
(***************************************************************************)
EXTENDS Naturals, FiniteSets, FiniteSetsExt, Functions

CONSTANTS
    BridgeHeads,     \* BridgeHeads[b]: the two heads in bridge b's CHs list
    NUM_CONS_SLOTS,  \* project-conf.h:93
    Lossy            \* whether a transmission may miss a listener

Bridges == DOMAIN BridgeHeads
Heads == UNION Range(BridgeHeads)
Nodes == Heads \cup Bridges

ASSUME /\ Nodes \subseteq Nat \ {0}
       /\ Heads \cap Bridges = {}
       /\ \A b \in Bridges : Cardinality(BridgeHeads[b]) = 2

\* A head never sets ref_addr of its convergence announcement, which is
\* still 0 from the announcement's static initialisation.
NoAddr == 0
NoMsg == [degree |-> 0, ref |-> NoAddr]

\* The bridges of head h: its CBs list.
BridgesOf(h) == {b \in Bridges : h \in BridgeHeads[b]}

\* The CHs list of a node: a bridge keeps its two heads; a head's list is
\* rebuilt by init_consensus_convergence from the head address each bridge
\* declared, one entry per peer head.
CHsList(n) == IF n \in Heads
              THEN UNION {BridgeHeads[b] : b \in BridgesOf(n)} \ {n}
              ELSE BridgeHeads[n]

\* The nodes n hears and is heard by.
Neighbours(n) == IF n \in Heads THEN BridgesOf(n) ELSE BridgeHeads[n]

\* my_proactive_slot as init_consensus_convergence sets it from the length
\* of the rebuilt CHs list; a bridge keeps soft_reset's 1.
ProactiveSlot(n) ==
    IF n \in Bridges THEN 1
    ELSE CASE Cardinality(CHsList(n)) <= 1 -> 0
           [] Cardinality(CHsList(n)) = 2  -> 1
           [] OTHER                        -> 3

VARIABLES
    node,   \* node[n]: my_cons_slot, my_slot_ack, the cons_slot of each CHs
            \* entry, the pending announcement, and where the thread is:
            \* "wait" (yielded in a slot), "last" (left the loop at the last
            \* slot), "off" (left it with the radio off), "rev" (in
            \* CONSENSUS_REVELATION), "ready" (init_consensus_synchronization
            \* done), "sync" (in CONSENSUS_SYNCHRONIZATION), "idle"; and for
            \* synchronization my_sync_border, ref_n_CHB_degree (wake),
            \* this_sync_slot, sync_LC_addr (lc), the ref_addr of the
            \* synchronization announcement (ann), and the node whose clock
            \* the node's logical clock was last set to (org)
    now     \* the convergence or synchronization slot in progress

vars == <<node, now>>

Times(x, y) == x * y

\* announcement_bump through observer_pa to ipolite_send: a queued copy of
\* the node's earlier announcement is dropped and the new one queued.
Bump(nd, msg) == [nd EXCEPT !.pend = msg]

\* polite_announcement_cancel: ipolite_cancel frees the queued packet and
\* send_dups = 0xFF stops the copies still to come.
Cancel(nd) == [nd EXCEPT !.pend = NoMsg]

\* n_CH_count: the CHs entries whose slot is still unknown (c-sync.c:585-597).
UnknownPeers(nd, n) == Quantify(CHsList(n), LAMBDA h : nd.rec[h] = 0)

\* The condition under which a head bumps a claim of the current slot.
ClaimsStrict(nd, n) ==
    /\ n \in Heads
    /\ nd.ack = 0
    /\ UnknownPeers(nd, n) < 1 \/ nd.slot = ProactiveSlot(n)

Claims(nd, n) ==
    /\ n \in Heads
    /\ nd.ack = 0
    /\ UnknownPeers(nd, n) <= 1 \/ nd.slot = ProactiveSlot(n)

\* One pass of the loop body up to PROCESS_YIELD, or out of the loop at the
\* last slot (c-sync.c:582-627, 652-655): a head with an empty CHs list
\* turns the radio off and leaves; a bridge clears my_slot_ack; a claiming
\* head sets the degree to the slot and bumps the announcement.
SlotBody(nd, n) ==
    IF n \in Heads /\ CHsList(n) = {}
    THEN [nd EXCEPT !.pc = "off"]
    ELSE LET next == [nd EXCEPT !.ack = IF n \in Bridges THEN 0 ELSE @,
                                !.pc  = IF nd.slot < NUM_CONS_SLOTS THEN "wait" ELSE "last"]
         IN  IF Claims(nd, n) THEN Bump(next, [degree |-> nd.slot, ref |-> NoAddr])
             ELSE next

\* After the yield (c-sync.c:628-651): a bridge multiplies my_slot_ack by
\* the slot of each of its heads; a node left acknowledged turns the radio
\* off and waits for revelation, any other takes the next slot.
Resume(nd, n) ==
    LET a == IF n \in Bridges THEN nd.ack * FoldFunction(Times, 1, nd.rec)
             ELSE nd.ack
    IN  IF a # 0
        THEN [nd EXCEPT !.ack = a, !.pc = "off"]
        ELSE SlotBody([nd EXCEPT !.ack = a, !.slot = @ + 1], n)

\* Each node's state after its thread first reaches PROCESS_YIELD: soft_
\* reset's my_cons_slot = 1 and my_slot_ack = 0, every CHs entry at slot 0.
\* soft_reset sets this_sync_slot to 1, enter_election_revelation has set
\* sync_LC_addr to my_addr and the
\* synchronization announcement still carries the node's own address.
Fresh(n) == [slot |-> 1, ack |-> 0, rec |-> [h \in CHsList(n) |-> 0],
             pend |-> NoMsg, pc |-> "wait",
             border |-> 0, wake |-> 0, this |-> 1, lc |-> n, ann |-> n, org |-> n]

Init ==
    /\ node = [n \in Nodes |-> SlotBody(Fresh(n), n)]
    /\ now = 1

\* A bridge hearing head s's claim m (received_convergence_announcement.c:
\* 102-123): the first claim of an unslotted head for the bridge's own slot
\* is acknowledged, recorded, and bumped back with ref_addr naming s.
BridgeHeardAckSelf(nd, r, s, m) ==
    IF nd.rec[s] = 0 /\ nd.slot = m.degree /\ nd.ack = 0
    THEN Bump([nd EXCEPT !.ack = 1, !.rec[s] = m.degree], [degree |-> m.degree, ref |-> r])
    ELSE nd

BridgeHeard(nd, r, s, m) ==
    IF nd.rec[s] = 0 /\ nd.slot = m.degree /\ nd.ack = 0
    THEN Bump([nd EXCEPT !.ack = 1, !.rec[s] = m.degree], [degree |-> m.degree, ref |-> s])
    ELSE nd

\* A head hearing bridge s's acknowledgement m (lines 124-141): one naming
\* it gives it the slot; one naming a peer cancels its own pending claim
\* and records the peer's slot.
HeadHeard(nd, r, s, m) ==
    IF m.ref = r
    THEN [nd EXCEPT !.slot = m.degree, !.ack = 1]
    ELSE [Cancel(nd) EXCEPT !.rec = IF m.ref \in DOMAIN @ THEN [@ EXCEPT ![m.ref] = m.degree]
                                    ELSE @]

Heard(nd, r, s, m) ==
    IF r \in Bridges THEN BridgeHeard(nd, r, s, m) ELSE HeadHeard(nd, r, s, m)


-----------------------------------------------------------------------------
(* CONSENSUS_SYNCHRONIZATION.  Slots are numbered backwards from           *)
(* convergence, a border head (no peer due before it) sends its time in    *)
(* its slot, a bridge takes the time of its earlier head and relays it in  *)
(* the slot of the other, and a head takes it in its own slot.             *)

Rev(x) == NUM_CONS_SLOTS + 1 - x

\* What csync_print_status, called right after init_consensus_synchronization,
\* leaves in sync_LC_addr of a head: the last CHs entry whose slot is not
\* before the head's own (c-sync.c:1143-1151).  The list order is not
\* modelled, so any of them.
LocalCenters(nd, n) ==
    LET c == {h \in DOMAIN nd.rec : nd.rec[h] >= nd.slot}
    IN  IF c = {} THEN {nd.lc} ELSE c

\* init_consensus_synchronization for a head: slots reversed, the wake slot
\* is the earliest of its own and its peers', and it is a border head when
\* no peer is due before it and every peer's slot is known.
HeadSyncInits(nd, n) ==
    LET rec == [h \in DOMAIN nd.rec |-> Rev(nd.rec[h])]
        my  == Rev(nd.slot)
        r   == [nd EXCEPT !.slot = my, !.rec = rec,
                          !.wake = Min({my} \cup Range(rec)),
                          !.border = IF \A h \in DOMAIN rec : my <= rec[h] /\ rec[h] <= NUM_CONS_SLOTS
                                     THEN 1 ELSE 0]
    IN  {[r EXCEPT !.lc = c] : c \in LocalCenters(r, n)}

\* init_consensus_synchronization for a bridge whose CHs list starts with
\* head p: the reference is the head due first (p on a tie) if it is due
\* before NUM_CONS_SLOTS; the bridge's slot is the other head's, or the
\* second entry's when there is no reference.
BridgeSyncInit(nd, n, p) ==
    LET rec == [h \in DOMAIN nd.rec |-> Rev(nd.rec[h])]
        q   == CHOOSE h \in DOMAIN rec : h # p
        ref == IF rec[q] < rec[p] /\ rec[q] < NUM_CONS_SLOTS THEN q
               ELSE IF rec[p] < NUM_CONS_SLOTS THEN p ELSE n
    IN  [nd EXCEPT !.rec = rec,
                   !.wake = Min({NUM_CONS_SLOTS, rec[p], rec[q]}),
                   !.slot = rec[IF ref = q THEN p ELSE q]]

SyncInits(nd, n) ==
    IF n \in Heads THEN HeadSyncInits(nd, n)
    ELSE {BridgeSyncInit(nd, n, p) : p \in BridgeHeads[n]}

\* The revelation slot has ended for node n: enter_consensus_synchronization
\* cancels the revelation announcement, and the thread saves its slot state
\* and runs init_consensus_synchronization (c-sync.c:692-745).
SyncInit(n) ==
    /\ node[n].pc = "rev"
    /\ \E r \in SyncInits(node[n], n) : node' = [node EXCEPT ![n] = [r EXCEPT !.pc = "ready"]]
    /\ UNCHANGED now

\* The thread at the start of synchronization slot s, once its loop has
\* reached ref_n_CHB_degree = s (c-sync.c:751-829).  For s = 1 the interval
\* CONS_CTRL_SLOT_INTERVAL * 0 makes rtimer_schedule return 0 at once, so
\* the thread only turns the radio on (lines 830-835).  Otherwise it sets
\* this_sync_slot, and a border node in its own slot bumps its time.
SyncWake(nd, s) ==
    IF nd.wake > s \/ s = 1 THEN nd
    ELSE LET t == [nd EXCEPT !.this = s]
         IN  IF nd.border = 1 /\ s = nd.slot
             THEN [Bump(t, [degree |-> nd.slot, ref |-> nd.ann]) EXCEPT !.border = 0]
             ELSE t

\* Every node has run init_consensus_synchronization: synchronization slot
\* 1 begins.
BeginSync ==
    /\ \A n \in Nodes : node[n].pc = "ready"
    /\ node' = [n \in Nodes |-> SyncWake([node[n] EXCEPT !.pc = "sync"], 1)]
    /\ now' = 1

\* csync_trusted_synchronization(n, c_addr) at node r for sender s whose
\* clock runs on o's time (c-sync.c:3237-3345).  A bridge's CBs list is
\* empty, so it always adjusts; a head returns at the first CBs entry that
\* is not s, and otherwise adjusts in its own slot or when c_addr is its
\* local centre.
TrustedSync(nd, r, s, c, o) ==
    IF \/ r \in Bridges
       \/ /\ \A b \in BridgesOf(r) : b = s
          /\ nd.this = nd.slot \/ (nd.lc # r /\ nd.lc = c)
    THEN [nd EXCEPT !.org = o]
    ELSE nd

\* A bridge hearing a synchronization announcement m (received_
\* synchronization_announcement.c:124-203): before its slot it takes the
\* sender's time and will relay it; in its slot it stands down; in any slot
\* it keeps m's reference for its own announcement.  Offsets are taken to be
\* within BYZANTINE_FINE_DIFF, so nobody is blacklisted.
BridgeSyncHeard(nd, r, s, m, o) ==
    LET got == CASE nd.slot > nd.this -> [TrustedSync(nd, r, s, m.ref, o) EXCEPT !.border = 1]
                 [] nd.slot = nd.this -> [Cancel(nd) EXCEPT !.border = 1]
                 [] OTHER             -> nd
    IN  [got EXCEPT !.ann = m.ref]

\* A head hearing one (lines 204-219): it keeps m's reference and tries a
\* trusted synchronization; in its own slot, the first time, it bumps its
\* announcement with that reference.
HeadSyncHeard(nd, r, s, m, o) ==
    LET base == [TrustedSync(nd, r, s, m.ref, o) EXCEPT !.ann = m.ref]
    IN  IF nd.this = nd.slot /\ nd.border = 0
        THEN [Bump(base, [degree |-> nd.slot, ref |-> m.ref]) EXCEPT !.border = 1]
        ELSE base

\* The announcement's own reference bounced back is dropped (line 36).
SyncHeard(nd, r, s, m, o) ==
    IF m.ref = r THEN nd
    ELSE IF r \in Bridges THEN BridgeSyncHeard(nd, r, s, m, o)
    ELSE HeadSyncHeard(nd, r, s, m, o)

\* The radio is on in a convergence slot, and in a synchronization slot
\* once the thread has reached ref_n_CHB_degree.
Listening(n) == \/ node[n].pc \in {"wait", "last"}
                \/ node[n].pc = "sync" /\ node[n].wake <= now

Deliver(n, s, m) ==
    IF node[n].pc = "sync" THEN SyncHeard(node[n], n, s, m, node[s].org)
    ELSE Heard(node[n], n, s, m)

\* A copy of s's pending announcement goes on the air and reaches the
\* listening neighbours in R, each running its callback.  Without loss it
\* reaches all of them, and the copies the polite announcement repeats
\* change nothing more.  With loss any of them may miss it, and the
\* announcement stays queued for its next copy.
Transmit(s, R) ==
    LET m == node[s].pend
    IN  /\ Listening(s)
        /\ m # NoMsg
        /\ node' = [n \in Nodes |->
                      IF n \in R THEN Deliver(n, s, m)
                      ELSE IF n = s /\ ~Lossy THEN Cancel(node[n])
                      ELSE node[n]]
        /\ UNCHANGED now

Audience(s) == {r \in Neighbours(s) : Listening(r)}

Deliveries(s) == IF Lossy THEN SUBSET Audience(s) \ {{}} ELSE {Audience(s)}

\* Without loss a slot (0.3 s) outlasts the copies of every queued
\* announcement, so it ends only when none is left to send.
Delivered == Lossy \/ \A n \in Nodes : Listening(n) => node[n].pend = NoMsg

\* The slot timers fire (enter_convergence_slot, c-sync.c:180-191): each
\* waiting node cancels its pending announcement and its thread resumes.
SlotEnd ==
    /\ \A n \in Nodes : node[n].pc \in {"wait", "last", "off"}
    /\ now < NUM_CONS_SLOTS
    /\ Delivered
    /\ node' = [n \in Nodes |->
                  IF node[n].pc = "wait"
                  THEN Resume(Cancel(node[n]), n)
                  ELSE node[n]]
    /\ now' = now + 1

\* The last slot ends: enter_convergence_slot at my_cons_slot =
\* NUM_CONS_SLOTS and the revelation timer of the nodes that left early both
\* run enter_consensus_revelation (c-sync.c:194-209), which cancels the
\* announcement and removes the convergence value.
EnterRevelation ==
    /\ \A n \in Nodes : node[n].pc \in {"wait", "last", "off", "rev"}
    /\ now = NUM_CONS_SLOTS
    /\ Delivered
    /\ \E n \in Nodes : node[n].pc # "rev"
    /\ node' = [n \in Nodes |-> [Cancel(node[n]) EXCEPT !.pc = "rev"]]
    /\ UNCHANGED now

\* The synchronization slot timers fire (enter_synchronization_slot,
\* c-sync.c:244-254): the pending announcement is cancelled and each
\* thread past its wake slot starts the next slot.
SyncSlotEnd ==
    /\ \A n \in Nodes : node[n].pc = "sync"
    /\ now < NUM_CONS_SLOTS
    /\ Delivered
    /\ node' = [n \in Nodes |-> SyncWake(Cancel(node[n]), now + 1)]
    /\ now' = now + 1

\* The last synchronization slot ends: enter_idle stops the polite
\* announcement and turns the radio off (c-sync.c:270-297).
EnterIdle ==
    /\ \A n \in Nodes : node[n].pc = "sync"
    /\ now = NUM_CONS_SLOTS
    /\ Delivered
    /\ node' = [n \in Nodes |-> [Cancel(node[n]) EXCEPT !.pc = "idle"]]
    /\ UNCHANGED now

Next ==
    \/ \E s \in Nodes : \E R \in Deliveries(s) : Transmit(s, R)
    \/ SlotEnd
    \/ EnterRevelation
    \/ \E n \in Nodes : SyncInit(n)
    \/ BeginSync
    \/ SyncSlotEnd
    \/ EnterIdle

Spec == Init /\ [][Next]_vars

-----------------------------------------------------------------------------

Msgs(n) == IF n \in Heads THEN [degree : 1..NUM_CONS_SLOTS, ref : {NoAddr}]
           ELSE [degree : 1..NUM_CONS_SLOTS, ref : BridgeHeads[n]]

SyncMsgs == [degree : 1..NUM_CONS_SLOTS, ref : Nodes]

\* Each node's state has its type, and what a node announces in convergence
\* is a claim of a head (no ref_addr) or an acknowledgement of a bridge
\* naming one of its own heads.
TypeOK ==
    /\ now \in 1..NUM_CONS_SLOTS
    /\ \A n \in Nodes :
         /\ node[n].slot \in 1..NUM_CONS_SLOTS
         /\ node[n].ack \in 0..NUM_CONS_SLOTS * NUM_CONS_SLOTS
         /\ node[n].rec \in [CHsList(n) -> 0..NUM_CONS_SLOTS + 1]
         /\ node[n].pend \in IF node[n].pc = "sync" THEN SyncMsgs \cup {NoMsg}
                             ELSE Msgs(n) \cup {NoMsg}
         /\ node[n].pc \in {"wait", "last", "off", "rev", "ready", "sync", "idle"}
         /\ node[n].border \in {0, 1}
         /\ node[n].wake \in 0..NUM_CONS_SLOTS
         /\ node[n].this \in 1..NUM_CONS_SLOTS
         /\ {node[n].lc, node[n].ann, node[n].org} \subseteq Nodes

Over == \A n \in Nodes : node[n].pc = "rev"

(* Spec section 4.4: heads take numbered synchronization slots so that a  *)
(* bridge syncs to whichever head is due in a slot.  When convergence is  *)
(* over, the two heads of every bridge hold different my_cons_slot.       *)
HeadSlotsDistinct ==
    Over => \A b \in Bridges : \A h1, h2 \in BridgeHeads[b] :
               h1 # h2 => node[h1].slot # node[h2].slot

(* What a bridge recorded in its CHs list (it drives the bridge's          *)
(* reference and slot in init_consensus_synchronization) is the slot its  *)
(* head ended convergence with.                                            *)
BridgeViewAgrees ==
    Over => \A b \in Bridges : \A h \in BridgeHeads[b] :
               node[b].rec[h] = node[h].slot

(* Spec section 4.4: a head claims the lowest free slot until it is        *)
(* acknowledged.  Every head with a peer ends convergence acknowledged    *)
(* (my_slot_ack set by a bridge's acknowledgement naming it).              *)
HeadsAcknowledged ==
    Over => \A h \in Heads : CHsList(h) # {} => node[h].ack = 1

SyncOver == \A n \in Nodes : node[n].pc = "idle"

\* A head with a peer due before it in the reversed order.
Led(h) == \E p \in DOMAIN node[h].rec : node[h].rec[p] < node[h].slot

(* Spec section 4.4: every bridge, and every head with a peer due before   *)
(* it, has set its clock from another node when the synchronization phase *)
(* ends: the time of the border heads has reached it through the slots.   *)
ClocksSet ==
    SyncOver => \A n \in Nodes : (n \in Bridges \/ Led(n)) => node[n].org # n

\* A head that init_consensus_synchronization made a border head: no peer
\* due before it and every peer's slot known.
Border(h) == \A p \in DOMAIN node[h].rec : node[h].slot <= node[h].rec[p]
                                           /\ node[h].rec[p] <= NUM_CONS_SLOTS

(* Spec section 4.4: a head syncs at its own slot.  A head that is not a   *)
(* border head and has relayed a time in its own slot (my_sync_border set *)
(* by the callback that bumped it) has set its own clock from the bridge  *)
(* that brought the time, so what it relays is the time it keeps.        *)
RelayedTimeTaken ==
    \A h \in Heads : /\ node[h].pc \in {"sync", "idle"}
                    /\ ~Border(h)
                    /\ node[h].border = 1
                    => node[h].org # h

====
