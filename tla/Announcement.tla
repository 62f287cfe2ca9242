---------------------------- MODULE Announcement ----------------------------
(***************************************************************************)
(* The Rime announcement layer of one node, under the election phases of   *)
(* c-sync.c that drive it.                                                 *)
(*                                                                         *)
(*  - the registry of announcement.c: a has_value flag per announcement in *)
(*    list order, and ONE observer callback that announcement_bump calls;  *)
(*  - broadcast-announcement.c: two ctimers that resend the valued prefix  *)
(*    of the list, the interval doubling up to its maximum;                *)
(*  - polite-announcement.c over ipolite.c: a bump sends every valued      *)
(*    announcement, and each sent callback resends it until send_dups      *)
(*    reaches max_send_dups; ipolite holds the packet (q) for a random     *)
(*    delay and drops it when enough neighbours sent the same one;         *)
(*  - the MAC (csma under csyncrdc, outside src/): a FIFO of frames, each  *)
(*    answered by one sent callback, at an unknown later time;             *)
(*  - the callers: the phase entries enter_election_revelation,           *)
(*    enter_election_declaration and enter_connection_revelation, the     *)
(*    protothread's election switch, and the declaration callback.         *)
(*                                                                         *)
(* Values, dates and payload layout are left out: a frame is the set of    *)
(* announcement ids it carries.  The ghost flag quiet is TRUE from a       *)
(* polite_announcement_cancel to the next announcement_bump, the span in   *)
(* which the caller has withdrawn its announcement; every frame records    *)
(* whether it was built in that span.                                      *)
(***************************************************************************)
EXTENDS Naturals, Sequences, Functions

CONSTANTS
    MaxSendDups,     \* PA_RESILIENCE_MAX_SEND_DUPS (project-conf.h:85)
    MaxRecvDups,     \* PA_REGULAR_MAX_RECV_DUPS (project-conf.h:84)
    PoliteInterval,  \* POLITE_INTERVAL (project-conf.h:65)
    DeclIntervals,   \* values of POLITE_INTERVAL * my_placing
    BaInitial,       \* broadcast_announcement_init(_, 10, 20, 20), c-sync.c:1026
    BaMax,
    MacCap           \* bound on frames waiting in the MAC

ASSUME /\ 0 < MaxSendDups /\ MaxSendDups < 255 /\ 0 < MaxRecvDups
       /\ 0 < BaInitial /\ BaInitial <= BaMax
       /\ DeclIntervals \subseteq Nat

VARIABLES
    hasValue,  \* announcement id -> has_value (announcement.c:65, 89, 95)
    observer,  \* observer_callback (announcement.c:110)
    ba,        \* broadcast_announcement_state c: its two ctimers, interval
    pa,        \* polite_announcement_state c, without its ipolite_conn
    ip,        \* the ipolite_conn inside it: queued packet q and dups
    mac,       \* frames handed to broadcast_send, oldest first
    state,     \* my_state, from DISCOVERY to CONNECTION_REVELATION
    armed,     \* the enter_* function RTIMER_0 will call, or NoFunc
    polled,    \* the protothread has been polled and has not yet run
    quiet      \* ghost: a polite cancel not yet followed by a bump

vars == <<hasValue, observer, ba, pa, ip, mac, state, armed, polled, quiet>>

\* Announcement ids in registration order (c-sync.c:1018-1023).
DISC == 0
REV == 1
DECL == 2
Order == <<DISC, REV, DECL, 3, 4>>
Ids == Range(Order)

\* annstate_t (announcement.h:75-80)
PENDING == 0
DROPPED == 1
SENT == 2

NoObserver == "none"
ObserverBa == "observer_ba"
ObserverPa == "observer_pa"
NoPkt == [anns |-> {}, quiet |-> FALSE, conn |-> "none"]

NoFunc == "none"
Funcs == {"enter_election_revelation", "enter_election_declaration",
          "enter_connection_revelation", "enter_convergence"}

Phases == {"DISCOVERY", "ELECTION_REVELATION", "ELECTION_DECLARATION",
           "CONNECTION_REVELATION"}

Frame == [conn : {"ba", "pa"}, anns : SUBSET Ids, quiet : BOOLEAN]

TypeOK ==
    /\ hasValue \in [Ids -> BOOLEAN]
    /\ observer \in {NoObserver, ObserverBa, ObserverPa}
    /\ ba \in [sendTimer : BOOLEAN, intervalTimer : BOOLEAN,
               interval : BaInitial..BaMax]
    /\ pa \in [lastEvent : {PENDING, DROPPED, SENT}, interval : Nat,
               sendDups : 0..255, maxSendDups : 0..255]
    /\ ip \in [q : Frame \cup {NoPkt}, dups : Nat, maxdups : Nat]
    /\ mac \in Seq(Frame)
    /\ state \in Phases
    /\ armed \in Funcs \cup {NoFunc}
    /\ polled \in BOOLEAN
    /\ quiet \in BOOLEAN

(***************************************************************************)
(* Registry.                                                               *)
(***************************************************************************)

\* The announcements that have a value.
Valued(hv) == {id \in Ids : hv[id]}

\* broadcast-announcement.c:102: the loop stops at the first announcement
\* without a value, so only the valued prefix of the list is sent.
ValuedPrefix(hv) ==
    {Order[i] : i \in {j \in 1..Len(Order) : \A k \in 1..j : hv[Order[k]]}}

(***************************************************************************)
(* ipolite.c.  Each operator maps the layer's state to its new state.      *)
(***************************************************************************)

\* ipolite_send (ipolite.c:143-185): drop the packet already waiting, then
\* either hand the new one to the MAC (interval 0) or queue it for a random
\* delay; queuebuf_new_from_packetbuf fails when the pool is empty.
IpoliteSend(i, m, interval, f, alloc) ==
    IF interval = 0
    THEN [ip |-> [i EXCEPT !.q = NoPkt, !.dups = 0], mac |-> Append(m, f)]
    ELSE [ip |-> [i EXCEPT !.q = IF alloc THEN f ELSE NoPkt, !.dups = 0],
          mac |-> m]

\* ipolite_cancel (ipolite.c:187-195): stop the timer and free q.  A
\* packet already in the MAC stays there.
IpoliteCancel(i) == [i EXCEPT !.q = NoPkt]

(***************************************************************************)
(* polite-announcement.c                                                   *)
(***************************************************************************)

\* send_adv (polite-announcement.c:89-124): every valued announcement, and
\* nothing when none has a value.
PaSendAdv(hv, i, m, interval, q, alloc) ==
    IF Valued(hv) = {} THEN [ip |-> i, mac |-> m]
    ELSE IpoliteSend(i, m, interval,
                     [conn |-> "pa", anns |-> Valued(hv), quiet |-> q], alloc)

\* polite_announcement_init (polite-announcement.c:198-208), after
\* ipolite_open (ipolite.c:122-130).
PaInit(p, i, interval) ==
    [pa |-> [p EXCEPT !.lastEvent = PENDING, !.interval = interval,
                      !.sendDups = 0, !.maxSendDups = MaxSendDups],
     ip |-> [i EXCEPT !.maxdups = MaxRecvDups]]

\* polite_announcement_cancel (polite-announcement.c:218-224).
PaCancel(p) == [p EXCEPT !.lastEvent = PENDING, !.sendDups = 255]

(***************************************************************************)
(* broadcast-announcement.c                                                *)
(***************************************************************************)

\* set_timers (broadcast-announcement.c:175-181), also
\* broadcast_announcement_continue (241-245).
BaSetTimers(b) == [b EXCEPT !.sendTimer = TRUE, !.intervalTimer = TRUE]

\* broadcast_announcement_stop (broadcast-announcement.c:224-230).  The
\* observer it registered stays registered.
BaStop(b) == [b EXCEPT !.sendTimer = FALSE, !.intervalTimer = FALSE]

\* observer_pa (polite-announcement.c:188-193): reset send_dups and send.
ObservePa(hv, p, i, b) ==
    \E alloc \in BOOLEAN :
      LET r == PaSendAdv(hv, i, mac, p.interval, FALSE, alloc)
      IN  /\ pa' = [p EXCEPT !.sendDups = 0]
          /\ ip' = r.ip
          /\ mac' = r.mac
          /\ ba' = b

\* observer_ba (broadcast-announcement.c:199-203): restart both timers.
ObserveBa(hv, p, i, b) ==
    /\ ba' = BaSetTimers(b)
    /\ pa' = p /\ ip' = i /\ mac' = mac

\* announcement_bump (announcement.c:99-105) given the registry hv, the
\* registered observer obs, and the polite, ipolite and broadcast states
\* the caller has left.
Bump(hv, obs, p, i, b) ==
    /\ quiet' = FALSE
    /\ CASE obs = ObserverPa -> ObservePa(hv, p, i, b)
         [] obs = ObserverBa -> ObserveBa(hv, p, i, b)
         [] OTHER -> ba' = b /\ pa' = p /\ ip' = i /\ mac' = mac

(***************************************************************************)
(* Initial state: soft_reset (c-sync.c:1018-1026) has registered the five  *)
(* announcements, valued the discovery one and started the broadcast       *)
(* announcement; polite_announcement_state is still zero (static); a       *)
(* discovery callback has armed RTIMER_0 for enter_election_revelation     *)
(* (received_discovery_announcement.c:86-88).                              *)
(***************************************************************************)
\* announcement_register (announcement.c:60-77) of the five, each without
\* a value, then announcement_add_value of the discovery one.
Registered == [id \in Ids |-> id = DISC]

Init ==
    /\ hasValue = Registered
    /\ observer = ObserverBa
    /\ ba = [sendTimer |-> TRUE, intervalTimer |-> TRUE, interval |-> BaInitial]
    /\ pa = [lastEvent |-> PENDING, interval |-> 0, sendDups |-> 0,
             maxSendDups |-> 0]
    /\ ip = [q |-> NoPkt, dups |-> 0, maxdups |-> 0]
    /\ mac = <<>>
    /\ state = "DISCOVERY"
    /\ armed = "enter_election_revelation"
    /\ polled = FALSE
    /\ quiet = FALSE

(***************************************************************************)
(* The layer's own timers and callbacks.                                   *)
(***************************************************************************)

\* The send_timer ctimer runs send_adv (broadcast-announcement.c:92-130):
\* the valued prefix of the list, if not empty, goes to the MAC.
BaSendAdv ==
    /\ ba.sendTimer
    /\ ba' = [ba EXCEPT !.sendTimer = FALSE]
    /\ LET anns == ValuedPrefix(hasValue)
       IN  mac' = IF anns = {} THEN mac
                  ELSE Append(mac, [conn |-> "ba", anns |-> anns, quiet |-> quiet])
    /\ UNCHANGED <<hasValue, observer, pa, ip, state, armed, polled, quiet>>

\* The interval_timer ctimer runs send_timer (broadcast-announcement.c:
\* 183-197).  The send timer was set to less than the interval, so it has
\* fired first.
BaSendTimer ==
    /\ ba.intervalTimer /\ ~ba.sendTimer
    /\ ba' = BaSetTimers([ba EXCEPT !.interval = IF 2 * @ > BaMax THEN BaMax
                                                 ELSE 2 * @])
    /\ UNCHANGED <<hasValue, observer, pa, ip, mac, state, armed, polled, quiet>>

\* The ipolite ctimer runs send (ipolite.c:98-118): q goes to the MAC.
IpoliteTimer ==
    /\ ip.q # NoPkt
    /\ mac' = Append(mac, ip.q)
    /\ ip' = [ip EXCEPT !.q = NoPkt]
    /\ UNCHANGED <<hasValue, observer, ba, pa, state, armed, polled, quiet>>

\* A neighbour sends the packet q holds (ipolite.c:61-87): dups grows and at
\* maxdups q is dropped and adv_packet_dropped (polite-announcement.c:
\* 166-170) records DROPPED.
IpoliteHearsCopy ==
    /\ ip.q # NoPkt
    /\ IF ip.dups + 1 >= ip.maxdups
       THEN /\ ip' = [ip EXCEPT !.q = NoPkt, !.dups = @ + 1]
            /\ pa' = [pa EXCEPT !.lastEvent = DROPPED]
       ELSE /\ ip' = [ip EXCEPT !.dups = @ + 1]
            /\ pa' = pa
    /\ UNCHANGED <<hasValue, observer, ba, mac, state, armed, polled, quiet>>

\* The MAC has transmitted its oldest frame and calls back through rime's
\* packet_sent (rime.c:111-131).  A broadcast-announcement frame ends in an
\* empty adv_packet_sent; a polite one in ipolite's sent (ipolite.c:89-96)
\* and adv_packet_sent (polite-announcement.c:173-185), which counts the
\* send in the 8-bit send_dups and resends until it reaches max_send_dups.
MacSent ==
    /\ mac # <<>>
    /\ LET f == Head(mac)
           d == (pa.sendDups + 1) % 256
       IN  IF f.conn = "pa" /\ d < pa.maxSendDups
           THEN \E alloc \in BOOLEAN :
                  LET r == PaSendAdv(hasValue, ip, Tail(mac),
                                     pa.interval + PoliteInterval * d, quiet, alloc)
                  IN  /\ pa' = [pa EXCEPT !.sendDups = d]
                      /\ ip' = r.ip
                      /\ mac' = r.mac
           ELSE /\ pa' = IF f.conn = "pa"
                         THEN [pa EXCEPT !.sendDups = d, !.lastEvent = SENT]
                         ELSE pa
                /\ ip' = ip
                /\ mac' = Tail(mac)
    /\ UNCHANGED <<hasValue, observer, ba, state, armed, polled, quiet>>

(***************************************************************************)
(* The callers.  The phase entries are called by the RTIMER_0 interrupt    *)
(* or by a callback in the middle of its own work, so they take the        *)
(* registry and the polite state that work has left.                       *)
(***************************************************************************)

\* enter_election_revelation (c-sync.c:88-102).
ElectionRevelationEntry ==
    /\ ba' = BaStop(ba)
    /\ hasValue' = [hasValue EXCEPT ![DISC] = FALSE]
    /\ state' = "ELECTION_REVELATION"
    /\ polled' = TRUE
    /\ UNCHANGED <<observer, pa, ip, mac, quiet>>

\* enter_election_declaration (c-sync.c:104-122): cancel, withdraw the
\* revelation, set the interval from my_placing.
ElectionDeclarationEntry(hv, obs, p, i, b) ==
    /\ \E iv \in DeclIntervals : pa' = [PaCancel(p) EXCEPT !.interval = iv]
    /\ ip' = IpoliteCancel(i)
    /\ hasValue' = [hv EXCEPT ![REV] = FALSE]
    /\ observer' = obs
    /\ ba' = b
    /\ state' = "ELECTION_DECLARATION"
    /\ polled' = TRUE
    /\ quiet' = TRUE
    /\ UNCHANGED mac

\* enter_connection_revelation (c-sync.c:125-140), as far as the
\* announcement layer goes.
ConnectionRevelationEntry(hv, p, i) ==
    /\ pa' = PaCancel(p)
    /\ ip' = IpoliteCancel(i)
    /\ hasValue' = [hv EXCEPT ![DECL] = FALSE]
    /\ state' = "CONNECTION_REVELATION"
    /\ polled' = TRUE
    /\ quiet' = TRUE
    /\ UNCHANGED <<observer, ba, mac>>

\* RTIMER_0 expires and calls the enter_* function last scheduled.
TimerFires ==
    /\ armed' = NoFunc
    /\ \/ armed = "enter_election_revelation" /\ ElectionRevelationEntry
       \/ armed = "enter_election_declaration"
          /\ ElectionDeclarationEntry(hasValue, observer, pa, ip, ba)
       \/ armed = "enter_connection_revelation"
          /\ ConnectionRevelationEntry(hasValue, pa, ip)

\* The protothread's election switch (c-sync.c:353-388) after a poll.  In
\* ELECTION_REVELATION a successful rtimer_schedule opens the polite
\* announcement and bumps the revelation; a failed one falls through to the
\* ELECTION_DECLARATION case, which bumps the declaration through whatever
\* observer is registered.  When that schedule fails too the thread goes
\* on into the CONNECTION_REVELATION case, which announces only for a
\* node that already holds two heads; it is left out here.
RevelationScheduled ==
    /\ polled /\ state = "ELECTION_REVELATION"
    /\ LET r == PaInit(pa, ip, 0)
           hv == [hasValue EXCEPT ![REV] = TRUE]
       IN  /\ hasValue' = hv
           /\ observer' = ObserverPa
           /\ Bump(hv, ObserverPa, r.pa, r.ip, ba)
    /\ armed' = "enter_election_declaration"
    /\ polled' = FALSE
    /\ UNCHANGED state

DeclarationScheduled ==
    /\ polled /\ state \in {"ELECTION_REVELATION", "ELECTION_DECLARATION"}
    /\ LET hv == [hasValue EXCEPT ![DECL] = TRUE]
       IN  /\ hasValue' = hv
           /\ Bump(hv, observer, pa, ip, ba)
    /\ armed' = "enter_connection_revelation"
    /\ polled' = FALSE
    /\ UNCHANGED <<observer, state>>

ScheduleFails ==
    /\ polled /\ state \in {"ELECTION_REVELATION", "ELECTION_DECLARATION"}
    /\ polled' = FALSE
    /\ UNCHANGED <<hasValue, observer, ba, pa, ip, mac, state, armed, quiet>>

(***************************************************************************)
(* received_declaration_announcement (received_declaration_announcement.c: *)
(* 64-125) hearing a neighbour's declaration.                              *)
(***************************************************************************)

\* In DISCOVERY: the node becomes a member, stops the broadcast
\* announcement, opens the polite one, cancels it and, if RTIMER_0 takes
\* the sender's date, enters ELECTION_DECLARATION at once.
DeclarationInDiscovery ==
    /\ state = "DISCOVERY"
    /\ LET hv == [hasValue EXCEPT ![DISC] = FALSE]
           r == PaInit(pa, ip, 0)
           p == PaCancel(r.pa)
           i == IpoliteCancel(r.ip)
       IN  \/ /\ armed' = "enter_connection_revelation"
              /\ ElectionDeclarationEntry(hv, ObserverPa, p, i, BaStop(ba))
           \/ /\ hasValue' = hv /\ observer' = ObserverPa
              /\ pa' = p /\ ip' = i /\ ba' = BaStop(ba)
              /\ quiet' = TRUE
              /\ UNCHANGED <<mac, state, armed, polled>>

\* In ELECTION_REVELATION: cancel, and on a successful schedule enter
\* ELECTION_DECLARATION at once, whether or not the thread has run.
DeclarationInRevelation ==
    /\ state = "ELECTION_REVELATION"
    /\ \/ /\ armed' = "enter_connection_revelation"
          /\ ElectionDeclarationEntry(hasValue, observer, PaCancel(pa),
                                      IpoliteCancel(ip), ba)
       \/ /\ pa' = PaCancel(pa) /\ ip' = IpoliteCancel(ip) /\ quiet' = TRUE
          /\ UNCHANGED <<hasValue, observer, ba, mac, state, armed, polled>>

\* In ELECTION_DECLARATION, a stronger declaration (higher degree, or equal
\* degree and higher address): cancel, and bump the declaration again
\* unless handle_lists took the sender in.
StrongerDeclaration ==
    /\ state = "ELECTION_DECLARATION"
    /\ \/ Bump(hasValue, observer, PaCancel(pa), IpoliteCancel(ip), ba)
       \/ /\ pa' = PaCancel(pa) /\ ip' = IpoliteCancel(ip) /\ quiet' = TRUE
          /\ UNCHANGED <<ba, mac>>
    /\ UNCHANGED <<hasValue, observer, state, armed, polled>>

\* In ELECTION_DECLARATION, a CONNECTION_DECLARATION: cancel, and on a
\* successful schedule (for enter_convergence) enter CONNECTION_REVELATION.
ConnectionDeclarationHeard ==
    /\ state = "ELECTION_DECLARATION"
    /\ \/ /\ armed' = "enter_convergence"
          /\ ConnectionRevelationEntry(hasValue, PaCancel(pa), IpoliteCancel(ip))
       \/ /\ pa' = PaCancel(pa) /\ ip' = IpoliteCancel(ip) /\ quiet' = TRUE
          /\ UNCHANGED <<hasValue, observer, ba, mac, state, armed, polled>>

Next ==
    \/ BaSendAdv \/ BaSendTimer \/ IpoliteTimer \/ IpoliteHearsCopy \/ MacSent
    \/ TimerFires
    \/ RevelationScheduled \/ DeclarationScheduled \/ ScheduleFails
    \/ DeclarationInDiscovery \/ DeclarationInRevelation
    \/ StrongerDeclaration \/ ConnectionDeclarationHeard

Spec == Init /\ [][Next]_vars

\* Model bound: frames waiting in the MAC.
MacBound == Len(mac) <= MacCap

(***************************************************************************)
(* Properties                                                              *)
(***************************************************************************)

\* spec.md:59: every phase on entry cancels the outgoing announcements in
\* flight, and a callback that yields to a stronger declaration
\* (received_declaration_announcement.c:110) means to stop announcing.  So
\* no frame the polite announcement builds between a
\* polite_announcement_cancel and the next announcement_bump may reach
\* ipolite's queue or the MAC.  It is broken when a sent callback of a
\* frame already in the MAC (adv_packet_sent) increments the send_dups the
\* cancel set to 0xFF: the 8-bit counter wraps to 0, below max_send_dups,
\* and send_adv sends the withdrawn announcements again.
CancelSilences ==
    /\ ~ip.q.quiet
    /\ \A k \in 1..Len(mac) : ~mac[k].quiet

====
