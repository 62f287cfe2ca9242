--------------------------- MODULE CandidateList ---------------------------
(***************************************************************************)
(* The cluster bookkeeping of a C-sync node: the enumerations of c-sync.h, *)
(* the ranked candidate lists kept by handle_lists() (handle_lists.c) and  *)
(* the rebuild of the peer-head list from the bridge list done by          *)
(* init_consensus_convergence() (init_consensus_convergence.c).            *)
(*                                                                         *)
(* A list is a sequence of CHB records [addr, degree, refA]: refA is the   *)
(* field n_CHB_addr_A.  The fields cons_slot and n_CHB_addr_B are left out *)
(* until the consensus slots are modelled.  A memb pool is its count of    *)
(* allocated blocks; memb_alloc fails when the count equals the capacity.  *)
(***************************************************************************)
EXTENDS Integers, Sequences, SequencesExt

CONSTANTS NUM_CH_MAX,   \* capacity of both lists and of the CHs_memb pool
          NUM_CB_MAX    \* capacity of the CBs_memb pool

ASSUME NUM_CH_MAX \in Nat \ {0} /\ NUM_CB_MAX \in Nat \ {0}

\* state_t of c-sync.h: the phases in their numeric order
DISCOVERY == 0
ELECTION_REVELATION == 2
ELECTION_DECLARATION == 4
CONNECTION_REVELATION == 6
CONNECTION_DECLARATION == 8
CONSENSUS_CONVERGENCE == 10
CONSENSUS_REVELATION == 12
CONSENSUS_SYNCHRONIZATION == 14
IDLE == 16

\* instr_t of c-sync.h: instructions that are one below a phase
DISC_TO_EREV == 1
CONVERGENCE_PROACTIVE == 11

\* role_t of c-sync.h
CM == 0
CH == 1
CB == 2
Roles == {CM, CH, CB}

\* The fields are uint8_t degree and uint16_t addresses (struct CHB).
U8(x) == x % 256
U16(x) == x % 65536

\* Mutant: the rank without its address tie-break.
OutranksByDegree(n, ch) == n.degree > ch.degree

\* The rank of the candidate lists: n is ahead of ch by degree, then address.
Outranks(n, ch) ==
    \/ n.degree > ch.degree
    \/ n.degree = ch.degree /\ n.addr > ch.addr

\* The record handle_lists stores for neighbour n heard with value a: a head
\* records a bridge's other head (ref_addr - my_addr) and that head's degree
\* (the bridge's degree sum minus my_degree); anyone else the plain values.
CHBEntry(role, n, a, me) ==
    IF role = CH
    THEN [addr |-> n.addr, degree |-> U8(a.degree - me.degree),
          refA |-> U16(a.ref - me.addr)]
    ELSE [addr |-> n.addr, degree |-> n.degree, refA |-> a.ref]

\* Mutant: a full list takes the new entry without losing its tail.
KeepTail(lst) == lst

\* list_chop on a full list (handle_lists.c:116-121): the last entry's block
\* is freed and allocated again for the new entry.
MakeRoom(lst) == Front(lst)

(***************************************************************************)
(* handle_lists on one list lst whose pool holds used of cap blocks.       *)
(* chState is TRUE for the CHs list, where a first entry makes the node a  *)
(* commoner.  The walk stops at n's own entry (nothing to do) or at the    *)
(* first entry n outranks; a full list loses its tail to make room, and an *)
(* n that outranks nobody in a full list is dropped.  The result is the    *)
(* new list, pool count and role and the return value.                     *)
(***************************************************************************)
HandleListOn(lst, used, cap, chState, role, n, a, me) ==
    IF lst = <<>>
    THEN IF used = cap
         THEN [lst |-> lst, used |-> used, role |-> role, ret |-> 0]
         ELSE LET r == IF chState THEN CM ELSE role
              IN [lst |-> <<CHBEntry(r, n, a, me)>>, used |-> used + 1,
                  role |-> r, ret |-> 1]
    ELSE
      LET stop == SelectInSeq(lst, LAMBDA ch : ch.addr = n.addr \/ Outranks(n, ch))
          pos == IF stop = 0 THEN Len(lst) + 1 ELSE stop
          e == CHBEntry(role, n, a, me)
          unchanged == [lst |-> lst, used |-> used, role |-> role, ret |-> 1]
      IN IF stop # 0 /\ lst[stop].addr = n.addr THEN unchanged
         ELSE IF Len(lst) < NUM_CH_MAX
              THEN IF used < cap
                   THEN [unchanged EXCEPT !.lst = InsertAt(lst, pos, e), !.used = used + 1]
                   ELSE unchanged
         ELSE IF stop # 0
              THEN [unchanged EXCEPT !.lst = InsertAt(MakeRoom(lst), pos, e)]
         ELSE unchanged

(***************************************************************************)
(* handle_lists(a, a_value, n) on the cluster record cl in phase st: the   *)
(* CHs list in ELECTION_DECLARATION and CONSENSUS_CONVERGENCE, the CBs     *)
(* list in CONNECTION_DECLARATION, and nothing (return 0) in any other     *)
(* phase.  The result is [cl, ret].                                        *)
(***************************************************************************)
HandleLists(st, cl, n, a, me) ==
    CASE st \in {ELECTION_DECLARATION, CONSENSUS_CONVERGENCE} ->
           LET r == HandleListOn(cl.chs, cl.chsUsed, NUM_CH_MAX, TRUE, cl.role, n, a, me)
           IN [cl |-> [cl EXCEPT !.chs = r.lst, !.chsUsed = r.used, !.role = r.role],
               ret |-> r.ret]
      [] st = CONNECTION_DECLARATION ->
           LET r == HandleListOn(cl.cbs, cl.cbsUsed, NUM_CB_MAX, FALSE, cl.role, n, a, me)
           IN [cl |-> [cl EXCEPT !.cbs = r.lst, !.cbsUsed = r.used, !.role = r.role],
               ret |-> r.ret]
      [] OTHER -> [cl |-> cl, ret |-> 0]

(***************************************************************************)
(* init_consensus_convergence: the CHs pool and list are re-initialised    *)
(* and one peer head is pushed for each bridge whose other head is not yet *)
(* listed; an allocation failure ends the rebuild.                         *)
(***************************************************************************)
RECURSIVE PeerHeads(_, _, _)
PeerHeads(cbs, chs, used) ==
    IF cbs = <<>> THEN [chs |-> chs, used |-> used]
    ELSE LET cb == Head(cbs)
         IN IF \E i \in 1..Len(chs) : chs[i].addr = cb.refA
            THEN PeerHeads(Tail(cbs), chs, used)
            ELSE IF used = NUM_CH_MAX THEN [chs |-> chs, used |-> used]
            ELSE PeerHeads(Tail(cbs),
                           <<[addr |-> cb.refA, degree |-> cb.degree, refA |-> cb.addr]>> \o chs,
                           used + 1)

InitConsensusConvergence(cl) ==
    LET r == PeerHeads(cl.cbs, <<>>, 0)
    IN [cl EXCEPT !.chs = r.chs, !.chsUsed = r.used]

=============================================================================
