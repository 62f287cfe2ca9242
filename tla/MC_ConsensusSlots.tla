------------------------- MODULE MC_ConsensusSlots -------------------------
(***************************************************************************)
(* Topologies of heads and bridges for ConsensusSlots.                     *)
(***************************************************************************)
EXTENDS ConsensusSlots, TLC

\* Two components: heads 1 and 2 joined by bridge 11, and head 3 with
\* three leaf heads 4, 5, 6 behind bridges 12, 13, 14.
PairAndStar == (11 :> {1, 2}) @@ (12 :> {3, 4}) @@ (13 :> {3, 5}) @@ (14 :> {3, 6})

\* A chain: head 1 - bridge 11 - head 2 - bridge 12 - head 3.
Chain == (11 :> {1, 2}) @@ (12 :> {2, 3})

\* Two hubs 1 and 2 joined by bridge 11, each with two leaf heads: 3 and 4
\* behind bridges 12 and 13, 5 and 6 behind bridges 14 and 15.
TwoHubs == (11 :> {1, 2}) @@ (12 :> {1, 3}) @@ (13 :> {1, 4})
               @@ (14 :> {2, 5}) @@ (15 :> {2, 6})

\* A single pair of heads joined by bridge 11.
Pair == 11 :> {1, 2}

=============================================================================
