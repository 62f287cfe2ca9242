------------------------------ MODULE MC_Gtsp ------------------------------
(***************************************************************************)
(* Topologies and phases for Gtsp.                                         *)
(***************************************************************************)
EXTENDS Gtsp, TLC

\* Three nodes in radio range of each other.
Triangle == [n \in {1, 2, 3} |-> {1, 2, 3} \ {n}]

\* A line 1 - 2 - 3.
Line == (1 :> {2}) @@ (2 :> {1, 3}) @@ (3 :> {2})

\* Every node discovering.
AllDiscovery == [n \in {1, 2, 3} |-> DISCOVERY]

\* Every node in ELECTION_REVELATION.
AllElection == [n \in {1, 2, 3} |-> ELECTION_REVELATION]

\* Four nodes in range of each other: one discovering, two in
\* ELECTION_REVELATION and one idle.
Full4 == [n \in {1, 2, 3, 4} |-> {1, 2, 3, 4} \ {n}]
Mixed4 == (1 :> DISCOVERY) @@ (2 :> ELECTION_REVELATION)
              @@ (3 :> ELECTION_REVELATION) @@ (4 :> IDLE)

====
