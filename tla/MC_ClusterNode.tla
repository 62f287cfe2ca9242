-------------------------- MODULE MC_ClusterNode --------------------------
(***************************************************************************)
(* The neighbour degrees the configurations of ClusterNode start from;     *)
(* node 1 is the modelled node.                                            *)
(***************************************************************************)
EXTENDS ClusterNode

\* Three declarers: 4 and 2 tie on degree 3 (4 ahead by address) and
\* outrank 3; each outranks node 1 while it knows few enough neighbours.
ElectionDegrees == {(2 :> 3) @@ (3 :> 2) @@ (4 :> 3)}

\* Two neighbours that both outrank node 1, so it can hear two heads and
\* become a bridge.
TwoDegrees == {(2 :> 2) @@ (3 :> 2)}

\* Three neighbours that node 1 outranks once it knows two of them, so
\* node 1 stays a head and hears bridge declarations.
LowDegrees == {(2 :> 1) @@ (3 :> 1) @@ (4 :> 1)}

\* A single neighbour that outranks node 1.
OneDegrees == {(2 :> 2)}

=============================================================================
