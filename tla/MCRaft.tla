-------------------------------- MODULE MCRaft --------------------------------
(***************************************************************************)
(* The Raft plugin on small clusters: nodes and values are model values,   *)
(* given in the configurations.                                            *)
(***************************************************************************)
EXTENDS RaftNode, TLC

CONSTANTS n1, n2, n3, v1, v2, MaxMessages

\* No definition tells one value from another, or one node from another but for
\* being a contender.
Symmetry == Permutations(Contenders) \cup Permutations(Nodes \ Contenders)
                \cup Permutations(Values)

\* A behaviour is followed no further once it has sent more than this many messages.
FewMessages == Cardinality(msgs) <= MaxMessages

=============================================================================
