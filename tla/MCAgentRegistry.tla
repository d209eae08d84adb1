--------------------------- MODULE MCAgentRegistry ---------------------------
(* AgentRegistry on small sets of connections, for TLC. *)
EXTENDS AgentRegistry, TLC

\* Connections of one transport are interchangeable (safety only).
ConnSymmetry == Permutations(SSEConns) \union Permutations(WSConns)

=============================================================================
