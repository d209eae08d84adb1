---------------------------- MODULE MCAgentTurn ----------------------------
(* Instances of AgentTurn for TLC. *)
EXTENDS AgentTurn, TLC

\* Agents are interchangeable.
AgentSymmetry == Permutations(Agents)

=============================================================================
