------------------------------ MODULE MCAgentIpc ------------------------------
(* Symmetry of the clients, for TLC.                                       *)
EXTENDS AgentIpc, TLC

Symmetry == Permutations(Clients)

=============================================================================
