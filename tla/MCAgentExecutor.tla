--------------------------- MODULE MCAgentExecutor ---------------------------
(* AgentExecutor for TLC: the sets of model values are in the .cfg files.   *)
EXTENDS AgentExecutor, TLC

Symmetry == Permutations(Clients)
=============================================================================
