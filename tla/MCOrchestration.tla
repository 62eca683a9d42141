--------------------------- MODULE MCOrchestration ---------------------------
(***************************************************************************)
(* Orchestration with one provider; the bounds are in the .cfg files.      *)
(***************************************************************************)
EXTENDS Orchestration, TLC

MCReserved == [w \in Workloads |-> 1]
MCCapacity == [p \in Providers |-> 1]

Symmetry == Permutations(Workers)
=============================================================================
