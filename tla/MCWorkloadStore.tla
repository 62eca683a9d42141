--------------------------- MODULE MCWorkloadStore ---------------------------
(***************************************************************************)
(* WorkloadStore with two workloads that do not fit together on the first  *)
(* provider, two workers and a retry budget of two.                        *)
(***************************************************************************)
EXTENDS WorkloadStore, TLC

CONSTANTS w1, w2, p1, p2

MCReserved == w1 :> 1 @@ w2 :> 2
MCCapacity == p1 :> 2 @@ p2 :> 1

Symmetry == Permutations(Workers) \cup Permutations(StopIds)
=============================================================================
