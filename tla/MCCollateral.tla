---------------------------- MODULE MCCollateral ----------------------------
(***************************************************************************)
(* Collateral with the amounts of the runtime scaled down; the bounds are  *)
(* in the .cfg files. Account 9 is never endowed.                          *)
(***************************************************************************)
EXTENDS Collateral, TLC

MCEndowment == [a \in Accounts |-> IF a = 9 THEN 0 ELSE 20]

Symmetry == Permutations(Leases)
Alike == Permutations(Dimensions)
=============================================================================
