------------------------------ MODULE Balances ------------------------------
(***************************************************************************)
(* The part of Substrate's pallet_balances the pallets under               *)
(* blockchain/pallets use, through ReservableCurrency. A balance is        *)
(* [free, held]; what is held (reserved) carries no tag, so one account's  *)
(* escrows, validator stake and provider bond share one number.            *)
(* Unreserve, Repatriate and SlashReserved move at most what is held.      *)
(***************************************************************************)
EXTENDS Integers

Least(v, w) == IF v <= w THEN v ELSE w

\* The existential deposit of the runtime is 1: a lower total is no account, and
\* repatriate_reserved fails when the beneficiary is not one.
Alive(b, a) == b[a].free + b[a].held > 0

Reserve(b, a, v) ==
  [b EXCEPT ![a] = [free |-> @.free - v, held |-> @.held + v]]

Unreserve(b, a, v) ==
  LET moved == Least(v, b[a].held)
  IN  [b EXCEPT ![a] = [free |-> @.free + moved, held |-> @.held - moved]]

Repatriate(b, from, to, v) ==
  LET moved == Least(v, b[from].held)
  IN  [b EXCEPT ![from].held = @ - moved, ![to].free = @ + moved]

SlashReserved(b, a, v) == [b EXCEPT ![a].held = @ - Least(v, @)]
=============================================================================
