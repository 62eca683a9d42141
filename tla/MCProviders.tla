---------------------------- MODULE MCProviders ----------------------------
(***************************************************************************)
(* ProviderSession for TLC. Either nobody has joined yet, and one of two   *)
(* providers does, or both have. p1 sends heartbeats 1 and 2, which report *)
(* the same window, heartbeat 2 the higher counter, over its connection or *)
(* over p2's.                                                              *)
(***************************************************************************)
EXTENDS ProviderSession, TLC

CONSTANTS p1, p2

MCStarts == {<<>>, <<p1, p2>>}
Newcomers == {<<>>}
MCReports ==
  [p \in Providers |->
     IF p = p1 THEN <<[window |-> 1, bytes |-> 1], [window |-> 1, bytes |-> 2]>> ELSE <<>>]

Symmetry == Permutations(Handlers) \union Permutations(Joins)
=============================================================================
