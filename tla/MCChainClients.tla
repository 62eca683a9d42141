--------------------------- MODULE MCChainClients ---------------------------
(***************************************************************************)
(* ChainClients for TLC. The seeds give Self a seat in round 0 and none in *)
(* round 1; a probe's answer is wrong, implausible, fast or slow; the      *)
(* provider p1 is a validator too.                                         *)
(***************************************************************************)
EXTENDS ChainClients

CONSTANTS v1, v2, p1

MCPeers == <<v1, v2, p1>>
MCRounds == 0..1
MCSeed == [t \in Registry \X Rounds \X (0..1) |-> IF t[2] = 0 THEN 2 ELSE 0]

Answer(valid, elapsed, processing) ==
  [valid |-> valid, elapsed |-> elapsed, processing |-> processing]
MCResponses ==
  {Answer(FALSE, 2, 0), Answer(TRUE, 2, 2), Answer(TRUE, 3, 2), Answer(TRUE, 2, 0)}
MCClaims == {[ingress |-> 0, egress |-> 2], [ingress |-> 4, egress |-> 2]}
=============================================================================
