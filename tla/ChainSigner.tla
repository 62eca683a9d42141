---------------------------- MODULE ChainSigner ----------------------------
(***************************************************************************)
(* How a Registrar of internal/blockchainbridge gets a signed call to the  *)
(* chain when it does not wait for finality (SubmitDirect, SubmitSudo,     *)
(* AnnounceOfferFor, RemoveOfferFor).                                      *)
(*                                                                         *)
(* Every such call is signed for the account's FINALIZED nonce, so until   *)
(* a call is finalized all later ones compete for the same place in the    *)
(* transaction pool. slot is that place: the call that holds it, its tip,  *)
(* and whether a block already includes it. The pool is external and is    *)
(* modelled from how the Registrar uses it: a call replaces the holder     *)
(* only with a strictly higher tip.                                        *)
(***************************************************************************)
EXTENDS Naturals, Sequences, FiniteSets

CONSTANTS
  None,
  MaxFaults        \* bound: lost replies, lost pool entries, failed reads, restarts

VARIABLES
  slot,            \* the pool's entry for the finalized nonce
  faults

signerVars == <<slot, faults>>

\* Tip 0 first, then nextTip's 1, 2 and 4: maxTipBumpAttempts is 3.
nextTip(tip) == IF tip = 0 THEN 1 ELSE 2 * tip
Tips == <<0, nextTip(0), nextTip(nextTip(0)), nextTip(nextTip(nextTip(0)))>>

SignerInit == slot = None /\ faults = 0

Fault == faults < MaxFaults /\ faults' = faults + 1

\* The tips submitSigned gets to: only "priority too low" (1014) is retried, so
\* the loop ends at the first tip that outbids the holder, or at the holder's own
\* bytes, which the pool already has.
Outbids ==
  {i \in 1..Len(Tips) : slot = None \/ Tips[i] > slot.tip}

Accepted(call) ==
  IF slot = None THEN TRUE
  ELSE /\ ~slot.included
       /\ slot.call # call
       /\ Outbids # {}

\* The tip of the accepted attempt.
WinningTip ==
  Tips[CHOOSE i \in Outbids : \A j \in Outbids : i <= j]

Enter(call) == slot' = [call |-> call, tip |-> WinningTip, included |-> FALSE]

\* The call is in the pool and the caller knows.
SubmitSigned(call) == Accepted(call) /\ Enter(call) /\ UNCHANGED faults

\* The caller gets an error: the pool refused, or a read before the submission
\* failed, or the pool took the call and the answer was lost.
SubmitFails(call) ==
  \/ ~Accepted(call) /\ UNCHANGED signerVars
  \/ Fault /\ UNCHANGED slot
  \/ Accepted(call) /\ Enter(call) /\ Fault

\* A block includes the held call; from here on its nonce is used up.
Include ==
  /\ slot # None /\ ~slot.included
  /\ slot' = [slot EXCEPT !.included = TRUE]
  /\ UNCHANGED faults

\* The pool forgets a call that no block includes (node restart, eviction).
PoolLoses ==
  /\ slot # None /\ ~slot.included
  /\ slot' = None
  /\ Fault

\* The block with the held call is finalized: its effect becomes visible to
\* finalized reads and the next call gets a fresh nonce.
Finalizes(call) == slot # None /\ slot.included /\ slot.call = call /\ slot' = None
=============================================================================
