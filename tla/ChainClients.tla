---------------------------- MODULE ChainClients ----------------------------
(***************************************************************************)
(* The two programs that submit calls without waiting for their finality:  *)
(* the Control Plane's offer reconciler and the validator daemon. They     *)
(* sign with different keys and share no state, so one specification       *)
(* follows the account of either one: process says whose.                  *)
(***************************************************************************)
EXTENDS OfferReconciler, ValidatorDaemon

VARIABLE process

vars == <<signerVars, offerVars, daemonVars, process>>

Init ==
  /\ SignerInit /\ OfferInit /\ DaemonInit
  /\ \/ process = "networkvalidator"
     \/ process = "controlplane" /\ seat = "absent"
        /\ \E c \in Claims : capacityDeclared(c) /\ declared = [p \in Registry |-> c]

Next ==
  /\ \/ process = "controlplane" /\ OfferNext /\ UNCHANGED daemonVars
     \/ process = "networkvalidator" /\ DaemonNext /\ UNCHANGED offerVars
  /\ UNCHANGED process

Spec == Init /\ [][Next]_vars

\* Both loops run until their process ends; the chain keeps producing and
\* finalizing blocks, and a backoff is a timer. A pass may have to wait for
\* Registrar.mu, and Go's mutex starves nobody: strong fairness. That its holder
\* lets it go (MutexFreed) is not assumed.
FairSpec ==
  /\ Spec
  /\ SF_vars(process = "controlplane" /\ PassStep /\ UNCHANGED <<daemonVars, process>>)
  /\ WF_vars(process = "controlplane" /\ ExecuteOffer /\ UNCHANGED <<daemonVars, process>>)
  /\ WF_vars(process = "networkvalidator" /\ TickStep /\ UNCHANGED <<offerVars, process>>)
  /\ WF_vars(process = "networkvalidator" /\ ExecuteCall /\ UNCHANGED <<offerVars, process>>)
  /\ WF_vars(Include /\ UNCHANGED <<offerVars, daemonVars, process>>)
  /\ \A k \in Keys :
       WF_vars(process = "networkvalidator" /\ BackoffEnds(k)
               /\ UNCHANGED <<offerVars, process>>)

\* The account's slot in the pool, and the state of both programs.
TypeOK ==
  /\ slot # None => slot.tip \in ToSet(Tips) /\ slot.included \in BOOLEAN
  /\ OfferTypeOK
  /\ DaemonTypeOK

\* The rounds a validator takes part in: it is drawn fairly (Committee), passes
\* a provider only on sustained measurements (MeasureBandwidth) and does not
\* ask for a close without end (closeDueRounds), in every order of ticks, lost
\* calls, displaced calls and restarts.
RoundsAreSound == TypeOK /\ CommitteeIsDrawn /\ PassIsSustained /\ ClosesAreBounded
=============================================================================
