---------------------------- MODULE ControlPlane ----------------------------
(***************************************************************************)
(* Five services of the Control Plane: who may use it (Identity), how      *)
(* often (RateLimit), where a workload is placed (Scheduler), what is      *)
(* billed for it (Metering) and which front end is trusted                 *)
(* (FrontendRelease).  They write no common table, so a behaviour follows  *)
(* one of them and leaves the others where they start.                     *)
(***************************************************************************)
EXTENDS Identity, Metering, RateLimit, Scheduler, FrontendRelease

VARIABLE service

accountVars == <<apiVars, identityVars, meteringVars>>

vars == <<accountVars, limitVars, schedulerVars, releaseVars, service>>

Init ==
  /\ ApiInit /\ IdentityInit /\ MeteringInit /\ LimitInit /\ SchedulerInit /\ ReleaseInit
  /\ service \in {"identity", "billing", "limits", "scheduling", "releases"}

Next ==
  /\ UNCHANGED service
  /\ \/ service = "identity" /\ IdentityNext /\ UNCHANGED <<meteringVars, limitVars, schedulerVars, releaseVars>>
     \/ service = "billing" /\ MeteringNext /\ UNCHANGED <<identityVars, limitVars, schedulerVars, releaseVars>>
     \/ service = "limits" /\ LimitNext /\ UNCHANGED <<accountVars, schedulerVars, releaseVars>>
     \/ service = "scheduling" /\ SchedulerNext /\ UNCHANGED <<accountVars, limitVars, releaseVars>>
     \/ service = "releases" /\ ReleaseNext /\ UNCHANGED <<accountVars, limitVars, schedulerVars>>

Spec == Init /\ [][Next]_vars

\* Nobody has more access than was earned: sessions are one per challenge and
\* their account's, tokens their members', first logins alone, and no counter
\* of the limiter lasts for ever or lets more than its limit through.
AccessIsSound ==
  IdentityTypeOK /\ OneSessionPerChallenge /\ FirstLoginIsAlone /\ ScopedKeysAreMembers /\ WindowsEnd

\* Evidence that is billed is its provider's, to the unit, fits its columns and
\* was never refused (ComputeCharge, AcceptEvidence).
BillingIsSound == MeteringTypeOK /\ InvoiceIsExact /\ RejectedIsNeverBilled

\* A workload goes where the ranking is best and the ledger has room on the
\* overlay, which two different calculations see to (Rank, AssignLease).
PlacementIsSound == OverlayNotOverbooked /\ SelectedIsBest
=============================================================================
