-------------------------- MODULE OfferReconciler --------------------------
(***************************************************************************)
(* internal/resourcemarket: the loop that publishes each schedulable       *)
(* provider's total capacity as an on-chain offer and withdraws the offers *)
(* of providers that dropped out, through the Control Plane's Registrar.   *)
(*                                                                         *)
(* One ReconcileOnce is several steps, because the directory, the chain    *)
(* and the account's pool entry change while it runs: the list of          *)
(* providers and the finalized head are read first, then every provider    *)
(* of the list is announced if needed, then every tracked provider outside *)
(* it is withdrawn. offering and withdrawAttempts live in memory only.     *)
(***************************************************************************)
EXTENDS ChainSigner

CONSTANTS
  Providers,
  Capacities,          \* capacities a heartbeat may report, after clamping
  MaxWithdrawAttempts, \* ReconcilerConfig.MaxWithdrawAttempts
  MaxChanges           \* bound: changes of capacity, schedulability, registry status

ASSUME OfferAssumption ==
  /\ None \notin Capacities
  /\ MaxWithdrawAttempts \in Nat \ {0}

VARIABLES
  capacity,            \* what the directory lists for p, None when not schedulable
  active,              \* the registry pallet has p Active
  offers,              \* finalized Offers[p]
  offering,            \* Reconciler.offering: providers believed to hold an offer
  attempts,            \* Reconciler.withdrawAttempts
  pass,                \* ReconcileOnce under way: its list, its head, what is left
  blocked,             \* the pass waits for Registrar.mu, which another caller holds
  changes

offerVars == <<capacity, active, offers, offering, attempts, pass, blocked, changes>>

Resting == [pc |-> "rest"]
Announcement(p, c) == <<"announce", p, c>>
Withdrawal(p) == <<"remove", p>>

OfferInit ==
  /\ capacity \in [Providers -> {None}]
  /\ active = [p \in Providers |-> TRUE]
  /\ offers = [p \in Providers |-> None]
  /\ offering = {}
  /\ attempts = [p \in Providers |-> 0]
  /\ pass = Resting
  /\ blocked = FALSE
  /\ changes = 0

Listed == {p \in Providers : pass.list[p] # None}

\* Mutant: any offer will do.
offersEqualAny(current, desired) == current # None

\* offersEqual: capabilities are never set and never compared.
offersEqual(current, desired) == current = desired

\* The provider list and the finalized head of this pass. Either read may fail:
\* the pass is then over, and nothing changed.
ReconcileOnce ==
  /\ pass = Resting
  /\ pass' = [pc |-> "announce", list |-> capacity, head |-> offers,
              todo |-> {p \in Providers : capacity[p] # None}]
  /\ UNCHANGED <<signerVars, capacity, active, offers, offering, attempts, changes>>

Done(p) == pass' = [pass EXCEPT !.todo = @ \ {p}]

\* The offer at the pass's head already says what is wanted: only track it.
AnnounceSkipped(p) ==
  /\ pass # Resting /\ pass.pc = "announce" /\ p \in pass.todo
  /\ offersEqual(pass.head[p], pass.list[p])
  /\ offering' = offering \union {p}
  /\ Done(p)
  /\ UNCHANGED <<signerVars, capacity, active, offers, attempts, changes>>

\* AnnounceOfferFor: tracked once the pool took it, left for the next pass if not.
AnnounceOfferFor(p) ==
  /\ pass # Resting /\ pass.pc = "announce" /\ p \in pass.todo
  /\ ~offersEqual(pass.head[p], pass.list[p])
  /\ \/ SubmitSigned(Announcement(p, pass.list[p])) /\ offering' = offering \union {p}
     \/ SubmitFails(Announcement(p, pass.list[p])) /\ UNCHANGED offering
  /\ Done(p)
  /\ UNCHANGED <<capacity, active, offers, attempts, changes>>

\* The second loop runs over every tracked provider; those of the list only
\* have their count of failed withdrawals cleared.
WithdrawLoop ==
  /\ pass # Resting /\ pass.pc = "announce" /\ pass.todo = {}
  /\ pass' = [pass EXCEPT !.pc = "withdraw", !.todo = offering \ Listed]
  /\ attempts' = [p \in Providers |-> IF p \in offering \intersect Listed THEN 0
                                      ELSE attempts[p]]
  /\ UNCHANGED <<signerVars, capacity, active, offers, offering, changes>>

Forget(p) ==
  /\ offering' = offering \ {p}
  /\ attempts' = [attempts EXCEPT ![p] = 0]

\* Nothing on chain at the pass's head: stop tracking, submit nothing.
AlreadyGone(p) ==
  /\ pass # Resting /\ pass.pc = "withdraw" /\ p \in pass.todo
  /\ pass.head[p] = None
  /\ Forget(p)
  /\ Done(p)
  /\ UNCHANGED <<signerVars, capacity, active, offers, changes>>

BudgetSpent(p) == attempts[p] >= MaxWithdrawAttempts

\* The withdrawal budget is spent: still tracked, nothing submitted.
GivesUp(p) ==
  /\ pass # Resting /\ pass.pc = "withdraw" /\ p \in pass.todo
  /\ pass.head[p] # None
  /\ BudgetSpent(p)
  /\ Done(p)
  /\ UNCHANGED <<signerVars, capacity, active, offers, offering, attempts, changes>>

\* RemoveOfferFor: forgotten as soon as the pool took it.
RemoveOfferFor(p) ==
  /\ pass # Resting /\ pass.pc = "withdraw" /\ p \in pass.todo
  /\ pass.head[p] # None
  /\ ~BudgetSpent(p)
  /\ \/ SubmitSigned(Withdrawal(p)) /\ Forget(p)
     \/ /\ SubmitFails(Withdrawal(p))
        /\ attempts' = [attempts EXCEPT ![p] = @ + 1]
        /\ UNCHANGED offering
  /\ Done(p)
  /\ UNCHANGED <<capacity, active, offers, changes>>

\* A failed FinalizedOffer read leaves the provider to the next pass.
OfferReadFails(p) ==
  /\ pass # Resting /\ p \in pass.todo
  /\ Done(p)
  /\ Fault
  /\ UNCHANGED <<slot, capacity, active, offers, offering, attempts, changes>>

PassEnds ==
  /\ pass # Resting /\ pass.pc = "withdraw" /\ pass.todo = {}
  /\ pass' = Resting
  /\ UNCHANGED <<signerVars, capacity, active, offers, offering, attempts, changes>>

\* The pallet: an announcement needs an Active provider, a withdrawal an offer.
ExecuteOffer ==
  /\ \E p \in Providers :
       \/ \E c \in Capacities :
            /\ Finalizes(Announcement(p, c))
            /\ offers' = [offers EXCEPT ![p] = IF active[p] THEN c ELSE @]
       \/ Finalizes(Withdrawal(p)) /\ offers' = [offers EXCEPT ![p] = None]
  /\ UNCHANGED <<faults, capacity, active, offering, attempts, pass, blocked, changes>>

Change == changes < MaxChanges /\ changes' = changes + 1

\* A heartbeat reports a capacity, or the provider stops being schedulable.
DirectoryChanges(p) ==
  /\ \E c \in Capacities \union {None} :
       c # capacity[p] /\ capacity' = [capacity EXCEPT ![p] = c]
  /\ Change
  /\ UNCHANGED <<signerVars, active, offers, offering, attempts, pass, blocked>>

RegistryChanges(p) ==
  /\ active' = [active EXCEPT ![p] = ~@]
  /\ Change
  /\ UNCHANGED <<signerVars, capacity, offers, offering, attempts, pass, blocked>>

ControlPlaneRestart ==
  /\ offering' = {}
  /\ attempts' = [p \in Providers |-> 0]
  /\ pass' = Resting
  /\ blocked' = FALSE
  /\ Fault
  /\ UNCHANGED <<slot, capacity, active, offers, changes>>

\* AnnounceOfferFor and RemoveOfferFor begin with Registrar.mu, which the join's
\* EnsureActive and the worker's lease calls hold until they have seen finality.
MutexTaken ==
  /\ pass # Resting /\ ~blocked
  /\ \E p \in pass.todo :
       \/ pass.pc = "announce" /\ ~offersEqual(pass.head[p], pass.list[p])
       \/ pass.pc = "withdraw" /\ pass.head[p] # None /\ ~BudgetSpent(p)
  /\ blocked' = TRUE
  /\ UNCHANGED <<signerVars, capacity, active, offers, offering, attempts, pass, changes>>

MutexFreed ==
  /\ blocked /\ blocked' = FALSE
  /\ UNCHANGED <<signerVars, capacity, active, offers, offering, attempts, pass, changes>>

PassStep ==
  /\ ~blocked /\ UNCHANGED blocked
  /\ \/ ReconcileOnce \/ WithdrawLoop \/ PassEnds
     \/ \E p \in Providers :
          \/ AnnounceSkipped(p) \/ AnnounceOfferFor(p)
          \/ AlreadyGone(p) \/ GivesUp(p) \/ RemoveOfferFor(p) \/ OfferReadFails(p)

OfferNext ==
  \/ PassStep
  \/ MutexTaken \/ MutexFreed
  \/ ExecuteOffer
  \/ (Include \/ PoolLoses) /\ UNCHANGED offerVars
  \/ \E p \in Providers : DirectoryChanges(p) \/ RegistryChanges(p)
  \/ ControlPlaneRestart
----------------------------------------------------------------------------
\* The directory, the offers on chain and what the process remembers of them.
OfferTypeOK ==
  /\ capacity \in [Providers -> Capacities \union {None}]
  /\ active \in [Providers -> BOOLEAN]
  /\ offers \in [Providers -> Capacities \union {None}]
  /\ offering \subseteq Providers
  /\ attempts \in [Providers -> 0..MaxWithdrawAttempts]
  /\ blocked \in BOOLEAN

(***************************************************************************)
(* Two announcements of one pass are signed for the same nonce and the     *)
(* second displaces the first, and an announcement may be lost or refused; *)
(* still, once the directory settles and the registry has every listed     *)
(* provider Active, each of them ends up with exactly its capacity on      *)
(* offer, because every pass compares with finalized state again. The      *)
(* hypothesis speaks of all providers for a reason: one that the registry  *)
(* refuses is announced again in every pass and may displace the others'   *)
(* announcements for ever. And nobody may keep Registrar.mu for ever, as   *)
(* EnsureActive can (RegistrationSettles of ProviderSession): Lock has no  *)
(* deadline, and the pass would wait with it.                              *)
(***************************************************************************)
OfferConverges ==
  []<>~blocked /\ <>[](\A p \in Providers : capacity[p] # None => active[p])
    => \A p \in Providers : <>[](capacity[p] # None => offers[p] = capacity[p])
=============================================================================
