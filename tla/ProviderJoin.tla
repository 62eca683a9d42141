---------------------------- MODULE ProviderJoin ----------------------------
(***************************************************************************)
(* A provider's way into the network: BeginJoin and CompleteJoin of        *)
(* internal/providerjoin, the rows they commit, the on-chain registration  *)
(* that CompleteJoin and the Reconciler both drive through the one         *)
(* Registrar of the process, and the operator's revocation.                *)
(*                                                                         *)
(* Requests are well formed and signed by the identity they name; a        *)
(* rejected one changes nothing and is not an action. The Registrar's      *)
(* nonces are abstracted: what a call submitted waits in pending until     *)
(* the chain executes it, with or without effect, or the pool loses it.    *)
(***************************************************************************)
EXTENDS Naturals, Sequences, FiniteSets

CONSTANTS
  Providers,
  Starts,           \* who may have joined before the model starts, in order
  Begins,           \* begin_request_id values: one challenge each
  Joins,            \* request_id values of CompleteJoin
  Handlers,         \* RPC handlers that may be in flight together
  Sweeper,          \* the Reconciler's goroutine
  MaxAttempts,      \* ReconcilerConfig.MaxAttempts
  MaxFaults,        \* bound: failed chain reads, failed writes, restarts, and
                    \* status changes made by others than the Registrar
  None

ASSUME JoinAssumption ==
  /\ Sweeper \notin Handlers
  /\ None \notin Providers \union Begins \union Handlers \union {Sweeper}
  /\ None \notin {"PENDING", "ACTIVE", "REVOKED", "READY", "RETRY", "FAILED", "FINALIZED"}
  /\ MaxAttempts \in Nat \ {0}
  /\ MaxFaults \in Nat

ASSUME StartAssumption == Starts \subseteq Seq(Providers)

VARIABLES
  row,              \* providers.status
  outbox,           \* provider_chain_registrations
  challenge,        \* provider_join_challenges
  completion,       \* provider_join_completions
  chain,            \* finalized Providers[p].status of the registry pallet
  bonded,           \* finalized ProviderBonds[p] is at least MinStake
  pending,          \* submitted, not yet executed status changes
  lock,             \* holder of Registrar.mu
  call,             \* what each handler and the Reconciler are doing
  batch,            \* the rest of ReconcileOnce's list: attempt counts read
  faults

joinDb == <<row, outbox, challenge, completion>>
joinChain == <<chain, bonded, pending>>
joinVars == <<row, outbox, challenge, completion, chain, bonded, pending,
              lock, call, batch, faults>>

Callers == Handlers \union {Sweeper}
Statuses == {None, "PENDING", "ACTIVE", "REVOKED"}
OutboxStates == {None, "READY", "RETRY", "FAILED", "FINALIZED"}
ChainStatuses == {"Absent", "Registered", "Verified", "Active", "Suspended", "Removed"}
\* via: the provider whose connection a heartbeat came over.
Idle == [pc |-> "idle", p |-> None, n |-> 0, via |-> None]

\* Where a call stands: waiting for the mutex, waiting for finality, about to
\* activate, or (heartbeats) about to record what was reported.
Steps == {"idle", "lock", "wait", "activate", "check", "record"}

JoinInit(joined) ==
  /\ row = [p \in Providers |-> IF p \in joined THEN "ACTIVE" ELSE None]
  /\ outbox = [p \in Providers |->
       [state |-> IF p \in joined THEN "FINALIZED" ELSE None, attempts |-> 0, due |-> p \in joined]]
  /\ challenge = [b \in Begins |-> [p |-> None, state |-> "none"]]
  /\ completion = [j \in Joins |-> None]
  /\ chain = [p \in Providers |-> IF p \in joined THEN "Active" ELSE "Absent"]
  /\ bonded = [p \in Providers |-> p \in joined]
  /\ pending = [p \in Providers |-> <<>>]
  /\ lock = None
  /\ call = [c \in Callers |-> Idle]
  /\ batch = [p \in Providers |-> None]
  /\ faults = 0

Goto(c, step) == call' = [call EXCEPT ![c].pc = step]
Return(c) == call' = [call EXCEPT ![c] = Idle]
Fault == faults < MaxFaults /\ faults' = faults + 1

\* The begin_request_id makes a repeated call return the first challenge.
BeginJoin(b, p) ==
  /\ challenge[b].p = None
  /\ challenge' = [challenge EXCEPT ![b] = [p |-> p, state |-> "open"]]
  /\ UNCHANGED <<row, outbox, completion, joinChain, lock, call, batch, faults>>

ChallengeExpires(b) ==
  /\ challenge[b].state = "open"
  /\ challenge' = [challenge EXCEPT ![b].state = "expired"]
  /\ UNCHANGED <<row, outbox, completion, joinChain, lock, call, batch, faults>>

Spendable(b) == challenge[b].state = "open"

\* The transaction of a new request: the row of a known provider keeps its
\* status, its outbox row is kept as it is, the challenge is consumed.
CommitJoin(j, b) ==
  LET p == challenge[b].p
  IN  /\ Spendable(b)
      /\ challenge' = [challenge EXCEPT ![b].state = "consumed"]
      /\ completion' = [completion EXCEPT ![j] = b]
      /\ row' = [row EXCEPT ![p] = IF @ = None THEN "PENDING" ELSE @]
      /\ outbox' = [outbox EXCEPT ![p] =
           IF @.state = None THEN [state |-> "READY", attempts |-> 0, due |-> TRUE] ELSE @]

\* A repeated request gets the provider's status, a new one PENDING whatever
\* the row says; only ACTIVE skips the chain.
CompleteJoin(h, j, b) ==
  LET p == challenge[b].p
      known == completion[j] # None
      status == IF known THEN row[p] ELSE "PENDING"
  IN  /\ call[h].pc = "idle"
      /\ p # None
      /\ IF known THEN completion[j] = b /\ UNCHANGED joinDb ELSE CommitJoin(j, b)
      /\ call' = [call EXCEPT ![h] =
           IF status = "ACTIVE" THEN Idle ELSE [pc |-> "lock", p |-> p, n |-> 0, via |-> None]]
      /\ UNCHANGED <<joinChain, lock, batch, faults>>

\* The status changes that take the registry's record to Active.
StepsTo(status) ==
  CASE status = "Absent" -> <<"Registered", "Verified", "Active">>
    [] status = "Registered" -> <<"Verified", "Active">>
    [] status = "Verified" -> <<"Active">>
    [] OTHER -> <<>>

\* A suspended or a removed provider is none of the Registrar's business.
Unsupported(p) == chain[p] \in {"Suspended", "Removed"}

\* EnsureActive under the mutex: finalized state is read, the missing steps are
\* submitted at once. pending already holding some is a resubmission.
EnsureActive(c) ==
  LET p == call[c].p
  IN  /\ call[c].pc = "lock" /\ lock = None /\ ~Unsupported(p)
      /\ IF chain[p] = "Active"
           THEN Goto(c, "activate") /\ UNCHANGED <<lock, pending>>
           ELSE /\ Goto(c, "wait")
                /\ lock' = c
                /\ pending' = [pending EXCEPT ![p] = StepsTo(chain[p])]
      /\ UNCHANGED <<joinDb, chain, bonded, batch, faults>>

\* Mutant: the wait ends as soon as the record exists.
FinalizedEarly(p) == chain[p] # "Absent"
Finalized(p) == chain[p] = "Active"

WaitForFinalizedStatus(c) ==
  /\ call[c].pc = "wait" /\ Finalized(call[c].p)
  /\ lock' = None
  /\ Goto(c, "activate")
  /\ UNCHANGED <<joinDb, joinChain, batch, faults>>

\* RecordChainRegistrationFailure, with the attempt count the list held.
Failed(p, attempt) ==
  [state |-> IF attempt >= MaxAttempts THEN "FAILED" ELSE "RETRY",
   attempts |-> outbox[p].attempts + 1, due |-> FALSE]

\* EnsureActive returns an error: a handler answers Unavailable, the Reconciler
\* records the failure.
GiveUp(c) ==
  /\ lock' = IF lock = c THEN None ELSE lock
  /\ Return(c)
  /\ outbox' = IF c = Sweeper
                 THEN [outbox EXCEPT ![call[c].p] = Failed(call[c].p, call[c].n + 1)]
                 ELSE outbox
  /\ UNCHANGED <<row, challenge, completion, joinChain, batch>>

UnsupportedStatus(c) ==
  /\ call[c].pc = "lock" /\ lock = None /\ Unsupported(call[c].p)
  /\ GiveUp(c)
  /\ UNCHANGED faults

\* The node does not answer, or the submission is refused.
ChainCallFails(c) ==
  /\ \/ call[c].pc = "lock" /\ lock = None
     \/ call[c].pc = "wait"
  /\ Fault
  /\ GiveUp(c)

\* The context of a handler ends. Waiting for the mutex heeds no context, and
\* the Reconciler's context is the life of the process.
WaitAborted(h) ==
  /\ call[h].pc = "wait"
  /\ GiveUp(h)
  /\ UNCHANGED faults

\* ActivateProvider: no status of the row is excepted.
ActivateProvider(c) ==
  LET p == call[c].p
  IN  /\ call[c].pc = "activate"
      /\ row' = [row EXCEPT ![p] = "ACTIVE"]
      /\ outbox' = [outbox EXCEPT ![p].state = "FINALIZED"]
      /\ Return(c)
      /\ UNCHANGED <<challenge, completion, joinChain, lock, batch, faults>>

\* The write fails: the handler answers an error, the Reconciler logs it.
ActivationLost(c) ==
  /\ call[c].pc = "activate" /\ Fault
  /\ Return(c)
  /\ UNCHANGED <<joinDb, joinChain, lock, batch>>

Due(p) == outbox[p].state \in {"READY", "RETRY"} /\ outbox[p].due

\* DueChainRegistrations: the status of the provider's row is not looked at.
ReconcileOnce ==
  /\ call[Sweeper].pc = "idle"
  /\ \A p \in Providers : batch[p] = None
  /\ \E p \in Providers : Due(p)
  /\ batch' = [p \in Providers |-> IF Due(p) THEN outbox[p].attempts ELSE None]
  /\ UNCHANGED <<joinDb, joinChain, lock, call, faults>>

ReconcileOne(p) ==
  /\ call[Sweeper].pc = "idle" /\ batch[p] # None
  /\ call' = [call EXCEPT ![Sweeper] = [pc |-> "lock", p |-> p, n |-> batch[p], via |-> None]]
  /\ batch' = [batch EXCEPT ![p] = None]
  /\ UNCHANGED <<joinDb, joinChain, lock, faults>>

\* The backoff of a RETRY row ends.
BackoffEnds(p) ==
  /\ outbox[p].state = "RETRY" /\ ~outbox[p].due
  /\ outbox' = [outbox EXCEPT ![p].due = TRUE]
  /\ UNCHANGED <<row, challenge, completion, joinChain, lock, call, batch, faults>>

\* controlplane-admin revoke-provider.
RevokeProvider(p) ==
  /\ row[p] \in {"PENDING", "ACTIVE"}
  /\ row' = [row EXCEPT ![p] = "REVOKED"]
  /\ UNCHANGED <<outbox, challenge, completion, joinChain, lock, call, batch, faults>>

\* valid_transition, and the entry that register_provider(_for) makes.
Transitions ==
  {<<"Absent", "Registered">>, <<"Registered", "Verified">>, <<"Verified", "Active">>,
   <<"Active", "Suspended">>, <<"Suspended", "Active">>}
    \union {"Registered", "Verified", "Active", "Suspended"} \X {"Removed"}

\* Only the edge from Verified to Active asks for the bond.
Allowed(p, to) ==
  /\ <<chain[p], to>> \in Transitions
  /\ chain[p] = "Verified" /\ to = "Active" => bonded[p]

\* The registry pallet executes the next pending status change; one that is
\* not allowed is finalized as a failure.
ChainExecutes(p) ==
  LET to == Head(pending[p])
  IN  /\ pending[p] # <<>>
      /\ pending' = [pending EXCEPT ![p] = Tail(@)]
      /\ chain' = [chain EXCEPT ![p] = IF Allowed(p, to) THEN to ELSE @]
      /\ UNCHANGED <<joinDb, bonded, lock, call, batch, faults>>

\* The pool loses what was submitted (a ban, a replacement, a node restart).
PoolLoses(p) ==
  /\ pending[p] # <<>> /\ Fault
  /\ pending' = [pending EXCEPT ![p] = <<>>]
  /\ UNCHANGED <<joinDb, chain, bonded, lock, call, batch>>

\* bond_stake is the provider's own call, open to registered providers.
Bond(p) ==
  /\ chain[p] # "Absent" /\ ~bonded[p]
  /\ bonded' = [bonded EXCEPT ![p] = TRUE]
  /\ UNCHANGED <<joinDb, chain, pending, lock, call, batch, faults>>

\* The provider registers itself, governance moves it on, back or out, a slash
\* suspends it: calls that are not the Registrar's.
SetStatus(p, to) ==
  /\ Allowed(p, to)
  /\ Fault
  /\ chain' = [chain EXCEPT ![p] = to]
  /\ UNCHANGED <<joinDb, bonded, pending, lock, call, batch>>

\* The Control Plane restarts: calls and the mutex are gone, rows are not.
Restart ==
  /\ Fault
  /\ call' = [c \in Callers |-> Idle]
  /\ lock' = None
  /\ batch' = [p \in Providers |-> None]
  /\ UNCHANGED <<joinDb, joinChain>>

Drive(c) ==
  \/ EnsureActive(c)
  \/ WaitForFinalizedStatus(c)
  \/ UnsupportedStatus(c)
  \/ ChainCallFails(c)
  \/ ActivateProvider(c)
  \/ ActivationLost(c)

Reconcile == ReconcileOnce \/ \E p \in Providers : ReconcileOne(p)

JoinNext ==
  \/ \E b \in Begins : ChallengeExpires(b) \/ \E p \in Providers : BeginJoin(b, p)
  \/ \E h \in Handlers, j \in Joins, b \in Begins : CompleteJoin(h, j, b)
  \/ \E c \in Callers : Drive(c)
  \/ \E h \in Handlers : WaitAborted(h)
  \/ Reconcile
  \/ \E p \in Providers :
       \/ BackoffEnds(p)
       \/ RevokeProvider(p)
       \/ ChainExecutes(p)
       \/ PoolLoses(p)
       \/ Bond(p)
       \/ \E to \in ChainStatuses : SetStatus(p, to)
  \/ Restart

-----------------------------------------------------------------------------
\* The columns, the Registrar's steps and the callers' program counters.
JoinTypeOK ==
  /\ row \in [Providers -> Statuses]
  /\ outbox \in [Providers -> [state : OutboxStates, attempts : 0 .. MaxAttempts, due : BOOLEAN]]
  /\ challenge \in [Begins -> [p : Providers \union {None},
                               state : {"none", "open", "consumed", "expired"}]]
  /\ completion \in [Joins -> Begins \union {None}]
  /\ chain \in [Providers -> ChainStatuses]
  /\ bonded \in [Providers -> BOOLEAN]
  /\ \A p \in Providers : pending[p] \in {StepsTo(s) : s \in ChainStatuses}
  /\ lock \in Callers \union {None}
  /\ \A c \in Callers : call[c].pc \in Steps
  /\ batch \in [Providers -> 0 .. MaxAttempts \union {None}]
  /\ faults \in 0 .. MaxFaults

\* A status the registry gives only to a provider that was Active, or that was
\* taken out of it.
Admissible == {"Active", "Suspended", "Removed"}

\* A provider whose row is ACTIVE had its Active status finalized on chain,
\* whichever of CompleteJoin and the Reconciler activated it, through lost
\* extrinsics, aborted waits and restarts (EnsureActive before ActivateProvider):
\* its record is never one that was still on its way there.
ActiveIsFinalized ==
  \A p \in Providers : row[p] = "ACTIVE" => chain[p] \in Admissible

\* A challenge is answered once: no two CompleteJoin requests were committed
\* for the same challenge, and each one's provider has a row and an outbox row.
ChallengeSpentOnce ==
  \A j \in Joins :
    LET b == completion[j]
    IN  b # None => /\ row[challenge[b].p] # None
                    /\ outbox[challenge[b].p].state # None
                    /\ \A k \in Joins : completion[k] = b => k = j

\* FAILED is reached by MaxAttempts failures of the Reconciler and never by
\* fewer, though CompleteJoin settles and failures reopen the row meanwhile.
FailedIsExhausted ==
  \A p \in Providers :
    /\ outbox[p].state = "FAILED" => outbox[p].attempts = MaxAttempts
    /\ outbox[p].attempts = MaxAttempts => outbox[p].state \in {"FAILED", "FINALIZED"}

=============================================================================
