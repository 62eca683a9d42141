---------------------------- MODULE Orchestration ----------------------------
(***************************************************************************)
(* The whole path of a workload: orchestrator workers (processOne) drive   *)
(* the rows of WorkloadStore through lease creation on the chain and       *)
(* deployment on an Agent, while tenants stop workloads, the Agent reports *)
(* heartbeats, and everything between two calls of processOne may change.  *)
(*                                                                         *)
(* Each remote call of processOne is a step of its own, with its failure:  *)
(* an error, a lost answer, or a deadline that passes while the request is *)
(* still under way. Chain transactions outlive the worker that submitted   *)
(* them: they wait in the pool and are finalized, or dropped, later.       *)
(*                                                                         *)
(* One provider: its Agent is the instance A. Providers whose heartbeat is *)
(* stale are not found by provider(), which is one of the failures. Every  *)
(* worker is a Control Plane process of its own, with its own Registrar    *)
(* and its own overlay Manager, whose peers live in memory.                *)
(***************************************************************************)
EXTENDS Integers, Sequences, FiniteSets

CONSTANTS
  Workloads, Workers, Providers, StopIds, MaxAttempts, Reserved, Capacity,
  MaxWorkloads, Guarded, MaxQueue, MaxCrashes, None,
  Overlay,     \* the WireGuard overlay is configured
  MaxFaults    \* bound: worker crashes, database errors, and claims that
               \* lapse under a worker

\* The table's and the Agent's assumptions on the constants they share, and the
\* worker's own.
ASSUME OrchestrationAssumption ==
  /\ IsFiniteSet(Workloads)
  /\ MaxAttempts \in Nat \ {0}
  /\ Reserved \in [Workloads -> Nat]
  /\ Capacity \in [Providers -> Nat]
  /\ MaxWorkloads \in Nat \ {0}
  /\ Guarded \subseteq Workloads
  /\ MaxQueue \in Nat \ {0}
  /\ MaxCrashes \in Nat
  /\ "expiry" \notin Workers
  /\ None \notin Workloads \cup Workers \cup Providers \cup StopIds \cup {"expiry"}
  /\ Overlay \in BOOLEAN
  /\ MaxFaults \in Nat

VARIABLES
  row, item, leaseSeq,
  rec, ctr, queue, op, expiring, over, reply, up, crashes,
  pc,       \* pc[k]: where worker k is in processOne
  chain,    \* chain[l]: the finalized LeaseState of lease l
  pool,     \* submitted lease transactions, not yet finalized
  peers,    \* peers[k]: the workloads in the overlay Manager of worker k
  blocked,  \* the workers that wait for the mutex of their Registrar
  beat,     \* beat[w]: what the heartbeat under way says of w
  faults

storeVars == <<row, item, leaseSeq>>
agentVars == <<rec, ctr, queue, op, expiring, over, reply, up, crashes>>
otherVars == <<pc, chain, pool, peers, blocked, beat, faults>>
vars == <<storeVars, agentVars, otherVars>>

S == INSTANCE WorkloadStore
A == INSTANCE AgentExecutor WITH Clients <- Workers

Leases == 1 .. Cardinality(Workloads)
Transactions == Leases \X {"create", "activate", "complete"}

Id(k) == item[k].id
Seen(k) == item[k].seen
Lease(k) == item[k].seen.lease
At(k, state, step) ==
  /\ item[k].id # None
  /\ item[k].seen.state = state
  /\ pc[k] = step

Goto(k, step) == pc' = [pc EXCEPT ![k] = step] /\ UNCHANGED storeVars

-----------------------------------------------------------------------------
(* How processOne ends: with a write, conditional on the claim, or with    *)
(* retry(); a write that meets no row is ErrConflict.                      *)

Write(k, write) ==
  /\ write \/ (~S!HoldsClaim(k) /\ S!Abandon(k))
  /\ pc' = [pc EXCEPT ![k] = "idle"]

Retry(k) == Write(k, S!RetryLater(k) \/ S!MarkFailed(k))

KeepAgent == UNCHANGED agentVars
KeepRest == UNCHANGED <<chain, pool, peers, blocked, beat, faults>>

Claim(k, w) ==
  /\ pc[k] = "idle"
  /\ S!ClaimNext(k, w)
  /\ pc' = [pc EXCEPT ![k] = "claimed"]
  /\ KeepAgent /\ KeepRest

-----------------------------------------------------------------------------
(* REQUESTED, SCHEDULING, LEASED: one write. *)

BeginScheduling(k) ==
  /\ At(k, "REQUESTED", "claimed")
  /\ Write(k, S!BeginScheduling(k))
  /\ KeepAgent /\ KeepRest

\* No live provider, none that fits, or the ranking was stale.
Schedule(k) ==
  /\ At(k, "SCHEDULING", "claimed")
  /\ \/ Retry(k)
     \/ Write(k, \E p \in Providers : S!AssignLease(k, p))
  /\ KeepAgent /\ KeepRest

MarkDeploying(k) ==
  /\ At(k, "LEASED", "claimed")
  /\ Write(k, S!MarkDeploying(k))
  /\ KeepAgent /\ KeepRest

-----------------------------------------------------------------------------
(* LEASE_PENDING: EnsureLeaseActive reads the finalized lease, submits     *)
(* what is missing and polls until it is Active or its deadline passes.    *)

\* Mutant: a lease that exists is taken for an active one.
EnsureLeaseActiveCreated(k) ==
  /\ At(k, "LEASE_PENDING", "claimed") /\ k \notin blocked
  /\ \/ Retry(k) /\ UNCHANGED pool
     \/ chain[Lease(k)] # "None" /\ Write(k, S!MarkLeased(k)) /\ UNCHANGED pool
     \/ /\ chain[Lease(k)] = "None"
        /\ pool' = pool \cup {<<Lease(k), "create">>, <<Lease(k), "activate">>}
        /\ Goto(k, "awaitActive")
  /\ KeepAgent /\ UNCHANGED <<chain, peers, blocked, beat, faults>>

EnsureLeaseActive(k) ==
  /\ At(k, "LEASE_PENDING", "claimed") /\ k \notin blocked
  /\ \/ Retry(k) /\ UNCHANGED pool
     \/ chain[Lease(k)] = "Active" /\ Write(k, S!MarkLeased(k)) /\ UNCHANGED pool
     \/ /\ chain[Lease(k)] \in {"None", "Created"}
        /\ pool' = pool \cup {<<Lease(k), "activate">>}
                        \cup (IF chain[Lease(k)] = "None"
                              THEN {<<Lease(k), "create">>} ELSE {})
        /\ Goto(k, "awaitActive")
  /\ KeepAgent /\ UNCHANGED <<chain, peers, blocked, beat, faults>>

\* Mutant: the submission is not awaited.
AwaitActiveSubmitted(k) ==
  /\ At(k, "LEASE_PENDING", "awaitActive")
  /\ Retry(k) \/ Write(k, S!MarkLeased(k))
  /\ KeepAgent /\ KeepRest

AwaitActive(k) ==
  /\ At(k, "LEASE_PENDING", "awaitActive")
  /\ \/ Retry(k)
     \/ chain[Lease(k)] = "Active" /\ Write(k, S!MarkLeased(k))
  /\ KeepAgent /\ KeepRest

-----------------------------------------------------------------------------
(* DEPLOYING. After a failed attempt the Agent is asked first              *)
(* (GetRunningWorkload); the answer only decides whether to go on.         *)

CheckStatus(k) ==
  /\ At(k, "DEPLOYING", "claimed") /\ Seen(k).attempts > 0
  /\ \/ Retry(k)
     \/ /\ A!StatusOf(Id(k)) \in {"NotFound", "Running", "Created", "Deploying"}
        /\ Goto(k, "checked")
  /\ KeepAgent /\ KeepRest

Dispatch(k) ==
  /\ \/ At(k, "DEPLOYING", "checked")
     \/ At(k, "DEPLOYING", "claimed") /\ Seen(k).attempts = 0
  /\ \/ Retry(k) /\ KeepAgent
     \/ A!Call(k, "Deploy", Id(k)) /\ Goto(k, "deploy")
  /\ KeepRest

\* The answer of the Agent, or none before the deadline.
AwaitDeploy(k) ==
  /\ At(k, "DEPLOYING", "deploy")
  /\ \/ reply[k] = "ok" /\ Goto(k, "confirmDeploy") /\ KeepAgent
     \/ reply[k] = "err" /\ Retry(k) /\ KeepAgent
     \/ A!GiveUp(k) /\ Retry(k)
  /\ KeepRest

ConfirmDeploy(k) ==
  /\ At(k, "DEPLOYING", "confirmDeploy")
  /\ \/ Retry(k)
     \/ A!StatusOf(Id(k)) = "Running"
        /\ Goto(k, IF Overlay THEN "attach" ELSE "running")
  /\ KeepAgent /\ KeepRest

\* Attach finds the peer in the Manager of this process, or allocates one. When
\* it fails, the workload is stopped again, as far as the Agent can be reached.
Attach(k) ==
  /\ At(k, "DEPLOYING", "attach")
  /\ \/ /\ peers' = [peers EXCEPT ![k] = @ \cup {Id(k)}]
        /\ Goto(k, "running") /\ KeepAgent
     \/ /\ Id(k) \notin peers[k]
        /\ \/ A!Call(k, "Stop", Id(k)) /\ Goto(k, "undo")
           \/ Retry(k) /\ KeepAgent
        /\ UNCHANGED peers
  /\ UNCHANGED <<chain, pool, blocked, beat, faults>>

Undo(k) ==
  /\ At(k, "DEPLOYING", "undo")
  /\ Retry(k)
  /\ \/ reply[k] # "waiting" /\ KeepAgent
     \/ A!GiveUp(k)
  /\ KeepRest

MarkRunning(k) ==
  /\ At(k, "DEPLOYING", "running")
  /\ Write(k, S!MarkRunning(k))
  /\ KeepAgent /\ KeepRest

-----------------------------------------------------------------------------
(* STOPPING. A workload stopped before it got a lease has no lease id to   *)
(* parse: processOne returns the error and writes nothing.                 *)

\* Mutant: the lease is completed first.
DispatchStopChainFirst(k) ==
  /\ At(k, "STOPPING", "claimed")
  /\ Lease(k) # 0
  /\ Goto(k, "complete")
  /\ KeepAgent /\ KeepRest

\* Mutant: a provider that cannot be found is an error without a retry.
DispatchStopUnretried(k) ==
  /\ At(k, "STOPPING", "claimed")
  /\ \/ S!Abandon(k) /\ pc' = [pc EXCEPT ![k] = "idle"] /\ KeepAgent
     \/ Lease(k) # 0 /\ A!Call(k, "Stop", Id(k)) /\ Goto(k, "stop")
  /\ KeepRest

DispatchStop(k) ==
  /\ At(k, "STOPPING", "claimed")
  /\ \/ /\ Lease(k) = 0
        /\ S!Abandon(k) /\ pc' = [pc EXCEPT ![k] = "idle"] /\ KeepAgent
     \/ Lease(k) # 0 /\ Retry(k) /\ KeepAgent
     \/ Lease(k) # 0 /\ A!Call(k, "Stop", Id(k)) /\ Goto(k, "stop")
  /\ KeepRest

AwaitStop(k) ==
  /\ At(k, "STOPPING", "stop")
  /\ \/ reply[k] = "ok" /\ Goto(k, "confirmStop") /\ KeepAgent
     \/ reply[k] = "err" /\ Retry(k) /\ KeepAgent
     \/ A!GiveUp(k) /\ Retry(k)
  /\ KeepRest

ConfirmStop(k) ==
  /\ At(k, "STOPPING", "confirmStop")
  /\ \/ Retry(k)
     \/ A!StatusOf(Id(k)) = "Completed" /\ Goto(k, "revoke")
  /\ KeepAgent /\ KeepRest

\* Mutant: a failed revocation does not keep the lease from being completed.
RevokeIgnored(k) ==
  /\ At(k, "STOPPING", "revoke")
  /\ Goto(k, "complete")
  /\ peers' \in {peers, [peers EXCEPT ![k] = @ \ {Id(k)}]}
  /\ KeepAgent /\ UNCHANGED <<chain, pool, blocked, beat, faults>>

\* Revoke of a workload that this process has no peer for succeeds.
Revoke(k) ==
  /\ At(k, "STOPPING", "revoke")
  /\ \/ Id(k) \in peers[k] /\ Retry(k) /\ UNCHANGED peers
     \/ /\ peers' = [peers EXCEPT ![k] = @ \ {Id(k)}]
        /\ Goto(k, "complete")
  /\ KeepAgent /\ UNCHANGED <<chain, pool, blocked, beat, faults>>

EnsureLeaseCompleted(k) ==
  /\ At(k, "STOPPING", "complete") /\ k \notin blocked
  /\ \/ Retry(k) /\ UNCHANGED pool
     \/ chain[Lease(k)] = "Completed" /\ Write(k, S!MarkStopped(k)) /\ UNCHANGED pool
     \/ /\ chain[Lease(k)] = "Active"
        /\ pool' = pool \cup {<<Lease(k), "complete">>}
        /\ Goto(k, "awaitCompleted")
  /\ KeepAgent /\ UNCHANGED <<chain, peers, blocked, beat, faults>>

AwaitCompleted(k) ==
  /\ At(k, "STOPPING", "awaitCompleted")
  /\ \/ Retry(k)
     \/ chain[Lease(k)] = "Completed" /\ Write(k, S!MarkStopped(k))
  /\ KeepAgent /\ KeepRest

\* One call of processOne after its claim.
Process(k) ==
  \/ BeginScheduling(k) \/ Schedule(k) \/ MarkDeploying(k)
  \/ EnsureLeaseActive(k) \/ AwaitActive(k)
  \/ CheckStatus(k) \/ Dispatch(k) \/ AwaitDeploy(k) \/ ConfirmDeploy(k)
  \/ Attach(k) \/ Undo(k) \/ MarkRunning(k)
  \/ DispatchStop(k) \/ AwaitStop(k) \/ ConfirmStop(k) \/ Revoke(k)
  \/ EnsureLeaseCompleted(k) \/ AwaitCompleted(k)

\* A call of the database fails: processOne returns the error, having written
\* nothing.
WriteFails(k) ==
  /\ faults < MaxFaults
  /\ faults' = faults + 1
  /\ reply[k] # "waiting" /\ k \notin blocked
  /\ S!Abandon(k)
  /\ pc' = [pc EXCEPT ![k] = "idle"]
  /\ KeepAgent /\ UNCHANGED <<chain, pool, peers, blocked, beat>>

\* The worker's process dies at any point of processOne; a new one takes its
\* place, with an empty Manager.
WorkerCrash(k) ==
  /\ faults < MaxFaults
  /\ faults' = faults + 1
  /\ S!Abandon(k)
  /\ pc' = [pc EXCEPT ![k] = "idle"]
  /\ peers' = [peers EXCEPT ![k] = {}]
  /\ blocked' = blocked \ {k}
  /\ IF reply[k] = "waiting" THEN A!GiveUp(k) ELSE KeepAgent
  /\ UNCHANGED <<chain, pool, beat>>

-----------------------------------------------------------------------------
(* Registrar.mu. The process has one Registrar: the join's EnsureActive    *)
(* and the offers' AnnounceOfferFor and RemoveOfferFor lock it as well.    *)
(* Lock heeds no deadline. The mutex matters here only while this worker   *)
(* waits for it, so what the others do with it meanwhile is left out.      *)

AtRegistrar(k) == At(k, "LEASE_PENDING", "claimed") \/ At(k, "STOPPING", "complete")

\* The worker finds the mutex taken; how long is up to its holder.
MutexTaken(k) ==
  /\ AtRegistrar(k) /\ k \notin blocked
  /\ blocked' = blocked \cup {k}
  /\ UNCHANGED <<storeVars, agentVars, pc, chain, pool, peers, beat, faults>>

\* The holder unlocks; the worker, or another caller, is next.
MutexFreed(k) ==
  /\ k \in blocked
  /\ blocked' = blocked \ {k}
  /\ UNCHANGED <<storeVars, agentVars, pc, chain, pool, peers, beat, faults>>

Registrar == \E k \in Workers : MutexTaken(k) \/ MutexFreed(k)

-----------------------------------------------------------------------------
(* The lease pallet, as far as the registrar uses it. The create and the   *)
(* activate of one submission have consecutive nonces. A transaction may   *)
(* be replaced in the pool, or fail (the provider is not eligible).        *)

Apply(tx) ==
  chain' = [chain EXCEPT ![tx[1]] =
              CASE tx[2] = "create" /\ @ = "None" -> "Created"
                [] tx[2] = "activate" /\ @ = "Created" -> "Active"
                [] tx[2] = "complete" /\ @ = "Active" -> "Completed"
                [] OTHER -> @]

Finalize(tx) ==
  /\ tx \in pool
  /\ tx[2] = "activate" => <<tx[1], "create">> \notin pool
  /\ Apply(tx)
  /\ pool' = pool \ {tx}
  /\ UNCHANGED <<storeVars, agentVars, pc, peers, blocked, beat, faults>>

Drop(tx) ==
  /\ tx \in pool
  /\ pool' = pool \ {tx}
  /\ UNCHANGED <<storeVars, agentVars, pc, chain, peers, blocked, beat, faults>>

-----------------------------------------------------------------------------
(* Heartbeats: the snapshot is taken on the Agent, applied on the Control  *)
(* Plane entry by entry, later, or lost.                                   *)

SendBeat ==
  /\ up
  /\ \A w \in Workloads : beat[w] = "Unknown"
  /\ beat' = [w \in Workloads |-> rec[w].phase]
  /\ UNCHANGED <<storeVars, agentVars, pc, chain, pool, peers, blocked, faults>>

\* Mutant: a workload that is being stopped is reported as stopped.
WireStopping == [Running |-> "RUNNING", Failed |-> "FAILED", Lost |-> "LOST",
                 Stopping |-> "STOPPED", Stopped |-> "STOPPED"]

Wire == [Running |-> "RUNNING", Failed |-> "FAILED", Lost |-> "LOST",
         Stopped |-> "STOPPED"]

\* Mutant: the Agent's word is taken in every state.
DeliverBeatAlways(w) ==
  /\ beat[w] # "Unknown"
  /\ beat' = [beat EXCEPT ![w] = "Unknown"]
  /\ IF beat[w] \in DOMAIN Wire
     THEN /\ S!Update(w, [row[w] EXCEPT !.state = S!ReconcileTo(Wire[beat[w]])],
                      None, S!NoItem)
          /\ UNCHANGED leaseSeq
     ELSE UNCHANGED storeVars
  /\ UNCHANGED <<agentVars, pc, chain, pool, peers, blocked, faults>>

DeliverBeat(w) ==
  /\ beat[w] # "Unknown"
  /\ beat' = [beat EXCEPT ![w] = "Unknown"]
  /\ IF beat[w] \in DOMAIN Wire /\ row[w].state \in S!ReconcileFrom(Wire[beat[w]])
     THEN \E p \in Providers : S!ReconcileFromAgent(w, p, Wire[beat[w]])
     ELSE UNCHANGED storeVars
  /\ UNCHANGED <<agentVars, pc, chain, pool, peers, blocked, faults>>

LoseBeat ==
  /\ \E w \in Workloads : beat[w] # "Unknown"
  /\ beat' = [w \in Workloads |-> "Unknown"]
  /\ UNCHANGED <<storeVars, agentVars, pc, chain, pool, peers, blocked, faults>>

-----------------------------------------------------------------------------
(* Tenants, time and the Agent on its own. *)

Tenant(w) == S!Tenant(w) /\ KeepAgent /\ UNCHANGED otherVars

RetryDue(w) == S!RetryDue(w) /\ KeepAgent /\ UNCHANGED otherVars

Held(w) == \E k \in Workers : item[k].id = w /\ item[k].current

\* The claim of a worker that is gone lapses; two minutes may also pass under
\* a worker that is still at it.
ClaimLapses(w) ==
  /\ S!ClaimLapses(w)
  /\ IF Held(w) THEN faults < MaxFaults /\ faults' = faults + 1
                ELSE UNCHANGED faults
  /\ KeepAgent /\ UNCHANGED <<pc, chain, pool, peers, blocked, beat>>

Agent == (A!Agent \/ A!World) /\ UNCHANGED <<storeVars, otherVars>>

-----------------------------------------------------------------------------

Init ==
  /\ S!Init
  /\ A!Init
  /\ pc = [k \in Workers |-> "idle"]
  /\ chain = [l \in Leases |-> "None"]
  /\ pool = {}
  /\ peers = [k \in Workers |-> {}]
  /\ blocked = {}
  /\ beat = [w \in Workloads |-> "Unknown"]
  /\ faults = 0

Worker(k) == Process(k) \/ \E w \in Workloads : Claim(k, w)

Next ==
  \/ \E k \in Workers : Worker(k) \/ WriteFails(k) \/ WorkerCrash(k)
  \/ \E w \in Workloads : Tenant(w) \/ RetryDue(w) \/ ClaimLapses(w) \/ DeliverBeat(w)
  \/ \E tx \in Transactions : Finalize(tx) \/ Drop(tx)
  \/ SendBeat
  \/ LoseBeat
  \/ Registrar
  \/ Agent

Spec == Init /\ [][Next]_vars

(***************************************************************************)
(* Fairness. Worker.Run ticks for ever and every Agent and chain call of   *)
(* processOne has a deadline (the overlay's local commands end), so a      *)
(* worker that has not crashed goes on (Process) unless it waits for the   *)
(* Registrar's mutex, and some idle worker claims a row that stays         *)
(* claimable. Go's mutex starves nobody: who waits gets it, if it is freed *)
(* time and again. That it is freed is not assumed, nor anything of the    *)
(* Agent, the chain, the heartbeats or the tenants. Retry delays, and the  *)
(* claims of dead workers, run out.                                        *)
(***************************************************************************)
Fairness ==
  /\ \A k \in Workers : /\ WF_vars(Process(k))
                         /\ SF_vars(EnsureLeaseActive(k) \/ EnsureLeaseCompleted(k))
  /\ \A w \in Workloads : /\ WF_vars(\E k \in Workers : Claim(k, w))
                           /\ WF_vars(RetryDue(w))
                           /\ WF_vars(~Held(w) /\ ClaimLapses(w))

FairSpec == Spec /\ Fairness

-----------------------------------------------------------------------------
(* Properties. *)

LeaseStates == {"None", "Created", "Active", "Completed"}

\* The variables' types, and a worker is in processOne just when it has claimed
\* a workload, although it may die at any point.
TypeOK ==
  /\ S!TypeOK
  /\ A!TypeOK
  /\ pc \in [Workers -> {"idle", "claimed", "awaitActive", "checked", "deploy",
                         "confirmDeploy", "attach", "undo", "running", "stop",
                         "confirmStop", "revoke", "complete", "awaitCompleted"}]
  /\ \A k \in Workers : pc[k] = "idle" <=> item[k].id = None
  /\ chain \in [Leases -> LeaseStates]
  /\ pool \subseteq Transactions
  /\ peers \in [Workers -> SUBSET Workloads]
  /\ blocked \subseteq Workers
  /\ beat \in [Workloads -> A!Phases \cup {"Unknown"}]
  /\ faults \in 0 .. MaxFaults

\* "Created lease 1, verified Active at a finalized head, and only then called
\* the Agent": while the table says that a workload is being deployed or runs,
\* its lease is Active on chain. No late transaction, no worker that lost its
\* claim and no heartbeat takes the lease away under it.
LeaseBacksWork ==
  \A w \in Workloads :
    row[w].state \in {"LEASED", "DEPLOYING", "RUNNING"} =>
      chain[row[w].lease] = "Active"

\* Nothing runs on the provider that was never authorized: the lease of every
\* running container was finalized, and only a stop has completed it.
NeverRunsUnleased ==
  \A w \in Workloads :
    ctr[w] = "running" =>
      /\ row[w].lease # 0
      /\ \/ chain[row[w].lease] = "Active"
         \/ chain[row[w].lease] = "Completed" /\ row[w].stop # None

\* A lease is completed only when its container does not run, and the container
\* does not come back afterwards, whatever commands are still on their way.
CompletedIsIdle ==
  \A w \in Workloads :
    row[w].lease # 0 /\ chain[row[w].lease] = "Completed" => ctr[w] # "running"

\* MarkStopped and the heartbeats agree with the Agent: a workload the table
\* says is STOPPED has no running container, although a crash in the middle of
\* a stop leaves the container behind. A second restart voids it: recover()
\* turns the Stopped record of an exited container into Failed, and a Deploy
\* sent on an old snapshot may start that container again.
StoppedIsGone ==
  \A w \in Workloads :
    row[w].state = "STOPPED" /\ crashes < 2 => ctr[w] # "running"

\* ADR-010: stop revokes the peer before the lease is completed, through failed
\* attempts and repeated ones. Peers that a dead process left in the kernel are
\* not seen: the code keeps no trace of them.
RevokedBeforeCompletion ==
  \A w \in Workloads, k \in Workers :
    row[w].lease # 0 /\ chain[row[w].lease] = "Completed" => w \notin peers[k]

\* Workers, heartbeats and tenants touch the table only through the writes of
\* WorkloadStore: everything shown of it holds in the composed system. This is
\* S!Spec; the disjunct only lets TLC recognise a stuttering step first.
StoreIsImplemented == S!Init /\ [][UNCHANGED storeVars \/ S!Next]_storeVars

\* A stop of a workload that has a lease ends, in STOPPED or, when the Agent or
\* the chain never confirms it, in FAILED after the last attempt: provided that
\* nobody keeps Registrar.mu for ever, on which EnsureLeaseActive and
\* EnsureLeaseCompleted wait without a deadline. The join's EnsureActive may
\* keep it for ever (RegistrationSettles of ProviderSession).
LeasedStopSettles ==
  (\A k \in Workers : []<>(k \notin blocked)) =>
    \A w \in Workloads :
      row[w].stop # None /\ row[w].lease # 0 ~> row[w].state \in S!Terminal
=============================================================================
