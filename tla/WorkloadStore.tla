---------------------------- MODULE WorkloadStore ----------------------------
(***************************************************************************)
(* The workloads table and everybody who writes it: tenants (submit, stop),*)
(* orchestrator workers (claim a row, work on a snapshot of it, write the  *)
(* outcome back) and Agents' heartbeats (ReconcileFromAgent).              *)
(*                                                                         *)
(* Between its claim and its write a worker works on what it read: another *)
(* worker may have claimed the row since, a tenant may have stopped it, an *)
(* Agent may have reported on it. Every UPDATE increments the row's        *)
(* version and every worker write is conditional on the version it read.   *)
(* Only the equality of the two versions is ever looked at, so a snapshot  *)
(* carries `current`: no write has hit the row since the claim.            *)
(*                                                                         *)
(* The five reserved_* columns pass the same test in AssignLease; one      *)
(* stands for all. worker_lease_until and next_attempt_at are compared     *)
(* with now() only: `live` and `delayed` are the results, and time passing *)
(* is ClaimLapses and RetryDue.                                            *)
(***************************************************************************)
EXTENDS Integers, FiniteSets

CONSTANTS
  Workloads,    \* workload ids that may be submitted
  Workers,      \* orchestrator processes, by worker_id
  Providers,    \* registered providers
  StopIds,      \* request ids of stop requests
  MaxAttempts,  \* RetryPolicy.MaxAttempts
  Reserved,     \* Reserved[w]: what w's definition reserves
  Capacity,     \* Capacity[p]: the ProviderCapacity workers build for p
  None          \* SQL NULL

ASSUME StoreAssumption ==
  /\ IsFiniteSet(Workloads)
  /\ MaxAttempts \in Nat \ {0}
  /\ Reserved \in [Workloads -> Nat]
  /\ Capacity \in [Providers -> Nat]
  /\ None \notin Workloads \cup Workers \cup Providers \cup StopIds

VARIABLES
  row,       \* row[w]: the row of w
  item,      \* item[k]: the claimed workload that worker k is processing
  leaseSeq   \* workload_lease_id_seq

storeVars == <<row, item, leaseSeq>>

Terminal == {"STOPPED", "COMPLETED", "FAILED"}
Workable == {"REQUESTED", "SCHEDULING", "LEASE_PENDING", "LEASED",
             "DEPLOYING", "STOPPING"}
States   == Workable \cup {"ABSENT", "RUNNING"} \cup Terminal

\* The states whose reservations count against the provider's capacity.
Open == {"LEASE_PENDING", "LEASED", "DEPLOYING", "RUNNING"}

\* The states in which processOne may end in retry().
Retryable == {"SCHEDULING", "LEASE_PENDING", "DEPLOYING", "STOPPING"}

\* What a heartbeat may say of a workload, where reconciliation acts on it.
ReportedPhases == {"RUNNING", "FAILED", "LOST", "STOPPED"}

Rows == [state    : States,
         provider : Providers \cup {None},
         lease    : Nat,                    \* 0 is NULL
         stop     : StopIds \cup {None},    \* stop_request_id
         attempts : Nat,                    \* attempt_count
         delayed  : BOOLEAN,                \* next_attempt_at > now()
         worker   : Workers \cup {None},    \* worker_id
         live     : BOOLEAN]                \* worker_lease_until > now()

Items == [id : Workloads \cup {None}, seen : Rows, current : BOOLEAN]

NoRow == [state |-> "ABSENT", provider |-> None, lease |-> 0, stop |-> None,
          attempts |-> 0, delayed |-> FALSE, worker |-> None, live |-> FALSE]

NoItem == [id |-> None, seen |-> NoRow, current |-> FALSE]

-----------------------------------------------------------------------------

Unclaimed(r) == [r EXCEPT !.worker = None, !.live = FALSE]

\* Any UPDATE of w's row: its version moves past every snapshot of it.
\* own is the snapshot the writer k is left with (k = None: not a worker).
Update(w, r, k, own) ==
  /\ row' = [row EXCEPT ![w] = r]
  /\ item' = [j \in Workers |->
                IF j = k THEN own
                ELSE IF item[j].id = w THEN [item[j] EXCEPT !.current = FALSE]
                ELSE item[j]]

\* Mutant: any live claim will do, whoever holds it and whatever was written.
HoldsClaimUnfenced(k) == item[k].id # None /\ row[item[k].id].live

\* version=$v AND worker_id=$k AND worker_lease_until>now()
HoldsClaim(k) ==
  /\ item[k].id # None
  /\ item[k].current
  /\ row[item[k].id].worker = k
  /\ row[item[k].id].live

\* A worker's conditional write, from one of the states in `from`: the
\* claim is released and processOne returns.
Mark(k, from, r) ==
  /\ HoldsClaim(k)
  /\ row[item[k].id].state \in from
  /\ Update(item[k].id, Unclaimed(r), k, NoItem)

\* SUM(reserved_...) over the open workloads assigned to p: the number of
\* reserved units, each counted with its workload.
OpenOn(p) == {w \in Workloads : row[w].provider = p /\ row[w].state \in Open}
Units(S) == UNION {{w} \X (1 .. Reserved[w]) : w \in S}
ReservedTotal(p) == Cardinality(Units(OpenOn(p)))

-----------------------------------------------------------------------------
(* Tenants. *)

\* SubmitWorkload: a second submission of the same request changes nothing.
CreateOrGet(w) ==
  /\ row[w].state = "ABSENT"
  /\ Update(w, [row[w] EXCEPT !.state = "REQUESTED"], None, NoItem)
  /\ UNCHANGED leaseSeq

\* Mutant: the stop does not increment the version.
RequestStopUnversioned(w, s) ==
  /\ row[w].state \notin {"ABSENT"} \cup Terminal
  /\ row[w].stop = None
  /\ row' = [row EXCEPT ![w].stop = s, ![w].state = "STOPPING"]
  /\ UNCHANGED <<item, leaseSeq>>

\* Mutant: a terminal workload is sent back to STOPPING.
RequestStopOfTerminal(w, s) ==
  /\ row[w].state # "ABSENT"
  /\ row[w].stop = None
  /\ Update(w, Unclaimed([row[w] EXCEPT !.stop = s, !.state = "STOPPING"]),
            None, NoItem)
  /\ UNCHANGED leaseSeq

\* StopWorkload, by owner or by project. A repeated request changes nothing;
\* stop_request_id is unique.
RequestStop(w, s) ==
  /\ row[w].state # "ABSENT"
  /\ row[w].stop = None
  /\ \A v \in Workloads : row[v].stop # s
  /\ Update(w, Unclaimed([row[w] EXCEPT
                            !.stop = s,
                            !.state = IF @ \in Terminal THEN @ ELSE "STOPPING",
                            !.delayed = FALSE]), None, NoItem)
  /\ UNCHANGED leaseSeq

-----------------------------------------------------------------------------
(* Workers. FOR UPDATE SKIP LOCKED passes over the rows that concurrent    *)
(* transactions hold, so any claimable row may be the one that is claimed. *)

Claimable(r) == r.state \in Workable /\ ~r.delayed /\ ~r.live

ClaimNext(k, w) ==
  /\ item[k].id = None
  /\ Claimable(row[w])
  /\ LET r == [row[w] EXCEPT !.worker = k, !.live = TRUE]
     IN  Update(w, r, k, [id |-> w, seen |-> r, current |-> TRUE])
  /\ UNCHANGED leaseSeq

BeginScheduling(k) ==
  /\ item[k].seen.state = "REQUESTED"
  /\ Mark(k, {"REQUESTED"}, [row[item[k].id] EXCEPT !.state = "SCHEDULING"])
  /\ UNCHANGED leaseSeq

\* Mutant: the workload's own reservation is left out of the comparison.
AssignLeaseOwnIgnored(k, p) ==
  /\ item[k].seen.state = "SCHEDULING"
  /\ ReservedTotal(p) <= Capacity[p]
  /\ Mark(k, {"SCHEDULING"}, [row[item[k].id] EXCEPT !.state = "LEASE_PENDING",
                                                     !.provider = p,
                                                     !.lease = leaseSeq + 1])
  /\ leaseSeq' = leaseSeq + 1

\* The SUM and the UPDATE are one SERIALIZABLE transaction.
AssignLease(k, p) ==
  /\ item[k].seen.state = "SCHEDULING"
  /\ ReservedTotal(p) + Reserved[item[k].id] <= Capacity[p]
  /\ Mark(k, {"SCHEDULING"}, [row[item[k].id] EXCEPT !.state = "LEASE_PENDING",
                                                     !.provider = p,
                                                     !.lease = leaseSeq + 1])
  /\ leaseSeq' = leaseSeq + 1

MarkLeased(k) ==
  /\ item[k].seen.state = "LEASE_PENDING"
  /\ row[item[k].id].lease = item[k].seen.lease
  /\ Mark(k, {"LEASE_PENDING"}, [row[item[k].id] EXCEPT !.state = "LEASED",
                                                        !.delayed = FALSE])
  /\ UNCHANGED leaseSeq

MarkDeploying(k) ==
  /\ item[k].seen.state = "LEASED"
  /\ row[item[k].id].lease = item[k].seen.lease
  /\ Mark(k, {"LEASED"}, [row[item[k].id] EXCEPT !.state = "DEPLOYING"])
  /\ UNCHANGED leaseSeq

MarkRunning(k) ==
  /\ item[k].seen.state = "DEPLOYING"
  /\ Mark(k, {"DEPLOYING"}, [row[item[k].id] EXCEPT !.state = "RUNNING",
                                                    !.delayed = FALSE])
  /\ UNCHANGED leaseSeq

MarkStopped(k) ==
  /\ item[k].seen.state = "STOPPING"
  /\ item[k].seen.lease # 0
  /\ row[item[k].id].lease = item[k].seen.lease
  /\ Mark(k, {"STOPPING"}, [row[item[k].id] EXCEPT !.state = "STOPPED",
                                                   !.delayed = FALSE])
  /\ UNCHANGED leaseSeq

\* retry() decides on the attempt count of the snapshot, RetryLater and
\* MarkFailed increment the one in the row.
RetryLater(k) ==
  /\ item[k].seen.state \in Retryable
  /\ item[k].seen.attempts + 1 < MaxAttempts
  /\ Mark(k, Workable, [row[item[k].id] EXCEPT !.attempts = @ + 1,
                                               !.delayed = TRUE])
  /\ UNCHANGED leaseSeq

MarkFailed(k) ==
  /\ item[k].seen.state \in Retryable
  /\ item[k].seen.attempts + 1 >= MaxAttempts
  /\ Mark(k, Workable, [row[item[k].id] EXCEPT !.state = "FAILED",
                                               !.attempts = @ + 1,
                                               !.delayed = FALSE])
  /\ UNCHANGED leaseSeq

\* processOne returns without writing: an error it does not retry, a write
\* that met no row (ErrConflict), or the process died.
Abandon(k) ==
  /\ item[k].id # None
  /\ item' = [item EXCEPT ![k] = NoItem]
  /\ UNCHANGED <<row, leaseSeq>>

-----------------------------------------------------------------------------
(* Heartbeats: conditional on the provider and on the state, not on a      *)
(* claim.                                                                  *)

\* Mutant: an Agent that still runs the workload undoes the stop.
ReconcileFromStopping(phase) ==
  CASE phase = "RUNNING" -> {"DEPLOYING", "STOPPING"}
    [] phase \in {"FAILED", "LOST"} -> {"DEPLOYING", "RUNNING"}
    [] phase = "STOPPED" -> {"RUNNING", "DEPLOYING", "STOPPING"}

\* Mutant: LOST is stored as it was reported.
ReconcileToReported(phase) == phase

ReconcileFrom(phase) ==
  CASE phase = "RUNNING" -> {"DEPLOYING"}
    [] phase \in {"FAILED", "LOST"} -> {"DEPLOYING", "RUNNING"}
    [] phase = "STOPPED" -> {"RUNNING", "DEPLOYING", "STOPPING"}

ReconcileTo(phase) == IF phase = "LOST" THEN "FAILED" ELSE phase

ReconcileFromAgent(w, p, phase) ==
  /\ row[w].provider = p
  /\ row[w].state \in ReconcileFrom(phase)
  /\ Update(w, Unclaimed([row[w] EXCEPT !.state = ReconcileTo(phase),
                                        !.delayed = FALSE]), None, NoItem)
  /\ UNCHANGED leaseSeq

-----------------------------------------------------------------------------
(* Time. *)

ClaimLapses(w) ==
  /\ row[w].live
  /\ row' = [row EXCEPT ![w].live = FALSE]
  /\ UNCHANGED <<item, leaseSeq>>

RetryDue(w) ==
  /\ row[w].delayed
  /\ row' = [row EXCEPT ![w].delayed = FALSE]
  /\ UNCHANGED <<item, leaseSeq>>

-----------------------------------------------------------------------------

Init ==
  /\ row = [w \in Workloads |-> NoRow]
  /\ item = [k \in Workers |-> NoItem]
  /\ leaseSeq = 0

Tenant(w) == CreateOrGet(w) \/ \E s \in StopIds : RequestStop(w, s)

Worker(k) ==
  \/ \E w \in Workloads : ClaimNext(k, w)
  \/ BeginScheduling(k)
  \/ \E p \in Providers : AssignLease(k, p)
  \/ MarkLeased(k)
  \/ MarkDeploying(k)
  \/ MarkRunning(k)
  \/ MarkStopped(k)
  \/ RetryLater(k)
  \/ MarkFailed(k)
  \/ Abandon(k)

Heartbeat(w) ==
  \E p \in Providers, phase \in ReportedPhases : ReconcileFromAgent(w, p, phase)

Time(w) == ClaimLapses(w) \/ RetryDue(w)

Next ==
  \/ \E w \in Workloads : Tenant(w) \/ Heartbeat(w) \/ Time(w)
  \/ \E k \in Workers : Worker(k)

Spec == Init /\ [][Next]_storeVars
-----------------------------------------------------------------------------
(* Properties. *)

\* The columns' types, the CHECK constraint on state among them.
TypeOK ==
  /\ row \in [Workloads -> Rows]
  /\ item \in [Workers -> Items]
  /\ leaseSeq \in Nat

\* The version fence: as long as no write has hit the row, what a worker read
\* at its claim is what the row still holds, the claim is still its own and no
\* retry delay runs. Every read-then-write of worker.go depends on it.
SnapshotIsExact ==
  \A k \in Workers :
    item[k].id # None /\ item[k].current =>
      /\ item[k].seen.worker = k /\ ~item[k].seen.delayed
      /\ [row[item[k].id] EXCEPT !.live = TRUE] = item[k].seen

\* An accepted stop is never undone: neither a worker that was deploying when
\* it came nor a heartbeat brings the workload back.
StopIsFinal ==
  \A w \in Workloads :
    row[w].stop # None => row[w].state \in {"STOPPING"} \cup Terminal

\* AssignLease's "hard ceiling": the open workloads assigned to a provider
\* never reserve more than its capacity, whatever workers race for it.
CapacityRespected ==
  \A p \in Providers : ReservedTotal(p) <= Capacity[p]

\* The lifetime retry budget: no workload that a worker can still claim has
\* used it up, and giving up counts as the last attempt (issue #138).
AttemptBudget ==
  \A w \in Workloads :
    /\ row[w].attempts <= MaxAttempts
    /\ row[w].state \in Workable => row[w].attempts < MaxAttempts

\* The CHECK constraints of migration 000004 on provider_id and lease_id, and
\* no two workloads ever share an on-chain lease.
LeaseIdentity ==
  \A w \in Workloads :
    /\ row[w].state \in Open => row[w].provider # None /\ row[w].lease # 0
    /\ \A v \in Workloads : row[v].lease = row[w].lease /\ v # w => row[w].lease = 0

\* Once assigned, a workload keeps its provider and its lease: the worker that
\* deploys and the one that stops talk to the same Agent and the same lease.
AssignmentIsFinal ==
  [][\A w \in Workloads :
       row[w].lease # 0 =>
         row'[w].lease = row[w].lease /\ row'[w].provider = row[w].provider]_storeVars

\* The abstract lifecycle, with the table's state and stop_request_id columns.
Lifecycle == INSTANCE WorkloadLifecycle WITH
  state <- [w \in Workloads |-> row[w].state],
  stopping <- [w \in Workloads |-> row[w].stop # None]

\* Every behaviour of the table is one the abstract lifecycle allows: states in
\* order, terminal states final, stops immediate.
ImplementsLifecycle == Lifecycle!Spec
=============================================================================
