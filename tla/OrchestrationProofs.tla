------------------------- MODULE OrchestrationProofs -------------------------
(***************************************************************************)
(* Proofs about Orchestration, for any number of workloads, workers,       *)
(* attempts, crashes and faults: the table is used only as WorkloadStore   *)
(* allows and the Agent only as AgentExecutor does, work is backed by an   *)
(* active lease, nothing runs that was never leased, and STOPPED is never  *)
(* said without a reason. With one worker, a completed lease has no        *)
(* container and no peer, and what is STOPPED is gone.                     *)
(***************************************************************************)
EXTENDS Orchestration, FiniteSetTheorems, TLAPS

-----------------------------------------------------------------------------
(* The steps of the composition are steps of the table. *)

\* What a worker writes, MarkLeased apart.
Writes(k) ==
  \/ \E w \in Workloads : S!ClaimNext(k, w)
  \/ S!BeginScheduling(k)
  \/ \E p \in Providers : S!AssignLease(k, p)
  \/ S!MarkDeploying(k) \/ S!MarkRunning(k) \/ S!MarkStopped(k)
  \/ S!RetryLater(k) \/ S!MarkFailed(k)
  \/ S!Abandon(k)

\* What processOne writes, or fails to write, is a step of the worker, and it
\* marks as LEASED only what has an active lease.
LEMMA WorkerWrites ==
  ASSUME NEW k \in Workers, Worker(k) \/ WriteFails(k) \/ WorkerCrash(k)
  PROVE  \/ UNCHANGED storeVars \/ Writes(k)
         \/ S!MarkLeased(k) /\ chain[Lease(k)] = "Active"
<1>1. /\ Retry(k) => Writes(k)
      /\ S!Abandon(k) => Writes(k)
      /\ \A step : Goto(k, step) => UNCHANGED storeVars
  BY DEF Retry, Write, Goto, Writes
<1>2. CASE BeginScheduling(k) \/ Schedule(k) \/ MarkDeploying(k)
  BY <1>1, <1>2 DEF BeginScheduling, Schedule, MarkDeploying, Write, Writes
<1>3. CASE EnsureLeaseActive(k) \/ AwaitActive(k)
  BY <1>1, <1>3 DEF EnsureLeaseActive, AwaitActive, Write
<1>4. CASE CheckStatus(k) \/ Dispatch(k) \/ AwaitDeploy(k) \/ ConfirmDeploy(k)
  BY <1>1, <1>4 DEF CheckStatus, Dispatch, AwaitDeploy, ConfirmDeploy
<1>5. CASE Attach(k) \/ Undo(k) \/ MarkRunning(k)
  BY <1>1, <1>5 DEF Attach, Undo, MarkRunning, Write, Writes
<1>6. CASE DispatchStop(k) \/ AwaitStop(k) \/ ConfirmStop(k) \/ Revoke(k)
  BY <1>1, <1>6 DEF DispatchStop, AwaitStop, ConfirmStop, Revoke
<1>7. CASE EnsureLeaseCompleted(k) \/ AwaitCompleted(k)
  BY <1>1, <1>7 DEF EnsureLeaseCompleted, AwaitCompleted, Write, Writes
<1>8. CASE WriteFails(k) \/ WorkerCrash(k)
  BY <1>1, <1>8 DEF WriteFails, WorkerCrash
<1>9. CASE \E w \in Workloads : Claim(k, w)
  BY <1>9 DEF Claim, Writes
<1>10. QED
  BY <1>2, <1>3, <1>4, <1>5, <1>6, <1>7, <1>8, <1>9 DEF Worker, Process

\* A heartbeat's entry says one of the phases that reconciliation knows.
LEMMA BeatWrites ==
  ASSUME NEW w \in Workloads, DeliverBeat(w)
  PROVE  UNCHANGED storeVars \/ S!Heartbeat(w)
<1>1. ASSUME beat[w] \in DOMAIN Wire PROVE Wire[beat[w]] \in S!ReportedPhases
  BY <1>1 DEF Wire, S!ReportedPhases
<1>2. QED
  BY <1>1 DEF DeliverBeat, S!Heartbeat

\* A step of the table, with the lease's state where it marks a row as LEASED.
TableWrites ==
  \/ UNCHANGED storeVars
  \/ \E w \in Workloads : S!Tenant(w) \/ S!Heartbeat(w) \/ S!Time(w)
  \/ \E k \in Workers : Writes(k) \/ (S!MarkLeased(k) /\ chain[Lease(k)] = "Active")

\* Every step is a step of the table or leaves it alone.
LEMMA TableStep == [Next]_vars => TableWrites
<1>1. ASSUME NEW w \in Workloads, Tenant(w) \/ RetryDue(w) \/ ClaimLapses(w)
      PROVE  TableWrites
  BY <1>1 DEF Tenant, RetryDue, ClaimLapses, TableWrites, S!Time
<1>2. ASSUME NEW tx, Finalize(tx) \/ Drop(tx) PROVE UNCHANGED storeVars
  BY <1>2 DEF Finalize, Drop
<1>3. CASE SendBeat \/ LoseBeat \/ Registrar \/ Agent
  BY <1>3 DEF SendBeat, LoseBeat, Registrar, MutexTaken, MutexFreed, Agent, TableWrites
<1>4. CASE UNCHANGED vars
  BY <1>4 DEF vars, TableWrites
<1>5. CASE Next
  BY <1>1, <1>2, <1>3, <1>5, WorkerWrites, BeatWrites DEF Next, TableWrites
<1>6. QED
  BY <1>4, <1>5

\* Workers, heartbeats and tenants touch the table only through the writes of
\* WorkloadStore, each under its own guard: the composed system implements the
\* table's specification.
THEOREM TableImplemented == Spec => StoreIsImplemented
<1>1. [Next]_vars => [UNCHANGED storeVars \/ S!Next]_storeVars
  BY TableStep DEF TableWrites, Writes, S!Next, S!Worker
<1>2. Init => S!Init
  BY DEF Init
<1>3. QED
  BY <1>1, <1>2, PTL DEF Spec, StoreIsImplemented

-----------------------------------------------------------------------------
(***************************************************************************)
(* What the system keeps of the table: a lease is assigned once, out of    *)
(* SCHEDULING, and numbers are drawn from the sequence for one workload    *)
(* each; STOPPING is the answer to a stop, and a stop is never undone.     *)
(* None of it needs the version fence: the writes' own conditions on the   *)
(* row are enough.                                                         *)
(***************************************************************************)

Working == {"LEASED", "DEPLOYING", "RUNNING"}

RowOK(r) ==
  /\ r.stop # None => r.state \in {"STOPPING"} \cup S!Terminal
  /\ r.state = "STOPPING" => r.stop # None
  /\ r.state \in {"ABSENT", "REQUESTED", "SCHEDULING"} => r.lease = 0
  /\ r.state \in Working \cup {"LEASE_PENDING"} => r.lease # 0

LeasesDistinct ==
  \A w \in Workloads :
    /\ row[w].lease <= leaseSeq
    /\ \A v \in Workloads : v # w /\ row[v].lease = row[w].lease => row[w].lease = 0

Leased == {w \in Workloads : row[w].lease # 0}

TableInv ==
  /\ S!TypeOK
  /\ \A w \in Workloads : RowOK(row[w])
  /\ LeasesDistinct
  /\ leaseSeq = Cardinality(Leased)

\* Row s may be written over row r, when the sequence goes from n to m; it is
\* Working only if r was in one of the states in `from`.
Follows(r, s, n, m, from) ==
  /\ RowOK(s)
  /\ \/ s.lease = r.lease /\ m = n
     \/ r.lease = 0 /\ s.lease = n + 1 /\ m = n + 1
  /\ r.stop # None => s.stop # None
  /\ s.state \in Working => r.state \in from

\* A step writes one row.
RowsFollow(from) ==
  \E w \in Workloads :
    /\ row' \in [Workloads -> S!Rows]
    /\ Follows(row[w], row'[w], leaseSeq, leaseSeq', from)
    /\ \A v \in Workloads : v # w => row'[v] = row[v]

\* A snapshot is the one of before, or the row just claimed.
SnapshotsFollow ==
  /\ item' \in [Workers -> S!Items]
  /\ \A k \in Workers :
       item'[k].id # None =>
         \/ item'[k].id = item[k].id /\ item'[k].seen = item[k].seen
         \/ item[k].id = None /\ item'[k].seen = row'[item'[k].id]

\* An empty snapshot has its type, and so has a row whose claim is released.
LEMMA RowTypes ==
  /\ S!NoItem \in S!Items /\ S!NoItem.id = None
  /\ \A r \in S!Rows :
       /\ S!Unclaimed(r) \in S!Rows
       /\ S!Unclaimed(r).state = r.state /\ S!Unclaimed(r).stop = r.stop
       /\ S!Unclaimed(r).lease = r.lease
BY DEF S!NoItem, S!NoRow, S!Items, S!Rows, S!States, S!Unclaimed

\* A write of a row that may follow the one it replaces.
LEMMA UpdateFollows ==
  ASSUME S!TypeOK, NEW w \in Workloads, NEW r \in S!Rows, NEW k, NEW own \in S!Items,
         NEW from,
         S!Update(w, r, k, own), Follows(row[w], r, leaseSeq, leaseSeq', from),
         own.id = None \/ (own.id = w /\ own.seen = r /\ item[k].id = None)
  PROVE  RowsFollow(from) /\ SnapshotsFollow
<1>1. row'[w] = r /\ \A v \in Workloads : v # w => row'[v] = row[v]
  BY DEF S!Update, S!TypeOK
<1>2. RowsFollow(from)
  BY <1>1 DEF RowsFollow, S!Update, S!TypeOK
<1>3. ASSUME NEW j \in Workers
      PROVE  /\ item'[j] \in S!Items
             /\ item'[j].id # None =>
                  \/ item'[j].id = item[j].id /\ item'[j].seen = item[j].seen
                  \/ item[j].id = None /\ item'[j].seen = row'[item'[j].id]
  <2>1. item[j] \in S!Items
    BY DEF S!TypeOK
  <2>2. CASE j = k
    BY <1>1, <1>3, <2>2 DEF S!Update
  <2>3. CASE j # k
    BY <2>1, <2>3 DEF S!Update, S!Items
  <2>4. QED
    BY <2>2, <2>3
<1>4. item' \in [Workers -> S!Items]
  BY <1>3 DEF S!Update
<1>5. QED
  BY <1>2, <1>3, <1>4 DEF SnapshotsFollow

\* A worker's write of a row that may follow the one it replaces.
LEMMA MarkFollows ==
  ASSUME S!TypeOK, NEW k \in Workers, NEW states, NEW r \in S!Rows, NEW from,
         S!Mark(k, states, r),
         Follows(row[item[k].id], r, leaseSeq, leaseSeq', from)
  PROVE  RowsFollow(from) /\ SnapshotsFollow
<1>1. item[k].id \in Workloads
  BY DEF S!Mark, S!HoldsClaim, S!TypeOK, S!Items
<1>2. S!Unclaimed(r) \in S!Rows /\ Follows(row[item[k].id], S!Unclaimed(r), leaseSeq, leaseSeq', from)
  BY RowTypes DEF Follows, RowOK
<1>3. QED
  BY <1>1, <1>2, RowTypes, UpdateFollows DEF S!Mark

\* Tenants.
LEMMA TenantFollows ==
  ASSUME TableInv, NEW w \in Workloads, S!Tenant(w)
  PROVE  RowsFollow(Working) /\ SnapshotsFollow
<1>1. S!TypeOK /\ row[w] \in S!Rows /\ RowOK(row[w])
  BY DEF TableInv, S!TypeOK
<1>2. CASE S!CreateOrGet(w)
  <2> DEFINE r == [row[w] EXCEPT !.state = "REQUESTED"]
  <2>1. r \in S!Rows /\ r.state = "REQUESTED" /\ r.stop = row[w].stop /\ r.lease = row[w].lease
    BY <1>1 DEF S!Rows, S!States, S!Workable
  <2>2. row[w].state = "ABSENT" /\ leaseSeq' = leaseSeq
    BY <1>2 DEF S!CreateOrGet
  <2>3. Follows(row[w], r, leaseSeq, leaseSeq', Working)
    BY <1>1, <2>1, <2>2 DEF Follows, RowOK, Working, S!Terminal
  <2>4. QED
    BY <1>1, <1>2, <2>1, <2>3, RowTypes, UpdateFollows DEF S!CreateOrGet
<1>3. ASSUME NEW s \in StopIds, S!RequestStop(w, s) PROVE RowsFollow(Working) /\ SnapshotsFollow
  <2> DEFINE r == [row[w] EXCEPT !.stop = s,
                                 !.state = IF @ \in S!Terminal THEN @ ELSE "STOPPING",
                                 !.delayed = FALSE]
  <2>1. /\ r \in S!Rows /\ r.stop = s /\ r.lease = row[w].lease
        /\ r.state = IF row[w].state \in S!Terminal THEN row[w].state ELSE "STOPPING"
    BY <1>1 DEF S!Rows, S!States, S!Workable
  <2>2. S!Update(w, S!Unclaimed(r), None, S!NoItem) /\ leaseSeq' = leaseSeq
    BY <1>3 DEF S!RequestStop
  <2> HIDE DEF r
  <2>3. /\ S!Unclaimed(r) \in S!Rows
        /\ S!Unclaimed(r).stop = s /\ S!Unclaimed(r).lease = row[w].lease
        /\ S!Unclaimed(r).state = r.state
    BY <2>1, RowTypes
  <2>4. s # None
    BY OrchestrationAssumption
  <2>5. Follows(row[w], S!Unclaimed(r), leaseSeq, leaseSeq', Working)
    BY <1>1, <2>1, <2>2, <2>3, <2>4 DEF Follows, RowOK, Working, S!Terminal
  <2>6. QED
    BY <1>1, <2>2, <2>3, <2>5, RowTypes, UpdateFollows
<1>4. QED
  BY <1>2, <1>3 DEF S!Tenant

\* Heartbeats.
LEMMA HeartbeatFollows ==
  ASSUME TableInv, NEW w \in Workloads, S!Heartbeat(w)
  PROVE  RowsFollow(Working) /\ SnapshotsFollow
<1>1. S!TypeOK /\ row[w] \in S!Rows /\ RowOK(row[w])
  BY DEF TableInv, S!TypeOK
<1>2. PICK p \in Providers, phase \in S!ReportedPhases : S!ReconcileFromAgent(w, p, phase)
  BY DEF S!Heartbeat
<1> DEFINE r == [row[w] EXCEPT !.state = S!ReconcileTo(phase), !.delayed = FALSE]
<1>3. /\ r \in S!Rows /\ r.stop = row[w].stop /\ r.lease = row[w].lease
      /\ r.state \in {"RUNNING", "FAILED", "STOPPED"}
      /\ r.state = "RUNNING" => row[w].state = "DEPLOYING"
      /\ row[w].state \in {"DEPLOYING", "RUNNING", "STOPPING"}
  <2>1. /\ S!ReconcileTo(phase) \in {"RUNNING", "FAILED", "STOPPED"}
        /\ S!ReconcileTo(phase) = "RUNNING" => row[w].state = "DEPLOYING"
        /\ row[w].state \in {"DEPLOYING", "RUNNING", "STOPPING"}
    BY <1>2 DEF S!ReconcileFromAgent, S!ReconcileTo, S!ReconcileFrom, S!ReportedPhases
  <2>2. S!ReconcileTo(phase) \in S!States
    BY <2>1 DEF S!States, S!Terminal
  <2>3. QED
    BY <1>1, <2>1, <2>2 DEF S!Rows
<1>4. S!Update(w, S!Unclaimed(r), None, S!NoItem) /\ leaseSeq' = leaseSeq
  BY <1>2 DEF S!ReconcileFromAgent
<1> HIDE DEF r
<1>5. /\ S!Unclaimed(r) \in S!Rows
      /\ S!Unclaimed(r).stop = r.stop /\ S!Unclaimed(r).lease = r.lease
      /\ S!Unclaimed(r).state = r.state
  BY <1>3, RowTypes
<1>6. Follows(row[w], S!Unclaimed(r), leaseSeq, leaseSeq', Working)
  BY <1>1, <1>3, <1>4, <1>5 DEF Follows, RowOK, Working, S!Terminal
<1>7. QED
  BY <1>1, <1>4, <1>5, <1>6, RowTypes, UpdateFollows

\* Claims and delays that run out.
LEMMA TimeFollows ==
  ASSUME TableInv, NEW w \in Workloads, S!Time(w)
  PROVE  RowsFollow(Working) /\ SnapshotsFollow
<1>1. S!TypeOK /\ row[w] \in S!Rows /\ RowOK(row[w])
  BY DEF TableInv, S!TypeOK
<1>2. ASSUME NEW r \in {[row[w] EXCEPT !.live = FALSE], [row[w] EXCEPT !.delayed = FALSE]}
      PROVE  r \in S!Rows /\ r.state = row[w].state /\ r.stop = row[w].stop /\ r.lease = row[w].lease
  BY <1>1 DEF S!Rows
<1>3. UNCHANGED <<item, leaseSeq>>
  BY DEF S!Time, S!ClaimLapses, S!RetryDue
<1>4. PICK r \in {[row[w] EXCEPT !.live = FALSE], [row[w] EXCEPT !.delayed = FALSE]} :
        row' = [row EXCEPT ![w] = r]
  BY DEF S!Time, S!ClaimLapses, S!RetryDue
<1>5. RowsFollow(Working)
  BY <1>1, <1>2, <1>3, <1>4 DEF RowsFollow, Follows, RowOK, S!TypeOK
<1>6. QED
  BY <1>1, <1>3, <1>5 DEF SnapshotsFollow, S!TypeOK

\* Workers.
LEMMA WorkerFollows ==
  ASSUME TableInv, NEW k \in Workers, Writes(k), ~S!Abandon(k)
  PROVE  RowsFollow(Working) /\ SnapshotsFollow
<1>1. S!TypeOK
  BY DEF TableInv
<1>2. ASSUME NEW w \in Workloads, S!ClaimNext(k, w) PROVE RowsFollow(Working) /\ SnapshotsFollow
  <2> DEFINE r == [row[w] EXCEPT !.worker = k, !.live = TRUE]
             own == [id |-> w, seen |-> r, current |-> TRUE]
  <2>1. row[w] \in S!Rows /\ RowOK(row[w])
    BY DEF TableInv, S!TypeOK
  <2>2. r \in S!Rows /\ r.state = row[w].state /\ r.stop = row[w].stop /\ r.lease = row[w].lease
    BY <2>1 DEF S!Rows
  <2>3. own \in S!Items /\ own.id = w /\ own.seen = r /\ item[k].id = None
    BY <1>2, <2>2 DEF S!Items, S!ClaimNext
  <2>4. S!Update(w, r, k, own) /\ leaseSeq' = leaseSeq
    BY <1>2 DEF S!ClaimNext
  <2> HIDE DEF r, own
  <2>5. Follows(row[w], r, leaseSeq, leaseSeq', Working)
    BY <2>1, <2>2, <2>4 DEF Follows, RowOK
  <2>6. QED
    BY <1>1, <2>2, <2>3, <2>4, <2>5, UpdateFollows
<1>3. ASSUME S!HoldsClaim(k), ~ \E w \in Workloads : S!ClaimNext(k, w)
      PROVE  RowsFollow(Working) /\ SnapshotsFollow
  <2> DEFINE r == row[item[k].id]
  <2>1. r \in S!Rows /\ RowOK(r)
    <3>1. item[k].id \in Workloads
      BY <1>1, <1>3 DEF S!HoldsClaim, S!TypeOK, S!Items
    <3>2. QED
      BY <3>1 DEF TableInv, S!TypeOK
  <2> DEFINE n == r.attempts + 1
  <2>n. n \in Nat
    BY <2>1 DEF S!Rows
  <2> HIDE DEF n
  <2>2. ASSUME NEW from, NEW to \in S!States \ {"STOPPING"}, NEW s,
               \/ s = [r EXCEPT !.state = to]
               \/ s = [r EXCEPT !.state = to, !.delayed = FALSE]
               \/ s = [r EXCEPT !.state = to, !.attempts = n, !.delayed = FALSE],
               S!Mark(k, from, s), leaseSeq' = leaseSeq,
               \/ to \in {"STOPPED", "FAILED"}
               \/ r.state = "REQUESTED" /\ to = "SCHEDULING"
               \/ r.state \in {"LEASED", "DEPLOYING"} /\ to \in Working
        PROVE  RowsFollow(Working) /\ SnapshotsFollow
    <3>1. s \in S!Rows /\ s.state = to /\ s.stop = r.stop /\ s.lease = r.lease
      BY <2>n, <2>1, <2>2 DEF S!Rows
    <3>2. Follows(r, s, leaseSeq, leaseSeq', Working)
      BY <2>1, <2>2, <3>1 DEF Follows, RowOK, Working, S!Terminal
    <3>3. QED
      BY <1>1, <2>2, <3>1, <3>2, MarkFollows
  <2>3. {"SCHEDULING", "LEASED", "DEPLOYING", "RUNNING", "STOPPED", "FAILED"}
          \subseteq S!States \ {"STOPPING"}
    BY DEF S!States, S!Workable, S!Terminal
  <2>4. CASE S!BeginScheduling(k)
    BY <2>2, <2>3, <2>4 DEF S!BeginScheduling, S!Mark
  <2>6. CASE S!MarkDeploying(k)
    BY <2>2, <2>3, <2>6 DEF S!MarkDeploying, S!Mark, Working
  <2>7. CASE S!MarkRunning(k)
    BY <2>2, <2>3, <2>7 DEF S!MarkRunning, S!Mark, Working
  <2>8. CASE S!MarkStopped(k)
    BY <2>2, <2>3, <2>8 DEF S!MarkStopped, S!Mark
  <2>9. CASE S!MarkFailed(k)
    BY <2>2, <2>3, <2>9 DEF S!MarkFailed, S!Mark, n
  <2>10. CASE S!RetryLater(k)
    <3> DEFINE s == [r EXCEPT !.attempts = n, !.delayed = TRUE]
    <3>1. s \in S!Rows /\ s.state = r.state /\ s.stop = r.stop /\ s.lease = r.lease
      BY <2>n, <2>1 DEF S!Rows
    <3>2. S!Mark(k, S!Workable, s) /\ leaseSeq' = leaseSeq
      BY <2>10 DEF S!RetryLater, n
    <3> HIDE DEF s
    <3>3. Follows(r, s, leaseSeq, leaseSeq', Working)
      BY <2>1, <3>1, <3>2 DEF Follows, RowOK
    <3>4. QED
      BY <1>1, <3>1, <3>2, <3>3, MarkFollows
  <2>11. ASSUME NEW p \in Providers, S!AssignLease(k, p) PROVE RowsFollow(Working) /\ SnapshotsFollow
    <3> DEFINE s == [r EXCEPT !.state = "LEASE_PENDING", !.provider = p, !.lease = leaseSeq + 1]
    <3>1. leaseSeq \in Nat /\ leaseSeq + 1 \in Nat /\ leaseSeq + 1 # 0
      BY <1>1 DEF S!TypeOK
    <3>2. /\ s \in S!Rows /\ s.state = "LEASE_PENDING" /\ s.stop = r.stop
          /\ s.lease = leaseSeq + 1
      BY <2>1, <3>1 DEF S!Rows, S!States, S!Workable
    <3>3. S!Mark(k, {"SCHEDULING"}, s) /\ leaseSeq' = leaseSeq + 1 /\ r.state = "SCHEDULING"
      BY <2>11 DEF S!AssignLease, S!Mark
    <3> HIDE DEF s
    <3>4. Follows(r, s, leaseSeq, leaseSeq', Working)
      BY <2>1, <3>1, <3>2, <3>3 DEF Follows, RowOK, Working, S!Terminal
    <3>5. QED
      BY <1>1, <3>2, <3>3, <3>4, MarkFollows
  <2>12. QED
    BY <1>3, <2>4, <2>6, <2>7, <2>8, <2>9, <2>10, <2>11 DEF Writes
<1>4. (\E w \in Workloads : S!ClaimNext(k, w)) \/ S!HoldsClaim(k)
  BY DEF Writes, S!BeginScheduling, S!AssignLease, S!MarkDeploying, S!MarkRunning,
         S!MarkStopped, S!RetryLater, S!MarkFailed, S!Mark
<1>5. QED
  BY <1>2, <1>3, <1>4

\* MarkLeased takes the worker's own workload out of LEASE_PENDING.
LEMMA LeasedFollows ==
  ASSUME TableInv, NEW k \in Workers, S!MarkLeased(k)
  PROVE  /\ RowsFollow(Working \cup {"LEASE_PENDING"}) /\ SnapshotsFollow
         /\ item[k].id \in Workloads /\ row[item[k].id].lease = Lease(k)
         /\ \A v \in Workloads : v # item[k].id => row'[v] = row[v]
<1>1. S!TypeOK /\ item[k].id \in Workloads
  BY DEF TableInv, S!MarkLeased, S!Mark, S!HoldsClaim, S!TypeOK, S!Items
<1> DEFINE r == row[item[k].id]
           s == [r EXCEPT !.state = "LEASED", !.delayed = FALSE]
<1>2. r \in S!Rows /\ RowOK(r) /\ r.state = "LEASE_PENDING"
  BY <1>1 DEF TableInv, S!TypeOK, S!MarkLeased, S!Mark
<1>3. s \in S!Rows /\ s.state = "LEASED" /\ s.stop = r.stop /\ s.lease = r.lease
  BY <1>2 DEF S!Rows, S!States, S!Workable
<1>4. S!Mark(k, {"LEASE_PENDING"}, s) /\ leaseSeq' = leaseSeq
  BY DEF S!MarkLeased
<1>5. \A v \in Workloads : v # item[k].id => row'[v] = row[v]
  BY <1>1, <1>4 DEF S!Mark, S!Update, S!TypeOK
<1> HIDE DEF s
<1>6. Follows(r, s, leaseSeq, leaseSeq', Working \cup {"LEASE_PENDING"})
  BY <1>2, <1>3, <1>4 DEF Follows, RowOK, Working, S!Terminal
<1>7. RowsFollow(Working \cup {"LEASE_PENDING"}) /\ SnapshotsFollow
  BY <1>1, <1>3, <1>4, <1>6, MarkFollows
<1>8. QED
  BY <1>1, <1>5, <1>7 DEF S!MarkLeased, Lease

\* What a step keeps of every row.
RowsKept ==
  \A w \in Workloads :
    /\ row[w].lease # 0 => row'[w].lease = row[w].lease
    /\ row[w].stop # None => row'[w].stop # None

\* Writing one row, the table keeps its invariant.
LEMMA RowsFollowKeep ==
  ASSUME TableInv, NEW from, RowsFollow(from), SnapshotsFollow
  PROVE  /\ TableInv' /\ RowsKept
         /\ \A v \in Workloads : row'[v].state \in Working => row[v].state \in from \cup Working
<1>1. PICK w \in Workloads :
        /\ row' \in [Workloads -> S!Rows]
        /\ Follows(row[w], row'[w], leaseSeq, leaseSeq', from)
        /\ \A v \in Workloads : v # w => row'[v] = row[v]
  BY DEF RowsFollow
<1>2. leaseSeq \in Nat /\ \A v \in Workloads : row[v].lease \in Nat /\ row'[v].lease \in Nat
  BY <1>1 DEF TableInv, S!TypeOK, S!Rows
<1>3. S!TypeOK'
  BY <1>1, <1>2 DEF Follows, SnapshotsFollow, S!TypeOK
<1>4. \A v \in Workloads : RowOK(row'[v])
  BY <1>1 DEF TableInv, Follows
<1>5. /\ RowsKept
      /\ \A v \in Workloads : row'[v].state \in Working => row[v].state \in from \cup Working
  BY <1>1 DEF RowsKept, Follows
<1>6. IsFiniteSet(Leased)
  BY OrchestrationAssumption, FS_Subset DEF Leased
<1>7. CASE row'[w].lease = row[w].lease /\ leaseSeq' = leaseSeq
  <2>1. \A v \in Workloads : row'[v].lease = row[v].lease
    BY <1>1, <1>7
  <2>2. LeasesDistinct'
    BY <1>7, <2>1 DEF TableInv, LeasesDistinct
  <2>3. Leased' = Leased
    BY <2>1 DEF Leased
  <2>4. QED
    BY <1>3, <1>4, <1>5, <1>7, <2>2, <2>3 DEF TableInv
<1>8. CASE row[w].lease = 0 /\ row'[w].lease = leaseSeq + 1 /\ leaseSeq' = leaseSeq + 1
  <2>1. \A v \in Workloads : v # w => row'[v].lease = row[v].lease /\ row[v].lease <= leaseSeq
    BY <1>1 DEF TableInv, LeasesDistinct
  <2>2. LeasesDistinct'
    BY <1>2, <1>8, <2>1 DEF TableInv, LeasesDistinct
  <2>3. Leased' = Leased \cup {w} /\ w \notin Leased
    BY <1>2, <1>8, <2>1 DEF Leased
  <2>4. Cardinality(Leased') = Cardinality(Leased) + 1
    BY <1>6, <2>3, FS_AddElement
  <2>5. QED
    BY <1>3, <1>4, <1>5, <1>8, <2>2, <2>4 DEF TableInv
<1>9. QED
  BY <1>1, <1>7, <1>8 DEF Follows

\* Work begins only under an active lease.
WorkBegins ==
  \A w \in Workloads :
    row'[w].state \in Working =>
      row[w].state \in Working \/ (row[w].lease # 0 /\ chain[row[w].lease] = "Active")

\* Every step keeps the table's invariant, and lets its snapshots follow.
LEMMA TableKept ==
  ASSUME TableInv, [Next]_vars
  PROVE  TableInv' /\ RowsKept /\ SnapshotsFollow /\ WorkBegins
<1>1. CASE UNCHANGED storeVars
  BY <1>1 DEF storeVars, TableInv, S!TypeOK, RowOK, LeasesDistinct, Leased, RowsKept,
              SnapshotsFollow, WorkBegins
<1>2. ASSUME NEW k \in Workers, S!Abandon(k)
      PROVE  TableInv' /\ RowsKept /\ SnapshotsFollow /\ WorkBegins
  <2>1. UNCHANGED <<row, leaseSeq>> /\ item' = [item EXCEPT ![k] = S!NoItem]
    BY <1>2 DEF S!Abandon
  <2>2. SnapshotsFollow
    BY <2>1, RowTypes DEF TableInv, S!TypeOK, SnapshotsFollow
  <2>3. QED
    BY <2>1, <2>2 DEF TableInv, S!TypeOK, RowOK, LeasesDistinct, Leased, RowsKept,
                      SnapshotsFollow, WorkBegins
<1>3. ASSUME RowsFollow(Working), SnapshotsFollow
      PROVE  TableInv' /\ RowsKept /\ SnapshotsFollow /\ WorkBegins
  BY <1>3, RowsFollowKeep DEF WorkBegins
<1>4. ASSUME NEW k \in Workers, S!MarkLeased(k), chain[Lease(k)] = "Active"
      PROVE  TableInv' /\ RowsKept /\ SnapshotsFollow /\ WorkBegins
  <2>1. TableInv' /\ RowsKept /\ SnapshotsFollow
    BY <1>4, LeasedFollows, RowsFollowKeep
  <2>2. row[item[k].id].lease # 0
    BY <1>4, LeasedFollows DEF TableInv, RowOK, S!MarkLeased, S!Mark
  <2>3. WorkBegins
    BY <1>4, <2>2, LeasedFollows DEF WorkBegins
  <2>4. QED
    BY <2>1, <2>3
<1>5. QED
  BY <1>1, <1>2, <1>3, <1>4, TenantFollows, HeartbeatFollows, TimeFollows, WorkerFollows, TableStep
     DEF TableWrites

\* The empty table.
LEMMA TableStart == S!Init => TableInv
<1> SUFFICES ASSUME S!Init PROVE TableInv
  OBVIOUS
<1>1. S!TypeOK
  BY RowTypes DEF S!Init, S!TypeOK, S!NoRow, S!Rows, S!States
<1>2. Leased = {}
  BY DEF S!Init, S!NoRow, Leased
<1>3. QED
  BY <1>1, <1>2, FS_EmptySet
     DEF S!Init, S!NoRow, TableInv, RowOK, Working, LeasesDistinct

\* The chain has a lease for every row that names one.
LEMMA LeaseRange ==
  ASSUME TableInv, NEW w \in Workloads, row[w].lease # 0
  PROVE  row[w].lease \in Leases
<1>1. row[w].lease \in Nat /\ row[w].lease <= Cardinality(Leased)
  BY DEF TableInv, S!TypeOK, S!Rows, LeasesDistinct
<1>2. /\ Cardinality(Leased) <= Cardinality(Workloads)
      /\ Cardinality(Leased) \in Nat /\ Cardinality(Workloads) \in Nat
  <2>1. Leased \subseteq Workloads
    BY DEF Leased
  <2>2. QED
    BY <2>1, OrchestrationAssumption, FS_Subset, FS_CardinalityType
<1>3. QED
  BY <1>1, <1>2 DEF Leases

-----------------------------------------------------------------------------
(***************************************************************************)
(* What the system keeps of the Agent: only a deploy of a workload sets    *)
(* its container running, and deploys come out of the event bus.           *)
(***************************************************************************)

AgentTypes ==
  /\ ctr \in [Workloads -> A!Containers]
  /\ queue \in Seq(A!Commands)
  /\ op \in A!Ops \cup {A!NoOp}

\* The workloads with a deploy under way or in the event bus.
Deploying ==
  {w \in Workloads :
     \/ op.kind = "Deploy" /\ op.id = w
     \/ \E i \in DOMAIN queue : queue[i].kind = "Deploy" /\ queue[i].id = w}

\* A step sets no container running but one of a workload that is being
\* deployed.
OnlyDeployRuns ==
  \A w \in Workloads : ctr'[w] = "running" => ctr[w] = "running" \/ w \in Deploying

\* The lock holder's steps keep or end the operation, and leave the bus alone.
LEMMA OperationFollows ==
  ASSUME AgentTypes, A!Deploy \/ A!Stop
  PROVE  AgentTypes' /\ OnlyDeployRuns /\ Deploying' \subseteq Deploying
<1>1. /\ queue' = queue
      /\ op' = A!NoOp \/ \E at \in A!Steps : op' = [op EXCEPT !.at = at]
  <2>1. ASSUME NEW r PROVE A!Finish(r) => op' = A!NoOp
    BY DEF A!Finish
  <2>2. ASSUME NEW at \in A!Steps
        PROVE  A!Goto(at) => \E a \in A!Steps : op' = [op EXCEPT !.at = a]
    BY DEF A!Goto
  <2>3. {"create", "inspectExisting", "storeCreated", "start", "inspectStarted", "secure",
         "engineStop", "inspectStopped", "remove", "storeStopped"} \subseteq A!Steps
    BY DEF A!Steps
  <2>4. CASE A!Deploy
    BY <2>1, <2>2, <2>3, <2>4
       DEF A!Deploy, A!Reserve, A!InspectExisting, A!Create, A!StoreCreated, A!Start,
           A!InspectStarted, A!Secure, A!Fails, A!Rest
  <2>5. CASE A!Stop
    BY <2>1, <2>2, <2>3, <2>5
       DEF A!Stop, A!Lookup, A!EngineStop, A!InspectStopped, A!Remove, A!StoreStopped, A!Fails,
           A!Rest
  <2>6. QED
    BY <2>4, <2>5
<1>2. op \in A!Ops /\ op.id \in Workloads
  BY DEF AgentTypes, A!Ops, A!NoOp, A!Doing,
         A!Deploy, A!Reserve, A!InspectExisting, A!Create, A!StoreCreated, A!Start,
         A!InspectStarted, A!Secure, A!Stop, A!Lookup, A!EngineStop, A!InspectStopped, A!Remove,
         A!StoreStopped
<1>3. op' \in A!Ops \cup {A!NoOp} /\ (op'.kind = "Deploy" => op.kind = "Deploy" /\ op'.id = op.id)
  BY <1>1, <1>2 DEF A!Ops, A!NoOp
<1>4. Deploying' \subseteq Deploying
  BY <1>1, <1>3 DEF Deploying
<1>5. /\ ctr' = ctr \/ \E c \in A!Containers : ctr' = [ctr EXCEPT ![op.id] = c]
      /\ op.kind # "Deploy" => ctr' = ctr \/ ctr'[op.id] # "running"
  <2>1. {"absent", "created", "running", "exited"} \subseteq A!Containers
    BY DEF A!Containers
  <2>2. ASSUME NEW c \in A!Containers
        PROVE  A!Docker(c) =>
                 /\ \E d \in A!Containers : ctr' = [ctr EXCEPT ![op.id] = d]
                 /\ ctr'[op.id] = c
    BY <1>2 DEF A!Docker, AgentTypes
  <2>3. ctr[op.id] \in A!Containers
    BY <1>2 DEF AgentTypes
  <2>4. CASE A!Deploy
    BY <2>1, <2>2, <2>3, <2>4
       DEF A!Deploy, A!Reserve, A!InspectExisting, A!Create, A!StoreCreated, A!Start,
           A!InspectStarted, A!Secure, A!Fails, A!Rest, A!Doing
  <2>5. CASE A!Stop
    BY <2>1, <2>2, <2>3, <2>5
       DEF A!Stop, A!Lookup, A!EngineStop, A!InspectStopped, A!Remove, A!StoreStopped, A!Fails,
           A!Rest
  <2>6. QED
    BY <2>4, <2>5
<1>6. OnlyDeployRuns
  BY <1>2, <1>5 DEF OnlyDeployRuns, Deploying, AgentTypes
<1>7. QED
  BY <1>1, <1>3, <1>4, <1>5, <1>6 DEF AgentTypes

\* So do the rest of the Agent and the world.
LEMMA AgentFollows ==
  ASSUME AgentTypes, A!Agent \/ A!World
  PROVE  AgentTypes' /\ OnlyDeployRuns /\ Deploying' \subseteq Deploying
<1>1. CASE A!TakeCommand
  <2>1. /\ queue # <<>> /\ Head(queue) = queue[1] /\ 1 \in DOMAIN queue
        /\ Head(queue) \in A!Commands /\ queue' = Tail(queue)
        /\ Tail(queue) \in Seq(A!Commands)
        /\ \A i \in DOMAIN Tail(queue) : i + 1 \in DOMAIN queue /\ Tail(queue)[i] = queue[i + 1]
    BY <1>1 DEF A!TakeCommand, AgentTypes
  <2>2. op' \in A!Ops /\ op'.kind = Head(queue).kind /\ op'.id = Head(queue).id
    BY <1>1, <2>1 DEF A!TakeCommand, A!Ops, A!Commands, A!Steps
  <2>3. Deploying' \subseteq Deploying
    BY <2>1, <2>2 DEF Deploying
  <2>4. QED
    BY <1>1, <2>1, <2>2, <2>3 DEF A!TakeCommand, AgentTypes, OnlyDeployRuns
<1>2. CASE A!PickExpired \/ A!Recover
  BY <1>2 DEF A!PickExpired, A!Recover, AgentTypes, OnlyDeployRuns, Deploying
<1>3. ASSUME NEW w \in Workloads, A!StopExpired(w)
      PROVE  AgentTypes' /\ OnlyDeployRuns /\ Deploying' \subseteq Deploying
  <2>1. op' \in A!Ops /\ op'.kind = "Stop"
    BY <1>3 DEF A!StopExpired, A!Ops, A!Steps
  <2>2. QED
    BY <1>3, <2>1 DEF A!StopExpired, AgentTypes, OnlyDeployRuns, Deploying
<1>4. CASE A!Crash
  <2>1. <<>> \in Seq(A!Commands) /\ DOMAIN <<>> = {}
    OBVIOUS
  <2>2. op' = A!NoOp /\ op'.kind = "None" /\ queue' = <<>> /\ ctr' = ctr
    BY <1>4 DEF A!Crash, A!NoOp
  <2>3. QED
    BY <2>1, <2>2 DEF AgentTypes, OnlyDeployRuns, Deploying
<1>5. CASE A!World
  BY <1>5 DEF A!World, A!ContainerExits, A!LeaseEnds, AgentTypes, A!Containers, OnlyDeployRuns,
              Deploying
<1>6. QED
  BY <1>1, <1>2, <1>3, <1>4, <1>5, OperationFollows DEF A!Agent

\* A call adds its own workload at most, and giving up on it changes nothing.
LEMMA CallFollows ==
  ASSUME AgentTypes, NEW k \in Workers, NEW kind \in {"Deploy", "Stop"}, NEW w \in Workloads,
         A!Call(k, kind, w)
  PROVE  /\ AgentTypes' /\ ctr' = ctr
         /\ Deploying' \subseteq Deploying \cup (IF kind = "Deploy" THEN {w} ELSE {})
<1> DEFINE m == [kind |-> kind, id |-> w, from |-> k]
<1>1. m \in A!Commands /\ m.kind = kind /\ m.id = w
  BY DEF A!Commands
<1>2. queue' = Append(queue, m) /\ op' = op /\ ctr' = ctr
  BY DEF A!Call
<1> HIDE DEF m
<1>3. /\ queue' \in Seq(A!Commands)
      /\ \A i \in DOMAIN queue' : queue'[i] = m \/ (i \in DOMAIN queue /\ queue'[i] = queue[i])
  BY <1>1, <1>2 DEF AgentTypes
<1>4. QED
  BY <1>1, <1>2, <1>3 DEF AgentTypes, Deploying

\* A caller that gives up leaves its command to the Agent, and starts nothing.
LEMMA GiveUpFollows ==
  ASSUME AgentTypes, NEW k \in Workers, A!GiveUp(k)
  PROVE  AgentTypes' /\ ctr' = ctr /\ Deploying' \subseteq Deploying
<1>1. /\ DOMAIN queue = 1 .. Len(queue) /\ Len(queue) \in Nat
      /\ \A i \in 1 .. Len(queue) : queue[i] \in A!Commands
  BY DEF AgentTypes
<1>2. queue' = [i \in 1 .. Len(queue) |-> A!Orphaned(k, queue[i])] /\ op' = A!Orphaned(k, op)
  BY <1>1 DEF A!GiveUp
<1>3. ASSUME NEW m \in A!Commands
      PROVE  /\ A!Orphaned(k, m) \in A!Commands
             /\ A!Orphaned(k, m).kind = m.kind /\ A!Orphaned(k, m).id = m.id
  BY DEF A!Orphaned, A!Commands
<1>4. queue' \in Seq(A!Commands) /\ DOMAIN queue' = DOMAIN queue
  BY <1>1, <1>2, <1>3
<1>5. op' \in A!Ops \cup {A!NoOp} /\ op'.kind = op.kind /\ op'.id = op.id
  <2>1. k # None
    BY OrchestrationAssumption
  <2>2. CASE op \in A!Ops
    BY <1>2, <2>2 DEF A!Orphaned, A!Ops
  <2>3. CASE op = A!NoOp
    BY <1>2, <2>1, <2>3 DEF A!Orphaned, A!NoOp
  <2>4. QED
    BY <2>2, <2>3 DEF AgentTypes
<1>6. Deploying' \subseteq Deploying
  BY <1>1, <1>2, <1>3, <1>4, <1>5 DEF Deploying
<1>7. QED
  BY <1>4, <1>5, <1>6 DEF AgentTypes, A!GiveUp

-----------------------------------------------------------------------------
(***************************************************************************)
(* The inductive invariant of the composition. LeaseBacksWork could only   *)
(* be lost to a transaction that completes the lease: such a transaction   *)
(* was submitted for a workload with a stop (CompletionsAreAsked), by a    *)
(* worker whose snapshot may be out of date, but not in what matters here  *)
(* (SnapshotsHold): leases and stops are final. A workload that was once   *)
(* seen in DEPLOYING stays authorized, so that even the Deploy of a worker *)
(* that lost its claim starts nothing that was never leased.               *)
(***************************************************************************)

\* The lease of w was active, and only a stop has completed it.
Authorized(w) ==
  /\ row[w].lease # 0
  /\ \/ chain[row[w].lease] = "Active"
     \/ chain[row[w].lease] = "Completed" /\ row[w].stop # None

CompletionsAreAsked ==
  \A l \in Leases :
    <<l, "complete">> \in pool =>
      \E w \in Workloads : row[w].lease = l /\ row[w].stop # None

\* The steps of processOne that follow a stop the Agent was asked for.
AfterStop == {"stop", "confirmStop", "revoke", "complete", "awaitCompleted"}

SnapshotHolds(k) ==
  /\ item[k].seen.lease # 0 => row[item[k].id].lease = item[k].seen.lease
  /\ item[k].seen.state = "STOPPING" => row[item[k].id].stop # None
  /\ item[k].seen.state = "DEPLOYING" => Authorized(item[k].id)
  /\ pc[k] \in AfterStop => item[k].seen.lease # 0

SnapshotsHold ==
  \A k \in Workers : IF item[k].id = None THEN pc[k] = "idle" ELSE SnapshotHolds(k)

WorkIsAuthorized ==
  \A w \in Workloads : ctr[w] = "running" \/ w \in Deploying => Authorized(w)

SystemInv ==
  /\ TableInv /\ AgentTypes
  /\ DOMAIN pc = Workers
  /\ chain \in [Leases -> LeaseStates]
  /\ LeaseBacksWork
  /\ CompletionsAreAsked
  /\ SnapshotsHold
  /\ WorkIsAuthorized

\* A lease moves forward, and is completed by a transaction that asks for it.
ChainKept ==
  /\ chain' \in [Leases -> LeaseStates]
  /\ \A l \in Leases :
       \/ chain'[l] = chain[l]
       \/ chain[l] \in {"None", "Created"}
       \/ chain[l] = "Active" /\ chain'[l] = "Completed" /\ <<l, "complete">> \in pool

\* The chain moves when a transaction is finalized, and in no other step.
LEMMA ChainStep ==
  ASSUME SystemInv, [Next]_vars
  PROVE  ChainKept
<1>1. chain \in [Leases -> LeaseStates]
  BY DEF SystemInv
<1>2. CASE chain' = chain
  BY <1>1, <1>2 DEF ChainKept
<1>3. ASSUME NEW tx \in Transactions, Finalize(tx) PROVE ChainKept
  <2>1. /\ tx = <<tx[1], tx[2]>> /\ tx[1] \in Leases /\ tx \in pool
        /\ tx[2] \in {"create", "activate", "complete"}
    BY <1>3 DEF Transactions, Finalize
  <2>2. Apply(tx)
    BY <1>3 DEF Finalize
  <2>3. /\ chain'[tx[1]] \in LeaseStates
        /\ \/ chain'[tx[1]] = chain[tx[1]]
           \/ chain[tx[1]] \in {"None", "Created"}
           \/ chain[tx[1]] = "Active" /\ chain'[tx[1]] = "Completed" /\ tx[2] = "complete"
    BY <1>1, <2>1, <2>2 DEF Apply, LeaseStates
  <2>4. /\ DOMAIN chain' = Leases
        /\ \A l \in Leases : l # tx[1] => chain'[l] = chain[l]
        /\ chain' = [l \in Leases |-> chain'[l]]
    BY <1>1, <2>1, <2>2 DEF Apply
  <2>5. QED
    BY <1>1, <2>1, <2>3, <2>4 DEF ChainKept
<1>4. CASE \E k \in Workers : Worker(k) \/ WriteFails(k) \/ WorkerCrash(k)
  BY <1>2, <1>4
     DEF Worker, Process, Claim, BeginScheduling, Schedule, MarkDeploying, EnsureLeaseActive,
         AwaitActive, CheckStatus, Dispatch, AwaitDeploy, ConfirmDeploy, Attach, Undo, MarkRunning,
         DispatchStop, AwaitStop, ConfirmStop, Revoke, EnsureLeaseCompleted, AwaitCompleted,
         WriteFails, WorkerCrash, KeepRest
<1>5. CASE \E w \in Workloads : Tenant(w) \/ RetryDue(w) \/ ClaimLapses(w) \/ DeliverBeat(w)
  BY <1>2, <1>5 DEF Tenant, RetryDue, ClaimLapses, DeliverBeat, otherVars
<1>6. CASE SendBeat \/ LoseBeat \/ Registrar \/ Agent \/ UNCHANGED vars \/ (\E tx \in Transactions : Drop(tx))
  BY <1>2, <1>6 DEF SendBeat, LoseBeat, Registrar, MutexTaken, MutexFreed, Agent, Drop, vars, otherVars
<1>7. QED
  BY <1>3, <1>4, <1>5, <1>6 DEF Next

\* A completion is submitted for the lease of a workload that a worker saw in
\* STOPPING, after the Agent was asked to stop it.
LEMMA CompletionStep ==
  ASSUME [Next]_vars, NEW l, <<l, "complete">> \in pool', <<l, "complete">> \notin pool
  PROVE  \E k \in Workers :
           /\ item[k].id # None /\ pc[k] \in AfterStop /\ pc[k] = "complete"
           /\ item[k].seen.state = "STOPPING" /\ item[k].seen.lease = l
<1>1. ASSUME NEW k \in Workers, EnsureLeaseActive(k) PROVE FALSE
  <2>1. <<l, "complete">> \notin {<<Lease(k), "activate">>, <<Lease(k), "create">>}
    OBVIOUS
  <2>2. QED
    BY <1>1, <2>1 DEF EnsureLeaseActive
<1>2. ASSUME NEW k \in Workers, EnsureLeaseCompleted(k)
      PROVE  /\ item[k].id # None /\ pc[k] \in AfterStop /\ pc[k] = "complete"
             /\ item[k].seen.state = "STOPPING" /\ item[k].seen.lease = l
  BY <1>2 DEF EnsureLeaseCompleted, At, AfterStop, Lease
<1>3. pool' # pool
  OBVIOUS
<1>4. CASE \E k \in Workers : Worker(k) \/ WriteFails(k) \/ WorkerCrash(k)
  BY <1>1, <1>2, <1>3, <1>4
     DEF Worker, Process, Claim, BeginScheduling, Schedule, MarkDeploying,
         AwaitActive, CheckStatus, Dispatch, AwaitDeploy, ConfirmDeploy, Attach, Undo, MarkRunning,
         DispatchStop, AwaitStop, ConfirmStop, Revoke, AwaitCompleted,
         WriteFails, WorkerCrash, KeepRest
<1>5. CASE \E w \in Workloads : Tenant(w) \/ RetryDue(w) \/ ClaimLapses(w) \/ DeliverBeat(w)
  BY <1>3, <1>5 DEF Tenant, RetryDue, ClaimLapses, DeliverBeat, otherVars
<1>6. CASE SendBeat \/ LoseBeat \/ Registrar \/ Agent \/ UNCHANGED vars
  BY <1>3, <1>6 DEF SendBeat, LoseBeat, Registrar, MutexTaken, MutexFreed, Agent, vars, otherVars
<1>7. CASE \E tx \in Transactions : Finalize(tx) \/ Drop(tx)
  BY <1>7 DEF Finalize, Drop
<1>8. QED
  BY <1>4, <1>5, <1>6, <1>7 DEF Next

\* Leases differ, so the workload that a completion was asked for is the one
\* whose lease it completes.
LEMMA CompletedIsAsked ==
  ASSUME SystemInv, NEW w \in Workloads, row[w].lease # 0,
         <<row[w].lease, "complete">> \in pool
  PROVE  row[w].stop # None
<1>1. row[w].lease \in Leases
  BY LeaseRange DEF SystemInv
<1>2. PICK v \in Workloads : row[v].lease = row[w].lease /\ row[v].stop # None
  BY <1>1 DEF SystemInv, CompletionsAreAsked
<1>3. QED
  BY <1>2 DEF SystemInv, TableInv, LeasesDistinct

\* Authorization is final.
LEMMA AuthorizedKept ==
  ASSUME SystemInv, [Next]_vars, NEW w \in Workloads, Authorized(w)
  PROVE  Authorized(w)'
<1>1. /\ row[w].lease # 0 /\ row'[w].lease = row[w].lease
      /\ row[w].stop # None => row'[w].stop # None
  BY TableKept DEF SystemInv, RowsKept, Authorized
<1>2. row[w].lease \in Leases
  BY <1>1, LeaseRange DEF SystemInv
<1>3. \/ chain'[row[w].lease] = chain[row[w].lease]
      \/ chain'[row[w].lease] = "Completed" /\ row[w].stop # None
  BY <1>1, <1>2, ChainStep, CompletedIsAsked DEF ChainKept, Authorized
<1>4. QED
  BY <1>1, <1>3 DEF Authorized

\* Work goes on only under an active lease.
LEMMA LeaseStep ==
  ASSUME SystemInv, [Next]_vars
  PROVE  LeaseBacksWork' /\ CompletionsAreAsked'
<1>1. TableInv' /\ RowsKept /\ WorkBegins /\ ChainKept
  BY TableKept, ChainStep DEF SystemInv
<1>2. ASSUME NEW w \in Workloads, row'[w].state \in Working
      PROVE  chain'[row'[w].lease] = "Active"
  <2>1. row[w].lease # 0 /\ chain[row[w].lease] = "Active"
    BY <1>1, <1>2 DEF WorkBegins, SystemInv, LeaseBacksWork, Working, TableInv, RowOK
  <2>2. row[w].lease \in Leases /\ row'[w].lease = row[w].lease
    BY <1>1, <2>1, LeaseRange DEF SystemInv, RowsKept
  <2>3. <<row[w].lease, "complete">> \notin pool
    <3>1. SUFFICES ASSUME <<row[w].lease, "complete">> \in pool PROVE FALSE
      OBVIOUS
    <3>2. row'[w].stop # None
      BY <1>1, <2>1, <3>1, CompletedIsAsked DEF RowsKept
    <3>3. RowOK(row'[w])
      BY <1>1 DEF TableInv
    <3>4. QED
      BY <1>2, <3>2, <3>3 DEF RowOK, Working, S!Terminal
  <2>4. QED
    BY <1>1, <2>1, <2>2, <2>3 DEF ChainKept
<1>3. ASSUME NEW l \in Leases, <<l, "complete">> \in pool'
      PROVE  \E w \in Workloads : row'[w].lease = l /\ row'[w].stop # None
  <2>1. l # 0
    BY OrchestrationAssumption, FS_CardinalityType DEF Leases
  <2>2. PICK w \in Workloads : row[w].lease = l /\ row[w].stop # None
    <3>1. CASE <<l, "complete">> \in pool
      BY <3>1 DEF SystemInv, CompletionsAreAsked
    <3>2. CASE <<l, "complete">> \notin pool
      <4>1. PICK k \in Workers :
              /\ item[k].id # None /\ pc[k] \in AfterStop
              /\ item[k].seen.state = "STOPPING" /\ item[k].seen.lease = l
        BY <1>3, <3>2, CompletionStep
      <4>2. item[k].id \in Workloads
        BY <4>1 DEF SystemInv, TableInv, S!TypeOK, S!Items
      <4>3. QED
        BY <2>1, <4>1, <4>2 DEF SystemInv, SnapshotsHold, SnapshotHolds
    <3>3. QED
      BY <3>1, <3>2
  <2>3. QED
    BY <1>1, <2>1, <2>2 DEF RowsKept
<1>4. QED
  BY <1>2, <1>3 DEF LeaseBacksWork, CompletionsAreAsked, Working

\* What the other workers' places in processOne are after a step of k.
Others(k) == \A j \in Workers \ {k} : pc'[j] = pc[j] /\ item'[j].id = item[j].id

\* The worker k returns from processOne, goes on in it, or begins it.
Returns(k) == pc'[k] = "idle" /\ item'[k].id = None
GoesOn(k) ==
  /\ item' = item /\ item[k].id # None
  /\ pc'[k] \in AfterStop => pc[k] \in AfterStop \/ item[k].seen.lease # 0
Begins(k) == pc'[k] = "claimed" /\ item'[k].id # None

\* A write ends a call of processOne, and moves nobody else.
LEMMA WriteReturns ==
  ASSUME S!TypeOK, NEW k \in Workers, Writes(k) \/ S!MarkLeased(k),
         ~ \E w \in Workloads : S!ClaimNext(k, w)
  PROVE  item'[k].id = None /\ \A j \in Workers \ {k} : item'[j].id = item[j].id
<1>1. S!NoItem.id = None /\ \A j \in Workers : item[j] \in S!Items
  BY RowTypes DEF S!TypeOK
<1>2. ASSUME NEW w, NEW r, S!Update(w, r, k, S!NoItem)
      PROVE  item'[k].id = None /\ \A j \in Workers \ {k} : item'[j].id = item[j].id
  BY <1>1, <1>2 DEF S!Update, S!Items
<1>3. CASE S!Abandon(k)
  BY <1>1, <1>3 DEF S!Abandon, S!TypeOK
<1>4. QED
  BY <1>2, <1>3
     DEF Writes, S!BeginScheduling, S!AssignLease, S!MarkLeased, S!MarkDeploying, S!MarkRunning,
         S!MarkStopped, S!RetryLater, S!MarkFailed, S!Mark

\* Every way out of processOne.
LEMMA ProcessReturns ==
  ASSUME SystemInv, NEW k \in Workers, item[k].id # None
  PROVE  /\ \A write : Write(k, write) /\ (write => (Writes(k) \/ S!MarkLeased(k)))
                         => Others(k) /\ Returns(k)
         /\ Retry(k) => Others(k) /\ Returns(k)
         /\ S!Abandon(k) /\ pc' = [pc EXCEPT ![k] = "idle"] => Others(k) /\ Returns(k)
<1>1. S!TypeOK /\ DOMAIN pc = Workers
  BY DEF SystemInv, TableInv
<1>2. ~ \E w \in Workloads : S!ClaimNext(k, w)
  BY DEF S!ClaimNext
<1>3. ASSUME Writes(k) \/ S!MarkLeased(k), pc' = [pc EXCEPT ![k] = "idle"]
      PROVE  Others(k) /\ Returns(k)
  BY <1>1, <1>2, <1>3, WriteReturns DEF Others, Returns
<1>4. QED
  BY <1>3 DEF Write, Retry, Writes

\* A step of processOne goes on in it or returns.
LEMMA ProcessStep ==
  ASSUME SystemInv, NEW k \in Workers, Process(k) \/ WriteFails(k) \/ WorkerCrash(k)
  PROVE  Others(k) /\ (Returns(k) \/ GoesOn(k))
<1>1. item[k].id # None
  BY DEF Process, BeginScheduling, Schedule, MarkDeploying, EnsureLeaseActive,
         AwaitActive, CheckStatus, Dispatch, AwaitDeploy, ConfirmDeploy, Attach, Undo, MarkRunning,
         DispatchStop, AwaitStop, ConfirmStop, Revoke, EnsureLeaseCompleted, AwaitCompleted,
         WriteFails, WorkerCrash, At, S!Abandon
<1>2. DOMAIN pc = Workers
  BY DEF SystemInv
<1>3. ASSUME NEW step, Goto(k, step), step \in AfterStop => pc[k] \in AfterStop \/ item[k].seen.lease # 0
      PROVE  Others(k) /\ GoesOn(k)
  BY <1>1, <1>2, <1>3 DEF Goto, Others, GoesOn, storeVars
<1>4. CASE BeginScheduling(k)
  <2>1. S!BeginScheduling(k) => Writes(k)
    BY DEF Writes
  <2>2. Write(k, S!BeginScheduling(k))
    BY <1>4 DEF BeginScheduling
  <2>3. QED
    BY <1>1, <2>1, <2>2, ProcessReturns
<1>5. CASE Schedule(k)
  <2>1. (\E p \in Providers : S!AssignLease(k, p)) => Writes(k)
    BY DEF Writes
  <2>2. Retry(k) \/ Write(k, \E p \in Providers : S!AssignLease(k, p))
    BY <1>5 DEF Schedule
  <2>3. QED
    BY <1>1, <2>1, <2>2, ProcessReturns
<1>6. CASE MarkDeploying(k)
  <2>1. S!MarkDeploying(k) => Writes(k)
    BY DEF Writes
  <2>2. Write(k, S!MarkDeploying(k))
    BY <1>6 DEF MarkDeploying
  <2>3. QED
    BY <1>1, <2>1, <2>2, ProcessReturns
<1>7. CASE EnsureLeaseActive(k) \/ AwaitActive(k)
  <2>1. Retry(k) \/ Write(k, S!MarkLeased(k)) \/ Goto(k, "awaitActive")
    BY <1>7 DEF EnsureLeaseActive, AwaitActive
  <2>2. QED
    BY <1>1, <1>3, <2>1, ProcessReturns DEF AfterStop
<1>8. CASE CheckStatus(k) \/ Dispatch(k) \/ AwaitDeploy(k) \/ ConfirmDeploy(k) \/ Attach(k) \/ Undo(k)
  <2>1. \/ Retry(k)
        \/ \E step \in {"checked", "deploy", "confirmDeploy", "attach", "running", "undo"} : Goto(k, step)
    BY <1>8 DEF CheckStatus, Dispatch, AwaitDeploy, ConfirmDeploy, Attach, Undo
  <2>2. QED
    BY <1>1, <1>3, <2>1, ProcessReturns DEF AfterStop
<1>9. CASE MarkRunning(k)
  <2>1. S!MarkRunning(k) => Writes(k)
    BY DEF Writes
  <2>2. Write(k, S!MarkRunning(k))
    BY <1>9 DEF MarkRunning
  <2>3. QED
    BY <1>1, <2>1, <2>2, ProcessReturns
<1>10. CASE DispatchStop(k)
  <2>1. \/ S!Abandon(k) /\ pc' = [pc EXCEPT ![k] = "idle"]
        \/ Retry(k)
        \/ Goto(k, "stop") /\ item[k].seen.lease # 0
    BY <1>10 DEF DispatchStop, Lease
  <2>2. QED
    BY <1>1, <1>3, <2>1, ProcessReturns
<1>11. CASE AwaitStop(k) \/ ConfirmStop(k) \/ Revoke(k)
  <2>1. /\ pc[k] \in AfterStop
        /\ Retry(k) \/ \E step \in AfterStop : Goto(k, step)
    BY <1>11 DEF AwaitStop, ConfirmStop, Revoke, At, AfterStop
  <2>2. QED
    BY <1>1, <1>3, <2>1, ProcessReturns
<1>12. CASE EnsureLeaseCompleted(k) \/ AwaitCompleted(k)
  <2>1. S!MarkStopped(k) => Writes(k)
    BY DEF Writes
  <2>2. /\ pc[k] \in AfterStop
        /\ \/ Retry(k) \/ Write(k, S!MarkStopped(k))
           \/ \E step \in AfterStop : Goto(k, step)
    BY <1>12 DEF EnsureLeaseCompleted, AwaitCompleted, At, AfterStop
  <2>3. QED
    BY <1>1, <1>3, <2>1, <2>2, ProcessReturns
<1>13. CASE WriteFails(k) \/ WorkerCrash(k)
  BY <1>1, <1>13, ProcessReturns DEF WriteFails, WorkerCrash
<1>14. QED
  BY <1>4, <1>5, <1>6, <1>7, <1>8, <1>9, <1>10, <1>11, <1>12, <1>13 DEF Process

\* A step moves one worker at most.
LEMMA WorkersStep ==
  ASSUME SystemInv, [Next]_vars
  PROVE  /\ DOMAIN pc' = Workers
         /\ \/ \A j \in Workers : pc'[j] = pc[j] /\ item'[j].id = item[j].id
            \/ \E k \in Workers : Others(k) /\ (Returns(k) \/ GoesOn(k) \/ Begins(k))
<1>1. S!TypeOK /\ DOMAIN pc = Workers /\ S!NoItem.id = None
  BY RowTypes DEF SystemInv, TableInv
<1>2. \A j \in Workers : item[j] \in S!Items
  BY <1>1 DEF S!TypeOK
<1>3. ASSUME NEW w, NEW r, NEW k, NEW own, S!Update(w, r, k, own)
      PROVE  \A j \in Workers \ {k} : item'[j].id = item[j].id
  BY <1>2, <1>3 DEF S!Update, S!Items
<1>4. DOMAIN pc' = Workers
  <2>1. pc' = pc \/ \E k \in Workers : \E step : pc' = [pc EXCEPT ![k] = step]
    <3>1. ASSUME NEW k \in Workers, Worker(k) \/ WriteFails(k) \/ WorkerCrash(k)
          PROVE  \E step : pc' = [pc EXCEPT ![k] = step]
      <4>1. /\ \A write : Write(k, write) => pc' = [pc EXCEPT ![k] = "idle"]
            /\ Retry(k) => pc' = [pc EXCEPT ![k] = "idle"]
            /\ \A step : Goto(k, step) => pc' = [pc EXCEPT ![k] = step]
        BY DEF Write, Retry, Goto
      <4>2. CASE Process(k)
        BY <4>1, <4>2
           DEF Process, BeginScheduling, Schedule, MarkDeploying, EnsureLeaseActive,
               AwaitActive, CheckStatus, Dispatch, AwaitDeploy, ConfirmDeploy, Attach, Undo,
               MarkRunning, DispatchStop, AwaitStop, ConfirmStop, Revoke, EnsureLeaseCompleted,
               AwaitCompleted
      <4>3. QED
        BY <3>1, <4>2 DEF Worker, Claim, WriteFails, WorkerCrash
    <3>2. CASE \E w \in Workloads : Tenant(w) \/ RetryDue(w) \/ ClaimLapses(w) \/ DeliverBeat(w)
      BY <3>2 DEF Tenant, RetryDue, ClaimLapses, DeliverBeat, otherVars
    <3>3. CASE SendBeat \/ LoseBeat \/ Registrar \/ Agent \/ UNCHANGED vars
      BY <3>3 DEF SendBeat, LoseBeat, Registrar, MutexTaken, MutexFreed, Agent, vars, otherVars
    <3>4. CASE \E tx \in Transactions : Finalize(tx) \/ Drop(tx)
      BY <3>4 DEF Finalize, Drop
    <3>5. QED
      BY <3>1, <3>2, <3>3, <3>4 DEF Next
  <2>2. QED
    BY <1>1, <2>1
<1>5. ASSUME NEW k \in Workers, NEW w \in Workloads, Claim(k, w) PROVE Others(k) /\ Begins(k)
  <2>1. item'[k].id = w /\ w # None
    BY <1>5, OrchestrationAssumption DEF Claim, S!ClaimNext, S!Update
  <2>2. QED
    BY <1>1, <1>3, <1>5, <2>1 DEF Claim, S!ClaimNext, Others, Begins
<1>6. ASSUME NEW w \in Workloads, Tenant(w) \/ RetryDue(w) \/ ClaimLapses(w) \/ DeliverBeat(w)
      PROVE  \A j \in Workers : pc'[j] = pc[j] /\ item'[j].id = item[j].id
  <2>1. None \notin Workers
    BY OrchestrationAssumption
  <2>2. S!Tenant(w) \/ S!Heartbeat(w) => \A j \in Workers : item'[j].id = item[j].id
    <3>1. ASSUME NEW r, S!Update(w, r, None, S!NoItem)
          PROVE  \A j \in Workers : item'[j].id = item[j].id
      BY <1>3, <2>1, <3>1
    <3>2. S!CreateOrGet(w) => \E r : S!Update(w, r, None, S!NoItem)
      BY DEF S!CreateOrGet
    <3>3. ASSUME NEW s, S!RequestStop(w, s) PROVE \E r : S!Update(w, r, None, S!NoItem)
      BY <3>3 DEF S!RequestStop
    <3>4. ASSUME NEW p, NEW phase, S!ReconcileFromAgent(w, p, phase)
          PROVE  \E r : S!Update(w, r, None, S!NoItem)
      BY <3>4 DEF S!ReconcileFromAgent
    <3>5. QED
      BY <3>1, <3>2, <3>3, <3>4 DEF S!Tenant, S!Heartbeat
  <2>3. S!Time(w) => item' = item
    BY DEF S!Time, S!ClaimLapses, S!RetryDue
  <2>4. pc' = pc
    BY <1>6 DEF Tenant, RetryDue, ClaimLapses, DeliverBeat, otherVars
  <2>5. QED
    BY <1>6, <2>2, <2>3, <2>4, BeatWrites
       DEF Tenant, RetryDue, ClaimLapses, S!Time, storeVars
<1>7. CASE SendBeat \/ LoseBeat \/ Registrar \/ Agent \/ UNCHANGED vars
  BY <1>4, <1>7 DEF SendBeat, LoseBeat, Registrar, MutexTaken, MutexFreed, Agent, vars, otherVars, storeVars
<1>8. CASE \E tx \in Transactions : Finalize(tx) \/ Drop(tx)
  BY <1>4, <1>8 DEF Finalize, Drop, storeVars
<1>9. QED
  BY <1>4, <1>5, <1>6, <1>7, <1>8, ProcessStep DEF Next, Worker

\* What a worker read stays true in what it decides on.
LEMMA SnapshotStep ==
  ASSUME SystemInv, [Next]_vars
  PROVE  SnapshotsHold'
<1>1. TableInv' /\ RowsKept /\ SnapshotsFollow /\ LeaseBacksWork'
  BY TableKept, LeaseStep DEF SystemInv
<1>2. ASSUME NEW k \in Workers, NEW w \in Workloads, item'[k].id = w
      PROVE  /\ item'[k].seen.lease # 0 => row'[w].lease = item'[k].seen.lease
             /\ item'[k].seen.state = "STOPPING" => row'[w].stop # None
             /\ item'[k].seen.state = "DEPLOYING" => Authorized(w)'
  <2>1. w # None
    BY OrchestrationAssumption
  <2>2. CASE item[k].id = w /\ item'[k].seen = item[k].seen
    <3>1. SnapshotHolds(k)
      BY <2>1, <2>2 DEF SystemInv, SnapshotsHold
    <3>2. item[k].seen.state = "DEPLOYING" => Authorized(w)'
      BY <2>2, <3>1, AuthorizedKept DEF SnapshotHolds
    <3>3. QED
      BY <1>1, <2>2, <3>1, <3>2 DEF SnapshotHolds, RowsKept
  <2>3. CASE item'[k].seen = row'[w]
    <3>1. RowOK(row'[w])
      BY <1>1 DEF TableInv
    <3>2. row'[w].state = "DEPLOYING" => row'[w].lease # 0 /\ chain'[row'[w].lease] = "Active"
      BY <1>1, <3>1 DEF LeaseBacksWork, RowOK, Working
    <3>3. QED
      BY <2>3, <3>1, <3>2 DEF RowOK, Authorized
  <2>4. QED
    BY <1>1, <1>2, <2>1, <2>2, <2>3 DEF SnapshotsFollow
<1>3. ASSUME NEW k \in Workers
      PROVE  IF item'[k].id = None THEN pc'[k] = "idle"
             ELSE pc'[k] \in AfterStop => item'[k].seen.lease # 0
  <2>1. /\ item[k].id = None => pc[k] = "idle"
        /\ item[k].id # None /\ pc[k] \in AfterStop => item[k].seen.lease # 0
        /\ "idle" \notin AfterStop /\ "claimed" \notin AfterStop
    BY DEF SystemInv, SnapshotsHold, SnapshotHolds, AfterStop
  <2>2. /\ item'[k].id # None /\ item[k].id # None => item'[k].seen = item[k].seen
    BY <1>1 DEF SnapshotsFollow
  <2>3. CASE pc'[k] = pc[k] /\ item'[k].id = item[k].id
    BY <2>1, <2>2, <2>3
  <2>4. CASE Returns(k)
    BY <2>4 DEF Returns
  <2>5. CASE GoesOn(k)
    BY <2>1, <2>5 DEF GoesOn
  <2>6. CASE Begins(k)
    BY <2>1, <2>6 DEF Begins
  <2>7. QED
    BY <2>3, <2>4, <2>5, <2>6, WorkersStep DEF Others
<1>4. ASSUME NEW k \in Workers, item'[k].id # None PROVE SnapshotHolds(k)'
  <2>1. PICK w \in Workloads : item'[k].id = w
    BY <1>1, <1>4 DEF SnapshotsFollow, S!Items
  <2>2. Authorized(w)' <=> Authorized(item[k].id)'
    BY <2>1 DEF Authorized
  <2>3. QED
    BY <1>2, <1>3, <1>4, <2>1, <2>2 DEF SnapshotHolds
<1>5. QED
  BY <1>3, <1>4 DEF SnapshotsHold

\* A step sends the Agent no Deploy but of a workload that a worker saw in
\* DEPLOYING.
LEMMA AgentStep ==
  ASSUME SystemInv, [Next]_vars
  PROVE  /\ AgentTypes' /\ OnlyDeployRuns
         /\ \A w \in Workloads :
              w \in Deploying' =>
                \/ w \in Deploying
                \/ \E k \in Workers : item[k].id = w /\ item[k].seen.state = "DEPLOYING"
<1> DEFINE Goal ==
      /\ AgentTypes' /\ OnlyDeployRuns
      /\ \A w \in Workloads :
           w \in Deploying' =>
             \/ w \in Deploying
             \/ \E k \in Workers : item[k].id = w /\ item[k].seen.state = "DEPLOYING"
<1>1. AgentTypes
  BY DEF SystemInv
<1>2. CASE UNCHANGED agentVars
  BY <1>1, <1>2 DEF agentVars, AgentTypes, OnlyDeployRuns, Deploying
<1>3. ASSUME NEW k \in Workers, A!GiveUp(k) PROVE Goal
  BY <1>1, <1>3, GiveUpFollows DEF OnlyDeployRuns
<1>4. ASSUME NEW k \in Workers, item[k].id # None, A!Call(k, "Stop", Id(k)) PROVE Goal
  <2>1. Id(k) \in Workloads
    BY <1>4 DEF Id, SystemInv, TableInv, S!TypeOK, S!Items
  <2>2. QED
    BY <1>1, <1>4, <2>1, CallFollows DEF OnlyDeployRuns
<1>5. ASSUME NEW k \in Workers, item[k].id # None, item[k].seen.state = "DEPLOYING",
             A!Call(k, "Deploy", Id(k))
      PROVE  Goal
  <2>1. Id(k) \in Workloads
    BY <1>5 DEF Id, SystemInv, TableInv, S!TypeOK, S!Items
  <2>2. AgentTypes' /\ ctr' = ctr /\ Deploying' \subseteq Deploying \cup {Id(k)}
    BY <1>1, <1>5, <2>1, CallFollows
  <2>3. QED
    BY <1>5, <2>2 DEF OnlyDeployRuns, Id
<1>6. CASE A!Agent \/ A!World
  BY <1>1, <1>6, AgentFollows
<1> HIDE DEF Goal
<1>7. CASE \E k \in Workers : Worker(k) \/ WriteFails(k) \/ WorkerCrash(k)
  <2>1. \/ UNCHANGED agentVars
        \/ \E k \in Workers : A!GiveUp(k)
        \/ \E k \in Workers : item[k].id # None /\ A!Call(k, "Stop", Id(k))
        \/ \E k \in Workers : /\ item[k].id # None /\ item[k].seen.state = "DEPLOYING"
                              /\ A!Call(k, "Deploy", Id(k))
    BY <1>7
       DEF Worker, Process, Claim, BeginScheduling, Schedule, MarkDeploying, EnsureLeaseActive,
           AwaitActive, CheckStatus, Dispatch, AwaitDeploy, ConfirmDeploy, Attach, Undo, MarkRunning,
           DispatchStop, AwaitStop, ConfirmStop, Revoke, EnsureLeaseCompleted, AwaitCompleted,
           WriteFails, WorkerCrash, KeepAgent, At
  <2>2. QED
    BY <1>2, <1>3, <1>4, <1>5, <2>1 DEF Goal
<1>8. CASE \E w \in Workloads : Tenant(w) \/ RetryDue(w) \/ ClaimLapses(w) \/ DeliverBeat(w)
  BY <1>2, <1>8 DEF Tenant, RetryDue, ClaimLapses, DeliverBeat, KeepAgent
<1>9. CASE SendBeat \/ LoseBeat \/ Registrar \/ UNCHANGED vars \/ \E tx \in Transactions : Finalize(tx) \/ Drop(tx)
  BY <1>2, <1>9 DEF SendBeat, LoseBeat, Registrar, MutexTaken, MutexFreed, Finalize, Drop, vars
<1>10. QED
  BY <1>6, <1>7, <1>8, <1>9 DEF Next, Agent

\* The system begins in its invariant.
LEMMA SystemStart == Init => SystemInv
<1> SUFFICES ASSUME Init PROVE SystemInv
  OBVIOUS
<1>1. TableInv
  BY TableStart DEF Init
<1>2. <<>> \in Seq(A!Commands) /\ DOMAIN <<>> = {}
  OBVIOUS
<1>3. queue = <<>> /\ op = A!NoOp /\ ctr = [w \in Workloads |-> "absent"]
  BY DEF Init, A!Init
<1>4. AgentTypes /\ Deploying = {}
  BY <1>2, <1>3 DEF AgentTypes, Deploying, A!Containers, A!NoOp
<1>5. WorkIsAuthorized
  BY <1>3, <1>4 DEF WorkIsAuthorized
<1>6. SnapshotsHold
  BY DEF Init, S!Init, S!NoItem, SnapshotsHold
<1>7. LeaseBacksWork /\ CompletionsAreAsked
  BY DEF Init, S!Init, S!NoRow, LeaseBacksWork, CompletionsAreAsked
<1>8. QED
  BY <1>1, <1>4, <1>5, <1>6, <1>7 DEF Init, SystemInv, LeaseStates

\* Every step of the system keeps its invariant.
LEMMA SystemStep ==
  ASSUME SystemInv, [Next]_vars
  PROVE  SystemInv'
<1>1. TableInv' /\ AgentTypes' /\ DOMAIN pc' = Workers /\ chain' \in [Leases -> LeaseStates]
  BY TableKept, AgentStep, WorkersStep, ChainStep DEF SystemInv, ChainKept
<1>2. ASSUME NEW w \in Workloads, ctr'[w] = "running" \/ w \in Deploying'
      PROVE  Authorized(w)'
  <2>1. \/ ctr[w] = "running" \/ w \in Deploying
        \/ \E k \in Workers : item[k].id = w /\ item[k].seen.state = "DEPLOYING"
    BY <1>2, AgentStep DEF OnlyDeployRuns
  <2>2. w # None
    BY OrchestrationAssumption
  <2>3. Authorized(w)
    BY <2>1, <2>2 DEF SystemInv, WorkIsAuthorized, SnapshotsHold, SnapshotHolds
  <2>4. QED
    BY <2>3, AuthorizedKept
<1>3. WorkIsAuthorized'
  BY <1>2 DEF WorkIsAuthorized
<1>4. QED
  BY <1>1, <1>3, LeaseStep, SnapshotStep DEF SystemInv

\* The invariant of the composition, for any number of workers, crashes, lost
\* answers and late transactions.
THEOREM SystemInvariant == Spec => []SystemInv
<1>1. SystemInv /\ UNCHANGED vars => SystemInv'
  BY SystemStep
<1>2. QED
  BY SystemStart, SystemStep, <1>1, PTL DEF Spec

\* While the table says that a workload is being deployed or runs, its lease is
\* Active on chain: EnsureLeaseActive waits for the finalized head, and nobody
\* completes a lease but after a stop.
THEOREM WorkIsLeased == Spec => []LeaseBacksWork
<1>1. SystemInv => LeaseBacksWork
  BY DEF SystemInv
<1>2. QED
  BY SystemInvariant, <1>1, PTL

\* Nothing runs on the provider that was never authorized, not even what a
\* worker that lost its claim still deploys.
THEOREM RunsLeased == Spec => []NeverRunsUnleased
<1>1. SystemInv => NeverRunsUnleased
  BY DEF SystemInv, WorkIsAuthorized, Authorized, NeverRunsUnleased
<1>2. QED
  BY SystemInvariant, <1>1, PTL
-----------------------------------------------------------------------------
(***************************************************************************)
(* The steps of the composition are steps of the Agent, so that what       *)
(* AgentExecutorProofs shows of one Agent holds of the one that the        *)
(* workers drive.                                                          *)
(***************************************************************************)

AP == INSTANCE AgentExecutorProofs WITH Clients <- Workers

\* The Agent's assumptions on its constants.
LEMMA AgentConstants == AP!AgentAssumption
BY OrchestrationAssumption DEF IsFiniteSet, AP!IsFiniteSet, AP!AgentAssumption

\* The Agent of the composition takes the steps that its proofs are about.
LEMMA SameAgent == A!Agent \/ A!World => AP!Agent \/ AP!World
<1>1. A!Deploy => AP!Deploy
  <2> USE DEF A!Doing, AP!Doing, A!Goto, AP!Goto, A!Finish, AP!Finish, A!Store, AP!Store,
              A!Docker, AP!Docker, A!InPhase, AP!InPhase, A!Rest, AP!Rest, A!Fails, AP!Fails,
              A!NoOp, AP!NoOp
  <2>1. A!Reserve => AP!Reserve
    BY DEF A!Reserve, AP!Reserve, A!Active, AP!Active, A!Consuming, AP!Consuming, A!Phases, AP!Phases,
           A!Cardinality, AP!Cardinality
  <2>2. A!InspectExisting => AP!InspectExisting
    BY DEF A!InspectExisting, AP!InspectExisting
  <2>3. A!Create => AP!Create
    BY DEF A!Create, AP!Create
  <2>4. A!StoreCreated => AP!StoreCreated
    BY DEF A!StoreCreated, AP!StoreCreated
  <2>5. A!Start => AP!Start
    BY DEF A!Start, AP!Start
  <2>6. A!InspectStarted => AP!InspectStarted
    BY DEF A!InspectStarted, AP!InspectStarted
  <2>7. A!Secure => AP!Secure
    BY DEF A!Secure, AP!Secure
  <2>8. QED
    BY <2>1, <2>2, <2>3, <2>4, <2>5, <2>6, <2>7 DEF A!Deploy, AP!Deploy
<1>2. A!Stop => AP!Stop
  <2> USE DEF A!Doing, AP!Doing, A!Goto, AP!Goto, A!Finish, AP!Finish, A!Store, AP!Store,
              A!Docker, AP!Docker, A!InPhase, AP!InPhase, A!Rest, AP!Rest, A!Fails, AP!Fails,
              A!NoOp, AP!NoOp
  <2>1. A!Lookup => AP!Lookup
    BY DEF A!Lookup, AP!Lookup
  <2>2. A!EngineStop => AP!EngineStop
    BY DEF A!EngineStop, AP!EngineStop
  <2>3. A!InspectStopped => AP!InspectStopped
    BY DEF A!InspectStopped, AP!InspectStopped
  <2>4. A!Remove => AP!Remove
    BY DEF A!Remove, AP!Remove
  <2>5. A!StoreStopped => AP!StoreStopped
    BY DEF A!StoreStopped, AP!StoreStopped
  <2>6. QED
    BY <2>1, <2>2, <2>3, <2>4, <2>5 DEF A!Stop, AP!Stop
<1>3. A!TakeCommand => AP!TakeCommand
  BY DEF A!TakeCommand, AP!TakeCommand, A!NoOp, AP!NoOp
<1>4. A!PickExpired => AP!PickExpired
  BY DEF A!PickExpired, AP!PickExpired, A!Expiry, AP!Expiry, A!Expired, AP!Expired
<1>5. \A w \in Workloads : A!StopExpired(w) => AP!StopExpired(w)
  BY DEF A!StopExpired, AP!StopExpired, A!NoOp, AP!NoOp, A!Expiry, AP!Expiry
<1>6. A!Crash => AP!Crash
  BY DEF A!Crash, AP!Crash, A!NoOp, AP!NoOp
<1>7. A!Recover => AP!Recover
  <2>1. ASSUME NEW seen \in SUBSET Workloads, NEW applied \in SUBSET Workloads, NEW w \in Workloads
        PROVE  A!Recovered(w, w \in seen, w \in applied) = AP!Recovered(w, w \in seen, w \in applied)
    BY DEF A!Recovered, AP!Recovered, A!Consuming, AP!Consuming, A!Phases, AP!Phases
  <2>2. QED
    BY <2>1 DEF A!Recover, AP!Recover
<1>8. A!World => AP!World
  BY DEF A!World, AP!World, A!ContainerExits, AP!ContainerExits, A!LeaseEnds, AP!LeaseEnds
<1>9. QED
  BY <1>1, <1>2, <1>3, <1>4, <1>5, <1>6, <1>7, <1>8 DEF A!Agent, AP!Agent

\* So are the calls of the workers the calls of its clients.
LEMMA SameCalls ==
  ASSUME NEW k \in Workers
  PROVE  /\ A!GiveUp(k) => AP!GiveUp(k)
         /\ \A kind, w : A!Call(k, kind, w) => AP!Call(k, kind, w)
BY DEF A!GiveUp, AP!GiveUp, A!Orphaned, AP!Orphaned, A!Call, AP!Call

\* What a step of the composition does to the Agent.
AgentMoves ==
  \/ UNCHANGED agentVars
  \/ A!Agent \/ A!World
  \/ \E k \in Workers : A!GiveUp(k)
  \/ \E k \in Workers : \E kind \in {"Deploy", "Stop"}, w \in Workloads : A!Call(k, kind, w)

\* The workers call the Agent, or give up on it, and nobody else touches it.
LEMMA AgentIsCalled ==
  ASSUME SystemInv, [Next]_vars
  PROVE  AgentMoves
<1>1. ASSUME NEW k \in Workers, item[k].id # None,
             A!Call(k, "Stop", Id(k)) \/ A!Call(k, "Deploy", Id(k))
      PROVE  AgentMoves
  <2>1. Id(k) \in Workloads
    BY <1>1 DEF Id, SystemInv, TableInv, S!TypeOK, S!Items
  <2>2. QED
    BY <1>1, <2>1 DEF AgentMoves
<1>2. CASE \E k \in Workers : Worker(k) \/ WriteFails(k) \/ WorkerCrash(k)
  <2>1. \/ UNCHANGED agentVars
        \/ \E k \in Workers : A!GiveUp(k)
        \/ \E k \in Workers :
             item[k].id # None /\ (A!Call(k, "Stop", Id(k)) \/ A!Call(k, "Deploy", Id(k)))
    BY <1>2, Zenon
       DEF Worker, Process, Claim, BeginScheduling, Schedule, MarkDeploying, EnsureLeaseActive,
           AwaitActive, CheckStatus, Dispatch, AwaitDeploy, ConfirmDeploy, Attach, Undo, MarkRunning,
           DispatchStop, AwaitStop, ConfirmStop, Revoke, EnsureLeaseCompleted, AwaitCompleted,
           WriteFails, WorkerCrash, KeepAgent, At
  <2>2. QED
    BY <1>1, <2>1 DEF AgentMoves
<1>3. CASE \E w \in Workloads : Tenant(w) \/ RetryDue(w) \/ ClaimLapses(w) \/ DeliverBeat(w)
  BY <1>3 DEF Tenant, RetryDue, ClaimLapses, DeliverBeat, KeepAgent, AgentMoves
<1>4. CASE \/ SendBeat \/ LoseBeat \/ Registrar \/ Agent \/ UNCHANGED vars
           \/ \E tx \in Transactions : Finalize(tx) \/ Drop(tx)
  BY <1>4 DEF SendBeat, LoseBeat, Registrar, MutexTaken, MutexFreed, Agent, Finalize, Drop, vars, AgentMoves
<1>5. QED
  BY <1>2, <1>3, <1>4 DEF Next

\* Workers drive the Agent through its calls only, each under its own guard: the
\* composed system implements the Agent's specification.
THEOREM AgentImplemented == Spec => A!Spec
<1>1. SystemInv /\ [Next]_vars => [A!Next]_(A!agentVars)
  <2> SUFFICES ASSUME SystemInv, [Next]_vars PROVE A!Next \/ UNCHANGED A!agentVars
    OBVIOUS
  <2>1. AgentMoves
    BY AgentIsCalled
  <2>2. QED
    BY <2>1 DEF AgentMoves, agentVars, A!agentVars, A!Next, A!Client
<1>2. Init => A!Init
  BY DEF Init
<1>3. QED
  BY <1>1, <1>2, SystemInvariant, PTL DEF Spec, A!Spec

\* What the composition keeps of its Agent.
AgentHolds == AP!StopInv /\ AP!CallsOwned

\* The Agent of the composition begins as the one of AgentExecutor.
LEMMA AgentHoldsStart == Init => AgentHolds
<1> SUFFICES ASSUME Init PROVE AgentHolds
  OBVIOUS
<1>1. AP!Init
  BY DEF Init, A!Init, AP!Init, A!NoRecord, AP!NoRecord, A!NoOp, AP!NoOp
<1>2. AP!StopInv
  BY <1>1, AgentConstants, AP!StopStart
<1>3. AP!CallsOwned
  BY <1>1, OrchestrationAssumption DEF AP!Init, AP!CallsOwned, AP!NoOp
<1>4. QED
  BY <1>2, <1>3 DEF AgentHolds

\* A step of the composition keeps what the Agent's own steps keep: what is gone
\* stays gone.
LEMMA AgentHoldsStep ==
  ASSUME SystemInv, AgentHolds, [Next]_vars
  PROVE  AgentHolds' /\ AP!GoneKept
<1>1. AP!Next \/ UNCHANGED AP!agentVars
  <2>1. AgentMoves
    BY AgentIsCalled
  <2>2. CASE UNCHANGED agentVars
    BY <2>2 DEF agentVars, AP!agentVars
  <2>3. CASE A!Agent \/ A!World
    BY <2>3, SameAgent DEF AP!Next
  <2>4. CASE \/ \E k \in Workers : A!GiveUp(k)
             \/ \E k \in Workers : \E kind \in {"Deploy", "Stop"}, w \in Workloads : A!Call(k, kind, w)
    BY <2>4, SameCalls DEF AP!Next, AP!Client
  <2>5. QED
    BY <2>1, <2>2, <2>3, <2>4 DEF AgentMoves
<1>2. AP!StopInv' /\ AP!GoneKept
  BY <1>1, AgentConstants, AP!StopStep DEF AgentHolds
<1>3. AP!CallsOwned'
  BY <1>1, AgentConstants, AP!CallsStep DEF AgentHolds, AP!StopInv, AP!AgentInv
<1>4. QED
  BY <1>2, <1>3 DEF AgentHolds

-----------------------------------------------------------------------------
(***************************************************************************)
(* STOPPED, for any number of workers: the table calls a workload STOPPED  *)
(* because its lease is Completed on chain (MarkStopped), or because the   *)
(* Agent said so in a heartbeat, and then it is gone, as far as the Agent  *)
(* can know (Gone of AgentExecutorProofs), however late the heartbeat is   *)
(* delivered.                                                              *)
(***************************************************************************)

IsCompleted(w) == row[w].lease # 0 /\ chain[row[w].lease] = "Completed"

StoppedForGood ==
  /\ DOMAIN beat = Workloads
  /\ \A w \in Workloads :
       /\ row[w].state = "STOPPED" => AP!Gone(w) \/ IsCompleted(w)
       /\ beat[w] = "Stopped" => AP!Gone(w)

\* What a worker writes, MarkStopped apart.
WritesOn(k) ==
  \/ \E w \in Workloads : S!ClaimNext(k, w)
  \/ S!BeginScheduling(k)
  \/ \E p \in Providers : S!AssignLease(k, p)
  \/ S!MarkLeased(k) \/ S!MarkDeploying(k) \/ S!MarkRunning(k)
  \/ S!RetryLater(k) \/ S!MarkFailed(k)
  \/ S!Abandon(k)

\* processOne marks as STOPPED only what has a completed lease.
LEMMA WorkerStops ==
  ASSUME NEW k \in Workers, Worker(k) \/ WriteFails(k) \/ WorkerCrash(k)
  PROVE  \/ UNCHANGED storeVars \/ WritesOn(k)
         \/ S!MarkStopped(k) /\ chain[Lease(k)] = "Completed"
<1>1. /\ Retry(k) => WritesOn(k)
      /\ S!Abandon(k) => WritesOn(k)
      /\ \A step : Goto(k, step) => UNCHANGED storeVars
  BY DEF Retry, Write, Goto, WritesOn
<1>2. CASE BeginScheduling(k) \/ Schedule(k) \/ MarkDeploying(k)
  BY <1>1, <1>2 DEF BeginScheduling, Schedule, MarkDeploying, Write, WritesOn
<1>3. CASE EnsureLeaseActive(k) \/ AwaitActive(k)
  BY <1>1, <1>3 DEF EnsureLeaseActive, AwaitActive, Write, WritesOn
<1>4. CASE CheckStatus(k) \/ Dispatch(k) \/ AwaitDeploy(k) \/ ConfirmDeploy(k)
  BY <1>1, <1>4 DEF CheckStatus, Dispatch, AwaitDeploy, ConfirmDeploy
<1>5. CASE Attach(k) \/ Undo(k) \/ MarkRunning(k)
  BY <1>1, <1>5 DEF Attach, Undo, MarkRunning, Write, WritesOn
<1>6. CASE DispatchStop(k) \/ AwaitStop(k) \/ ConfirmStop(k) \/ Revoke(k)
  BY <1>1, <1>6 DEF DispatchStop, AwaitStop, ConfirmStop, Revoke
<1>7. CASE EnsureLeaseCompleted(k) \/ AwaitCompleted(k)
  BY <1>1, <1>7 DEF EnsureLeaseCompleted, AwaitCompleted, Write
<1>8. CASE WriteFails(k) \/ WorkerCrash(k)
  BY <1>1, <1>8 DEF WriteFails, WorkerCrash
<1>9. CASE \E w \in Workloads : Claim(k, w)
  BY <1>9 DEF Claim, WritesOn
<1>10. QED
  BY <1>2, <1>3, <1>4, <1>5, <1>6, <1>7, <1>8, <1>9 DEF Worker, Process

\* A write that stores a state other than STOPPED stops nothing.
LEMMA UpdateStops ==
  ASSUME TableInv, NEW w \in Workloads, NEW r, NEW k, NEW own, S!Update(w, r, k, own),
         r.state # "STOPPED" \/ r.state = row[w].state
  PROVE  \A v \in Workloads : row'[v].state = "STOPPED" => row[v].state = "STOPPED"
BY DEF S!Update, TableInv, S!TypeOK

\* None of a worker's other writes makes a row STOPPED.
LEMMA OthersStopNothing ==
  ASSUME TableInv, NEW k \in Workers, WritesOn(k)
  PROVE  \A v \in Workloads : row'[v].state = "STOPPED" => row[v].state = "STOPPED"
<1> DEFINE Goal == \A v \in Workloads : row'[v].state = "STOPPED" => row[v].state = "STOPPED"
<1> SUFFICES Goal
  OBVIOUS
<1>1. ASSUME NEW w \in Workloads, S!ClaimNext(k, w) PROVE Goal
  <2> DEFINE r == [row[w] EXCEPT !.worker = k, !.live = TRUE]
  <2>1. r.state = row[w].state
    BY DEF TableInv, S!TypeOK, S!Rows
  <2>2. S!Update(w, r, k, [id |-> w, seen |-> r, current |-> TRUE])
    BY <1>1 DEF S!ClaimNext
  <2> HIDE DEF r
  <2>3. QED
    BY <2>1, <2>2, UpdateStops
<1>2. CASE S!Abandon(k)
  BY <1>2 DEF S!Abandon
<1>3. ASSUME S!HoldsClaim(k) PROVE item[k].id \in Workloads /\ row[item[k].id] \in S!Rows
  BY <1>3 DEF S!HoldsClaim, TableInv, S!TypeOK, S!Items
<1> DEFINE q == row[item[k].id]
           n == q.attempts + 1
<1>4. ASSUME NEW from, NEW s \in S!Rows, S!Mark(k, from, s), s.state # "STOPPED" \/ s.state = q.state
      PROVE  Goal
  <2>1. S!Unclaimed(s).state = s.state
    BY <1>4, RowTypes
  <2>2. item[k].id \in Workloads /\ S!Update(item[k].id, S!Unclaimed(s), k, S!NoItem)
    BY <1>3, <1>4 DEF S!Mark
  <2>3. QED
    BY <1>4, <2>1, <2>2, UpdateStops
<1> HIDE DEF Goal, n
<1>5. ASSUME NEW from, NEW to \in S!States, NEW s, to # "STOPPED",
             \/ s = [q EXCEPT !.state = to]
             \/ s = [q EXCEPT !.state = to, !.delayed = FALSE]
             \/ s = [q EXCEPT !.state = to, !.attempts = n, !.delayed = FALSE],
             S!Mark(k, from, s)
      PROVE  Goal
  <2>1. q \in S!Rows /\ q.attempts \in Nat
    BY <1>3, <1>5 DEF S!Mark, S!Rows
  <2>2. n \in Nat
    BY <2>1 DEF n
  <2> HIDE DEF q
  <2>3. s \in S!Rows /\ s.state = to
    BY <1>5, <2>1, <2>2 DEF S!Rows
  <2>4. QED
    BY <1>4, <1>5, <2>3
<1>6. {"SCHEDULING", "LEASED", "DEPLOYING", "RUNNING", "FAILED", "LEASE_PENDING"} \subseteq S!States
  BY DEF S!States, S!Workable, S!Terminal
<1>7. CASE S!BeginScheduling(k) \/ S!MarkLeased(k) \/ S!MarkDeploying(k) \/ S!MarkRunning(k)
  <2>1. CASE S!BeginScheduling(k)
    BY <1>5, <1>6, <2>1, Zenon DEF S!BeginScheduling
  <2>2. CASE S!MarkLeased(k)
    BY <1>5, <1>6, <2>2, Zenon DEF S!MarkLeased
  <2>3. CASE S!MarkDeploying(k)
    BY <1>5, <1>6, <2>3, Zenon DEF S!MarkDeploying
  <2>4. CASE S!MarkRunning(k)
    BY <1>5, <1>6, <2>4, Zenon DEF S!MarkRunning
  <2>5. QED
    BY <1>7, <2>1, <2>2, <2>3, <2>4
<1>8. CASE S!MarkFailed(k)
  BY <1>5, <1>6, <1>8, Zenon DEF S!MarkFailed, n
<1>9. CASE S!RetryLater(k)
  <2> DEFINE s == [q EXCEPT !.attempts = n, !.delayed = TRUE]
  <2>1. S!HoldsClaim(k) /\ S!Mark(k, S!Workable, s)
    BY <1>9 DEF S!RetryLater, S!Mark, n
  <2>2. q \in S!Rows /\ q.attempts \in Nat
    BY <1>3, <2>1 DEF S!Rows
  <2>3. n \in Nat
    BY <2>2 DEF n
  <2>4. s \in S!Rows /\ s.state = q.state
    BY <2>2, <2>3 DEF S!Rows
  <2> HIDE DEF s, q
  <2>5. QED
    BY <1>4, <2>1, <2>4
<1>10. ASSUME NEW p \in Providers, S!AssignLease(k, p) PROVE Goal
  <2> DEFINE s == [q EXCEPT !.state = "LEASE_PENDING", !.provider = p, !.lease = leaseSeq + 1]
  <2>1. S!HoldsClaim(k) /\ S!Mark(k, {"SCHEDULING"}, s)
    BY <1>10 DEF S!AssignLease, S!Mark
  <2>2. q \in S!Rows /\ leaseSeq + 1 \in Nat
    BY <1>3, <2>1 DEF TableInv, S!TypeOK
  <2>3. s \in S!Rows /\ s.state = "LEASE_PENDING"
    BY <1>6, <2>2 DEF S!Rows
  <2> HIDE DEF s, q
  <2>4. QED
    BY <1>4, <2>1, <2>3
<1>11. QED
  BY <1>1, <1>2, <1>7, <1>8, <1>9, <1>10 DEF WritesOn

\* A row becomes STOPPED with its lease completed, or on the Agent's word.
LEMMA RowsStopped ==
  ASSUME SystemInv, [Next]_vars, NEW w \in Workloads, row'[w].state = "STOPPED"
  PROVE  row[w].state = "STOPPED" \/ IsCompleted(w) \/ beat[w] = "Stopped"
<1>1. TableInv
  BY DEF SystemInv
<1>2. ASSUME NEW k \in Workers, Worker(k) \/ WriteFails(k) \/ WorkerCrash(k)
      PROVE  row[w].state = "STOPPED" \/ IsCompleted(w)
  <2>1. CASE UNCHANGED storeVars
    BY <2>1 DEF storeVars
  <2>2. CASE WritesOn(k)
    BY <1>1, <2>2, OthersStopNothing
  <2>3. CASE S!MarkStopped(k) /\ chain[Lease(k)] = "Completed"
    <3>1. /\ item[k].seen.lease # 0 /\ row[item[k].id].lease = item[k].seen.lease
          /\ \E r : row' = [row EXCEPT ![item[k].id] = r]
      BY <2>3 DEF S!MarkStopped, S!Mark, S!Update
    <3>2. w # item[k].id => row'[w] = row[w]
      BY <1>1, <3>1 DEF TableInv, S!TypeOK
    <3>3. QED
      BY <2>3, <3>1, <3>2 DEF IsCompleted, Lease
  <2>4. QED
    BY <1>2, <2>1, <2>2, <2>3, WorkerStops
<1>3. ASSUME NEW v \in Workloads, S!Tenant(v) PROVE row[w].state = "STOPPED"
  <2>0. row[v] \in S!Rows
    BY <1>1 DEF TableInv, S!TypeOK
  <2>1. CASE S!CreateOrGet(v)
    <3> DEFINE r == [row[v] EXCEPT !.state = "REQUESTED"]
    <3>1. r.state = "REQUESTED"
      BY <2>0 DEF S!Rows
    <3>2. S!Update(v, r, None, S!NoItem)
      BY <2>1 DEF S!CreateOrGet
    <3> HIDE DEF r
    <3>3. QED
      BY <1>1, <3>1, <3>2, UpdateStops
  <2>2. ASSUME NEW s \in StopIds, S!RequestStop(v, s) PROVE row[w].state = "STOPPED"
    <3> DEFINE r == [row[v] EXCEPT !.stop = s,
                                   !.state = IF @ \in S!Terminal THEN @ ELSE "STOPPING",
                                   !.delayed = FALSE]
    <3>1. r \in S!Rows /\ (r.state = "STOPPING" \/ r.state = row[v].state)
      BY <2>0 DEF S!Rows, S!States, S!Workable
    <3>2. S!Update(v, S!Unclaimed(r), None, S!NoItem)
      BY <2>2 DEF S!RequestStop
    <3> HIDE DEF r
    <3>3. S!Unclaimed(r).state = r.state
      BY <3>1, RowTypes
    <3>4. QED
      BY <1>1, <3>1, <3>2, <3>3, UpdateStops
  <2>3. QED
    BY <1>3, <2>1, <2>2 DEF S!Tenant
<1>4. ASSUME NEW v \in Workloads, S!ClaimLapses(v) \/ S!RetryDue(v) PROVE row[w].state = "STOPPED"
  <2>1. row[v] \in S!Rows
    BY <1>1 DEF TableInv, S!TypeOK
  <2>2. \A x : [row[v] EXCEPT !.live = x].state = row[v].state /\ [row[v] EXCEPT !.delayed = x].state = row[v].state
    BY <2>1 DEF S!Rows
  <2>3. \E x : row' = [row EXCEPT ![v] = [row[v] EXCEPT !.live = x]]
               \/ row' = [row EXCEPT ![v] = [row[v] EXCEPT !.delayed = x]]
    BY <1>4 DEF S!ClaimLapses, S!RetryDue
  <2>4. QED
    BY <1>1, <2>2, <2>3 DEF TableInv, S!TypeOK
<1>5. ASSUME NEW v \in Workloads, DeliverBeat(v) PROVE row[w].state = "STOPPED" \/ beat[w] = "Stopped"
  <2>1. CASE UNCHANGED storeVars
    BY <2>1 DEF storeVars
  <2>2. CASE /\ beat[v] \in DOMAIN Wire
             /\ \E p \in Providers : S!ReconcileFromAgent(v, p, Wire[beat[v]])
    <3> DEFINE r == [row[v] EXCEPT !.state = S!ReconcileTo(Wire[beat[v]]), !.delayed = FALSE]
    <3>1. S!Update(v, S!Unclaimed(r), None, S!NoItem)
      BY <2>2 DEF S!ReconcileFromAgent
    <3>2. /\ S!ReconcileTo(Wire[beat[v]]) \in S!States
          /\ S!ReconcileTo(Wire[beat[v]]) = "STOPPED" => beat[v] = "Stopped"
      BY <2>2 DEF Wire, S!ReconcileTo, S!States, S!Terminal
    <3>3. r \in S!Rows /\ r.state = S!ReconcileTo(Wire[beat[v]])
      BY <1>1, <3>2 DEF TableInv, S!TypeOK, S!Rows
    <3> HIDE DEF r
    <3>4. S!Unclaimed(r).state = r.state
      BY <3>3, RowTypes
    <3>5. CASE r.state = "STOPPED"
      <4>1. v # w => row'[w] = row[w]
        BY <1>1, <3>1 DEF S!Update, TableInv, S!TypeOK
      <4>2. QED
        BY <3>2, <3>3, <3>5, <4>1
    <3>6. CASE r.state # "STOPPED"
      BY <1>1, <3>1, <3>4, <3>6, UpdateStops
    <3>7. QED
      BY <3>5, <3>6
  <2>3. QED
    BY <1>5, <2>1, <2>2 DEF DeliverBeat
<1>6. CASE SendBeat \/ LoseBeat \/ Registrar \/ Agent \/ UNCHANGED vars \/ \E tx \in Transactions : Finalize(tx) \/ Drop(tx)
  BY <1>6 DEF SendBeat, LoseBeat, Registrar, MutexTaken, MutexFreed, Agent, Finalize, Drop, vars, storeVars
<1>7. QED
  BY <1>2, <1>3, <1>4, <1>5, <1>6 DEF Next, Tenant, RetryDue, ClaimLapses

\* A heartbeat says Stopped because the record did.
LEMMA BeatsStopped ==
  ASSUME DOMAIN beat = Workloads, [Next]_vars
  PROVE  /\ DOMAIN beat' = Workloads
         /\ \A w \in Workloads :
              beat'[w] = "Stopped" => beat[w] = "Stopped" \/ rec[w].phase = "Stopped"
<1>1. CASE beat' = beat
  BY <1>1
<1>2. CASE \E k \in Workers : Worker(k) \/ WriteFails(k) \/ WorkerCrash(k)
  BY <1>1, <1>2
     DEF Worker, Process, Claim, BeginScheduling, Schedule, MarkDeploying, EnsureLeaseActive,
         AwaitActive, CheckStatus, Dispatch, AwaitDeploy, ConfirmDeploy, Attach, Undo, MarkRunning,
         DispatchStop, AwaitStop, ConfirmStop, Revoke, EnsureLeaseCompleted, AwaitCompleted,
         WriteFails, WorkerCrash, KeepRest
<1>3. CASE \E v \in Workloads : Tenant(v) \/ RetryDue(v) \/ ClaimLapses(v)
  BY <1>1, <1>3 DEF Tenant, RetryDue, ClaimLapses, otherVars
<1>4. CASE \E v \in Workloads : DeliverBeat(v)
  BY <1>4 DEF DeliverBeat
<1>5. CASE SendBeat
  BY <1>5 DEF SendBeat
<1>6. CASE LoseBeat
  BY <1>6 DEF LoseBeat
<1>7. CASE Registrar \/ Agent \/ UNCHANGED vars \/ \E tx \in Transactions : Finalize(tx) \/ Drop(tx)
  BY <1>1, <1>7 DEF Registrar, MutexTaken, MutexFreed, Agent, Finalize, Drop, vars, otherVars
<1>8. QED
  BY <1>2, <1>3, <1>4, <1>5, <1>6, <1>7 DEF Next

\* What the chain has Completed was submitted for completion, and stays so.
LEMMA ChainCompletes ==
  ASSUME SystemInv, [Next]_vars, NEW l \in Leases
  PROVE  /\ chain[l] = "Completed" => chain'[l] = "Completed"
         /\ chain'[l] = "Completed" => chain[l] = "Completed" \/ <<l, "complete">> \in pool
<1>1. chain \in [Leases -> LeaseStates]
  BY DEF SystemInv
<1>2. chain[l] = "Completed" => chain'[l] = "Completed"
  BY ChainStep DEF ChainKept
<1>3. ASSUME NEW tx \in Transactions, Finalize(tx), chain'[l] = "Completed", chain[l] # "Completed"
      PROVE  <<l, "complete">> \in pool
  <2>1. tx = <<tx[1], tx[2]>> /\ tx[1] \in Leases /\ tx \in pool
    BY <1>3 DEF Transactions, Finalize
  <2>2. Apply(tx)
    BY <1>3 DEF Finalize
  <2>3. tx[1] = l
    BY <1>1, <1>3, <2>1, <2>2 DEF Apply
  <2>4. tx[2] = "complete"
    BY <1>1, <1>3, <2>1, <2>2, <2>3 DEF Apply
  <2>5. QED
    BY <2>1, <2>3, <2>4
<1>4. CASE \E k \in Workers : Worker(k) \/ WriteFails(k) \/ WorkerCrash(k)
  <2>1. chain' = chain
    BY <1>4
       DEF Worker, Process, Claim, BeginScheduling, Schedule, MarkDeploying, EnsureLeaseActive,
           AwaitActive, CheckStatus, Dispatch, AwaitDeploy, ConfirmDeploy, Attach, Undo, MarkRunning,
           DispatchStop, AwaitStop, ConfirmStop, Revoke, EnsureLeaseCompleted, AwaitCompleted,
           WriteFails, WorkerCrash, KeepRest
  <2>2. QED
    BY <1>2, <2>1
<1>5. CASE \E w \in Workloads : Tenant(w) \/ RetryDue(w) \/ ClaimLapses(w) \/ DeliverBeat(w)
  BY <1>2, <1>5 DEF Tenant, RetryDue, ClaimLapses, DeliverBeat, otherVars
<1>6. CASE SendBeat \/ LoseBeat \/ Registrar \/ Agent \/ UNCHANGED vars \/ (\E tx \in Transactions : Drop(tx))
  BY <1>2, <1>6 DEF SendBeat, LoseBeat, Registrar, MutexTaken, MutexFreed, Agent, Drop, vars, otherVars
<1>7. QED
  BY <1>2, <1>3, <1>4, <1>5, <1>6 DEF Next

\* A completed lease stays completed, and stays the workload's.
LEMMA CompletedKept ==
  ASSUME SystemInv, [Next]_vars, NEW w \in Workloads, IsCompleted(w)
  PROVE  IsCompleted(w)'
<1>1. row[w].lease \in Leases /\ row'[w].lease = row[w].lease
  BY LeaseRange, TableKept DEF SystemInv, RowsKept, IsCompleted
<1>2. QED
  BY <1>1, ChainCompletes DEF IsCompleted

\* Every step keeps the reasons for STOPPED.
LEMMA StoppedStep ==
  ASSUME SystemInv, AgentHolds, StoppedForGood, [Next]_vars
  PROVE  StoppedForGood'
<1>1. \A w \in Workloads : AP!Gone(w) => AP!Gone(w)'
  BY AgentHoldsStep DEF AP!GoneKept
<1>2. /\ DOMAIN beat' = Workloads
      /\ \A w \in Workloads :
           beat'[w] = "Stopped" => beat[w] = "Stopped" \/ rec[w].phase = "Stopped"
  BY BeatsStopped DEF StoppedForGood
<1>3. ASSUME NEW w \in Workloads, beat'[w] = "Stopped" PROVE AP!Gone(w)
  BY <1>2, <1>3 DEF StoppedForGood, AgentHolds, AP!StopInv, AP!StoppedStays
<1>4. ASSUME NEW w \in Workloads, row'[w].state = "STOPPED" PROVE AP!Gone(w) \/ IsCompleted(w)
  BY <1>4, RowsStopped DEF StoppedForGood
<1>5. QED
  BY <1>1, <1>2, <1>3, <1>4, CompletedKept DEF StoppedForGood

\* What the composition keeps for any number of workers: its own invariant, the
\* Agent's, and the reasons for STOPPED.
FullInv == SystemInv /\ AgentHolds /\ StoppedForGood

\* It begins so.
LEMMA FullStart == Init => FullInv
<1> SUFFICES ASSUME Init PROVE FullInv
  OBVIOUS
<1>1. SystemInv /\ AgentHolds
  BY SystemStart, AgentHoldsStart
<1>2. StoppedForGood
  BY DEF Init, S!Init, S!NoRow, StoppedForGood
<1>3. QED
  BY <1>1, <1>2 DEF FullInv

\* Every step keeps it.
LEMMA FullStep == FullInv /\ [Next]_vars => FullInv'
BY SystemStep, AgentHoldsStep, StoppedStep DEF FullInv

\* STOPPED is never said on less than a completed lease or an Agent's record
\* whose container is gone, or was left behind by the one restart since
\* (ReconcileFromAgent, MarkStopped), for any number of workers.
THEOREM StoppedIsFounded == Spec => []StoppedForGood
<1>1. FullInv => StoppedForGood
  BY DEF FullInv
<1>2. QED
  BY <1>1, FullStart, FullStep, PTL DEF Spec

-----------------------------------------------------------------------------
(***************************************************************************)
(* One Control Plane. "Today there is exactly one and it is trusted"       *)
(* (docs/adr/012, l. 53), with one orchestrator worker; what follows is    *)
(* proved for one, any number of workloads, crashes and faults.            *)
(*                                                                         *)
(* Before the worker completes a lease it has had the answer of a Stop.    *)
(* The Deploys of the same workload that it had given up on were sent      *)
(* before that Stop, and the event bus keeps their order: with the answer  *)
(* none of them is left (StopHolds). The stop is final in the table, so    *)
(* none is sent later, and no peer is attached (OverHolds).                *)
(***************************************************************************)

OneWorker == \A j, k \in Workers : j = k

\* Nothing of w runs or is about to.
Quiet(w) == w \notin Deploying /\ ctr[w] # "running"

\* The lease of w is completed, or about to be.
Over(w) ==
  /\ row[w].lease # 0
  /\ chain[row[w].lease] = "Completed" \/ <<row[w].lease, "complete">> \in pool

\* What worker k knows of its workload on the way to the end of a stop.
StopHolds(k) ==
  /\ pc[k] \in AfterStop => item[k].seen.state = "STOPPING"
  /\ pc[k] = "stop" /\ reply[k] = "waiting" => AP!DeploysFirst(k, item[k].id)
  /\ pc[k] = "stop" /\ reply[k] = "ok" => item[k].id \notin Deploying
  /\ pc[k] = "confirmStop" => item[k].id \notin Deploying
  /\ pc[k] \in {"revoke", "complete", "awaitCompleted"} => Quiet(item[k].id)
  /\ pc[k] \in {"complete", "awaitCompleted"} => item[k].id \notin peers[k]

\* Nobody works on w, or is about to deploy it.
Left(w) ==
  /\ Quiet(w)
  /\ \A k \in Workers :
       w \notin peers[k] /\ (item[k].id = w => item[k].seen.state # "DEPLOYING")

OverHolds == \A w \in Workloads : Over(w) => Left(w)

CompletedAreAsked ==
  \A l \in Leases :
    chain[l] = "Completed" => \E w \in Workloads : row[w].lease = l /\ row[w].stop # None

OneInv ==
  /\ OneWorker /\ FullInv
  /\ DOMAIN peers = Workers
  /\ CompletedAreAsked
  /\ \A k \in Workers : StopHolds(k)
  /\ OverHolds

\* A completion, once submitted or finalized, was asked for.
LEMMA CompletedStep ==
  ASSUME SystemInv, CompletedAreAsked, [Next]_vars
  PROVE  CompletedAreAsked'
<1>1. ASSUME NEW l \in Leases, chain'[l] = "Completed"
      PROVE  \E w \in Workloads : row'[w].lease = l /\ row'[w].stop # None
  <2>1. PICK w \in Workloads : row[w].lease = l /\ row[w].stop # None
    BY <1>1, ChainCompletes DEF CompletedAreAsked, SystemInv, CompletionsAreAsked
  <2>2. l # 0
    BY OrchestrationAssumption, FS_CardinalityType DEF Leases
  <2>3. QED
    BY <2>1, <2>2, TableKept DEF SystemInv, RowsKept
<1>2. QED
  BY <1>1 DEF CompletedAreAsked

\* A workload whose lease is about to be completed has been stopped.
LEMMA OverIsStopped ==
  ASSUME SystemInv, CompletedAreAsked, NEW w \in Workloads, Over(w)
  PROVE  row[w].stop # None
<1>1. row[w].lease # 0 /\ row[w].lease \in Leases
  BY LeaseRange DEF SystemInv, Over
<1>2. PICK v \in Workloads : row[v].lease = row[w].lease /\ row[v].stop # None
  BY <1>1 DEF Over, SystemInv, CompletionsAreAsked, CompletedAreAsked
<1>3. QED
  BY <1>1, <1>2 DEF SystemInv, TableInv, LeasesDistinct

\* What the invariant says of the leases of every row, to be used after a step.
LeasesKnown ==
  \A w \in Workloads :
    /\ row[w].lease # 0 => row[w].lease \in Leases
    /\ Over(w) => row[w].stop # None

\* It follows from the invariant.
LEMMA LeasesAreKnown == SystemInv /\ CompletedAreAsked => LeasesKnown
BY LeaseRange, OverIsStopped DEF SystemInv, LeasesKnown

\* It is over with the worker that submits the completion, and a lease that is
\* assigned is new.
LEMMA OverBegins ==
  ASSUME SystemInv, CompletedAreAsked, [Next]_vars, NEW w \in Workloads, Over(w)'
  PROVE  Over(w) \/ \E k \in Workers : item[k].id = w /\ pc[k] = "complete"
<1>1. TableInv' /\ RowsKept
  BY TableKept DEF SystemInv
<1> DEFINE l == row'[w].lease
<1>2. l # 0 /\ l \in Leases
  <2>1. SystemInv' /\ CompletedAreAsked'
    BY SystemStep, CompletedStep
  <2>2. LeasesKnown'
    BY <2>1, LeasesAreKnown, PTL
  <2>3. QED
    BY <2>2 DEF LeasesKnown, Over, Leases
<1>3. ASSUME NEW v \in Workloads, row[v].lease = l PROVE v = w /\ row[w].lease = l
  BY <1>1, <1>2, <1>3 DEF RowsKept, TableInv, LeasesDistinct
<1>4. CASE chain'[l] = "Completed" \/ <<l, "complete">> \in pool
  <2>1. chain[l] = "Completed" \/ <<l, "complete">> \in pool
    BY <1>2, <1>4, ChainCompletes
  <2>2. PICK v \in Workloads : row[v].lease = l
    BY <1>2, <2>1 DEF SystemInv, CompletionsAreAsked, CompletedAreAsked
  <2>3. QED
    BY <1>2, <1>3, <2>1, <2>2 DEF Over
<1>5. CASE <<l, "complete">> \in pool' /\ <<l, "complete">> \notin pool
  <2>1. PICK k \in Workers : item[k].id # None /\ pc[k] = "complete" /\ item[k].seen.lease = l
    BY <1>5, CompletionStep
  <2>2. item[k].id \in Workloads
    BY <2>1 DEF SystemInv, TableInv, S!TypeOK, S!Items
  <2>3. row[item[k].id].lease = l
    BY <1>2, <2>1 DEF SystemInv, SnapshotsHold, SnapshotHolds
  <2>4. QED
    BY <1>3, <2>1, <2>2, <2>3
<1>6. QED
  BY <1>4, <1>5 DEF Over

\* A peer is attached to the workload of a worker that saw it in DEPLOYING.
LEMMA PeersStep ==
  ASSUME DOMAIN peers = Workers, [Next]_vars
  PROVE  /\ DOMAIN peers' = Workers
         /\ \A j \in Workers : \A w \in peers'[j] :
              w \in peers[j] \/ (item[j].id = w /\ item[j].seen.state = "DEPLOYING")
<1>1. CASE peers' = peers
  BY <1>1
<1>2. ASSUME NEW k \in Workers, Attach(k), peers' # peers
      PROVE  /\ peers' = [peers EXCEPT ![k] = @ \cup {Id(k)}]
             /\ item[k].seen.state = "DEPLOYING"
  BY <1>2 DEF Attach, At
<1>3. ASSUME NEW k \in Workers, Revoke(k), peers' # peers
      PROVE  peers' = [peers EXCEPT ![k] = @ \ {Id(k)}]
  BY <1>3 DEF Revoke
<1>4. ASSUME NEW k \in Workers, WorkerCrash(k)
      PROVE  peers' = [peers EXCEPT ![k] = {}]
  BY <1>4 DEF WorkerCrash
<1>5. ASSUME NEW k \in Workers, Worker(k) \/ WriteFails(k), ~Attach(k), ~Revoke(k)
      PROVE  peers' = peers
  BY <1>5
     DEF Worker, Process, Claim, BeginScheduling, Schedule, MarkDeploying, EnsureLeaseActive,
         AwaitActive, CheckStatus, Dispatch, AwaitDeploy, ConfirmDeploy, Undo, MarkRunning,
         DispatchStop, AwaitStop, ConfirmStop, EnsureLeaseCompleted, AwaitCompleted,
         WriteFails, KeepRest
<1>6. CASE \E w \in Workloads : Tenant(w) \/ RetryDue(w) \/ ClaimLapses(w) \/ DeliverBeat(w)
  BY <1>1, <1>6 DEF Tenant, RetryDue, ClaimLapses, DeliverBeat, otherVars
<1>7. CASE SendBeat \/ LoseBeat \/ Registrar \/ Agent \/ UNCHANGED vars \/ \E tx \in Transactions : Finalize(tx) \/ Drop(tx)
  BY <1>1, <1>7 DEF SendBeat, LoseBeat, Registrar, MutexTaken, MutexFreed, Agent, Finalize, Drop, vars, otherVars
<1>8. ASSUME NEW k \in Workers, Worker(k) \/ WriteFails(k) \/ WorkerCrash(k), peers' # peers
      PROVE  /\ DOMAIN peers' = Workers
             /\ \A j \in Workers : \A w \in peers'[j] :
                  w \in peers[j] \/ (item[j].id = w /\ item[j].seen.state = "DEPLOYING")
  <2>1. CASE Attach(k)
    BY <1>2, <1>8, <2>1 DEF Id
  <2>2. CASE Revoke(k)
    BY <1>3, <1>8, <2>2
  <2>3. CASE WorkerCrash(k)
    BY <1>4, <2>3
  <2>4. QED
    BY <1>5, <1>8, <2>1, <2>2, <2>3
<1>9. QED
  BY <1>1, <1>6, <1>7, <1>8 DEF Next

\* What is over is left alone.
LEMMA OverStep ==
  ASSUME OneInv, [Next]_vars
  PROVE  OverHolds'
<1>1. ASSUME NEW w \in Workloads, Over(w)' PROVE Left(w)'
  <2>0. /\ SystemInv /\ SystemInv' /\ TableInv' /\ SnapshotsFollow
        /\ CompletedAreAsked /\ CompletedAreAsked' /\ w # None
    BY SystemStep, TableKept, CompletedStep, OrchestrationAssumption DEF OneInv, FullInv, SystemInv
  <2>1. Left(w)
    <3>1. CASE Over(w)
      BY <3>1 DEF OneInv, OverHolds
    <3>2. ASSUME NEW k \in Workers, item[k].id = w, pc[k] = "complete" PROVE Left(w)
      <4>1. StopHolds(k) /\ \A j \in Workers : j = k
        BY DEF OneInv, OneWorker
      <4>2. QED
        BY <3>2, <4>1 DEF StopHolds, AfterStop, Left
    <3>3. QED
      BY <1>1, <2>0, <3>1, <3>2, OverBegins
  <2>2. Quiet(w)'
    BY <2>0, <2>1, AgentStep DEF Left, Quiet, OnlyDeployRuns
  <2>3. row'[w].stop # None
    <3>1. LeasesKnown'
      BY <2>0, LeasesAreKnown, PTL
    <3>2. QED
      BY <1>1, <3>1 DEF LeasesKnown
  <2>4. ASSUME NEW k \in Workers PROVE w \notin peers'[k]
    BY <2>1, PeersStep DEF OneInv, Left
  <2>5. ASSUME NEW k \in Workers, item'[k].id = w PROVE item'[k].seen.state # "DEPLOYING"
    <3>1. CASE item[k].id = w /\ item'[k].seen = item[k].seen
      BY <2>1, <3>1 DEF Left
    <3>2. CASE item'[k].seen = row'[w]
      <4>1. RowOK(row'[w])
        BY <2>0 DEF TableInv
      <4>2. QED
        BY <2>3, <3>2, <4>1 DEF RowOK, S!Terminal
    <3>3. QED
      BY <2>0, <2>5, <3>1, <3>2 DEF SnapshotsFollow
  <2>6. QED
    BY <2>2, <2>4, <2>5 DEF Left
<1>2. QED
  BY <1>1 DEF OverHolds

\* How a worker gets from one step of a stop to the next.
StopMoves(k) ==
  \/ /\ pc'[k] = "stop" /\ At(k, "STOPPING", "claimed")
     /\ A!Call(k, "Stop", Id(k))
  \/ /\ pc'[k] = "confirmStop" /\ At(k, "STOPPING", "stop")
     /\ reply[k] = "ok" /\ UNCHANGED agentVars
  \/ /\ pc'[k] = "revoke" /\ At(k, "STOPPING", "confirmStop")
     /\ A!StatusOf(Id(k)) = "Completed" /\ UNCHANGED agentVars
  \/ /\ pc'[k] = "complete" /\ At(k, "STOPPING", "revoke")
     /\ peers' = [peers EXCEPT ![k] = @ \ {Id(k)}] /\ UNCHANGED agentVars
  \/ /\ pc'[k] = "awaitCompleted" /\ At(k, "STOPPING", "complete")
     /\ UNCHANGED peers /\ UNCHANGED agentVars

\* The steps of a stop are taken in their order, each for its own reason.
LEMMA StopAdvances ==
  ASSUME SystemInv, NEW k \in Workers, Worker(k) \/ WriteFails(k) \/ WorkerCrash(k),
         pc'[k] \in AfterStop
  PROVE  StopMoves(k)
<1>1. /\ \A write : Write(k, write) => pc'[k] = "idle"
      /\ Retry(k) => pc'[k] = "idle"
      /\ \A step : Goto(k, step) => pc'[k] = step
      /\ pc' = [pc EXCEPT ![k] = "idle"] => pc'[k] = "idle"
      /\ pc' = [pc EXCEPT ![k] = "claimed"] => pc'[k] = "claimed"
  BY DEF SystemInv, Write, Retry, Goto
<1>2. {"idle", "claimed", "awaitActive", "checked", "deploy", "confirmDeploy", "attach", "undo",
       "running"} \cap AfterStop = {}
  BY DEF AfterStop
<1>3. CASE WriteFails(k) \/ WorkerCrash(k) \/ \E w \in Workloads : Claim(k, w)
  BY <1>1, <1>2, <1>3 DEF WriteFails, WorkerCrash, Claim
<1>4. CASE BeginScheduling(k) \/ Schedule(k) \/ MarkDeploying(k) \/ MarkRunning(k)
  BY <1>1, <1>2, <1>4 DEF BeginScheduling, Schedule, MarkDeploying, MarkRunning
<1>5. CASE EnsureLeaseActive(k) \/ AwaitActive(k) \/ CheckStatus(k) \/ Dispatch(k)
  BY <1>1, <1>2, <1>5 DEF EnsureLeaseActive, AwaitActive, CheckStatus, Dispatch
<1>6. CASE AwaitDeploy(k) \/ ConfirmDeploy(k) \/ Attach(k) \/ Undo(k)
  BY <1>1, <1>2, <1>6 DEF AwaitDeploy, ConfirmDeploy, Attach, Undo
<1>7. CASE DispatchStop(k)
  BY <1>1, <1>2, <1>7 DEF DispatchStop, StopMoves
<1>8. CASE AwaitStop(k)
  BY <1>1, <1>2, <1>8 DEF AwaitStop, StopMoves, KeepAgent
<1>9. CASE ConfirmStop(k)
  BY <1>1, <1>2, <1>9 DEF ConfirmStop, StopMoves, KeepAgent
<1>10. CASE Revoke(k)
  BY <1>1, <1>2, <1>10 DEF Revoke, StopMoves, KeepAgent
<1>11. CASE EnsureLeaseCompleted(k) \/ AwaitCompleted(k)
  BY <1>1, <1>2, <1>11 DEF EnsureLeaseCompleted, AwaitCompleted, StopMoves, KeepAgent
<1>12. QED
  BY <1>3, <1>4, <1>5, <1>6, <1>7, <1>8, <1>9, <1>10, <1>11 DEF Worker, Process

\* The Agent's word that a workload has Completed means that it does not run.
LEMMA CompletedDoesNotRun ==
  ASSUME AgentHolds, NEW w \in Workloads, A!StatusOf(w) = "Completed"
  PROVE  ctr[w] # "running"
<1>1. CASE rec[w].phase = "Stopped"
  BY <1>1 DEF AgentHolds, AP!StopInv, AP!AgentInv, AP!StoppedNotRunning
<1>2. CASE rec[w].phase # "Stopped"
  <2>1. A!StatusOf(w) = CASE ctr[w] = "running" -> "Running"
                          [] ctr[w] = "created" -> "Created"
                          [] ctr[w] = "exited" -> "Completed"
                          [] OTHER -> "Error"
    BY <1>2 DEF A!StatusOf
  <2>2. QED
    BY <2>1
<1>3. QED
  BY <1>1, <1>2

\* On the way to the end of a stop a worker keeps its workload, and saw it in
\* STOPPING.
LEMMA StopKeepsItem ==
  ASSUME OneInv, [Next]_vars, NEW k \in Workers, pc'[k] \in AfterStop, item[k].id # None
  PROVE  item'[k].id = item[k].id /\ item'[k].seen = item[k].seen /\ item[k].id \in Workloads
<1>1. SystemInv /\ SystemInv' /\ SnapshotsFollow
  BY SystemStep, TableKept DEF OneInv, FullInv, SystemInv
<1>2. item'[k].id # None
  BY <1>1 DEF SystemInv, SnapshotsHold, AfterStop
<1>3. item[k].id \in Workloads
  BY <1>1 DEF SystemInv, TableInv, S!TypeOK, S!Items
<1>4. QED
  BY <1>1, <1>2, <1>3 DEF SnapshotsFollow

\* A step of the worker itself.
LEMMA StopHoldsProcess ==
  ASSUME OneInv, [Next]_vars, NEW k \in Workers, Worker(k) \/ WriteFails(k) \/ WorkerCrash(k)
  PROVE  StopHolds(k)'
<1>1. SystemInv /\ AgentHolds /\ StopHolds(k) /\ DOMAIN peers = Workers
  BY DEF OneInv, FullInv
<1>2. CASE pc'[k] \notin AfterStop
  BY <1>2 DEF StopHolds, AfterStop
<1>3. CASE pc'[k] \in AfterStop
  <2>1. StopMoves(k)
    BY <1>1, <1>3, StopAdvances
  <2>2. /\ item'[k].id = item[k].id /\ item'[k].seen = item[k].seen /\ item[k].id \in Workloads
        /\ item[k].seen.state = "STOPPING"
    BY <1>3, <2>1, StopKeepsItem DEF StopMoves, At
  <2>3. CASE pc'[k] = "stop"
    <3>1. A!Call(k, "Stop", item[k].id)
      BY <2>1, <2>3 DEF StopMoves, Id
    <3>2. AP!Call(k, "Stop", item[k].id)
      BY <3>1, SameCalls
    <3>3. AP!TypeOK
      BY <1>1 DEF AgentHolds, AP!StopInv, AP!AgentInv
    <3>4. AP!DeploysFirst(k, item[k].id)' /\ reply'[k] = "waiting"
      <4>1. PICK v \in Workloads : v = item[k].id
        BY <2>2
      <4>2. AP!DeploysFirst(k, v)' /\ reply'[k] = "waiting"
        BY <3>2, <3>3, <4>1, AgentConstants, AP!CallComesLast
      <4>3. QED
        BY <2>2, <4>1, <4>2 DEF AP!DeploysFirst
    <3>5. QED
      BY <2>2, <2>3, <3>4 DEF StopHolds
  <2>4. CASE pc'[k] = "confirmStop"
    <3>1. pc[k] = "stop" /\ reply[k] = "ok" /\ UNCHANGED agentVars
      BY <2>1, <2>4 DEF StopMoves, At
    <3>2. item[k].id \notin Deploying
      BY <1>1, <3>1 DEF StopHolds
    <3>3. Deploying' = Deploying
      BY <3>1 DEF agentVars, Deploying
    <3>4. QED
      BY <2>2, <2>4, <3>2, <3>3 DEF StopHolds
  <2>5. CASE pc'[k] = "revoke"
    <3>1. pc[k] = "confirmStop" /\ A!StatusOf(item[k].id) = "Completed" /\ UNCHANGED agentVars
      BY <2>1, <2>5 DEF StopMoves, At, Id
    <3>2. item[k].id \notin Deploying /\ ctr[item[k].id] # "running"
      BY <1>1, <2>2, <3>1, CompletedDoesNotRun DEF StopHolds
    <3>3. Deploying' = Deploying /\ ctr' = ctr
      BY <3>1 DEF agentVars, Deploying
    <3>4. QED
      BY <2>2, <2>5, <3>2, <3>3 DEF StopHolds, Quiet
  <2>6. CASE pc'[k] \in {"complete", "awaitCompleted"}
    <3>1. /\ pc[k] \in {"revoke", "complete"} /\ UNCHANGED agentVars
          /\ \/ pc[k] = "complete" /\ peers' = peers
             \/ peers' = [peers EXCEPT ![k] = @ \ {item[k].id}]
      BY <2>1, <2>6 DEF StopMoves, At, Id
    <3>2. Quiet(item[k].id) /\ (pc[k] = "complete" => item[k].id \notin peers[k])
      BY <1>1, <3>1 DEF StopHolds
    <3>3. Deploying' = Deploying /\ ctr' = ctr
      BY <3>1 DEF agentVars, Deploying
    <3>4. item[k].id \notin peers'[k]
      BY <1>1, <3>1, <3>2
    <3>5. QED
      BY <2>2, <2>6, <3>2, <3>3, <3>4 DEF StopHolds, Quiet
  <2>7. QED
    BY <1>3, <2>3, <2>4, <2>5, <2>6 DEF AfterStop
<1>4. QED
  BY <1>2, <1>3

\* A step of the Agent: it takes its commands in order, and answers a Stop when
\* the Deploys before it are done.
LEMMA StopHoldsAgent ==
  ASSUME OneInv, [Next]_vars, NEW k \in Workers, Agent
  PROVE  StopHolds(k)'
<1>1. SystemInv /\ AgentHolds /\ StopHolds(k) /\ AgentTypes
  BY DEF OneInv, FullInv, SystemInv
<1>2. (A!Agent \/ A!World) /\ UNCHANGED <<item, pc, peers>>
  BY DEF Agent, storeVars, otherVars
<1>3. CASE pc[k] \notin AfterStop
  BY <1>2, <1>3 DEF StopHolds, AfterStop
<1>4. CASE pc[k] \in AfterStop
  <2>1. item[k].id \in Workloads
    BY <1>1, <1>4 DEF SystemInv, SnapshotsHold, TableInv, S!TypeOK, S!Items, AfterStop
  <2>2. PICK w \in Workloads : w = item[k].id
    BY <2>1
  <2>3. Deploying' \subseteq Deploying /\ OnlyDeployRuns
    BY <1>1, <1>2, AgentFollows
  <2>4. Quiet(w) => Quiet(w)'
    BY <2>3 DEF Quiet, OnlyDeployRuns
  <2>5. ASSUME pc[k] = "stop"
        PROVE  /\ reply'[k] = "waiting" => AP!DeploysFirst(k, w)'
               /\ reply'[k] = "ok" => w \notin Deploying'
    <3>1. AP!TypeOK /\ AP!CallsOwned /\ (AP!Agent \/ AP!World)
      BY <1>1, <1>2, SameAgent DEF AgentHolds, AP!StopInv, AP!AgentInv
    <3>2. CASE reply[k] = "waiting"
      <4>1. AP!DeploysFirst(k, w)
        BY <1>1, <2>2, <2>5, <3>2 DEF StopHolds
      <4>2. /\ reply'[k] = "waiting" => AP!DeploysFirst(k, w)'
            /\ reply'[k] = "ok" => ~AP!DeployPending(w)'
        BY <3>1, <3>2, <4>1, AgentConstants, AP!DeploysFirstStep
      <4>3. w \in Deploying' => AP!DeployPending(w)'
        BY DEF Deploying, AP!DeployPending
      <4>4. QED
        BY <4>2, <4>3
    <3>3. CASE reply[k] # "waiting"
      <4>1. reply'[k] = reply[k]
        BY <3>1, <3>3, AgentConstants, AP!RepliesStay
      <4>2. QED
        BY <1>1, <2>2, <2>3, <2>5, <3>3, <4>1 DEF StopHolds
    <3>4. QED
      BY <3>2, <3>3
  <2>6. item' = item /\ pc' = pc /\ peers' = peers /\ item'[k].id = w
    BY <1>2, <2>2
  <2>7. pc'[k] = "stop" => /\ reply'[k] = "waiting" => AP!DeploysFirst(k, item[k].id)'
                           /\ reply'[k] = "ok" => item'[k].id \notin Deploying'
    BY <2>2, <2>5, <2>6 DEF AP!DeploysFirst
  <2>8. Quiet(item[k].id) => Quiet(item[k].id)'
    BY <2>2, <2>4, <2>6 DEF Quiet
  <2>9. QED
    BY <1>1, <2>3, <2>6, <2>7, <2>8 DEF StopHolds
<1>5. QED
  BY <1>3, <1>4

\* The other steps touch neither the worker's place nor the Agent.
LEMMA StopHoldsRest ==
  ASSUME OneInv, [Next]_vars, NEW k \in Workers, UNCHANGED <<pc, peers, agentVars>>
  PROVE  StopHolds(k)'
<1>1. StopHolds(k) /\ SystemInv
  BY DEF OneInv, FullInv
<1>2. CASE pc[k] \notin AfterStop
  BY <1>2 DEF StopHolds, AfterStop
<1>3. CASE pc[k] \in AfterStop
  <2>1. item[k].id # None
    BY <1>1, <1>3 DEF SystemInv, SnapshotsHold, AfterStop
  <2>2. item'[k].id = item[k].id /\ item'[k].seen = item[k].seen
    BY <1>3, <2>1, StopKeepsItem
  <2>3. Deploying' = Deploying /\ ctr' = ctr /\ reply' = reply /\ op' = op /\ queue' = queue
    BY DEF agentVars, Deploying
  <2>4. AP!DeploysFirst(k, item[k].id) => AP!DeploysFirst(k, item[k].id)'
    BY <2>2, <2>3 DEF AP!DeploysFirst
  <2>5. Quiet(item[k].id) => Quiet(item[k].id)'
    BY <2>2, <2>3 DEF Quiet
  <2>6. QED
    BY <1>1, <2>2, <2>3, <2>4, <2>5 DEF StopHolds
<1>4. QED
  BY <1>2, <1>3

\* One worker: every step keeps what it knows of its stop.
LEMMA StopHoldsStep ==
  ASSUME OneInv, [Next]_vars, NEW k \in Workers
  PROVE  StopHolds(k)'
<1>1. ASSUME NEW j \in Workers, Worker(j) \/ WriteFails(j) \/ WorkerCrash(j) PROVE StopHolds(k)'
  <2>1. j = k
    BY DEF OneInv, OneWorker
  <2>2. QED
    BY <1>1, <2>1, StopHoldsProcess
<1>2. CASE \E w \in Workloads : Tenant(w) \/ RetryDue(w) \/ ClaimLapses(w) \/ DeliverBeat(w)
  <2>1. UNCHANGED <<pc, peers, agentVars>>
    BY <1>2 DEF Tenant, RetryDue, ClaimLapses, DeliverBeat, KeepAgent, otherVars
  <2>2. QED
    BY <2>1, StopHoldsRest
<1>3. CASE SendBeat \/ LoseBeat \/ Registrar \/ UNCHANGED vars \/ \E tx \in Transactions : Finalize(tx) \/ Drop(tx)
  <2>1. UNCHANGED <<pc, peers, agentVars>>
    BY <1>3 DEF SendBeat, LoseBeat, Registrar, MutexTaken, MutexFreed, Finalize, Drop, vars, otherVars
  <2>2. QED
    BY <2>1, StopHoldsRest
<1>4. QED
  BY <1>1, <1>2, <1>3, StopHoldsAgent DEF Next

\* The system of one worker begins in its invariant.
LEMMA OneStart == OneWorker /\ Init => OneInv
<1> SUFFICES ASSUME OneWorker, Init PROVE OneInv
  OBVIOUS
<1>1. FullInv
  BY FullStart
<1>2. \A k \in Workers : StopHolds(k)
  BY DEF Init, StopHolds, AfterStop
<1>3. OverHolds
  BY DEF Init, S!Init, S!NoRow, OverHolds, Over
<1>4. CompletedAreAsked /\ DOMAIN peers = Workers
  BY DEF Init, CompletedAreAsked
<1>5. QED
  BY <1>1, <1>2, <1>3, <1>4 DEF OneInv

\* Every step keeps it.
LEMMA OneStep == OneInv /\ [Next]_vars => OneInv'
<1> SUFFICES ASSUME OneInv, [Next]_vars PROVE OneInv'
  OBVIOUS
<1>1. OneWorker'
  BY DEF OneInv, OneWorker
<1>2. FullInv' /\ CompletedAreAsked' /\ DOMAIN peers' = Workers
  BY FullStep, CompletedStep, PeersStep DEF OneInv, FullInv
<1>3. QED
  BY <1>1, <1>2, StopHoldsStep, OverStep DEF OneInv

\* The invariant of the system with one Control Plane, through crashes of both
\* sides, lost answers and late transactions.
THEOREM OneWorkerInvariant == OneWorker /\ Spec => []OneInv
BY OneStart, OneStep, PTL DEF Spec

\* A lease is completed only when its container does not run, and no Deploy that
\* the worker gave up on brings it back: the Stop that was answered came after
\* it on the event bus (stop, EnsureLeaseCompleted).
THEOREM CompletedStaysIdle == OneWorker /\ Spec => []CompletedIsIdle
<1>1. OneInv => CompletedIsIdle
  BY DEF OneInv, OverHolds, Over, Left, Quiet, CompletedIsIdle
<1>2. QED
  BY <1>1, OneWorkerInvariant, PTL

\* The peer is revoked before the lease is completed, and none is attached again
\* (ADR-010; Revoke, Attach).
THEOREM RevokedFirst == OneWorker /\ Spec => []RevokedBeforeCompletion
<1>1. OneInv => RevokedBeforeCompletion
  BY DEF OneInv, OverHolds, Over, Left, RevokedBeforeCompletion
<1>2. QED
  BY <1>1, OneWorkerInvariant, PTL

\* A workload that the table calls STOPPED has no running container until the
\* Agent has been restarted twice, whether MarkStopped or a heartbeat said so,
\* and however late the heartbeat was.
THEOREM StoppedHasNoContainer == OneWorker /\ Spec => []StoppedIsGone
<1>1. OneInv => StoppedIsGone
  <2> SUFFICES ASSUME OneInv, NEW w \in Workloads, row[w].state = "STOPPED", crashes < 2
               PROVE  ctr[w] # "running"
    BY DEF StoppedIsGone
  <2>1. AP!Gone(w) \/ IsCompleted(w)
    BY DEF OneInv, FullInv, StoppedForGood
  <2>2. CASE IsCompleted(w)
    BY <2>2 DEF OneInv, OverHolds, Over, Left, Quiet, IsCompleted
  <2>3. CASE AP!Gone(w)
    <3>1. /\ crashes \in Nat
          /\ rec[w].phase = "Stopped" => ctr[w] # "running"
      BY OrchestrationAssumption
         DEF OneInv, FullInv, AgentHolds, AP!StopInv, AP!AgentInv, AP!TypeOK, AP!StoppedNotRunning
    <3>2. QED
      BY <2>3, <3>1 DEF AP!Gone
  <2>4. QED
    BY <2>1, <2>2, <2>3
<1>2. QED
  BY <1>1, OneWorkerInvariant, PTL
=============================================================================
