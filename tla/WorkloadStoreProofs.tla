------------------------- MODULE WorkloadStoreProofs -------------------------
(***************************************************************************)
(* Proofs about WorkloadStore, for any number of workloads, workers and    *)
(* providers, any retry budget and any capacities.                         *)
(***************************************************************************)
EXTENDS WorkloadStore, FiniteSetTheorems, TLAPS

\* Every action writes through Update, or touches one column only. What Update
\* leaves of the variables' types.
LEMMA UpdateType ==
  ASSUME TypeOK, NEW w \in Workloads, NEW r \in Rows, NEW k, NEW own \in Items,
         Update(w, r, k, own)
  PROVE  row' \in [Workloads -> Rows] /\ item' \in [Workers -> Items]
<1>1. row' \in [Workloads -> Rows]
  BY DEF TypeOK, Update
<1>2. ASSUME NEW j \in Workers PROVE item'[j] \in Items
  <2>1. item[j] \in Items
    BY DEF TypeOK
  <2>2. [item[j] EXCEPT !.current = FALSE] \in Items
    BY <2>1 DEF Items
  <2>3. QED
    BY <2>1, <2>2 DEF Update
<1>3. QED
  BY <1>1, <1>2 DEF Update

\* An empty row and an empty snapshot have their types.
LEMMA ConstantTypes == NoRow \in Rows /\ NoItem \in Items
BY DEF NoRow, Rows, States, NoItem, Items

\* Releasing the claim leaves a row.
LEMMA UnclaimedType == ASSUME NEW r \in Rows PROVE Unclaimed(r) \in Rows
BY DEF Unclaimed, Rows

\* The rows that workers write are rows.
LEMMA RowTypes ==
  ASSUME NEW r \in Rows, NEW s \in States
  PROVE  /\ [r EXCEPT !.state = s] \in Rows
         /\ [r EXCEPT !.state = s, !.delayed = FALSE] \in Rows
         /\ [r EXCEPT !.attempts = @ + 1, !.delayed = TRUE] \in Rows
         /\ [r EXCEPT !.state = s, !.attempts = @ + 1, !.delayed = FALSE] \in Rows
         /\ \A p \in Providers, l \in Nat :
              [r EXCEPT !.state = s, !.provider = p, !.lease = l] \in Rows
<1>1. r.attempts + 1 \in Nat
  BY DEF Rows
<1>2. QED
  BY <1>1 DEF Rows

\* The states that the writes name are states of the table.
LEMMA StateTypes ==
  /\ Workable \subseteq States /\ Terminal \subseteq States
  /\ {"SCHEDULING", "LEASE_PENDING", "LEASED", "DEPLOYING", "RUNNING", "STOPPED",
      "FAILED"} \subseteq States
BY DEF States, Workable, Terminal

\* The steps that write a row as a whole, with the row they write and the
\* snapshot that the writer k is left with.
LEMMA MarkType ==
  ASSUME TypeOK, NEW k \in Workers, NEW from, NEW r \in Rows, Mark(k, from, r)
  PROVE  row' \in [Workloads -> Rows] /\ item' \in [Workers -> Items]
<1>1. item[k].id \in Workloads
  BY DEF TypeOK, Items, Mark, HoldsClaim
<1>2. QED
  BY <1>1, UpdateType, UnclaimedType, ConstantTypes DEF Mark

\* A claimed row, and a snapshot, are rows.
LEMMA ClaimedType ==
  ASSUME TypeOK, NEW k \in Workers, item[k].id # None
  PROVE  /\ item[k].id \in Workloads
         /\ row[item[k].id] \in Rows
         /\ item[k].seen \in Rows
BY DEF TypeOK, Items

\* Whatever the interleaving, the variables keep their types.
THEOREM TypeCorrect == Spec => []TypeOK
<1>1. Init => TypeOK
  BY ConstantTypes DEF Init, TypeOK
<1>2. TypeOK /\ [Next]_storeVars => TypeOK'
  <2> SUFFICES ASSUME TypeOK, [Next]_storeVars PROVE TypeOK'
    OBVIOUS
  <2>1. ASSUME NEW w \in Workloads, CreateOrGet(w) PROVE TypeOK'
    <3>1. [row[w] EXCEPT !.state = "REQUESTED"] \in Rows
      BY DEF TypeOK, Rows, States, Workable
    <3>2. QED
      BY <2>1, <3>1, UpdateType, ConstantTypes DEF CreateOrGet, TypeOK
  <2>2. ASSUME NEW w \in Workloads, NEW s \in StopIds, RequestStop(w, s) PROVE TypeOK'
    <3>1. [row[w] EXCEPT !.stop = s,
                         !.state = IF @ \in Terminal THEN @ ELSE "STOPPING",
                         !.delayed = FALSE] \in Rows
      BY DEF TypeOK, Rows, States, Workable
    <3>2. QED
      BY <2>2, <3>1, UnclaimedType, UpdateType, ConstantTypes DEF RequestStop, TypeOK
  <2>3. ASSUME NEW w \in Workloads, NEW p \in Providers, NEW phase \in ReportedPhases,
               ReconcileFromAgent(w, p, phase)
        PROVE  TypeOK'
    <3>1. ReconcileTo(phase) \in States
      BY DEF ReconcileTo, ReportedPhases, States, Terminal
    <3>2. [row[w] EXCEPT !.state = ReconcileTo(phase), !.delayed = FALSE] \in Rows
      BY <3>1 DEF TypeOK, Rows
    <3>3. QED
      BY <2>3, <3>2, UnclaimedType, UpdateType, ConstantTypes DEF ReconcileFromAgent, TypeOK
  <2>4. ASSUME NEW w \in Workloads, Time(w) PROVE TypeOK'
    <3>1. [row[w] EXCEPT !.live = FALSE] \in Rows /\ [row[w] EXCEPT !.delayed = FALSE] \in Rows
      BY DEF TypeOK, Rows
    <3>2. QED
      BY <2>4, <3>1 DEF Time, ClaimLapses, RetryDue, TypeOK
  <2>5. ASSUME NEW k \in Workers, NEW w \in Workloads, ClaimNext(k, w) PROVE TypeOK'
    <3> DEFINE r == [row[w] EXCEPT !.worker = k, !.live = TRUE]
    <3>1. r \in Rows
      BY DEF TypeOK, Rows
    <3>2. [id |-> w, seen |-> r, current |-> TRUE] \in Items
      BY <3>1 DEF Items
    <3>3. QED
      BY <2>5, <3>1, <3>2, UpdateType DEF ClaimNext, TypeOK
  <2>6. ASSUME NEW k \in Workers, NEW p \in Providers, AssignLease(k, p) PROVE TypeOK'
    <3>1. item[k].id # None
      BY <2>6 DEF AssignLease, Mark, HoldsClaim
    <3>2. [row[item[k].id] EXCEPT !.state = "LEASE_PENDING", !.provider = p,
                                  !.lease = leaseSeq + 1] \in Rows
      <4>1. leaseSeq + 1 \in Nat /\ row[item[k].id] \in Rows
        BY <3>1, ClaimedType DEF TypeOK
      <4>2. QED
        BY <4>1, RowTypes, StateTypes
    <3>3. QED
      BY <2>6, <3>2, MarkType DEF AssignLease, TypeOK
  <2>7. ASSUME NEW k \in Workers,
               BeginScheduling(k) \/ MarkLeased(k) \/ MarkDeploying(k) \/ MarkRunning(k)
                 \/ MarkStopped(k) \/ RetryLater(k) \/ MarkFailed(k)
        PROVE  TypeOK'
    <3> DEFINE r == row[item[k].id]
    <3>1. item[k].id # None
      BY <2>7 DEF BeginScheduling, MarkLeased, MarkDeploying, MarkRunning, MarkStopped,
                  RetryLater, MarkFailed, Mark, HoldsClaim
    <3>2. r \in Rows
      BY <3>1, ClaimedType
    <3>3. /\ [r EXCEPT !.state = "SCHEDULING"] \in Rows
          /\ [r EXCEPT !.state = "LEASED", !.delayed = FALSE] \in Rows
          /\ [r EXCEPT !.state = "DEPLOYING"] \in Rows
          /\ [r EXCEPT !.state = "RUNNING", !.delayed = FALSE] \in Rows
          /\ [r EXCEPT !.state = "STOPPED", !.delayed = FALSE] \in Rows
          /\ [r EXCEPT !.attempts = @ + 1, !.delayed = TRUE] \in Rows
          /\ [r EXCEPT !.state = "FAILED", !.attempts = @ + 1, !.delayed = FALSE] \in Rows
      BY <3>2, RowTypes, StateTypes
    <3>4. row' \in [Workloads -> Rows] /\ item' \in [Workers -> Items]
      BY <2>7, <3>3, MarkType DEF BeginScheduling, MarkLeased, MarkDeploying, MarkRunning,
                                  MarkStopped, RetryLater, MarkFailed
    <3>5. QED
      BY <2>7, <3>4 DEF BeginScheduling, MarkLeased, MarkDeploying, MarkRunning, MarkStopped,
                        RetryLater, MarkFailed, TypeOK
  <2>8. ASSUME NEW k \in Workers, Abandon(k) PROVE TypeOK'
    BY <2>8, ConstantTypes DEF Abandon, TypeOK
  <2>9. CASE UNCHANGED storeVars
    BY <2>9 DEF storeVars, TypeOK
  <2>10. QED
    BY <2>1, <2>2, <2>3, <2>4, <2>5, <2>6, <2>7, <2>8, <2>9
       DEF Next, Tenant, Heartbeat, Worker
<1>3. QED
  BY <1>1, <1>2, PTL DEF Spec

-----------------------------------------------------------------------------
(***************************************************************************)
(* The inductive invariant. Neither StopIsFinal nor AttemptBudget is       *)
(* inductive: a worker decides on its snapshot, so both need the version   *)
(* fence (SnapshotIsExact), and the lease columns need to be empty until   *)
(* AssignLease fills them.                                                 *)
(***************************************************************************)

\* What holds of one row, whoever wrote it last.
Sound(r) ==
  /\ r.stop # None => r.state \in {"STOPPING"} \cup Terminal
  /\ r.attempts <= MaxAttempts
  /\ r.state \notin Terminal => r.attempts < MaxAttempts
  /\ r.state \in Open => r.provider # None /\ r.lease # 0
  /\ r.state \in {"ABSENT", "REQUESTED", "SCHEDULING"} => r.provider = None /\ r.lease = 0

RowsSound == \A w \in Workloads : Sound(row[w])

\* Lease ids come from the sequence, each one once.
LeasesDistinct ==
  \A w \in Workloads :
    /\ row[w].lease <= leaseSeq
    /\ \A v \in Workloads : v # w /\ row[v].lease = row[w].lease => row[w].lease = 0

IInv == TypeOK /\ SnapshotIsExact /\ RowsSound /\ LeasesDistinct

\* What AssignmentIsFinal says of one step.
KeepsAssignment ==
  \A w \in Workloads :
    row[w].lease # 0 =>
      row'[w].lease = row[w].lease /\ row'[w].provider = row[w].provider

\* A write leaves every snapshot of the row but the writer's own out of date.
LEMMA UpdateFence ==
  ASSUME TypeOK, SnapshotIsExact, NEW w \in Workloads, NEW r \in Rows, NEW k,
         NEW own \in Items, Update(w, r, k, own),
         own.id # None /\ own.current =>
           /\ own.id = w
           /\ own.seen.worker = k /\ ~own.seen.delayed
           /\ [r EXCEPT !.live = TRUE] = own.seen
  PROVE  SnapshotIsExact'
<1> SUFFICES ASSUME NEW j \in Workers, item'[j].id # None, item'[j].current
             PROVE  /\ item'[j].seen.worker = j /\ ~item'[j].seen.delayed
                    /\ [row'[item'[j].id] EXCEPT !.live = TRUE] = item'[j].seen
  BY DEF SnapshotIsExact
<1>1. row'[w] = r /\ \A v \in Workloads : v # w => row'[v] = row[v]
  BY DEF Update, TypeOK
<1>2. CASE j = k
  <2>1. item'[j] = own
    BY <1>2 DEF Update
  <2>2. QED
    BY <1>1, <1>2, <2>1
<1>3. CASE j # k
  <2>1. item[j].id # w
    <3>1. SUFFICES ASSUME item[j].id = w PROVE FALSE
      OBVIOUS
    <3>2. item'[j] = [item[j] EXCEPT !.current = FALSE]
      BY <1>3, <3>1 DEF Update
    <3>3. item[j] \in Items
      BY DEF TypeOK
    <3>4. QED
      BY <3>2, <3>3 DEF Items
  <2>2. item'[j] = item[j]
    BY <1>3, <2>1 DEF Update
  <2>3. item[j].id \in Workloads
    BY <2>2 DEF TypeOK, Items
  <2>4. row'[item[j].id] = row[item[j].id]
    BY <1>1, <2>1, <2>3
  <2>5. QED
    BY <2>2, <2>4 DEF SnapshotIsExact
<1>4. QED
  BY <1>2, <1>3

\* A write of a sound row that leaves the assignment alone.
LEMMA UpdateSound ==
  ASSUME IInv, NEW w \in Workloads, NEW r \in Rows, NEW k, NEW own \in Items,
         Update(w, r, k, own), UNCHANGED leaseSeq, Sound(r),
         r.lease = row[w].lease, r.provider = row[w].provider,
         own.id # None /\ own.current =>
           /\ own.id = w
           /\ own.seen.worker = k /\ ~own.seen.delayed
           /\ [r EXCEPT !.live = TRUE] = own.seen
  PROVE  IInv' /\ KeepsAssignment
<1>1. row'[w] = r /\ \A v \in Workloads : v # w => row'[v] = row[v]
  BY DEF Update, IInv, TypeOK
<1>2. TypeOK'
  BY UpdateType DEF IInv, TypeOK
<1>3. SnapshotIsExact'
  BY UpdateFence DEF IInv
<1>4. RowsSound'
  BY <1>1 DEF IInv, RowsSound, Sound
<1>5. \A v \in Workloads : row'[v].lease = row[v].lease /\ row'[v].provider = row[v].provider
  BY <1>1
<1>6. LeasesDistinct'
  BY <1>5 DEF IInv, LeasesDistinct
<1>7. QED
  BY <1>2, <1>3, <1>4, <1>5, <1>6 DEF IInv, KeepsAssignment

\* Releasing the claim touches worker_id and worker_lease_until only.
LEMMA UnclaimedFields ==
  ASSUME NEW r \in Rows
  PROVE  /\ Sound(r) => Sound(Unclaimed(r))
         /\ Unclaimed(r).state = r.state /\ Unclaimed(r).stop = r.stop
         /\ Unclaimed(r).lease = r.lease /\ Unclaimed(r).provider = r.provider
<1>1. /\ Unclaimed(r).state = r.state /\ Unclaimed(r).stop = r.stop
      /\ Unclaimed(r).lease = r.lease /\ Unclaimed(r).provider = r.provider
      /\ Unclaimed(r).attempts = r.attempts
  BY DEF Unclaimed, Rows
<1>2. QED
  BY <1>1 DEF Sound

\* A worker that holds its claim sees the row as it is.
LEMMA ClaimHolder ==
  ASSUME IInv, NEW k \in Workers, HoldsClaim(k)
  PROVE  /\ item[k].id \in Workloads
         /\ row[item[k].id] \in Rows
         /\ Sound(row[item[k].id])
         /\ row[item[k].id].state = item[k].seen.state
         /\ row[item[k].id].attempts = item[k].seen.attempts
         /\ row[item[k].id].lease = item[k].seen.lease
<1>1. item[k].id \in Workloads /\ row[item[k].id] \in Rows
  BY ClaimedType DEF IInv, HoldsClaim
<1>2. [row[item[k].id] EXCEPT !.live = TRUE] = item[k].seen
  BY DEF IInv, SnapshotIsExact, HoldsClaim
<1>3. QED
  BY <1>1, <1>2 DEF IInv, RowsSound, Rows

\* A worker's write of a sound row.
LEMMA MarkSound ==
  ASSUME IInv, NEW k \in Workers, NEW from, NEW r \in Rows, Mark(k, from, r),
         UNCHANGED leaseSeq, Sound(r),
         r.lease = row[item[k].id].lease, r.provider = row[item[k].id].provider
  PROVE  IInv' /\ KeepsAssignment
<1>1. item[k].id \in Workloads
  BY ClaimHolder DEF Mark
<1>2. Unclaimed(r) \in Rows /\ Sound(Unclaimed(r))
  BY UnclaimedType, UnclaimedFields
<1>3. Unclaimed(r).lease = r.lease /\ Unclaimed(r).provider = r.provider
  BY UnclaimedFields
<1>4. NoItem \in Items /\ NoItem.id = None
  BY ConstantTypes DEF NoItem
<1>5. QED
  BY <1>1, <1>2, <1>3, <1>4, UpdateSound DEF Mark

-----------------------------------------------------------------------------

\* CreateOrGet and RequestStop keep the invariant and the assignment.
LEMMA TenantStep ==
  ASSUME IInv, NEW w \in Workloads, Tenant(w)
  PROVE  IInv' /\ KeepsAssignment
<1>1. row[w] \in Rows /\ Sound(row[w]) /\ NoItem \in Items /\ NoItem.id = None
  BY ConstantTypes DEF IInv, TypeOK, RowsSound, NoItem
<1>2. CASE CreateOrGet(w)
  <2> DEFINE r == [row[w] EXCEPT !.state = "REQUESTED"]
  <2>1. r \in Rows
    BY <1>1, RowTypes, StateTypes DEF Workable
  <2>2. r.lease = row[w].lease /\ r.provider = row[w].provider
    BY <1>1 DEF Rows
  <2>3. Sound(r)
    <3>1. /\ r.state = "REQUESTED" /\ r.stop = row[w].stop /\ r.attempts = row[w].attempts
      BY <1>1 DEF Rows
    <3>2. row[w].state = "ABSENT"
      BY <1>2 DEF CreateOrGet
    <3>3. row[w].stop = None /\ row[w].lease = 0 /\ row[w].provider = None
      BY <1>1, <3>2 DEF Sound, Terminal
    <3>4. row[w].attempts < MaxAttempts
      BY <1>1, <3>2 DEF Sound, Terminal
    <3>5. QED
      BY <3>1, <3>3, <3>4, <2>2, StoreAssumption, <1>1 DEF Sound, Workable, Open, Rows
  <2>4. QED
    BY <1>1, <1>2, <2>1, <2>2, <2>3, UpdateSound DEF CreateOrGet
<1>3. ASSUME NEW s \in StopIds, RequestStop(w, s) PROVE IInv' /\ KeepsAssignment
  <2> DEFINE r == [row[w] EXCEPT !.stop = s,
                                 !.state = IF @ \in Terminal THEN @ ELSE "STOPPING",
                                 !.delayed = FALSE]
  <2>1. r \in Rows
    BY <1>1 DEF Rows, States, Workable
  <2>2. /\ r.lease = row[w].lease /\ r.provider = row[w].provider
        /\ r.attempts = row[w].attempts
        /\ r.state = IF row[w].state \in Terminal THEN row[w].state ELSE "STOPPING"
    BY <1>1 DEF Rows
  <2>3. row[w].state \in Terminal \/ row[w].attempts < MaxAttempts
    BY <1>1 DEF Sound
  <2>4. Sound(r)
    BY <1>1, <2>2, <2>3 DEF Sound, Workable, Open, Terminal
  <2>5. /\ Unclaimed(r) \in Rows /\ Sound(Unclaimed(r))
        /\ Unclaimed(r).lease = row[w].lease /\ Unclaimed(r).provider = row[w].provider
    BY <2>1, <2>2, <2>4, UnclaimedType, UnclaimedFields
  <2>6. Update(w, Unclaimed(r), None, NoItem) /\ UNCHANGED leaseSeq
    BY <1>3 DEF RequestStop
  <2>7. QED
    BY <1>1, <2>5, <2>6, UpdateSound
<1>4. QED
  BY <1>2, <1>3 DEF Tenant

\* ReconcileFromAgent keeps the invariant and the assignment: it moves a row
\* forward only from DEPLOYING, where no stop has been accepted.
LEMMA HeartbeatStep ==
  ASSUME IInv, NEW w \in Workloads, NEW p \in Providers, NEW phase \in ReportedPhases,
         ReconcileFromAgent(w, p, phase)
  PROVE  IInv' /\ KeepsAssignment
<1> DEFINE r == [row[w] EXCEPT !.state = ReconcileTo(phase), !.delayed = FALSE]
<1>1. row[w] \in Rows /\ Sound(row[w]) /\ NoItem \in Items /\ NoItem.id = None
  BY ConstantTypes DEF IInv, TypeOK, RowsSound, NoItem
<1>2. row[w].state \in ReconcileFrom(phase)
  BY DEF ReconcileFromAgent
<1>3. \/ ReconcileTo(phase) \in {"FAILED", "STOPPED"}
      \/ ReconcileTo(phase) = "RUNNING" /\ row[w].state = "DEPLOYING"
  BY <1>2 DEF ReconcileFrom, ReconcileTo, ReportedPhases
<1>4. r \in Rows
  BY <1>1, <1>3, RowTypes, StateTypes
<1>5. /\ r.lease = row[w].lease /\ r.provider = row[w].provider /\ r.stop = row[w].stop
      /\ r.attempts = row[w].attempts /\ r.state = ReconcileTo(phase)
  BY <1>1 DEF Rows
<1>6. Sound(r)
  <2>1. CASE ReconcileTo(phase) \in {"FAILED", "STOPPED"}
    BY <1>1, <1>5, <2>1 DEF Sound, Terminal, Open
  <2>2. CASE ReconcileTo(phase) = "RUNNING" /\ row[w].state = "DEPLOYING"
    BY <1>1, <1>5, <2>2 DEF Sound, Terminal, Open
  <2>3. QED
    BY <1>3, <2>1, <2>2
<1>7. /\ Unclaimed(r) \in Rows /\ Sound(Unclaimed(r))
      /\ Unclaimed(r).lease = row[w].lease /\ Unclaimed(r).provider = row[w].provider
  BY <1>4, <1>5, <1>6, UnclaimedType, UnclaimedFields
<1>8. Update(w, Unclaimed(r), None, NoItem) /\ UNCHANGED leaseSeq
  BY DEF ReconcileFromAgent
<1>9. QED
  BY <1>1, <1>7, <1>8, UpdateSound

\* Time touches live and delayed only, and a claimed row is not delayed.
LEMMA TimeStep ==
  ASSUME IInv, NEW w \in Workloads, Time(w)
  PROVE  IInv' /\ KeepsAssignment
<1>1. row[w] \in Rows /\ TypeOK
  BY DEF IInv, TypeOK
<1> DEFINE lapsed == [row[w] EXCEPT !.live = FALSE]
           due == [row[w] EXCEPT !.delayed = FALSE]
<1>2. lapsed \in Rows /\ due \in Rows
  BY <1>1 DEF Rows
<1>3. /\ row' = [row EXCEPT ![w] = lapsed] \/ row' = [row EXCEPT ![w] = due]
      /\ UNCHANGED <<item, leaseSeq>>
  BY DEF Time, ClaimLapses, RetryDue
<1>4. /\ row'[w] \in {lapsed, due}
      /\ \A v \in Workloads : v # w => row'[v] = row[v]
      /\ row' \in [Workloads -> Rows]
      /\ UNCHANGED <<item, leaseSeq>>
  BY <1>1, <1>2, <1>3 DEF TypeOK
<1>5. /\ row'[w].state = row[w].state /\ row'[w].stop = row[w].stop
      /\ row'[w].lease = row[w].lease /\ row'[w].provider = row[w].provider
      /\ row'[w].attempts = row[w].attempts
  BY <1>1, <1>4 DEF Rows
<1>6. TypeOK'
  BY <1>1, <1>4 DEF TypeOK
<1>7. SnapshotIsExact'
  <2> SUFFICES ASSUME NEW k \in Workers, item[k].id # None, item[k].current
               PROVE  /\ item[k].seen.worker = k /\ ~item[k].seen.delayed
                      /\ [row'[item[k].id] EXCEPT !.live = TRUE] = item[k].seen
    BY <1>4 DEF SnapshotIsExact
  <2>1. /\ item[k].seen.worker = k /\ ~item[k].seen.delayed
        /\ [row[item[k].id] EXCEPT !.live = TRUE] = item[k].seen
        /\ item[k].id \in Workloads
    BY <1>1 DEF IInv, SnapshotIsExact, TypeOK, Items
  <2>2. CASE item[k].id # w
    BY <1>4, <2>1, <2>2
  <2>3. CASE item[k].id = w
    <3>1. ~row[w].delayed
      BY <1>1, <2>1, <2>3 DEF Rows
    <3>2. row'[w] = [row[w] EXCEPT !.live = FALSE]
      BY <1>1, <3>1 DEF Time, ClaimLapses, RetryDue, TypeOK
    <3>3. [row'[w] EXCEPT !.live = TRUE] = [row[w] EXCEPT !.live = TRUE]
      BY <1>1, <3>2 DEF Rows
    <3>4. QED
      BY <2>1, <2>3, <3>3
  <2>4. QED
    BY <2>2, <2>3
<1>8. RowsSound'
  BY <1>4, <1>5 DEF IInv, RowsSound, Sound
<1>9. LeasesDistinct' /\ KeepsAssignment
  BY <1>4, <1>5 DEF IInv, LeasesDistinct, KeepsAssignment
<1>10. QED
  BY <1>6, <1>7, <1>8, <1>9 DEF IInv

\* ClaimNext takes the snapshot that the fence compares with.
LEMMA ClaimStep ==
  ASSUME IInv, NEW k \in Workers, NEW w \in Workloads, ClaimNext(k, w)
  PROVE  IInv' /\ KeepsAssignment
<1> DEFINE r == [row[w] EXCEPT !.worker = k, !.live = TRUE]
           own == [id |-> w, seen |-> r, current |-> TRUE]
<1>1. row[w] \in Rows /\ Sound(row[w]) /\ ~row[w].delayed
  BY DEF IInv, TypeOK, RowsSound, ClaimNext, Claimable
<1>2. r \in Rows
  BY <1>1 DEF Rows
<1>3. /\ r.lease = row[w].lease /\ r.provider = row[w].provider /\ r.stop = row[w].stop
      /\ r.attempts = row[w].attempts /\ r.state = row[w].state
      /\ r.worker = k /\ ~r.delayed
      /\ [r EXCEPT !.live = TRUE] = r
  BY <1>1 DEF Rows
<1>4. Sound(r)
  BY <1>1, <1>3 DEF Sound
<1>5. own \in Items /\ own.id = w /\ own.seen = r
  BY <1>2 DEF Items
<1>6. Update(w, r, k, own) /\ UNCHANGED leaseSeq
  BY DEF ClaimNext
<1> HIDE DEF r, own
<1>7. QED
  BY <1>2, <1>3, <1>4, <1>5, <1>6, UpdateSound

\* The writes that move a row along the forward path, and MarkStopped.
LEMMA ForwardStep ==
  ASSUME IInv, NEW k \in Workers,
         BeginScheduling(k) \/ MarkLeased(k) \/ MarkDeploying(k) \/ MarkRunning(k)
           \/ MarkStopped(k)
  PROVE  IInv' /\ KeepsAssignment
<1> DEFINE r == row[item[k].id]
<1>1. HoldsClaim(k) /\ UNCHANGED leaseSeq
  BY DEF BeginScheduling, MarkLeased, MarkDeploying, MarkRunning, MarkStopped, Mark
<1>2. r \in Rows /\ Sound(r)
  BY <1>1, ClaimHolder
<1>3. CASE BeginScheduling(k)
  <2> DEFINE s == [r EXCEPT !.state = "SCHEDULING"]
  <2>1. s \in Rows /\ s.lease = r.lease /\ s.provider = r.provider /\ s.stop = r.stop
          /\ s.attempts = r.attempts /\ s.state = "SCHEDULING"
    BY <1>2, RowTypes, StateTypes DEF Rows
  <2>2. r.state = "REQUESTED"
    BY <1>3 DEF BeginScheduling, Mark
  <2>3. Sound(s)
    BY <1>2, <2>1, <2>2 DEF Sound, Terminal, Open
  <2>4. Mark(k, {"REQUESTED"}, s)
    BY <1>3 DEF BeginScheduling
  <2>5. QED
    BY <1>1, <2>1, <2>3, <2>4, MarkSound
<1>4. CASE MarkDeploying(k)
  <2> DEFINE s == [r EXCEPT !.state = "DEPLOYING"]
  <2>1. s \in Rows /\ s.lease = r.lease /\ s.provider = r.provider /\ s.stop = r.stop
          /\ s.attempts = r.attempts /\ s.state = "DEPLOYING"
    BY <1>2, RowTypes, StateTypes DEF Rows
  <2>2. r.state = "LEASED"
    BY <1>4 DEF MarkDeploying, Mark
  <2>3. Sound(s)
    BY <1>2, <2>1, <2>2 DEF Sound, Terminal, Open
  <2>4. Mark(k, {"LEASED"}, s)
    BY <1>4 DEF MarkDeploying
  <2>5. QED
    BY <1>1, <2>1, <2>3, <2>4, MarkSound
<1>5. ASSUME NEW from \in {"LEASE_PENDING", "DEPLOYING", "STOPPING"},
             NEW to \in {"LEASED", "RUNNING", "STOPPED"},
             r.state = from,
             to = "STOPPED" \/ from # "STOPPING",
             Mark(k, {from}, [r EXCEPT !.state = to, !.delayed = FALSE])
      PROVE  IInv' /\ KeepsAssignment
  <2> DEFINE s == [r EXCEPT !.state = to, !.delayed = FALSE]
  <2>1. s \in Rows /\ s.lease = r.lease /\ s.provider = r.provider /\ s.stop = r.stop
          /\ s.attempts = r.attempts /\ s.state = to
    <3>1. to \in States
      BY StateTypes
    <3>2. QED
      BY <1>2, <3>1, RowTypes, ZenonT(60) DEF Rows
  <2>2. Sound(s)
    BY <1>2, <1>5, <2>1 DEF Sound, Terminal, Open
  <2>3. QED
    BY <1>1, <1>5, <2>1, <2>2, MarkSound
<1>6. CASE MarkLeased(k)
  BY <1>5, <1>6 DEF MarkLeased, Mark
<1>7. CASE MarkRunning(k)
  BY <1>5, <1>7 DEF MarkRunning, Mark
<1>8. CASE MarkStopped(k)
  BY <1>5, <1>8 DEF MarkStopped, Mark
<1>9. QED
  BY <1>3, <1>4, <1>6, <1>7, <1>8

\* retry(): the attempt count of the snapshot is the one in the row.
LEMMA RetryStep ==
  ASSUME IInv, NEW k \in Workers, RetryLater(k) \/ MarkFailed(k)
  PROVE  IInv' /\ KeepsAssignment
<1> DEFINE r == row[item[k].id]
<1>1. HoldsClaim(k) /\ UNCHANGED leaseSeq
  BY DEF RetryLater, MarkFailed, Mark
<1>2. r \in Rows /\ Sound(r) /\ r.attempts = item[k].seen.attempts /\ r.attempts \in Nat
        /\ r.state \in Workable
  BY <1>1, ClaimHolder DEF Rows, RetryLater, MarkFailed, Mark
<1>3. CASE RetryLater(k)
  <2> DEFINE s == [r EXCEPT !.attempts = @ + 1, !.delayed = TRUE]
  <2>1. s \in Rows /\ s.lease = r.lease /\ s.provider = r.provider /\ s.stop = r.stop
          /\ s.attempts = r.attempts + 1 /\ s.state = r.state
    <3>1. s \in Rows
      BY <1>2, RowTypes, StateTypes
    <3>2. QED
      BY <1>2, <3>1 DEF Rows
  <2>2. r.attempts + 1 < MaxAttempts
    BY <1>2, <1>3 DEF RetryLater
  <2>3. Sound(s)
    BY <1>2, <2>1, <2>2, StoreAssumption DEF Sound
  <2>4. Mark(k, Workable, s)
    BY <1>3 DEF RetryLater
  <2>5. QED
    BY <1>1, <2>1, <2>3, <2>4, MarkSound
<1>4. CASE MarkFailed(k)
  <2> DEFINE s == [r EXCEPT !.state = "FAILED", !.attempts = @ + 1, !.delayed = FALSE]
  <2>1. s \in Rows /\ s.lease = r.lease /\ s.provider = r.provider /\ s.stop = r.stop
          /\ s.attempts = r.attempts + 1 /\ s.state = "FAILED"
    <3>1. s \in Rows
      BY <1>2, RowTypes, StateTypes
    <3>2. QED
      BY <1>2, <3>1 DEF Rows
  <2>2. r.attempts < MaxAttempts
    BY <1>2 DEF Sound, Workable, Terminal
  <2>3. Sound(s)
    BY <1>2, <2>1, <2>2, StoreAssumption DEF Sound, Terminal, Open
  <2>4. Mark(k, Workable, s)
    BY <1>4 DEF MarkFailed
  <2>5. QED
    BY <1>1, <2>1, <2>3, <2>4, MarkSound
<1>5. QED
  BY <1>3, <1>4

\* AssignLease is the one write that fills the assignment, of a row without one.
LEMMA AssignStep ==
  ASSUME IInv, NEW k \in Workers, NEW p \in Providers, AssignLease(k, p)
  PROVE  IInv' /\ KeepsAssignment
<1> DEFINE w == item[k].id
           s == [row[w] EXCEPT !.state = "LEASE_PENDING", !.provider = p,
                               !.lease = leaseSeq + 1]
           r == Unclaimed(s)
<1>1. HoldsClaim(k) /\ row[w].state = "SCHEDULING"
  BY DEF AssignLease, Mark
<1>2. w \in Workloads /\ row[w] \in Rows /\ Sound(row[w])
  BY <1>1, ClaimHolder
<1>3. leaseSeq \in Nat /\ leaseSeq' = leaseSeq + 1 /\ TypeOK
  BY DEF IInv, TypeOK, AssignLease
<1>4. s \in Rows
  <2>1. leaseSeq + 1 \in Nat
    BY <1>3
  <2>2. QED
    BY <1>2, <2>1, RowTypes, StateTypes
<1>5. s.lease = leaseSeq + 1 /\ s.provider = p /\ s.stop = row[w].stop
        /\ s.attempts = row[w].attempts /\ s.state = "LEASE_PENDING"
  BY <1>2, <1>3 DEF Rows
<1>6. row[w].lease = 0
  BY <1>1, <1>2 DEF Sound
<1>7. Sound(s)
  BY <1>1, <1>2, <1>3, <1>5, StoreAssumption DEF Sound, Terminal, Open
<1>8. r \in Rows /\ Sound(r) /\ r.lease = leaseSeq + 1
  BY <1>4, <1>5, <1>7, UnclaimedType, UnclaimedFields
<1>9. Update(w, r, k, NoItem)
  BY DEF AssignLease, Mark
<1>10. NoItem \in Items /\ NoItem.id = None
  BY ConstantTypes DEF NoItem
<1> HIDE DEF r, s, w
<1>11. row'[w] = r /\ \A v \in Workloads : v # w => row'[v] = row[v]
  BY <1>2, <1>3, <1>9 DEF Update, TypeOK
<1>12. TypeOK'
  BY <1>2, <1>3, <1>8, <1>9, <1>10, UpdateType DEF TypeOK
<1>13. SnapshotIsExact'
  BY <1>2, <1>8, <1>9, <1>10, UpdateFence DEF IInv
<1>14. RowsSound'
  BY <1>8, <1>11 DEF IInv, RowsSound, Sound
<1>15. LeasesDistinct'
  <2>1. \A v \in Workloads : row[v].lease \in Nat
    BY <1>3 DEF TypeOK, Rows
  <2>2. QED
    BY <1>2, <1>3, <1>8, <1>11, <2>1 DEF IInv, LeasesDistinct
<1>16. KeepsAssignment
  BY <1>2, <1>6, <1>11 DEF KeepsAssignment
<1>17. QED
  BY <1>12, <1>13, <1>14, <1>15, <1>16 DEF IInv

\* A processOne that writes nothing drops its snapshot.
LEMMA AbandonStep ==
  ASSUME IInv, NEW k \in Workers, Abandon(k)
  PROVE  IInv' /\ KeepsAssignment
<1>1. UNCHANGED <<row, leaseSeq>> /\ TypeOK
  BY DEF Abandon, IInv
<1>2. TypeOK'
  BY <1>1, ConstantTypes DEF Abandon, TypeOK
<1>3. \A j \in Workers : item'[j].id # None => item'[j] = item[j]
  BY <1>1 DEF Abandon, TypeOK, NoItem
<1>4. SnapshotIsExact'
  BY <1>1, <1>3 DEF IInv, SnapshotIsExact
<1>5. RowsSound' /\ LeasesDistinct' /\ KeepsAssignment
  BY <1>1 DEF IInv, RowsSound, Sound, LeasesDistinct, KeepsAssignment
<1>6. QED
  BY <1>2, <1>4, <1>5 DEF IInv

\* The empty table satisfies the invariant.
LEMMA InitSound == Init => IInv
<1> SUFFICES ASSUME Init PROVE IInv
  OBVIOUS
<1>1. TypeOK
  BY ConstantTypes DEF Init, TypeOK
<1>2. SnapshotIsExact
  BY DEF Init, SnapshotIsExact, NoItem
<1>3. RowsSound
  BY StoreAssumption DEF Init, RowsSound, Sound, NoRow, Terminal, Open
<1>4. LeasesDistinct
  BY DEF Init, LeasesDistinct, NoRow
<1>5. QED
  BY <1>1, <1>2, <1>3, <1>4 DEF IInv

\* The invariant is inductive, and no step changes an assignment.
LEMMA NextSound ==
  ASSUME IInv, [Next]_storeVars
  PROVE  IInv' /\ (row' = row \/ KeepsAssignment)
<1>1. CASE Next
  BY <1>1, TenantStep, HeartbeatStep, TimeStep, ClaimStep, ForwardStep, RetryStep,
     AssignStep, AbandonStep DEF Next, Heartbeat, Worker
<1>2. CASE UNCHANGED storeVars
  BY <1>2 DEF storeVars, IInv, TypeOK, SnapshotIsExact, RowsSound, Sound, LeasesDistinct
<1>3. QED
  BY <1>1, <1>2

\* The inductive invariant: the version fence, rows that are sound whoever wrote
\* them last, and lease ids used once.
THEOREM InvariantHolds == Spec => []IInv
<1>1. IInv /\ [Next]_storeVars => IInv'
  BY NextSound
<1>2. QED
  BY <1>1, InitSound, PTL DEF Spec

\* The version fence: what a worker read at its claim is what the row holds for
\* as long as no write has hit it.
THEOREM FenceHolds == Spec => []SnapshotIsExact
<1>1. IInv => SnapshotIsExact
  BY DEF IInv
<1>2. QED
  BY <1>1, InvariantHolds, PTL

\* No worker, retry or heartbeat undoes an accepted stop.
THEOREM StopsAreFinal == Spec => []StopIsFinal
<1>1. IInv => StopIsFinal
  BY DEF IInv, RowsSound, Sound, StopIsFinal
<1>2. QED
  BY <1>1, InvariantHolds, PTL

\* No workload is retried past its lifetime budget.
THEOREM BudgetHolds == Spec => []AttemptBudget
<1>1. IInv => AttemptBudget
  BY DEF IInv, RowsSound, Sound, AttemptBudget, Workable, Terminal
<1>2. QED
  BY <1>1, InvariantHolds, PTL

\* No two workloads share a lease, and an open workload has one.
THEOREM LeasesAreOwn == Spec => []LeaseIdentity
<1>1. IInv => LeaseIdentity
  BY DEF IInv, RowsSound, Sound, LeasesDistinct, LeaseIdentity
<1>2. QED
  BY <1>1, InvariantHolds, PTL

\* The provider and the lease of a workload are assigned once.
THEOREM AssignedOnce == Spec => AssignmentIsFinal
<1>1. IInv /\ [Next]_storeVars => [KeepsAssignment]_storeVars
  <2>1. SUFFICES ASSUME IInv, [Next]_storeVars PROVE KeepsAssignment \/ UNCHANGED storeVars
    OBVIOUS
  <2>2. row' = row => KeepsAssignment
    BY DEF KeepsAssignment
  <2>3. QED
    BY <2>1, <2>2, NextSound
<1>2. QED
  BY <1>1, InvariantHolds, PTL DEF Spec, AssignmentIsFinal, KeepsAssignment

-----------------------------------------------------------------------------
(***************************************************************************)
(* The table implements the abstract lifecycle: every write moves one      *)
(* workload along Forward or Ending, is an accepted stop, or changes       *)
(* neither state nor stop_request_id.                                      *)
(***************************************************************************)

LifecycleStep == [Lifecycle!Next]_(Lifecycle!lifecycleVars)

Moves == Lifecycle!Forward \cup Lifecycle!Ending

\* A write that keeps stop_request_id.
LEMMA UpdateRefines ==
  ASSUME TypeOK, NEW w \in Workloads, NEW r \in Rows, NEW k, NEW own, Update(w, r, k, own),
         r.stop = row[w].stop, r.state = row[w].state \/ <<row[w].state, r.state>> \in Moves
  PROVE  LifecycleStep
<1> DEFINE st == [v \in Workloads |-> row[v].state]
           sp == [v \in Workloads |-> row[v].stop # None]
<1>1. row'[w] = r /\ \A v \in Workloads : v # w => row'[v] = row[v]
  BY DEF Update, TypeOK
<1>2. [v \in Workloads |-> row'[v].stop # None] = sp
  BY <1>1
<1>3. [v \in Workloads |-> row'[v].state] = [st EXCEPT ![w] = r.state]
  BY <1>1
<1>4. CASE r.state = row[w].state
  <2>1. [v \in Workloads |-> row'[v].state] = st
    BY <1>3, <1>4
  <2>2. QED
    BY <1>2, <2>1 DEF LifecycleStep, Lifecycle!lifecycleVars
<1>5. CASE <<row[w].state, r.state>> \in Moves
  <2>1. r.state \in Lifecycle!States
    BY DEF Rows, States, Workable, Terminal, Lifecycle!States, Lifecycle!Workable,
           Lifecycle!Terminal
  <2>2. st[w] = row[w].state
    OBVIOUS
  <2>3. Lifecycle!Advance(w)
    BY <1>2, <1>3, <1>5, <2>1, <2>2 DEF Lifecycle!Advance, Moves
  <2>4. QED
    BY <2>3 DEF LifecycleStep, Lifecycle!Next
<1>6. QED
  BY <1>4, <1>5

\* A submission is a step along Forward, a stop is a Stop of the lifecycle.
LEMMA TenantRefines ==
  ASSUME IInv, NEW w \in Workloads, Tenant(w)
  PROVE  LifecycleStep
<1>1. row[w] \in Rows /\ TypeOK
  BY DEF IInv, TypeOK
<1>2. CASE CreateOrGet(w)
  <2> DEFINE r == [row[w] EXCEPT !.state = "REQUESTED"]
  <2>1. r \in Rows /\ r.stop = row[w].stop /\ r.state = "REQUESTED"
    BY <1>1, RowTypes, StateTypes DEF Rows, Workable
  <2>2. <<row[w].state, r.state>> \in Moves
    BY <1>2, <2>1 DEF CreateOrGet, Moves, Lifecycle!Forward
  <2>3. Update(w, r, None, NoItem)
    BY <1>2 DEF CreateOrGet
  <2> HIDE DEF r
  <2>4. QED
    BY <1>1, <2>1, <2>2, <2>3, UpdateRefines
<1>3. ASSUME NEW s \in StopIds, RequestStop(w, s) PROVE LifecycleStep
  <2> DEFINE r == [row[w] EXCEPT !.stop = s,
                                 !.state = IF @ \in Terminal THEN @ ELSE "STOPPING",
                                 !.delayed = FALSE]
             u == Unclaimed(r)
             st == [v \in Workloads |-> row[v].state]
             sp == [v \in Workloads |-> row[v].stop # None]
  <2>1. r \in Rows /\ r.stop = s
          /\ r.state = IF row[w].state \in Terminal THEN row[w].state ELSE "STOPPING"
    BY <1>1 DEF Rows, States, Workable
  <2>2. u.stop = s /\ u.state = IF row[w].state \in Terminal THEN row[w].state ELSE "STOPPING"
    BY <2>1, UnclaimedFields
  <2>3. row' = [row EXCEPT ![w] = u]
    BY <1>3 DEF RequestStop, Update
  <2>4. row[w].state # "ABSENT" /\ row[w].stop = None /\ s # None
    BY <1>3, StoreAssumption DEF RequestStop
  <2> HIDE DEF u, r
  <2>5. row'[w] = u /\ \A v \in Workloads : v # w => row'[v] = row[v]
    BY <1>1, <2>3 DEF TypeOK
  <2>6. [v \in Workloads |-> row'[v].state] =
          [st EXCEPT ![w] = IF @ \in Lifecycle!Terminal THEN @ ELSE "STOPPING"]
    BY <2>2, <2>5 DEF Terminal, Lifecycle!Terminal
  <2>7. [v \in Workloads |-> row'[v].stop # None] = [sp EXCEPT ![w] = TRUE]
    BY <2>2, <2>4, <2>5
  <2>8. Lifecycle!Stop(w)
    BY <2>4, <2>6, <2>7 DEF Lifecycle!Stop
  <2>9. QED
    BY <2>8 DEF LifecycleStep, Lifecycle!Next
<1>4. QED
  BY <1>2, <1>3 DEF Tenant

\* A worker's conditional write along Forward or Ending.
LEMMA MarkRefines ==
  ASSUME IInv, NEW k \in Workers, NEW from, NEW r \in Rows, Mark(k, from, r),
         r.stop = row[item[k].id].stop,
         \/ r.state = row[item[k].id].state
         \/ <<row[item[k].id].state, r.state>> \in Moves
  PROVE  LifecycleStep
<1>1. item[k].id \in Workloads /\ TypeOK
  BY ClaimHolder DEF Mark, IInv
<1>2. Unclaimed(r) \in Rows /\ Unclaimed(r).stop = r.stop /\ Unclaimed(r).state = r.state
  BY UnclaimedType, UnclaimedFields
<1>3. QED
  BY <1>1, <1>2, UpdateRefines DEF Mark

\* Every write of processOne is a step of the lifecycle or changes neither column.
LEMMA WorkerRefines ==
  ASSUME IInv, NEW k \in Workers, Worker(k)
  PROVE  LifecycleStep
<1> DEFINE r == row[item[k].id]
<1>1. ASSUME NEW w \in Workloads, ClaimNext(k, w) PROVE LifecycleStep
  <2> DEFINE c == [row[w] EXCEPT !.worker = k, !.live = TRUE]
  <2>1. row[w] \in Rows /\ TypeOK
    BY DEF IInv, TypeOK
  <2>2. c \in Rows /\ c.stop = row[w].stop /\ c.state = row[w].state
    BY <2>1 DEF Rows
  <2>3. QED
    BY <1>1, <2>1, <2>2, UpdateRefines DEF ClaimNext
<1>2. ASSUME NEW p \in Providers, AssignLease(k, p) PROVE LifecycleStep
  <2> DEFINE s == [r EXCEPT !.state = "LEASE_PENDING", !.provider = p, !.lease = leaseSeq + 1]
  <2>1. r \in Rows /\ leaseSeq + 1 \in Nat
    BY <1>2, ClaimHolder DEF AssignLease, Mark, IInv, TypeOK
  <2>2. s \in Rows
    BY <2>1, RowTypes, StateTypes
  <2>3. s.stop = r.stop /\ s.state = "LEASE_PENDING"
    BY <2>1 DEF Rows
  <2>4. r.state = "SCHEDULING" /\ Mark(k, {"SCHEDULING"}, s)
    BY <1>2 DEF AssignLease, Mark
  <2>5. <<r.state, s.state>> \in Moves
    BY <2>3, <2>4 DEF Moves, Lifecycle!Forward
  <2> HIDE DEF s
  <2>6. QED
    BY <2>2, <2>3, <2>4, <2>5, MarkRefines
<1>3. ASSUME BeginScheduling(k) \/ MarkLeased(k) \/ MarkDeploying(k) \/ MarkRunning(k)
               \/ MarkStopped(k)
      PROVE  LifecycleStep
  <2>1. r \in Rows
    BY <1>3, ClaimHolder
       DEF BeginScheduling, MarkLeased, MarkDeploying, MarkRunning, MarkStopped, Mark
  <2>2. ASSUME NEW to \in {"SCHEDULING", "LEASED", "DEPLOYING", "RUNNING", "STOPPED"}
        PROVE  LET s == [r EXCEPT !.state = to]
                   d == [r EXCEPT !.state = to, !.delayed = FALSE]
               IN  /\ s \in Rows /\ s.stop = r.stop /\ s.state = to
                   /\ d \in Rows /\ d.stop = r.stop /\ d.state = to
    <3>1. to \in States
      BY StateTypes
    <3>2. QED
      BY <2>1, <3>1, RowTypes, ZenonT(60) DEF Rows
  <2>3. /\ <<"REQUESTED", "SCHEDULING">> \in Moves
        /\ <<"LEASE_PENDING", "LEASED">> \in Moves
        /\ <<"LEASED", "DEPLOYING">> \in Moves
        /\ <<"DEPLOYING", "RUNNING">> \in Moves
        /\ <<"STOPPING", "STOPPED">> \in Moves
    BY DEF Moves, Lifecycle!Forward, Lifecycle!Ending
  <2>4. CASE BeginScheduling(k)
    BY <2>2, <2>3, <2>4, MarkRefines DEF BeginScheduling, Mark
  <2>5. CASE MarkLeased(k)
    BY <2>2, <2>3, <2>5, MarkRefines DEF MarkLeased, Mark
  <2>6. CASE MarkDeploying(k)
    BY <2>2, <2>3, <2>6, MarkRefines DEF MarkDeploying, Mark
  <2>7. CASE MarkRunning(k)
    BY <2>2, <2>3, <2>7, MarkRefines DEF MarkRunning, Mark
  <2>8. CASE MarkStopped(k)
    BY <2>2, <2>3, <2>8, MarkRefines DEF MarkStopped, Mark
  <2>9. QED
    BY <1>3, <2>4, <2>5, <2>6, <2>7, <2>8
<1>4. ASSUME RetryLater(k) \/ MarkFailed(k) PROVE LifecycleStep
  <2> DEFINE s == [r EXCEPT !.attempts = @ + 1, !.delayed = TRUE]
             f == [r EXCEPT !.state = "FAILED", !.attempts = @ + 1, !.delayed = FALSE]
  <2>1. r \in Rows /\ r.state \in Workable
    BY <1>4, ClaimHolder DEF RetryLater, MarkFailed, Mark
  <2>2. s \in Rows /\ f \in Rows
    BY <2>1, RowTypes, StateTypes
  <2>3. s.stop = r.stop /\ s.state = r.state /\ f.stop = r.stop /\ f.state = "FAILED"
    BY <2>1 DEF Rows
  <2>4. <<r.state, f.state>> \in Moves
    BY <2>1, <2>3 DEF Moves, Lifecycle!Ending, Workable, Lifecycle!Workable
  <2>5. Mark(k, Workable, s) \/ Mark(k, Workable, f)
    BY <1>4 DEF RetryLater, MarkFailed
  <2> HIDE DEF s, f
  <2>6. QED
    BY <2>2, <2>3, <2>4, <2>5, MarkRefines
<1>5. ASSUME Abandon(k) PROVE LifecycleStep
  BY <1>5 DEF Abandon, LifecycleStep, Lifecycle!lifecycleVars
<1>6. QED
  BY <1>1, <1>2, <1>3, <1>4, <1>5 DEF Worker

\* An Agent's report moves the workload along Forward or Ending.
LEMMA HeartbeatRefines ==
  ASSUME IInv, NEW w \in Workloads, NEW p \in Providers, NEW phase \in ReportedPhases,
         ReconcileFromAgent(w, p, phase)
  PROVE  LifecycleStep
<1> DEFINE r == [row[w] EXCEPT !.state = ReconcileTo(phase), !.delayed = FALSE]
<1>1. row[w] \in Rows /\ TypeOK
  BY DEF IInv, TypeOK
<1>2. <<row[w].state, ReconcileTo(phase)>> \in Moves
  BY DEF ReconcileFromAgent, ReconcileFrom, ReconcileTo, ReportedPhases, Moves,
         Lifecycle!Forward, Lifecycle!Ending, Lifecycle!Workable
<1>3. ReconcileTo(phase) \in States
  BY DEF ReconcileTo, ReportedPhases, States, Terminal
<1>4. r \in Rows /\ r.stop = row[w].stop /\ r.state = ReconcileTo(phase)
  BY <1>1, <1>3, RowTypes, ZenonT(60) DEF Rows
<1>5. /\ Unclaimed(r) \in Rows /\ Unclaimed(r).stop = row[w].stop
      /\ Unclaimed(r).state = ReconcileTo(phase)
  BY <1>4, UnclaimedType, UnclaimedFields
<1>6. Update(w, Unclaimed(r), None, NoItem)
  BY DEF ReconcileFromAgent
<1>7. QED
  BY <1>1, <1>2, <1>5, <1>6, UpdateRefines

\* Claims and delays that run out are invisible in the lifecycle.
LEMMA TimeRefines ==
  ASSUME IInv, NEW w \in Workloads, Time(w)
  PROVE  LifecycleStep
<1> DEFINE lapsed == [row[w] EXCEPT !.live = FALSE]
           due == [row[w] EXCEPT !.delayed = FALSE]
<1>1. row[w] \in Rows /\ TypeOK
  BY DEF IInv, TypeOK
<1>2. /\ lapsed.state = row[w].state /\ lapsed.stop = row[w].stop
      /\ due.state = row[w].state /\ due.stop = row[w].stop
  BY <1>1 DEF Rows
<1>3. row' = [row EXCEPT ![w] = lapsed] \/ row' = [row EXCEPT ![w] = due]
  BY DEF Time, ClaimLapses, RetryDue
<1> HIDE DEF lapsed, due
<1>4. \A v \in Workloads : row'[v].state = row[v].state /\ row'[v].stop = row[v].stop
  BY <1>1, <1>2, <1>3 DEF TypeOK
<1>5. QED
  BY <1>4 DEF LifecycleStep, Lifecycle!lifecycleVars

\* Every behaviour of the table is one of the abstract lifecycle.
THEOREM Refinement == Spec => ImplementsLifecycle
<1>1. ASSUME Init PROVE Lifecycle!Init
  <2>1. \A w \in Workloads : row[w].state = "ABSENT" /\ (row[w].stop # None) = FALSE
    BY <1>1 DEF Init, NoRow
  <2>2. QED
    BY <2>1 DEF Lifecycle!Init
<1>2. IInv /\ [Next]_storeVars => LifecycleStep
  <2> SUFFICES ASSUME IInv, [Next]_storeVars PROVE LifecycleStep
    OBVIOUS
  <2>1. CASE Next
    BY <2>1, TenantRefines, WorkerRefines, HeartbeatRefines, TimeRefines DEF Next, Heartbeat
  <2>2. CASE UNCHANGED storeVars
    BY <2>2 DEF storeVars, LifecycleStep, Lifecycle!lifecycleVars
  <2>3. QED
    BY <2>1, <2>2
<1>3. QED
  BY <1>1, <1>2, InvariantHolds, PTL DEF Spec, ImplementsLifecycle, Lifecycle!Spec, LifecycleStep

-----------------------------------------------------------------------------
(***************************************************************************)
(* The capacity ceiling. Only AssignLease opens a workload, and it is the  *)
(* one write that looks at the sum.                                        *)
(***************************************************************************)

\* Finitely many workloads reserve finitely many units.
LEMMA UnitsFinite ==
  ASSUME NEW T \in SUBSET Workloads
  PROVE  IsFiniteSet(Units(T))
<1> DEFINE C == {{w} \X (1 .. Reserved[w]) : w \in T}
           f == [w \in T |-> {w} \X (1 .. Reserved[w])]
<1>1. IsFiniteSet(T)
  BY StoreAssumption, FS_Subset
<1>2. f \in Surjection(T, C)
  BY DEF Surjection
<1>3. IsFiniteSet(C)
  BY <1>1, <1>2, FS_Surjection
<1>4. ASSUME NEW X \in C PROVE IsFiniteSet(X)
  <2>1. PICK w \in T : X = {w} \X (1 .. Reserved[w])
    OBVIOUS
  <2>2. 1 \in Int /\ Reserved[w] \in Int
    BY StoreAssumption
  <2>3. IsFiniteSet({w}) /\ IsFiniteSet(1 .. Reserved[w])
    BY <2>2, FS_Singleton, FS_Interval
  <2>4. QED
    BY <2>1, <2>3, FS_Product
<1>5. QED
  BY <1>3, <1>4, FS_UNION DEF Units

\* A workload adds no more than what it reserves.
LEMMA UnitsAdd ==
  ASSUME NEW T \in SUBSET Workloads, NEW w \in Workloads
  PROVE  Cardinality(Units(T \cup {w})) <= Cardinality(Units(T)) + Reserved[w]
<1> DEFINE U == {w} \X (1 .. Reserved[w])
<1>1. Reserved[w] \in Nat
  BY StoreAssumption
<1>2. Units(T \cup {w}) = Units(T) \cup U
  BY DEF Units
<1>3. IsFiniteSet({w}) /\ Cardinality({w}) = 1
  BY FS_Singleton
<1>4. IsFiniteSet(1 .. Reserved[w]) /\ Cardinality(1 .. Reserved[w]) = Reserved[w]
  BY <1>1, FS_Interval
<1>5. IsFiniteSet(U) /\ Cardinality(U) = Reserved[w]
  <2>1. IsFiniteSet(U) /\ Cardinality(U) = Cardinality({w}) * Cardinality(1 .. Reserved[w])
    BY <1>3, <1>4, FS_Product
  <2>2. QED
    BY <1>1, <1>3, <1>4, <2>1
<1>6. IsFiniteSet(Units(T))
  BY UnitsFinite
<1> HIDE DEF U
<1>7. /\ Cardinality(Units(T) \cup U) =
           Cardinality(Units(T)) + Cardinality(U) - Cardinality(Units(T) \cap U)
      /\ IsFiniteSet(Units(T) \cap U)
  BY <1>5, <1>6, FS_Union, FS_Intersection
<1>8. /\ Cardinality(Units(T)) \in Nat /\ Cardinality(Units(T) \cap U) \in Nat
  BY <1>6, <1>7, FS_CardinalityType
<1>9. Cardinality(Units(T \cup {w})) = Cardinality(Units(T) \cup U)
  BY <1>2, Zenon
<1>10. QED
  BY <1>1, <1>5, <1>7, <1>8, <1>9

\* Fewer open workloads reserve no more.
LEMMA UnitsMonotone ==
  ASSUME NEW T \in SUBSET Workloads, NEW R \in SUBSET T
  PROVE  Cardinality(Units(R)) <= Cardinality(Units(T))
<1>1. Units(R) \subseteq Units(T)
  BY DEF Units
<1>2. QED
  BY <1>1, UnitsFinite, FS_Subset

\* No workload becomes open.
NoneOpens ==
  \A w \in Workloads : row'[w].state \in Open => row[w].state \in Open

\* A write of a row that is open only if it was.
LEMMA UpdateOpens ==
  ASSUME TypeOK, NEW w \in Workloads, NEW r, NEW k, NEW own, Update(w, r, k, own),
         r.state \in Open => row[w].state \in Open
  PROVE  NoneOpens
BY DEF Update, TypeOK, NoneOpens

\* A worker's write of a row that is open only if it was.
LEMMA MarkOpens ==
  ASSUME IInv, NEW k \in Workers, NEW from, NEW r \in Rows, Mark(k, from, r),
         r.state \in Open => row[item[k].id].state \in Open
  PROVE  NoneOpens
<1>1. item[k].id \in Workloads /\ TypeOK
  BY ClaimHolder DEF Mark, IInv
<1>2. Unclaimed(r).state = r.state
  BY UnclaimedFields
<1>3. QED
  BY <1>1, <1>2, UpdateOpens DEF Mark

\* No write but AssignLease opens a workload.
LEMMA OnlyAssignOpens ==
  ASSUME IInv, [Next]_storeVars
  PROVE  NoneOpens \/ \E k \in Workers, p \in Providers : AssignLease(k, p)
<1>1. TypeOK
  BY DEF IInv
<1>2. ASSUME NEW w \in Workloads, Tenant(w) PROVE NoneOpens
  <2>1. row[w] \in Rows
    BY <1>1 DEF TypeOK
  <2>2. CASE CreateOrGet(w)
    <3>1. [row[w] EXCEPT !.state = "REQUESTED"].state \notin Open
      BY <2>1 DEF Rows, Open
    <3>2. QED
      BY <1>1, <2>2, <3>1, UpdateOpens DEF CreateOrGet
  <2>3. ASSUME NEW s \in StopIds, RequestStop(w, s) PROVE NoneOpens
    <3> DEFINE r == [row[w] EXCEPT !.stop = s,
                                   !.state = IF @ \in Terminal THEN @ ELSE "STOPPING",
                                   !.delayed = FALSE]
    <3>1. r \in Rows /\ r.state \notin Open
      BY <2>1 DEF Rows, States, Workable, Terminal, Open
    <3>2. Unclaimed(r).state \notin Open
      BY <3>1, UnclaimedFields
    <3>3. Update(w, Unclaimed(r), None, NoItem)
      BY <2>3 DEF RequestStop
    <3>4. QED
      BY <1>1, <3>2, <3>3, UpdateOpens
  <2>4. QED
    BY <1>2, <2>2, <2>3 DEF Tenant
<1>3. ASSUME NEW w \in Workloads, NEW p \in Providers, NEW phase \in ReportedPhases,
             ReconcileFromAgent(w, p, phase)
      PROVE  NoneOpens
  <2> DEFINE r == [row[w] EXCEPT !.state = ReconcileTo(phase), !.delayed = FALSE]
  <2>1. row[w] \in Rows
    BY <1>1 DEF TypeOK
  <2>2. ReconcileTo(phase) \in States
    BY DEF ReconcileTo, ReportedPhases, States, Terminal
  <2>3. r \in Rows /\ r.state = ReconcileTo(phase)
    BY <2>1, <2>2, RowTypes DEF Rows
  <2>4. ReconcileTo(phase) \in Open => row[w].state \in Open
    BY <1>3 DEF ReconcileFromAgent, ReconcileFrom, ReconcileTo, ReportedPhases, Open
  <2>5. Unclaimed(r).state = ReconcileTo(phase)
    BY <2>3, UnclaimedFields
  <2>6. Update(w, Unclaimed(r), None, NoItem)
    BY <1>3 DEF ReconcileFromAgent
  <2>7. QED
    BY <1>1, <2>4, <2>5, <2>6, UpdateOpens
<1>4. ASSUME NEW w \in Workloads, Time(w) PROVE NoneOpens
  <2>1. row[w] \in Rows
    BY <1>1 DEF TypeOK
  <2>2. /\ [row[w] EXCEPT !.live = FALSE].state = row[w].state
        /\ [row[w] EXCEPT !.delayed = FALSE].state = row[w].state
    BY <2>1 DEF Rows
  <2>3. \A v \in Workloads : row'[v].state = row[v].state
    BY <1>1, <1>4, <2>2 DEF Time, ClaimLapses, RetryDue, TypeOK
  <2>4. QED
    BY <2>3 DEF NoneOpens
<1>5. ASSUME NEW k \in Workers, NEW w \in Workloads, ClaimNext(k, w) PROVE NoneOpens
  <2>1. row[w] \in Rows
    BY <1>1 DEF TypeOK
  <2>2. [row[w] EXCEPT !.worker = k, !.live = TRUE].state = row[w].state
    BY <2>1 DEF Rows
  <2>3. QED
    BY <1>1, <1>5, <2>2, UpdateOpens DEF ClaimNext
<1>6. ASSUME NEW k \in Workers,
             BeginScheduling(k) \/ MarkLeased(k) \/ MarkDeploying(k) \/ MarkRunning(k)
               \/ MarkStopped(k) \/ RetryLater(k) \/ MarkFailed(k)
      PROVE  NoneOpens
  <2> DEFINE r == row[item[k].id]
  <2>1. r \in Rows
    BY <1>6, ClaimHolder
       DEF BeginScheduling, MarkLeased, MarkDeploying, MarkRunning, MarkStopped, RetryLater,
           MarkFailed, Mark
  <2>2. ASSUME NEW to \in States
        PROVE  LET s == [r EXCEPT !.state = to]
                   d == [r EXCEPT !.state = to, !.delayed = FALSE]
                   a == [r EXCEPT !.attempts = @ + 1, !.delayed = TRUE]
                   f == [r EXCEPT !.state = to, !.attempts = @ + 1, !.delayed = FALSE]
               IN  /\ s \in Rows /\ s.state = to
                   /\ d \in Rows /\ d.state = to
                   /\ a \in Rows /\ a.state = r.state
                   /\ f \in Rows /\ f.state = to
    <3>1. /\ [r EXCEPT !.state = to] \in Rows
          /\ [r EXCEPT !.state = to, !.delayed = FALSE] \in Rows
          /\ [r EXCEPT !.attempts = @ + 1, !.delayed = TRUE] \in Rows
          /\ [r EXCEPT !.state = to, !.attempts = @ + 1, !.delayed = FALSE] \in Rows
      BY <2>1, RowTypes
    <3>2. QED
      BY <2>1, <3>1 DEF Rows
  <2>3. CASE BeginScheduling(k)
    BY <2>2, <2>3, StateTypes, MarkOpens DEF BeginScheduling, Open
  <2>4. CASE MarkLeased(k)
    BY <2>2, <2>4, StateTypes, MarkOpens DEF MarkLeased, Mark, Open
  <2>5. CASE MarkDeploying(k)
    BY <2>2, <2>5, StateTypes, MarkOpens DEF MarkDeploying, Mark, Open
  <2>6. CASE MarkRunning(k)
    BY <2>2, <2>6, StateTypes, MarkOpens DEF MarkRunning, Mark, Open
  <2>7. CASE MarkStopped(k)
    BY <2>2, <2>7, StateTypes, MarkOpens DEF MarkStopped, Open
  <2>8. CASE RetryLater(k)
    BY <2>2, <2>8, StateTypes, MarkOpens DEF RetryLater
  <2>9. CASE MarkFailed(k)
    BY <2>2, <2>9, StateTypes, MarkOpens DEF MarkFailed, Open
  <2>10. QED
    BY <1>6, <2>3, <2>4, <2>5, <2>6, <2>7, <2>8, <2>9
<1>7. ASSUME NEW k \in Workers, Abandon(k) PROVE NoneOpens
  BY <1>7 DEF Abandon, NoneOpens
<1>8. CASE UNCHANGED storeVars
  BY <1>8 DEF storeVars, NoneOpens
<1>9. QED
  BY <1>2, <1>3, <1>4, <1>5, <1>6, <1>7, <1>8 DEF Next, Heartbeat, Worker

\* No step takes a provider past its capacity: the sum AssignLease compares is
\* the one that its own write adds to.
LEMMA CapacityStep ==
  ASSUME IInv, CapacityRespected, [Next]_storeVars
  PROVE  CapacityRespected'
<1> SUFFICES ASSUME NEW q \in Providers
             PROVE  Cardinality(Units(OpenOn(q)')) <= Capacity[q]
  BY DEF CapacityRespected, ReservedTotal, Units
<1>1. /\ Cardinality(Units(OpenOn(q))) <= Capacity[q] /\ Capacity[q] \in Nat
      /\ OpenOn(q) \in SUBSET Workloads /\ OpenOn(q)' \in SUBSET Workloads
  BY StoreAssumption DEF CapacityRespected, ReservedTotal, OpenOn
<1>2. \A T \in SUBSET Workloads : Cardinality(Units(T)) \in Nat
  BY UnitsFinite, FS_CardinalityType
<1>3. ASSUME OpenOn(q)' \subseteq OpenOn(q)
      PROVE  Cardinality(Units(OpenOn(q)')) <= Capacity[q]
  <2>1. Cardinality(Units(OpenOn(q)')) <= Cardinality(Units(OpenOn(q)))
    BY <1>1, <1>3, UnitsMonotone
  <2>2. QED
    BY <1>1, <1>2, <2>1
<1>4. CASE NoneOpens
  <2>1. ASSUME NEW w \in Workloads, row'[w].provider = q, row'[w].state \in Open
        PROVE  row[w].provider = q /\ row[w].state \in Open
    <3>1. row[w].state \in Open
      BY <1>4, <2>1 DEF NoneOpens
    <3>2. row[w].lease # 0
      BY <3>1 DEF IInv, RowsSound, Sound
    <3>3. row'[w].provider = row[w].provider
      BY <3>2, NextSound DEF KeepsAssignment
    <3>4. QED
      BY <2>1, <3>1, <3>3
  <2>2. QED
    BY <1>3, <2>1 DEF OpenOn
<1>5. ASSUME NEW k \in Workers, NEW p \in Providers, AssignLease(k, p)
      PROVE  Cardinality(Units(OpenOn(q)')) <= Capacity[q]
  <2> DEFINE w == item[k].id
             s == [row[w] EXCEPT !.state = "LEASE_PENDING", !.provider = p,
                                 !.lease = leaseSeq + 1]
  <2>1. w \in Workloads /\ row[w] \in Rows /\ TypeOK
    BY <1>5, ClaimHolder DEF AssignLease, Mark, IInv
  <2>2. s \in Rows /\ s.provider = p
    <3>1. leaseSeq + 1 \in Nat
      BY <2>1 DEF TypeOK
    <3>2. s \in Rows
      BY <2>1, <3>1, RowTypes, StateTypes
    <3>3. QED
      BY <2>1, <3>2 DEF Rows
  <2>3. Unclaimed(s).provider = p
    BY <2>2, UnclaimedFields
  <2>4. row' = [row EXCEPT ![w] = Unclaimed(s)]
    BY <1>5 DEF AssignLease, Mark, Update
  <2>5. Cardinality(Units(OpenOn(p))) + Reserved[w] <= Capacity[p] /\ Reserved[w] \in Nat
    BY <1>5, <2>1, StoreAssumption DEF AssignLease, ReservedTotal
  <2> HIDE DEF s, w
  <2>6. row'[w].provider = p /\ \A v \in Workloads : v # w => row'[v] = row[v]
    BY <2>1, <2>3, <2>4 DEF TypeOK
  <2>7. CASE q # p
    <3>1. OpenOn(q)' \subseteq OpenOn(q)
      BY <2>6, <2>7 DEF OpenOn
    <3>2. QED
      BY <1>3, <3>1
  <2>8. CASE q = p
    <3>1. OpenOn(q)' \subseteq OpenOn(q) \cup {w}
      BY <2>6 DEF OpenOn
    <3>2. OpenOn(q) \cup {w} \in SUBSET Workloads
      BY <1>1, <2>1
    <3>3. Cardinality(Units(OpenOn(q)')) <= Cardinality(Units(OpenOn(q) \cup {w}))
      BY <3>1, <3>2, UnitsMonotone
    <3>4. Cardinality(Units(OpenOn(q) \cup {w})) <= Cardinality(Units(OpenOn(q))) + Reserved[w]
      BY <1>1, <2>1, UnitsAdd
    <3>5. QED
      BY <1>1, <1>2, <2>5, <2>8, <3>2, <3>3, <3>4
  <2>9. QED
    BY <2>7, <2>8
<1>6. QED
  BY <1>4, <1>5, OnlyAssignOpens

\* No provider is ever promised more than its capacity.
THEOREM CapacityHolds == Spec => []CapacityRespected
<1>1. Init => CapacityRespected
  <2> SUFFICES ASSUME Init, NEW p \in Providers PROVE ReservedTotal(p) <= Capacity[p]
    BY DEF CapacityRespected
  <2>1. OpenOn(p) = {}
    BY DEF Init, OpenOn, NoRow, Open
  <2>2. Units(OpenOn(p)) = {}
    BY <2>1 DEF Units
  <2>3. ReservedTotal(p) = 0
    BY <2>2, FS_EmptySet DEF ReservedTotal
  <2>4. QED
    BY <2>3, StoreAssumption
<1>2. IInv /\ CapacityRespected /\ [Next]_storeVars => CapacityRespected'
  BY CapacityStep
<1>3. QED
  BY <1>1, <1>2, InvariantHolds, PTL DEF Spec
=============================================================================
