------------------------------ MODULE Metering ------------------------------
(***************************************************************************)
(* internal/metering: usage summaries signed by the Agents become evidence *)
(* and invoice lines, once each and in order, or rejections.  Signatures   *)
(* and hashes are perfect: an evidence hash is the content it covers.      *)
(* Widths are parameters: MaxUint stands for 2^64 - 1, MaxInt for 2^63 - 1.*)
(***************************************************************************)
EXTENDS OpenStackApi

CONSTANTS
  Providers,
  Rates,         \* a PriceSchedule: the rates of cpu, ram, storage and network
  Usages,        \* the quantities a summary may report
  MaxSequence,   \* bound on the sequences an Agent has used
  MaxUint, MaxInt

ASSUME MeteringAssumption ==
  /\ None \notin Providers
  /\ MaxUint \in Nat /\ MaxInt \in 0 .. MaxUint /\ MaxSequence \in 1 .. MaxInt
  /\ Rates \in [{"cpu", "ram", "storage", "network"} -> 0 .. MaxUint]
  /\ Usages \subseteq [{"cpu", "ram", "storage", "egress", "ingress"} -> 0 .. MaxUint]

VARIABLES
  placed,       \* workloads.provider_id, None before a lease is assigned
  cursor,       \* metering_cursors.last_sequence, 0: no row
  evidence,     \* metering_evidence with its invoice line's total
  rejection,    \* the last row of metering_evidence_rejections
  disputed      \* the evidence whose line has an open dispute

meteringVars == <<placed, cursor, evidence, rejection, disputed>>
-----------------------------------------------------------------------------
(* Charges.                                                                *)

Overflow == MaxUint + 1
Wrapped(n) == n % (MaxUint + 1)

checkedMul(x, y) ==
  IF Overflow \in {x, y} THEN Overflow
  ELSE LET result == Wrapped(x * y) IN
       IF x = 0 \/ y = 0 THEN 0 ELSE IF result \div x # y THEN Overflow ELSE result

\* Mutant: uint64 wraps, and nobody looks.
checkedAddWraps(x, y) == IF Overflow \in {x, y} THEN Overflow ELSE Wrapped(x + y)
checkedAdd(x, y) ==
  IF Overflow \in {x, y} THEN Overflow
  ELSE LET result == Wrapped(x + y) IN IF result < x THEN Overflow ELSE result

ComputeCharge(u) ==
  LET network == checkedMul(checkedAdd(u.egress, u.ingress), Rates.network)
      total == checkedAdd(checkedMul(u.cpu, Rates.cpu), checkedMul(u.ram, Rates.ram))
  IN checkedAdd(checkedAdd(total, checkedMul(u.storage, Rates.storage)), network)

checkBigintRange(u, total) == total <= MaxInt /\ \A d \in DOMAIN u : u[d] <= MaxInt
-----------------------------------------------------------------------------
(* One summary.                                                            *)

Defects == {"bounds_violation", "unknown_schema_version", "clock_skew", "invalid_signature"}

\* What a summary s of provider p is refused for, in the order it is checked.
Outcome(p, s) ==
  IF s.defect # None THEN s.defect
  ELSE IF placed[s.workload] # p THEN "workload_provider_mismatch"
  ELSE IF ~s.leased THEN "lease_mismatch"
  ELSE IF ComputeCharge(s.usage) = Overflow THEN "charge_overflow"
  ELSE "none"

\* Checked and refused, with a row that keeps the reason, ...
reject(reason) ==
  /\ rejection' = [reason |-> reason]
  /\ UNCHANGED <<placed, cursor, evidence, disputed, request>>

\* ... or checked and handed to the repository.  What does not fit a bigint
\* is an error, without a row.
RecordUsage(r, p, s) ==
  /\ Outcome(p, s) = "none"
  /\ checkBigintRange(s.usage, ComputeCharge(s.usage))
  /\ Begin(r, [op |-> "accept", provider |-> p, workload |-> s.workload,
               sequence |-> s.sequence, usage |-> s.usage])
  /\ UNCHANGED meteringVars

Content(e) == <<e.provider, e.workload, e.sequence, e.usage>>

SameHash(e, q) == Content(e) = Content(q)

classifyStaleSequence(q) ==
  LET existing == {e \in evidence : <<e.provider, e.workload, e.sequence>> = <<q.provider, q.workload, q.sequence>>} IN
  CASE existing = {} -> "out_of_order"
    [] \E e \in existing : SameHash(e, q) -> "duplicate"
    [] OTHER -> "conflicting_evidence"

\* Mutant: the cursor is read without FOR UPDATE.
CursorFreeAlways(q) == TRUE
CursorFree(q) == \A r \in Requests :
  request[r].op = "insert" => <<request[r].provider, request[r].workload>> # <<q.provider, q.workload>>

\* The cursor row is locked and read: a summary that is not newer is answered,
\* and recorded unless it is a duplicate or the write fails; one that is newer
\* keeps the lock.
LockCursor(r) ==
  /\ request[r].op = "accept"
  /\ CursorFree(request[r])
  /\ LET q == request[r]  reason == classifyStaleSequence(q) IN
     IF q.sequence > cursor[q.provider][q.workload]
     THEN request' = [request EXCEPT ![r].op = "insert"] /\ UNCHANGED rejection
     ELSE /\ Finish(r)
          /\ \/ /\ reason # "duplicate"
                /\ rejection' = [provider |-> q.provider, workload |-> q.workload, sequence |-> q.sequence,
                                 usage |-> q.usage, reason |-> reason]
             \/ UNCHANGED rejection
  /\ UNCHANGED <<placed, cursor, evidence, disputed>>

\* The cursor, the evidence and its invoice line are written and committed.
\* UNIQUE (provider_id, workload_id, sequence) rolls a second row back.
AcceptEvidence(r) ==
  /\ request[r].op = "insert"
  /\ LET q == request[r] IN
     IF \E e \in evidence : <<e.provider, e.workload, e.sequence>> = <<q.provider, q.workload, q.sequence>>
     THEN UNCHANGED <<cursor, evidence>>
     ELSE /\ cursor' = [cursor EXCEPT ![q.provider][q.workload] = q.sequence]
          /\ evidence' = evidence \cup {[provider |-> q.provider, workload |-> q.workload, sequence |-> q.sequence,
                                         usage |-> q.usage, total |-> ComputeCharge(q.usage)]}
  /\ Finish(r)
  /\ UNCHANGED <<placed, rejection, disputed>>

\* A transaction fails, or the process ends: the requests in flight roll back.
RollBack ==
  /\ \E r \in Requests : request[r] # Idle
  /\ request' = [r \in Requests |-> Idle]
  /\ UNCHANGED meteringVars

RaiseDispute(e) ==
  /\ e \in evidence \ disputed
  /\ disputed' = disputed \cup {e}
  /\ UNCHANGED <<placed, cursor, evidence, rejection, request>>

\* The environment: a worker assigns the workload's lease.
AssignLease(w, p) ==
  /\ placed[w] = None
  /\ placed' = [placed EXCEPT ![w] = p]
  /\ UNCHANGED <<cursor, evidence, rejection, disputed, request>>

Summaries == [workload : Workloads, sequence : 1 .. MaxSequence, usage : Usages,
              leased : BOOLEAN, defect : Defects \cup {None}]

MeteringInit ==
  /\ placed = [w \in Workloads |-> None]
  /\ cursor = [p \in Providers |-> [w \in Workloads |-> 0]]
  /\ evidence = {} /\ rejection = None /\ disputed = {}

MeteringNext ==
  /\ \/ \E reason \in {Outcome(p, s) : p \in Providers, s \in Summaries} \ {"none"} : reject(reason)
     \/ \E r \in Requests, p \in Providers, s \in Summaries : RecordUsage(r, p, s)
     \/ \E r \in Requests : LockCursor(r) \/ AcceptEvidence(r)
     \/ RollBack
     \/ \E e \in evidence : RaiseDispute(e)
     \/ \E w \in Workloads, p \in Providers : AssignLease(w, p)
  /\ foreign' = {}
-----------------------------------------------------------------------------
\* Cursors and rows keep to their columns: the totals fit bigint, every row is
\* its provider's and no cursor is behind its evidence (AcceptEvidence).
MeteringTypeOK ==
  /\ placed \in [Workloads -> Providers \cup {None}]
  /\ cursor \in [Providers -> [Workloads -> 0 .. MaxSequence]]
  /\ \A e \in evidence :
       /\ e.provider = placed[e.workload] /\ e.sequence <= cursor[e.provider][e.workload]
       /\ e.usage \in Usages /\ e.total \in 0 .. MaxInt
  /\ disputed \subseteq evidence

\* The evidence of a workload is taken in the order of its sequences, whatever
\* summaries are sent twice, concurrently or late: what is added is newer than
\* all there is, and what is there stays (the row lock of AcceptEvidence).
BilledInOrder == [][
  /\ evidence \subseteq evidence'
  /\ \A e \in evidence, f \in evidence' \ evidence :
       <<e.provider, e.workload>> = <<f.provider, f.workload>> => e.sequence < f.sequence]_<<evidence>>

\* An invoice line carries the exact sum of its products, never a wrapped or
\* truncated one, at every edge of the 64-bit width (ComputeCharge).
InvoiceIsExact == \A e \in evidence : e.total =
  e.usage.cpu * Rates.cpu + e.usage.ram * Rates.ram + e.usage.storage * Rates.storage
    + (e.usage.egress + e.usage.ingress) * Rates.network

\* A summary that was once recorded as stale or conflicting is on no invoice,
\* before or after: a retry of what was billed is a duplicate and leaves no
\* row, a late or differing one is never billed (classifyStaleSequence).
RejectedIsNeverBilled ==
  rejection # None /\ rejection.reason \in {"out_of_order", "conflicting_evidence"} =>
    \A e \in evidence : Content(e) # Content(rejection)
=============================================================================
