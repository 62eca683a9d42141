------------------------------ MODULE Scheduler -----------------------------
(***************************************************************************)
(* internal/scheduler and the SCHEDULING step of internal/orchestrator: a  *)
(* workload is ranked against what the Agents last reported and committed  *)
(* against the ledger of reservations, in a later transaction.             *)
(*                                                                         *)
(* CPU, RAM and storage pass the same tests, one figure stands for the     *)
(* three; ingress and egress too.  Bps stands for 10_000 basis points, and *)
(* the widths of int64 and uint32 are scaled down with it.                 *)
(***************************************************************************)
EXTENDS Integers, FiniteSetsExt

CONSTANTS
  Hosts,          \* provider ids, in their order
  Jobs,           \* workloads to place
  Need,           \* [Jobs -> [cpu, bandwidth, minimum]]: requirements, min_reputation
  Total,          \* [Hosts -> [cpu, bandwidth]]: the declared totals
  Aspects,        \* the dimensions of a reputation vector
  Reports,        \* the directory entries an Agent and the chain may present
  Weights,        \* ProfileWeights: [resource, reputation, aspect]
  MaxReputationScore, DefaultReputationScore,
  Bps,
  SignBit, Word,  \* 2^63 and 2^32: where int64 turns negative, where uint32 wraps
  MTU, Overhead,  \* DefaultOverlayMTUBytes, WireGuardOverheadBytes
  MaxTries        \* retryPolicy.MaxAttempts

ASSUME SchedulerAssumption ==
  /\ Hosts \subseteq Nat \ {0} /\ IsFiniteSet(Hosts) /\ IsFiniteSet(Jobs)
  /\ Need \in [Jobs -> [cpu : Nat, bandwidth : Nat, minimum : Nat]]
  /\ Total \in [Hosts -> [cpu : Nat, bandwidth : Nat]]
  /\ \A c \in Reports :
       c.available \in 0 .. SignBit - 1 /\ \A v \in c.reputation : v \in [Aspects -> 0 .. MaxReputationScore]
  /\ MaxReputationScore \in Nat \ {0} /\ DefaultReputationScore \in 0 .. MaxReputationScore
  /\ Weights.resource \in Nat /\ Weights.reputation \in Nat /\ Bps \in Nat \ {0}
  /\ SignBit \in Nat \ {0} /\ Word \in Nat /\ Bps * Bps < Word /\ 4 * Bps < Word
  /\ \A h \in Hosts : Total[h].bandwidth * Bps < SignBit
  /\ Weights.resource + Weights.reputation = Bps
  /\ IsFiniteSet(Aspects) /\ Weights.aspect \in [Aspects -> Nat]
  /\ MapThenSumSet(LAMBDA x : Weights.aspect[x], Aspects) = Bps
  /\ MTU \in Nat \ {0} /\ Overhead \in 0 .. MTU /\ MaxTries \in Nat \ {0}

VARIABLES
  job,            \* workloads: state, provider and attempt_count
  pending,        \* what a worker has ranked for a job and not committed yet
  seen            \* the ranking just made: the job and the candidates, if any

schedulerVars == <<job, pending, seen>>

\* A directory entry: reachable and matching zone and VM needs or not, the
\* availability it reports, its chain reputation if it can be read.
Candidates == [Hosts -> Reports]
-----------------------------------------------------------------------------
(* The ranking.                                                            *)

\* Go's arithmetic: products in two's complement, quotients rounded towards
\* zero, conversions that keep the low bits.
Int64(n) == LET low == n % (2 * SignBit) IN IF low < SignBit THEN low ELSE low - 2 * SignBit
Quotient(n, d) == IF n >= 0 THEN n \div d ELSE -((-n) \div d)
Uint32(n) == n % Word

\* Bandwidths are int32 in a report, so no product with one leaves int64.
WireGuardEffectiveMbps(total) == (total * (MTU - Overhead)) \div MTU

\* The cap comes after the product, which nothing bounds, and before the
\* conversion, which a negative ratio does not survive.
Fits(available, required) == available >= required
fitBps(available, required) ==
  IF required = 0 THEN Bps
  ELSE Uint32(Min({Quotient(Int64(available * Bps), required), Bps}))

Vector(c) == IF c.reputation = {} THEN [x \in Aspects |-> DefaultReputationScore] ELSE CHOOSE v \in c.reputation : TRUE

weightedSum(v) == MapThenSumSet(LAMBDA x : Weights.aspect[x] * v[x], Aspects)
weightedReputationBps(v) == weightedSum(v) \div MaxReputationScore

globalBps(v) ==
  ((MapThenSumSet(LAMBDA x : v[x], Aspects) \div Cardinality(Aspects)) * Bps) \div MaxReputationScore

Excluded(j, h, c) ==
  \/ ~c.suits
  \/ ~Fits(c.available, Need[j].cpu)
  \/ ~Fits(WireGuardEffectiveMbps(Total[h].bandwidth), Need[j].bandwidth)
  \/ /\ Need[j].minimum > 0
     /\ globalBps(Vector(c)) < Uint32(Need[j].minimum * Bps) \div MaxReputationScore

scoreOne(j, h, c) ==
  LET fit == fitBps(c.available, Need[j].cpu)
      bandwidth == fitBps(WireGuardEffectiveMbps(Total[h].bandwidth), Need[j].bandwidth)
      resource == IF Need[j].bandwidth = 0 THEN Uint32(3 * fit) \div 3 ELSE Uint32(3 * fit + bandwidth) \div 4
  IN Uint32(resource * Weights.resource + weightedReputationBps(Vector(c)) * Weights.reputation) \div Bps

\* Best score first, ties by provider id.
Before(j, all, g, h) ==
  \/ scoreOne(j, g, all[g]) > scoreOne(j, h, all[h])
  \/ scoreOne(j, g, all[g]) = scoreOne(j, h, all[h]) /\ g <= h

Eligible(j, all) == {h \in Hosts : ~Excluded(j, h, all[h])}
Selected(j, all) == CHOOSE g \in Eligible(j, all) : \A h \in Eligible(j, all) : Before(j, all, g, h)
-----------------------------------------------------------------------------
(* The SCHEDULING step.                                                    *)

\* Mutant: the ledger's ceiling is the raw declared bandwidth.
CeilingRaw(h) == Total[h]
\* The totals AssignLease is given: the overlay's overhead is deducted.
Ceiling(h) == [Total[h] EXCEPT !.bandwidth = WireGuardEffectiveMbps(@)]

\* One attempt more, or MarkFailed.
Retry(j) == job' =
  [job EXCEPT ![j].tries = @ + 1, ![j].state = IF job[j].tries + 1 >= MaxTries THEN "FAILED" ELSE @]

\* A worker reads the directory and ranks it.
Rank(j) ==
  /\ job[j].state = "SCHEDULING" /\ pending[j] = 0
  /\ \E all \in Candidates :
       /\ seen' = {[job |-> j, all |-> all]}
       /\ IF Eligible(j, all) = {} THEN Retry(j) /\ UNCHANGED pending
          ELSE pending' = [pending EXCEPT ![j] = Selected(j, all)] /\ UNCHANGED job

\* The units of a dimension that jobs reserve, one by one: SUM counts them.
Units(jobs, d) == UNION {{j} \X (1 .. Need[j][d]) : j \in jobs}
Open(h) == {j \in Jobs : job[j].state = "OPEN" /\ job[j].host = h}
Reserved(h, d) == Cardinality(Units(Open(h), d))
HasRoom(j, h) == \A d \in {"cpu", "bandwidth"} : Reserved(h, d) + Need[j][d] <= Ceiling(h)[d]

\* The choice is committed if the ledger has room for it.
CommitAssignment(j) ==
  /\ pending[j] # 0
  /\ IF HasRoom(j, pending[j]) THEN job' = [job EXCEPT ![j].state = "OPEN", ![j].host = pending[j]] ELSE Retry(j)
  /\ pending' = [pending EXCEPT ![j] = 0]
  /\ seen' = {}

\* The worker dies between the two, or its claim runs out.
ForgetRanking(j) ==
  /\ pending[j] # 0
  /\ pending' = [pending EXCEPT ![j] = 0]
  /\ seen' = {} /\ UNCHANGED job

Close(j) ==
  /\ job[j].state = "OPEN"
  /\ job' = [job EXCEPT ![j].state = "CLOSED"]
  /\ seen' = {} /\ UNCHANGED pending

\* Another workload with the same needs.
BeginScheduling(j) ==
  /\ job[j].state \in {"FAILED", "CLOSED"}
  /\ job' = [job EXCEPT ![j] = [state |-> "SCHEDULING", host |-> 0, tries |-> 0]]
  /\ seen' = {} /\ UNCHANGED pending

SchedulerInit ==
  /\ job = [j \in Jobs |-> [state |-> "SCHEDULING", host |-> 0, tries |-> 0]]
  /\ pending = [j \in Jobs |-> 0]
  /\ seen = {}

SchedulerNext == \E j \in Jobs : Rank(j) \/ CommitAssignment(j) \/ ForgetRanking(j) \/ Close(j) \/ BeginScheduling(j)
-----------------------------------------------------------------------------
\* The reservations open on a provider never exceed what its overlay carries:
\* the ranking looks at one workload at a time and at stale reports, the ledger
\* deducts the same overhead as the ranking does (WireGuardEffectiveMbps).
OverlayNotOverbooked == \A h \in Hosts : Reserved(h, "bandwidth") * MTU <= Total[h].bandwidth * (MTU - Overhead)

\* The exact score, times Bps * MaxReputationScore.
Exact(c) == Bps * Weights.resource * MaxReputationScore
  + Weights.reputation * weightedSum(Vector(c))

\* The ratio of what is available to anything required is within int64.
InWidth(c) == c.available * Bps < SignBit

\* Rounding decides between providers that are within its error, no others: of
\* the providers that could take the workload and whose figures int64 can
\* multiply, none has an exact score higher than that of such a one selected by
\* more than one rounding of the reputation, by its weight, and one of the total
\* (Rank, scoreOne, weightedReputationBps). A figure beyond the width is scored
\* by what the product leaves of it, and may win or lose against anyone.
SelectedIsBest == \A r \in seen : \A h \in Eligible(r.job, r.all) :
  InWidth(r.all[h]) /\ InWidth(r.all[Selected(r.job, r.all)]) =>
    Exact(r.all[h]) < Exact(r.all[Selected(r.job, r.all)]) + (Bps + Weights.reputation) * MaxReputationScore
=============================================================================
