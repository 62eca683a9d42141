-------------------------- MODULE ValidatorDaemon --------------------------
(***************************************************************************)
(* cmd/networkvalidator: a validator's process. Each tick it derives the   *)
(* round from the finalized block, computes which providers its committee  *)
(* seat covers, challenges them once per dimension, submits evidence       *)
(* through its own Registrar and tries to close the rounds it evidenced.   *)
(* Its CLI commands are another process signing with the same key.         *)
(*                                                                         *)
(* A key is <<provider, round, dimension>>. done, pending and the backoff  *)
(* of unscored challenges live in memory only. The clock is abstracted: a  *)
(* close is due or not at any tick, a backoff ends by itself.              *)
(***************************************************************************)
EXTENDS ChainSigner, Integers, SequencesExt

CONSTANTS
  Self,              \* the validator's account
  Peers,             \* ActiveValidatorSet without Self, in storage order
  Registry,          \* accounts of the provider registry
  Rounds,            \* 0..n: finalized block number \div RoundLength
  Dimensions,        \* "network" and dimensions probed by SolveChallenge
  Seed,              \* Seed[p, r, nth]: committeeSeed's first 8 bytes
  TargetCommitteeSize,
  Responses,         \* answers to a bandwidth probe: see Measured
  ProbeBits,         \* bits a probe moves, in units of Mbps * ms
  ProbesPerRound,    \* BandwidthProbesPerRound
  Claims,            \* declared capacities [ingress, egress]; 0: none declared
  ToleranceBps,      \* bandwidthToleranceBps
  MaxCloseAttempts,  \* LoopConfig.MaxCloseAttempts
  MaxCommands        \* bound: CLI commands, rounds' changes of the declared capacity

ASSUME DaemonAssumption ==
  /\ IsInjective(Append(Peers, Self)) /\ Peers \in Seq(ToSet(Peers))
  /\ TargetCommitteeSize \in Nat
  /\ \A p \in Registry, r \in Rounds, n \in 0..(TargetCommitteeSize - 1) : Seed[<<p, r, n>>] \in Nat
  /\ ProbesPerRound \in Nat \ {0} /\ ProbeBits \in Nat /\ ToleranceBps \in Nat
  /\ Responses \subseteq [valid : BOOLEAN, elapsed : Nat, processing : Nat]
  /\ Claims \subseteq [ingress : Nat, egress : Nat]
  /\ MaxCloseAttempts \in Nat \ {0} /\ MaxCommands \in Nat
  /\ None \notin Nat

VARIABLES
  seat,              \* this validator's record in the pallet
  round,             \* round of the finalized block
  declared,          \* declared[p]: what agent-endpoint discovery returns
  evidence,          \* finalized Evidence of Self per key, None without
  done, pending,     \* Run's maps
  unscored,          \* keys whose UnscoredRetryInterval has not passed
  tick,              \* the tick under way and the keys it has left
  closes,            \* close_round submissions of this process per key
  commands

daemonVars == <<seat, round, declared, evidence, done, pending, unscored, tick,
                closes, commands>>

Keys == Registry \X Rounds \X Dimensions
Waiting == [pc |-> "wait", todo |-> {}]

Evidence(k, e) == <<"submit_evidence", k, e>>
Close(k) == <<"close_round", k>>
Commands == {<<"register_validator">>, <<"request_exit">>, <<"withdraw_unbonded">>,
             <<"dispute_round">>}

DaemonInit ==
  /\ seat \in {"absent", "active"}
  /\ round = 0
  /\ declared \in [Registry -> Claims]
  /\ evidence = [k \in Keys |-> None]
  /\ done = {}
  /\ pending = [k \in Keys |-> None]
  /\ unscored = {}
  /\ tick = Waiting
  /\ closes = [k \in Keys |-> 0]
  /\ commands = 0

\* ActiveNetworkValidators: joining appends to the pallet's vector.
ActiveValidators == IF seat = "active" THEN Append(Peers, Self) ELSE Peers

\* The validators but the provider itself, which keep their order.
Candidates(p, validators) ==
  LET kept[n \in 0..Len(validators)] ==
        IF n = 0 THEN <<>>
        ELSE IF validators[n] = p THEN kept[n - 1]
        ELSE Append(kept[n - 1], validators[n])
  IN  kept[Len(validators)]

\* The nth member is drawn by a hash of provider, round and nth from those left,
\* which keep their order.
Draw(p, r, nth, before) ==
  LET index == 1 + (Seed[<<p, r, nth>>] % Len(before.left))
  IN  [left |-> RemoveAt(before.left, index),
       chosen |-> Append(before.chosen, before.left[index])]

Wanted(candidates) ==
  IF TargetCommitteeSize < Len(candidates) THEN TargetCommitteeSize ELSE Len(candidates)

Committee(p, r, validators) ==
  LET candidates == Candidates(p, validators)
      draw[n \in 0..Wanted(candidates)] ==
        IF n = 0 THEN [left |-> candidates, chosen |-> <<>>] ELSE Draw(p, r, n - 1, draw[n - 1])
  IN  draw[Wanted(candidates)].chosen

\* A committee depends on nothing but provider, round and active set.
Committees ==
  [p \in Registry |-> [r \in Rounds |-> [validators \in {Peers, Append(Peers, Self)} |->
     Committee(p, r, validators)]]]

Assigned(p, r) == Self \in ToSet(Committees[p][r][ActiveValidators])

\* Every dimension of every provider whose committee has Self, less what is done.
AssignedWork ==
  {k \in Keys : /\ k[2] = round /\ k \notin done
                /\ k[1] # Self /\ Assigned(k[1], round)}

\* runOneBandwidthProbe: an answer that fails a check (here: valid) or claims all
\* but less than 1 ms of the round trip as processing time is no measurement.
implausible(a) == a.elapsed - a.processing < 1
Measured(a) == a.valid /\ ~implausible(a)

\* estimateThroughputMbps splits the network time by bytes, so that both
\* directions get the same rate.
Rate(a) == ProbeBits \div (a.elapsed - a.processing)

capacityDeclared(claim) == claim.ingress > 0 /\ claim.egress > 0
passesBandwidthTolerance(rate, claim) == claim > 0 /\ rate * 10000 >= claim * ToleranceBps
Sustains(rate, claim) ==
  /\ passesBandwidthTolerance(rate, claim.ingress)
  /\ passesBandwidthTolerance(rate, claim.egress)

Slowest(answers) ==
  CHOOSE rate \in {Rate(answers[i]) : i \in DOMAIN answers} :
    \A i \in DOMAIN answers : rate <= Rate(answers[i])

\* Mutant: the last probe decides.
MeasureBandwidthLast(claim, answers) ==
  LET last == answers[Len(answers)]
  IN  IF ~capacityDeclared(claim) THEN "unscored"
      ELSE IF Measured(last) /\ Sustains(Rate(last), claim) THEN "passing" ELSE "failing"

\* One verdict over ProbesPerRound probes: nothing to judge without a declared
\* capacity, whatever the probes did; a failed probe fails the round; the slowest
\* probe counts.
MeasureBandwidth(claim, answers) ==
  IF ~capacityDeclared(claim) THEN "unscored"
  ELSE IF \E i \in DOMAIN answers : ~Measured(answers[i]) THEN "failing"
  ELSE IF Sustains(Slowest(answers), claim) THEN "passing"
  ELSE "failing"

\* What Challenge or MeasureBandwidth may return for k: Challenge always judges, and
\* which way is not told apart; sustained records, for the property, whether every
\* probe kept what was declared.
Verdicts(k) ==
  IF k[3] # "network" THEN {[score |-> "judged", sustained |-> TRUE]}
  ELSE {[score |-> MeasureBandwidth(declared[k[1]], answers),
         sustained |-> \A i \in DOMAIN answers :
                         /\ Measured(answers[i])
                         /\ Sustains(Rate(answers[i]), declared[k[1]])]
          : answers \in [1..ProbesPerRound -> Responses]}
-----------------------------------------------------------------------------
\* The finalized head, the active set and the registry are read once per tick.
Tick ==
  /\ tick = Waiting
  /\ tick' = [pc |-> "challenge", todo |-> AssignedWork]
  /\ UNCHANGED <<signerVars, seat, round, declared, evidence, done, pending, unscored,
                 closes, commands>>

Did(k) == tick' = [tick EXCEPT !.todo = @ \ {k}]

MarkDone(k) == done' = done \union {k}

\* challengeAndSubmit: backing off, no answer from discovery, unscored, refused by
\* the pool or an RPC failure leave the key for a later tick; a submission the
\* pool took marks it done and queues its close.
ChallengeAndSubmit(k) ==
  /\ tick.pc = "challenge" /\ k \in tick.todo
  /\ Did(k)
  /\ \/ k \in unscored /\ UNCHANGED <<signerVars, done, pending, unscored>>
     \/ k \notin unscored /\ Fault /\ UNCHANGED <<slot, done, pending, unscored>>
     \/ /\ k \notin unscored
        /\ \E v \in Verdicts(k) :
             \/ /\ v.score = "unscored"
                /\ unscored' = unscored \union {k}
                /\ UNCHANGED <<signerVars, done, pending>>
             \/ /\ v.score # "unscored"
                /\ SubmitSigned(Evidence(k, v))
                /\ MarkDone(k)
                /\ pending' = [pending EXCEPT ![k] = 0]
                /\ UNCHANGED unscored
             \/ /\ v.score # "unscored"
                /\ SubmitFails(Evidence(k, v))
                /\ UNCHANGED <<done, pending, unscored>>
  /\ UNCHANGED <<seat, round, declared, evidence, closes, commands>>

AttemptPendingCloses ==
  /\ tick.pc = "challenge" /\ tick.todo = {}
  /\ tick' = [pc |-> "close", todo |-> {k \in Keys : pending[k] # None}]
  /\ UNCHANGED <<signerVars, seat, round, declared, evidence, done, pending, unscored,
                 closes, commands>>

\* The close delay, or the interval since the last attempt, has not passed.
CloseNotDue(k) ==
  /\ tick.pc = "close" /\ k \in tick.todo
  /\ Did(k)
  /\ UNCHANGED <<signerVars, seat, round, declared, evidence, done, pending, unscored,
                 closes, commands>>

\* An attempt counts whatever became of it; after the last the key is dropped.
CloseRound(k) ==
  /\ tick.pc = "close" /\ k \in tick.todo
  /\ SubmitSigned(Close(k)) \/ SubmitFails(Close(k))
  /\ pending' = [pending EXCEPT ![k] = IF @ + 1 >= MaxCloseAttempts THEN None ELSE @ + 1]
  /\ closes' = [closes EXCEPT ![k] = @ + 1]
  /\ Did(k)
  /\ UNCHANGED <<seat, round, declared, evidence, done, unscored, commands>>

TickEnds ==
  /\ tick.pc = "close" /\ tick.todo = {}
  /\ tick' = Waiting
  /\ UNCHANGED <<signerVars, seat, round, declared, evidence, done, pending, unscored,
                 closes, commands>>

\* Mutant: an unscored key is never tried again.
BackoffNeverEnds(k) == FALSE

\* UnscoredRetryInterval has passed since the last unscored attempt.
BackoffEnds(k) ==
  /\ k \in unscored
  /\ unscored' = unscored \ {k}
  /\ UNCHANGED <<signerVars, seat, round, declared, evidence, done, pending, tick,
                 closes, commands>>

DaemonRestart ==
  /\ done' = {}
  /\ pending' = [k \in Keys |-> None]
  /\ unscored' = {}
  /\ tick' = Waiting
  /\ closes' = [k \in Keys |-> 0]
  /\ Fault
  /\ UNCHANGED <<slot, seat, round, declared, evidence, commands>>
-----------------------------------------------------------------------------
Commanded == commands < MaxCommands /\ commands' = commands + 1

\* register, request-exit, withdraw and dispute of the CLI: SubmitDirect.
Command ==
  /\ \E c \in Commands : SubmitSigned(c) \/ SubmitFails(c)
  /\ Commanded
  /\ UNCHANGED <<seat, round, declared, evidence, done, pending, unscored, tick, closes>>

\* The pallet executes the finalized call: evidence counts once per key, from an
\* assigned and active validator.
ExecuteCall ==
  /\ \/ Finalizes(<<"register_validator">>) /\ seat' = (IF seat = "absent" THEN "active" ELSE seat)
        /\ UNCHANGED evidence
     \/ Finalizes(<<"request_exit">>) /\ seat' = (IF seat = "active" THEN "exiting" ELSE seat)
        /\ UNCHANGED evidence
     \/ Finalizes(<<"withdraw_unbonded">>) /\ seat' = (IF seat = "exiting" THEN "absent" ELSE seat)
        /\ UNCHANGED evidence
     \/ Finalizes(<<"dispute_round">>) /\ UNCHANGED <<seat, evidence>>
     \/ \E k \in Keys : Finalizes(Close(k)) /\ UNCHANGED <<seat, evidence>>
     \/ /\ slot # None /\ slot.call[1] = "submit_evidence" /\ Finalizes(slot.call)
        /\ LET k == slot.call[2]
           IN evidence' = [evidence EXCEPT
                ![k] = IF @ = None /\ seat = "active" /\ Assigned(k[1], k[2])
                       THEN slot.call[3] ELSE @]
        /\ UNCHANGED seat
  /\ UNCHANGED <<faults, round, declared, done, pending, unscored, tick, closes, commands>>

RoundAdvances ==
  /\ round + 1 \in Rounds
  /\ round' = round + 1
  /\ UNCHANGED <<signerVars, seat, declared, evidence, done, pending, unscored, tick,
                 closes, commands>>

\* A heartbeat changes, or its expiry withdraws, the declared capacity.
ClaimChanges(p) ==
  /\ \E c \in Claims : c # declared[p] /\ declared' = [declared EXCEPT ![p] = c]
  /\ Commanded
  /\ UNCHANGED <<signerVars, seat, round, evidence, done, pending, unscored, tick, closes>>

TickStep ==
  \/ Tick \/ AttemptPendingCloses \/ TickEnds
  \/ \E k \in Keys : ChallengeAndSubmit(k) \/ CloseNotDue(k) \/ CloseRound(k)

DaemonNext ==
  \/ TickStep
  \/ \E k \in Keys : BackoffEnds(k)
  \/ DaemonRestart \/ Command \/ ExecuteCall \/ RoundAdvances
  \/ \E p \in Registry : ClaimChanges(p)
  \/ (Include \/ PoolLoses) /\ UNCHANGED daemonVars
-----------------------------------------------------------------------------
\* The seat, the keys done and the retries left to each.
DaemonTypeOK ==
  /\ seat \in {"absent", "active", "exiting"}
  /\ done \subseteq Keys
  /\ pending \in [Keys -> (0..MaxCloseAttempts - 1) \union {None}]
  /\ tick.todo \subseteq Keys

(***************************************************************************)
(* Committee draws distinct validators, never the provider itself, and as  *)
(* many as the target and the active set allow.                            *)
(***************************************************************************)
CommitteeIsDrawn ==
  \A p \in Registry, r \in Rounds :
    LET committee == Committees[p][r][ActiveValidators]
        others == ToSet(ActiveValidators) \ {p}
    IN  /\ IsInjective(committee)
        /\ ToSet(committee) \subseteq others
        /\ Len(committee) = IF TargetCommitteeSize < Cardinality(others)
                            THEN TargetCommitteeSize ELSE Cardinality(others)

(***************************************************************************)
(* A passing network score reaches the chain only if every probe of the    *)
(* round was a valid measurement that kept both declared capacities: no    *)
(* pass without a declaration, none on the strength of one good probe.     *)
(***************************************************************************)
PassIsSustained ==
  \A k \in Keys :
    k[3] = "network" /\ evidence[k] # None /\ evidence[k].score = "passing"
      => evidence[k].sustained

(***************************************************************************)
(* However often a key is challenged again, one process submits            *)
(* close_round for it at most MaxCloseAttempts times.                      *)
(***************************************************************************)
ClosesAreBounded == \A k \in Keys : closes[k] <= MaxCloseAttempts

(***************************************************************************)
(* A key assigned in the last round is done in the end, although the pool  *)
(* refuses one submission per tick too many, unless the seat or the        *)
(* declared capacity is lost.                                              *)
(***************************************************************************)
AssignedIsSubmitted ==
  \A k \in Keys :
    k \in AssignedWork ~> \/ k \in done \/ round # k[2] \/ ~Assigned(k[1], k[2])
                          \/ k[3] = "network" /\ ~capacityDeclared(declared[k[1]])
=============================================================================
