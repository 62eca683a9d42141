-------------------------- MODULE NetworkValidator --------------------------
(***************************************************************************)
(* pallet-network-validator: staked validators score providers in rounds;  *)
(* a closed round sets the provider's reputation, and a dispute rolls it   *)
(* back and, when governance upholds it, slashes the validators whose      *)
(* submissions made the aggregate.                                         *)
(*                                                                         *)
(* Rounds are kept per ScoreDimension. A reputation is the round whose     *)
(* aggregate it is (0: none yet), which is what disputes tell apart; the   *)
(* aggregate itself is kept in the round, for pallet-provider-slashing.    *)
(* Accounts are naturals, so that ties are trimmed as the code trims them. *)
(* Payload hashes, sample counts and reward points are left out.           *)
(***************************************************************************)
EXTENDS Balances, FiniteSets, FiniteSetsExt

CONSTANTS
  Accounts, None,
  ValidatorMinStake, ValidatorUnbonding, MaxValidators,
  MinQuorum, TargetCommitteeSize, MaxSubmissionsPerRound,
  RoundDisputeWindow, ValidatorSlashAmount,
  Stakes,           \* the stakes validators choose
  Scores,           \* the scores they submit, in basis points
  RoundIds,
  Dimensions        \* ScoreDimension

VARIABLES
  bal, now,
  validator,        \* Validators
  activeSet,        \* ActiveValidatorSet
  evidence,         \* Evidence: the submissions <<validator, score>> of a round
  round,            \* Rounds, with RoundSubmitters
  reputation,       \* pallet-reputation's vector
  openCount,        \* pallet-escrow's PayerOpenEscrowCount, read only
  bond,             \* pallet-provider-registry's ProviderBonds, read only
  provider          \* pallet-provider-registry's Providers, read only

ValidatorStatuses == {"None", "Active", "Suspended", "Exiting"}
RoundStatuses == {"None", "Final", "Disputed", "DisputeUpheld", "DisputeRejected"}

ValidatorRecords == [status : ValidatorStatuses, stake : Nat, availableAt : Nat]
NoValidator == [status |-> "None", stake |-> 0, availableAt |-> 0]
NoRound ==
  [status |-> "None", score |-> 0, previous |-> 0, submissions |-> 0,
   closedAt |-> 0, submitters |-> {}]

IsActive(v) == validator[v].status = "Active"

\* committee draws its members from the active set without replacement, by a
\* hash of provider and round. Which of these sets it draws is left open.
Committees(p) ==
  LET candidates == activeSet \ {p}
  IN  kSubset(Least(TargetCommitteeSize, Cardinality(candidates)), candidates)

\* trimmed: from three submissions on, the lowest and the highest are dropped;
\* ties are ordered by account.
Below(s, t) == s[2] < t[2] \/ (s[2] = t[2] /\ s[1] < t[1])
Trimmed(subs) ==
  IF Cardinality(subs) < 3 THEN subs
  ELSE {s \in subs : (\E t \in subs : Below(t, s)) /\ (\E t \in subs : Below(s, t))}
Mean(subs) == MapThenSumSet(LAMBDA s : s[2], subs) \div Cardinality(subs)

\* join_active_set fails when the set is full.
CanJoin(v) == v \in activeSet \/ Cardinality(activeSet) < MaxValidators
-----------------------------------------------------------------------------
RegisterValidator(v, stake) ==
  /\ validator[v].status = "None"
  /\ stake >= ValidatorMinStake
  /\ openCount[v] = 0
  /\ bond[v].status = "None"
  /\ CanJoin(v)
  /\ stake <= bal[v].free
  /\ bal' = Reserve(bal, v, stake)
  /\ validator' = [validator EXCEPT ![v] = [status |-> "Active", stake |-> stake, availableAt |-> 0]]
  /\ activeSet' = activeSet \union {v}
  /\ UNCHANGED <<evidence, round, reputation>>

RequestExit(v) ==
  /\ validator[v].status \in {"Active", "Suspended"}
  /\ validator' = [validator EXCEPT ![v].status = "Exiting",
                                   ![v].availableAt = now + ValidatorUnbonding]
  /\ activeSet' = activeSet \ {v}
  /\ UNCHANGED <<bal, evidence, round, reputation>>

WithdrawUnbonded(v) ==
  /\ validator[v].status = "Exiting"
  /\ now >= validator[v].availableAt
  /\ bal' = Unreserve(bal, v, validator[v].stake)
  /\ validator' = [validator EXCEPT ![v] = NoValidator]
  /\ activeSet' = activeSet \ {v}
  /\ UNCHANGED <<evidence, round, reputation>>

Suspend(v) ==
  /\ IsActive(v)
  /\ validator' = [validator EXCEPT ![v].status = "Suspended"]
  /\ activeSet' = activeSet \ {v}
  /\ UNCHANGED <<bal, evidence, round, reputation>>

Reinstate(v) ==
  /\ validator[v].status = "Suspended"
  /\ CanJoin(v)
  /\ validator' = [validator EXCEPT ![v].status = "Active"]
  /\ activeSet' = activeSet \union {v}
  /\ UNCHANGED <<bal, evidence, round, reputation>>

SubmitEvidence(v, p, r, d, score) ==
  /\ IsActive(v)
  /\ v # p
  /\ v \in UNION Committees(p)
  /\ round[<<p, r, d>>].status = "None"
  /\ \A s \in evidence[<<p, r, d>>] : s[1] # v
  /\ Cardinality(evidence[<<p, r, d>>]) < MaxSubmissionsPerRound
  /\ evidence' = [evidence EXCEPT ![<<p, r, d>>] = @ \union {<<v, score>>}]
  /\ UNCHANGED <<bal, validator, activeSet, round, reputation>>

\* By any active validator; pallet-reputation refuses an unregistered provider.
CloseRound(p, r, d) ==
  LET subs == evidence[<<p, r, d>>]
  IN  /\ \E v \in Accounts : IsActive(v)
      /\ round[<<p, r, d>>].status = "None"
      /\ Cardinality(subs) >= MinQuorum
      /\ provider[p] # "None"
      /\ round' = [round EXCEPT ![<<p, r, d>>] =
           [status |-> "Final", score |-> Mean(Trimmed(subs)), previous |-> reputation[<<p, d>>],
            submissions |-> Cardinality(subs), closedAt |-> now,
            submitters |-> {s[1] : s \in Trimmed(subs)}]]
      /\ evidence' = [evidence EXCEPT ![<<p, r, d>>] = {}]
      /\ reputation' = [reputation EXCEPT ![<<p, d>>] = r]
      /\ UNCHANGED <<bal, validator, activeSet>>

\* By the scored provider or a member of its committee.
DisputeRound(p, r, d) ==
  /\ round[<<p, r, d>>].status = "Final"
  /\ now <= round[<<p, r, d>>].closedAt + RoundDisputeWindow
  /\ reputation' = [reputation EXCEPT ![<<p, d>>] = round[<<p, r, d>>].previous]
  /\ round' = [round EXCEPT ![<<p, r, d>>].status = "Disputed"]
  /\ UNCHANGED <<bal, validator, activeSet, evidence>>

\* Mutant: the slash is not taken off the recorded stake.
PunishedKeepsStake(v) == validator[v]

\* slash_round_submitters: the submitters still registered lose what is held, up
\* to SlashAmount; one left with no stake is suspended.
Punished(v) ==
  LET rec == validator[v]
      slashed == Least(ValidatorSlashAmount, bal[v].held)
      left == rec.stake - Least(rec.stake, slashed)
  IN  IF slashed = 0 THEN rec
      ELSE [rec EXCEPT !.stake = left,
                       !.status = IF left = 0 /\ @ = "Active" THEN "Suspended" ELSE @]

ResolveUpheld(p, r, d) ==
  LET guilty == {v \in round[<<p, r, d>>].submitters : validator[v].status # "None"}
  IN  /\ round[<<p, r, d>>].status = "Disputed"
      /\ round' = [round EXCEPT ![<<p, r, d>>].status = "DisputeUpheld"]
      /\ bal' = [a \in Accounts |-> IF a \in guilty
                 THEN SlashReserved(bal, a, ValidatorSlashAmount)[a] ELSE bal[a]]
      /\ validator' = [a \in Accounts |-> IF a \in guilty THEN Punished(a) ELSE validator[a]]
      /\ activeSet' = activeSet \ {v \in guilty : Punished(v).status = "Suspended"}
      /\ UNCHANGED <<evidence, reputation>>

ResolveRejected(p, r, d) ==
  /\ round[<<p, r, d>>].status = "Disputed"
  /\ round' = [round EXCEPT ![<<p, r, d>>].status = "DisputeRejected"]
  /\ reputation' = [reputation EXCEPT ![<<p, d>>] = r]
  /\ UNCHANGED <<bal, validator, activeSet, evidence>>

Init ==
  /\ validator = [a \in Accounts |-> NoValidator]
  /\ activeSet = {}
  /\ evidence = [k \in Accounts \X RoundIds \X Dimensions |-> {}]
  /\ round = [k \in Accounts \X RoundIds \X Dimensions |-> NoRound]
  /\ reputation = [k \in Accounts \X Dimensions |-> 0]
=============================================================================
