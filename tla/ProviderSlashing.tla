-------------------------- MODULE ProviderSlashing --------------------------
(***************************************************************************)
(* pallet-provider-registry and pallet-provider-slashing: a registered     *)
(* provider bonds stake, and BreachRounds consecutive bad rounds open a    *)
(* slash it can appeal before anyone may execute it against the bond.      *)
(*                                                                         *)
(* Slashes are kept per provider and ScoreDimension, the bond per          *)
(* provider. Every registration brings a fresh public key.                 *)
(***************************************************************************)
EXTENDS Balances, FiniteSets

CONSTANTS
  Accounts, None,
  ProviderMinStake, ProviderUnbonding,
  BreachRounds, BreachThreshold, SlashConfidence, TargetCommitteeSize,
  RoundDisputeWindow, SlashAppealWindow, ProviderSlashAmount,
  Registered,       \* the providers registered before the model starts
  Bonds,            \* the amounts providers bond
  RoundIds,
  Dimensions        \* ScoreDimension

VARIABLES
  bal, now,
  provider,         \* Providers: the status, "None" when not registered
  bond,             \* ProviderBonds
  pending,          \* PendingSlashes
  lastSlashed,      \* LastSlashedRound, 0 for none
  executed,         \* history: the rounds of executed slashes, with how often
  openCount,        \* pallet-escrow's PayerOpenEscrowCount, read only
  validator,        \* pallet-network-validator's Validators, read only
  round             \* pallet-network-validator's Rounds, read only

registryVars == <<provider, bond>>
slashingVars == <<pending, lastSlashed, executed>>

ProviderStatuses == {"Registered", "Verified", "Active", "Suspended", "Removed"}
BondRecords ==
  [status : {"None", "Active", "Exiting"}, stake : Nat, availableAt : Nat]
PendingSlashRecords ==
  [state : {"None", "Proposed", "Appealed"}, first : Nat, createdAt : Nat]
NoBond == [status |-> "None", stake |-> 0, availableAt |-> 0]
NoSlash == [state |-> "None", first |-> 0, createdAt |-> 0]

\* The runtime asks for every dimension.
HasPendingSlash(a) == \E d \in Dimensions : pending[<<a, d>>].state # "None"
-----------------------------------------------------------------------------
(* pallet-provider-registry *)

\* register_provider and register_provider_for.
RegisterProvider(a) ==
  /\ provider[a] = "None"
  /\ provider' = [provider EXCEPT ![a] = "Registered"]
  /\ UNCHANGED <<bal, bond, slashingVars>>

ValidTransition ==
  {<<"Registered", "Verified">>, <<"Verified", "Active">>, <<"Active", "Suspended">>,
   <<"Suspended", "Active">>}
    \union {<<s, "Removed">> : s \in {"Registered", "Verified", "Active", "Suspended"}}

SetStatus(a, s) ==
  /\ <<provider[a], s>> \in ValidTransition
  /\ provider[a] = "Verified" /\ s = "Active" => bond[a].stake >= ProviderMinStake
  /\ provider' = [provider EXCEPT ![a] = s]
  /\ UNCHANGED <<bal, bond, slashingVars>>

\* Mutant: a registered validator may bond.
BondStakeValidator(a, v) ==
  /\ provider[a] # "None"
  /\ openCount[a] = 0
  /\ bond[a].status # "Exiting"
  /\ bond[a].status = "None" => v >= ProviderMinStake
  /\ v <= bal[a].free
  /\ bal' = Reserve(bal, a, v)
  /\ bond' = [bond EXCEPT ![a].status = "Active", ![a].stake = @ + v]
  /\ UNCHANGED <<provider, slashingVars>>

BondStake(a, v) ==
  /\ provider[a] # "None"
  /\ openCount[a] = 0
  /\ validator[a].status = "None"
  /\ bond[a].status # "Exiting"
  /\ bond[a].status = "None" => v >= ProviderMinStake
  /\ v <= bal[a].free
  /\ bal' = Reserve(bal, a, v)
  /\ bond' = [bond EXCEPT ![a].status = "Active", ![a].stake = @ + v]
  /\ UNCHANGED <<provider, slashingVars>>

RequestUnbond(a) ==
  /\ ~HasPendingSlash(a)
  /\ bond[a].status = "Active"
  /\ bond' = [bond EXCEPT ![a].status = "Exiting", ![a].availableAt = now + ProviderUnbonding]
  /\ UNCHANGED <<bal, provider, slashingVars>>

\* Mutant: pending slashes are checked when unbonding begins, and not again.
WithdrawUnbondedUnchecked(a) ==
  /\ bond[a].status = "Exiting"
  /\ now >= bond[a].availableAt
  /\ bal' = Unreserve(bal, a, bond[a].stake)
  /\ bond' = [bond EXCEPT ![a] = NoBond]
  /\ UNCHANGED <<provider, slashingVars>>

WithdrawUnbonded(a) ==
  /\ bond[a].status = "Exiting"
  /\ now >= bond[a].availableAt
  /\ ~HasPendingSlash(a)
  /\ bal' = Unreserve(bal, a, bond[a].stake)
  /\ bond' = [bond EXCEPT ![a] = NoBond]
  /\ UNCHANGED <<provider, slashingVars>>

\* slash_bond: what is held is burned, up to the amount; a bond below MinStake
\* suspends an Active provider.
SlashBond(a) ==
  LET slashed == Least(ProviderSlashAmount, bal[a].held)
      left == bond[a].stake - Least(bond[a].stake, slashed)
  IN  IF bond[a].status = "None" \/ slashed = 0
      THEN UNCHANGED <<bal, bond, provider>>
      ELSE /\ bal' = SlashReserved(bal, a, ProviderSlashAmount)
           /\ bond' = [bond EXCEPT ![a].stake = left]
           /\ provider' = [provider EXCEPT ![a] =
                IF left < ProviderMinStake /\ @ = "Active" THEN "Suspended" ELSE @]
-----------------------------------------------------------------------------
(* pallet-provider-slashing *)

Streak(first) == first .. first + BreachRounds - 1

\* A breach round (ADR-036 section 2), read off pallet-network-validator's Rounds.
Eligible(a, d, r) ==
  /\ r \in RoundIds
  /\ round[<<a, r, d>>].status \in {"Final", "DisputeRejected"}
  /\ now >= round[<<a, r, d>>].closedAt + RoundDisputeWindow
  /\ round[<<a, r, d>>].score < BreachThreshold
  /\ (round[<<a, r, d>>].submissions * 10000) \div TargetCommitteeSize >= SlashConfidence

\* Mutant: the last round of a consumed streak can begin the next one.
RecordBreachAgain(a, d, first) ==
  /\ pending[<<a, d>>].state = "None"
  /\ \A r \in Streak(first) : r >= lastSlashed[<<a, d>>] /\ Eligible(a, d, r)
  /\ pending' = [pending EXCEPT ![<<a, d>>] = [state |-> "Proposed", first |-> first, createdAt |-> now]]
  /\ UNCHANGED <<bal, registryVars, lastSlashed, executed>>

RecordBreach(a, d, first) ==
  /\ pending[<<a, d>>].state = "None"
  /\ \A r \in Streak(first) : r > lastSlashed[<<a, d>>] /\ Eligible(a, d, r)
  /\ pending' = [pending EXCEPT ![<<a, d>>] = [state |-> "Proposed", first |-> first, createdAt |-> now]]
  /\ UNCHANGED <<bal, registryVars, lastSlashed, executed>>

AppealSlash(a, d) ==
  /\ pending[<<a, d>>].state = "Proposed"
  /\ now < pending[<<a, d>>].createdAt + SlashAppealWindow
  /\ pending' = [pending EXCEPT ![<<a, d>>].state = "Appealed"]
  /\ UNCHANGED <<bal, registryVars, lastSlashed, executed>>

\* advance_watermark
Watermark(a, d, first) ==
  LET last == first + BreachRounds - 1
  IN  IF last > lastSlashed[<<a, d>>] THEN last ELSE lastSlashed[<<a, d>>]

Consume(a, d) ==
  /\ lastSlashed' = [lastSlashed EXCEPT ![<<a, d>>] = Watermark(a, d, pending[<<a, d>>].first)]
  /\ pending' = [pending EXCEPT ![<<a, d>>] = NoSlash]

\* do_execute_slash
DoExecute(a, d) ==
  /\ SlashBond(a)
  /\ executed' = [executed EXCEPT ![<<a, d>>] =
       [r \in RoundIds |-> IF r \in Streak(pending[<<a, d>>].first) THEN @[r] + 1 ELSE @[r]]]

ResolveSlashAppeal(a, d, uphold) ==
  /\ pending[<<a, d>>].state = "Appealed"
  /\ Consume(a, d)
  /\ IF uphold THEN UNCHANGED <<bal, registryVars, executed>> ELSE DoExecute(a, d)

ExecuteSlash(a, d) ==
  /\ pending[<<a, d>>].state = "Proposed"
  /\ now >= pending[<<a, d>>].createdAt + SlashAppealWindow
  /\ Consume(a, d)
  /\ DoExecute(a, d)

Init ==
  /\ provider = [a \in Accounts |-> IF a \in Registered THEN "Registered" ELSE "None"]
  /\ bond = [a \in Accounts |-> NoBond]
  /\ pending = [k \in Accounts \X Dimensions |-> NoSlash]
  /\ lastSlashed = [k \in Accounts \X Dimensions |-> 0]
  /\ executed = [k \in Accounts \X Dimensions |-> [r \in RoundIds |-> 0]]
=============================================================================
