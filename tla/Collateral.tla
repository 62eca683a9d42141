----------------------------- MODULE Collateral -----------------------------
(***************************************************************************)
(* The three pallets that reserve balances, in one runtime: Escrow (E),    *)
(* NetworkValidator (V) and ProviderSlashing (P). They share bal, whose    *)
(* held part has no tag, and read each other through the inspectors the    *)
(* runtime wires. Every extrinsic is atomic; blocks only order them and    *)
(* advance now.                                                            *)
(***************************************************************************)
EXTENDS Integers, FiniteSets

CONSTANTS
  Accounts, Leases, None,
  Payers, Payees,   \* who funds escrows, and for whom
  Candidates,       \* who registers as a validator
  Operators,        \* who registers, bonds and is scored as a provider
  Treasuries,       \* the accounts governance names as treasury
  Pauses,           \* the values set_paused is called with
  Statuses,         \* the statuses governance gives providers
  Registered,       \* the providers registered before the model starts
  Endowment,        \* the free balances at genesis
  MaxBlock          \* bound: block numbers

CONSTANTS
  MinEscrowAmount, MaxFeeBasisPoints, RefundWindow, DisputeWindow,
  MaxMeteringPeriod, Caps, Charges, FeeRates, MaxSequence, MaxPeriodEnd,
  ValidatorMinStake, ValidatorUnbonding, MaxValidators, MinQuorum,
  TargetCommitteeSize, MaxSubmissionsPerRound, RoundDisputeWindow,
  ValidatorSlashAmount, Stakes, Scores, RoundIds,
  ProviderMinStake, ProviderUnbonding, BreachRounds, BreachThreshold,
  SlashConfidence, SlashAppealWindow, ProviderSlashAmount, Bonds,
  Dimensions

VARIABLES
  bal, now,
  escrow, openCount, paused, feeBps, treasury, billed,
  validator, activeSet, evidence, round, reputation,
  provider, bond, pending, lastSlashed, executed

ASSUME CollateralAssumption ==
  /\ IsFiniteSet(Leases)
  /\ None \notin Accounts /\ None \notin Nat
  /\ Payers \subseteq Accounts /\ Candidates \subseteq Accounts
  /\ Operators \subseteq Accounts /\ Payees \subseteq Accounts
  /\ Endowment \in [Accounts -> Nat]
  /\ Caps \subseteq Nat /\ Charges \subseteq Nat /\ FeeRates \subseteq Nat
  /\ Stakes \subseteq Nat /\ Bonds \subseteq Nat
  /\ MaxFeeBasisPoints \in 100 .. 10000
  /\ MaxSequence \in Nat /\ MaxPeriodEnd \in Nat /\ MaxBlock \in Nat
  /\ ValidatorUnbonding \in Nat /\ ProviderUnbonding \in Nat
  /\ ValidatorSlashAmount \in Nat /\ ProviderSlashAmount \in Nat
  /\ RoundIds \subseteq Nat \ {0}
  /\ BreachRounds \in Nat \ {0}

E == INSTANCE Escrow
V == INSTANCE NetworkValidator
P == INSTANCE ProviderSlashing

escrowVars == <<escrow, openCount, paused, feeBps, treasury, billed>>
validatorVars == <<validator, activeSet, evidence, round, reputation>>
providerVars == <<provider, bond, pending, lastSlashed, executed>>
vars == <<bal, now, escrowVars, validatorVars, providerVars>>

Init ==
  /\ bal = [a \in Accounts |-> [free |-> Endowment[a], held |-> 0]]
  /\ now = 0
  /\ E!Init
  /\ V!Init
  /\ P!Init

Escrows(l) ==
  \/ \E a \in Payers, p \in Payees, max \in Caps : E!FundEscrow(l, a, p, max)
  \/ \E ev \in E!Evidence : E!CompleteAndPayout(l, ev) \/ E!StreamSettle(l, ev)
  \/ E!RefundEscrow(l)
  \/ E!DisputeEscrow(l)
  \/ \E amount \in Charges : E!ResolvePayProvider(l, amount)
  \/ E!ResolveRefundPayer(l)

Governance ==
  \/ \E p \in Pauses : E!SetPaused(p)
  \/ \E bps \in FeeRates : E!SetFeeBasisPoints(bps)
  \/ \E a \in Treasuries : E!SetTreasuryAccount(a)

Validators(v) ==
  \/ \E stake \in Stakes : V!RegisterValidator(v, stake)
  \/ V!RequestExit(v)
  \/ V!WithdrawUnbonded(v)
  \/ V!Suspend(v)
  \/ V!Reinstate(v)
  \/ \E p \in Operators, r \in RoundIds, d \in Dimensions, s \in Scores : V!SubmitEvidence(v, p, r, d, s)

Rounds(p, r, d) ==
  \/ V!CloseRound(p, r, d)
  \/ V!DisputeRound(p, r, d)
  \/ V!ResolveUpheld(p, r, d)
  \/ V!ResolveRejected(p, r, d)

Providers(p) ==
  \/ P!RegisterProvider(p)
  \/ \E s \in Statuses : P!SetStatus(p, s)
  \/ \E v \in Bonds : P!BondStake(p, v)
  \/ P!RequestUnbond(p)
  \/ P!WithdrawUnbonded(p)
  \/ \E d \in Dimensions :
       \/ \E r \in RoundIds : P!RecordBreach(p, d, r)
       \/ P!AppealSlash(p, d)
       \/ \E uphold \in BOOLEAN : P!ResolveSlashAppeal(p, d, uphold)
       \/ P!ExecuteSlash(p, d)

\* The next block.
Tick ==
  /\ now < MaxBlock
  /\ now' = now + 1
  /\ UNCHANGED <<bal, escrowVars, validatorVars, providerVars>>

Next ==
  \/ /\ (\E l \in Leases : Escrows(l)) \/ Governance
     /\ UNCHANGED <<now, validatorVars, providerVars>>
  \/ /\ \/ \E v \in Candidates : Validators(v)
        \/ \E p \in Operators, r \in RoundIds, d \in Dimensions : Rounds(p, r, d)
     /\ UNCHANGED <<now, escrowVars, providerVars>>
  \/ /\ \E p \in Operators : Providers(p)
     /\ UNCHANGED <<now, escrowVars, validatorVars>>
  \/ Tick

Spec == Init /\ [][Next]_vars
-----------------------------------------------------------------------------
(* Properties. *)

\* The storage items have their types; no escrow is charged more than its cap.
TypeOK ==
  /\ bal \in [Accounts -> [free : Nat, held : Nat]]
  /\ now \in 0 .. MaxBlock
  /\ escrow \in [Leases -> E!EscrowRecords]
  /\ \A l \in Leases : escrow[l].charged <= escrow[l].max
  /\ openCount \in [Accounts -> Nat]
  /\ feeBps \in 0 .. MaxFeeBasisPoints
  /\ billed \in [Leases -> Nat]
  /\ validator \in [Accounts -> V!ValidatorRecords]
  /\ activeSet \in SUBSET Accounts
  /\ provider \in [Accounts -> P!ProviderStatuses \union {"None"}]
  /\ bond \in [Accounts -> P!BondRecords]
  /\ pending \in [Accounts \X Dimensions -> P!PendingSlashRecords]
  /\ lastSlashed \in [Accounts \X Dimensions -> Nat]
  /\ executed \in [Accounts \X Dimensions -> [RoundIds -> Nat]]

OpenEscrows(a) == {l \in Leases : escrow[l].payer = a /\ E!StillReserved(escrow[l])}

\* What the open escrows of an account have not paid out, unit by unit.
Owed(a) == UNION {{l} \X (1 .. E!Remaining(escrow[l])) : l \in OpenEscrows(a)}

\* What an account has reserved is, to the unit, what its open escrows have not
\* paid out, its validator stake and its provider bond: no payout, refund, verdict
\* or slash takes from a reservation that is not its own, twice, or too little.
ReservedIsExplained ==
  \A a \in Accounts :
    bal[a].held = Cardinality(Owed(a)) + validator[a].stake + bond[a].stake

\* PayerOpenEscrowCount, on which the guards of the other two pallets rest, is
\* the number of the payer's escrows that still hold funds.
CountIsExact == \A a \in Accounts : openCount[a] = Cardinality(OpenEscrows(a))

\* ADR-036: an account holds at most one of the roles escrow payer, registered
\* validator, bonded provider.
OneRole ==
  \A a \in Accounts :
    /\ validator[a].status # "None" => bond[a].status = "None"
    /\ OpenEscrows(a) # {} => validator[a].status = "None" /\ bond[a].status = "None"

\* No metered second is charged for twice: the seconds charged for fit before
\* the end of the last period.
NoSecondBilledTwice == \A l \in Leases : billed[l] <= escrow[l].periodEnd

\* One step: a verdict is final, money that has left the reservation does not
\* come back to it, and nothing charged is uncharged.
FinalStep ==
  \A l \in Leases :
    /\ escrow[l].disputedOnce /\ escrow[l].state # "Disputed" => escrow'[l] = escrow[l]
    /\ ~E!StillReserved(escrow[l]) => ~E!StillReserved(escrow'[l])
    /\ escrow'[l].charged >= escrow[l].charged

\* An escrow is disputed at most once: a verdict is final, and money that has
\* left the reservation does not come back to it.
SettlementIsFinal == [][FinalStep]_vars

\* ActiveValidatorSet, from which committees are drawn, and the statuses in
\* Validators agree, whoever suspends, slashes or leaves.
ActiveSetAgrees == activeSet = {v \in Accounts : V!IsActive(v)}

\* Watermarks: no round of a dimension is consumed by two executed slashes of a
\* provider.
NoRoundSlashedTwice ==
  \A a \in Accounts, d \in Dimensions, r \in RoundIds : executed[<<a, d>>][r] <= 1

\* One step: while a slash stays pending, the bond it is against does not leave,
\* does not begin to, and shrinks by nothing but a slash of another dimension
\* that is executed, and by no more than such a slash takes.
HeldStep ==
  \A a \in Accounts, d \in Dimensions :
    /\ pending[<<a, d>>].state # "None" /\ pending'[<<a, d>>].state # "None"
    /\ bond[a].status # "None"
    => /\ bond'[a].status = bond[a].status
       /\ bond'[a].stake < bond[a].stake =>
            /\ \E e \in Dimensions : pending[<<a, e>>].state # "None" /\ pending'[<<a, e>>].state = "None"
            /\ bond[a].stake <= bond'[a].stake + ProviderSlashAmount

\* A recorded breach keeps the bond it is recorded against in place until the
\* slash is executed or the appeal upheld: request_unbond and withdraw_unbonded
\* ask for pending slashes of every dimension, and only another executed slash
\* takes from what this one will take from.
PendingSlashHoldsBond == [][HeldStep]_vars
=============================================================================
