------------------------------- MODULE Escrow -------------------------------
(***************************************************************************)
(* pallet-escrow: a payer reserves max_charge for a lease; metering        *)
(* evidence signed by the provider streams or completes the payout, the    *)
(* payer refunds himself after a quiet RefundWindow, and a dispute, one in *)
(* an escrow's life, is decided by governance.                             *)
(*                                                                         *)
(* A rejected call changes nothing and is not an action. The signature of  *)
(* the evidence, the schema version and the price schedule are abstracted  *)
(* to the charge they compute to; block numbers and periods are small      *)
(* naturals. LeaseExists holds of every lease of Leases.                   *)
(***************************************************************************)
EXTENDS Balances, FiniteSets

CONSTANTS
  Accounts, Leases, None,
  MinEscrowAmount, MaxFeeBasisPoints, RefundWindow, DisputeWindow,
  MaxMeteringPeriod,
  Caps,             \* the max_charge values payers choose
  Charges,          \* the charges evidence computes to
  FeeRates,         \* the rates governance tries
  MaxSequence,      \* bound: evidence sequence numbers
  MaxPeriodEnd      \* bound: ends of metering periods

VARIABLES
  bal,              \* Balances, shared with the other pallets
  now,              \* block number
  escrow,           \* Escrows
  openCount,        \* PayerOpenEscrowCount
  paused,           \* EscrowPaused
  feeBps,           \* FeeBasisPoints
  treasury,         \* TreasuryAccount
  billed,           \* history: seconds charged for, per lease
  validator,        \* pallet-network-validator's Validators, read only
  bond,             \* pallet-provider-registry's ProviderBonds, read only
  provider          \* pallet-provider-registry's Providers, read only

settings == <<paused, feeBps, treasury>>

EscrowStates == {"None", "Funded", "Completed", "Refunded", "Disputed", "Degraded"}
Settled == {"Completed", "Refunded", "Degraded"}

\* anchor is last_streamed_at, or funded_at while nothing was streamed.
NoEscrow ==
  [state |-> "None", payer |-> None, provider |-> None, max |-> 0, charged |-> 0,
   sequence |-> 0, periodEnd |-> 0, anchor |-> 0, settledAt |-> None,
   disputedOnce |-> FALSE]

EscrowRecords ==
  [state : EscrowStates, payer : Accounts \union {None}, provider : Accounts \union {None},
   max : Nat, charged : Nat, sequence : Nat, periodEnd : Nat, anchor : Nat,
   settledAt : Nat \union {None}, disputedOnce : BOOLEAN]

Evidence ==
  {ev \in [sequence : 1 .. MaxSequence, start : 0 .. MaxPeriodEnd,
           end : 0 .. MaxPeriodEnd, charge : Charges] : ev.start <= ev.end}

\* funds_still_reserved of an escrow that exists.
StillReserved(e) == e.settledAt = None
Remaining(e) == e.max - e.charged
HasOpenEscrow(a) == openCount[a] > 0

Fee(amount) == (amount * feeBps) \div 10000

\* split_fee and the two transfers succeed: a nonzero rate has a treasury, both
\* beneficiaries exist, and nothing is short.
CanPay(e, amount) ==
  /\ feeBps # 0 => treasury # None
  /\ amount > Fee(amount) => Alive(bal, e.provider)
  /\ Fee(amount) > 0 => Alive(bal, treasury)
  /\ amount <= bal[e.payer].held

Paid(e, amount) ==
  LET b == Repatriate(bal, e.payer, e.provider, amount - Fee(amount))
  IN  IF Fee(amount) = 0 THEN b ELSE Repatriate(b, e.payer, treasury, Fee(amount))

\* Mutant: only the sequence number guards against replays.
AcceptedOverlap(e, ev) ==
  /\ provider[e.provider] # "None"
  /\ ev.sequence > e.sequence
  /\ ev.end - ev.start <= MaxMeteringPeriod

\* verify_and_charge: a registered key, a fresh sequence number, a bounded
\* period that starts where the last one ended or later.
Accepted(e, ev) ==
  /\ provider[e.provider] # "None"
  /\ ev.sequence > e.sequence
  /\ ev.end - ev.start <= MaxMeteringPeriod
  /\ ev.start >= e.periodEnd

Billed(e, ev) ==
  [e EXCEPT !.sequence = ev.sequence, !.periodEnd = ev.end]
-----------------------------------------------------------------------------
FundEscrow(l, payer, p, max) ==
  /\ ~paused
  /\ escrow[l].state = "None"
  /\ max >= MinEscrowAmount
  /\ validator[payer].status = "None"
  /\ bond[payer].status = "None"
  /\ max <= bal[payer].free
  /\ bal' = Reserve(bal, payer, max)
  /\ escrow' = [escrow EXCEPT ![l] =
       [NoEscrow EXCEPT !.state = "Funded", !.payer = payer, !.provider = p,
                        !.max = max, !.anchor = now]]
  /\ openCount' = [openCount EXCEPT ![payer] = @ + 1]
  /\ UNCHANGED <<settings, billed>>

\* The escrow's reservation is gone: decrement_payer_open_count and settled_at.
Settle(l, e, state) ==
  /\ escrow' = [escrow EXCEPT ![l] = [e EXCEPT !.state = state, !.settledAt = now]]
  /\ openCount' = [openCount EXCEPT ![e.payer] = IF @ = 0 THEN 0 ELSE @ - 1]

CompleteAndPayout(l, ev) ==
  LET e == escrow[l]
      back == Remaining(e) - ev.charge
  IN  /\ ~paused
      /\ e.state = "Funded"
      /\ Accepted(e, ev)
      /\ ev.charge <= Remaining(e)
      /\ CanPay(e, ev.charge)
      /\ back <= Paid(e, ev.charge)[e.payer].held
      /\ bal' = Unreserve(Paid(e, ev.charge), e.payer, back)
      /\ Settle(l, [Billed(e, ev) EXCEPT !.charged = @ + ev.charge], "Completed")
      /\ billed' = [billed EXCEPT ![l] = @ + ev.end - ev.start]
      /\ UNCHANGED settings

\* A period above the cap is paid up to the cap and degrades the escrow.
StreamSettle(l, ev) ==
  LET e == escrow[l]
      charge == Least(ev.charge, Remaining(e))
      paid == [Billed(e, ev) EXCEPT !.charged = @ + charge, !.anchor = now]
  IN  /\ ~paused
      /\ e.state = "Funded"
      /\ Accepted(e, ev)
      /\ CanPay(e, charge)
      /\ bal' = Paid(e, charge)
      /\ IF ev.charge > Remaining(e) THEN Settle(l, paid, "Degraded")
         ELSE IF paid.charged = e.max THEN Settle(l, paid, "Completed")
         ELSE escrow' = [escrow EXCEPT ![l] = paid] /\ UNCHANGED openCount
      /\ billed' = [billed EXCEPT ![l] = @ + ev.end - ev.start]
      /\ UNCHANGED settings

RefundEscrow(l) ==
  LET e == escrow[l]
  IN  /\ ~paused
      /\ e.state = "Funded"
      /\ now >= e.anchor + RefundWindow
      /\ Remaining(e) <= bal[e.payer].held
      /\ bal' = Unreserve(bal, e.payer, Remaining(e))
      /\ Settle(l, e, "Refunded")
      /\ UNCHANGED <<settings, billed>>

\* Mutant: every settlement opens a dispute window.
DisputeEscrowAgain(l) ==
  LET e == escrow[l]
  IN  /\ ~paused
      /\ \/ e.state = "Funded"
         \/ e.state \in Settled /\ now <= e.settledAt + DisputeWindow
      /\ escrow' = [escrow EXCEPT ![l].state = "Disputed", ![l].disputedOnce = TRUE]
      /\ UNCHANGED <<bal, openCount, settings, billed>>

\* By the payer or by the provider.
DisputeEscrow(l) ==
  LET e == escrow[l]
  IN  /\ ~paused
      /\ \/ e.state = "Funded"
         \/ /\ e.state \in Settled
            /\ ~e.disputedOnce
            /\ now <= e.settledAt + DisputeWindow
      /\ escrow' = [escrow EXCEPT ![l].state = "Disputed", ![l].disputedOnce = TRUE]
      /\ UNCHANGED <<bal, openCount, settings, billed>>

\* Mutant: the verdict on a settled escrow counts it down again.
ResolveCountsDown(l, state) ==
  /\ Settle(l, [escrow[l] EXCEPT !.charged = escrow[l].max], state)
  /\ UNCHANGED <<settings, billed>>

\* The end of resolve_dispute: the money of an escrow is released once.
Resolve(l, state) ==
  LET e == [escrow[l] EXCEPT !.charged = escrow[l].max]
  IN  /\ IF StillReserved(e)
         THEN Settle(l, e, state)
         ELSE /\ escrow' = [escrow EXCEPT ![l] =
                   [e EXCEPT !.state = state, !.settledAt = now]]
              /\ UNCHANGED openCount
      /\ UNCHANGED <<settings, billed>>

\* amount is a lifetime total, so only what was not streamed yet moves. When the
\* reservation is short the fee is waived and the provider is served first.
ResolvePayProvider(l, amount) ==
  LET e == escrow[l]
      due == amount - e.charged
      back == e.max - amount
  IN  /\ ~paused
      /\ e.state = "Disputed"
      /\ amount \in e.charged .. e.max
      /\ IF ~StillReserved(e) THEN UNCHANGED bal
         ELSE IF bal[e.payer].held < Remaining(e)
              THEN /\ due > 0 => Alive(bal, e.provider)
                   /\ bal' = Unreserve(Repatriate(bal, e.payer, e.provider, due), e.payer, back)
              ELSE CanPay(e, due) /\ bal' = Unreserve(Paid(e, due), e.payer, back)
      /\ Resolve(l, "Completed")

\* The reputation penalty needs a registered provider.
ResolveRefundPayer(l) ==
  LET e == escrow[l]
  IN  /\ ~paused
      /\ e.state = "Disputed"
      /\ provider[e.provider] # "None"
      /\ bal' = IF StillReserved(e) THEN Unreserve(bal, e.payer, Remaining(e)) ELSE bal
      /\ Resolve(l, "Refunded")

SetPaused(p) ==
  /\ paused' = p
  /\ UNCHANGED <<bal, escrow, openCount, feeBps, treasury, billed>>

SetFeeBasisPoints(bps) ==
  /\ bps <= MaxFeeBasisPoints
  /\ feeBps' = bps
  /\ UNCHANGED <<bal, escrow, openCount, paused, treasury, billed>>

SetTreasuryAccount(a) ==
  /\ treasury' = a
  /\ UNCHANGED <<bal, escrow, openCount, paused, feeBps, billed>>

\* DefaultFeeBasisPoints is 100; no treasury is configured.
Init ==
  /\ escrow = [l \in Leases |-> NoEscrow]
  /\ openCount = [a \in Accounts |-> 0]
  /\ paused = FALSE
  /\ feeBps = 100
  /\ treasury = None
  /\ billed = [l \in Leases |-> 0]
=============================================================================
