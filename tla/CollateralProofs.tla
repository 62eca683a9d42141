-------------------------- MODULE CollateralProofs --------------------------
(***************************************************************************)
(* Proofs about Collateral, for any accounts, leases, stakes, charges and  *)
(* windows. Each call establishes the step of its pallet (EscrowStep,      *)
(* ValidatorStep, ProviderStep); NextInv puts them together, and the roles *)
(* meet there: the guards of one pallet read the count, the stake or the   *)
(* bond that the invariant of another keeps exact.                         *)
(***************************************************************************)
EXTENDS Collateral, FiniteSetTheorems, TLAPS

Bal == [Accounts -> [free : Nat, held : Nat]]

\* unreserve keeps every balance a pair of naturals.
LEMMA UnreserveType ==
  ASSUME NEW b \in Bal, NEW a \in Accounts, NEW v \in Nat
  PROVE  E!Unreserve(b, a, v) \in Bal
BY DEF E!Unreserve, E!Least, Bal

\* repatriate_reserved keeps every balance a pair of naturals, also when payer
\* and beneficiary are the same account.
LEMMA RepatriateType ==
  ASSUME NEW b \in Bal, NEW from \in Accounts, NEW to, NEW v \in Nat
  PROVE  E!Repatriate(b, from, to, v) \in Bal
<1> DEFINE moved == E!Least(v, b[from].held)
           taken == [b EXCEPT ![from].held = @ - moved]
<1>1. moved \in Nat /\ b[from].held - moved \in Nat
  BY DEF E!Least, Bal
<1> HIDE DEF moved
<1>2. taken \in Bal
  BY <1>1 DEF Bal
<1> HIDE DEF taken
<1>3. [taken EXCEPT ![to].free = @ + moved] \in Bal
  <2>1. CASE to \in Accounts
    BY <1>1, <1>2, <2>1 DEF Bal
  <2>2. CASE to \notin Accounts
    <3>1. [taken EXCEPT ![to].free = @ + moved] = taken
      BY <1>2, <2>2 DEF Bal
    <3> QED  BY <1>2, <3>1
  <2> QED  BY <2>1, <2>2
<1> QED  BY <1>3 DEF E!Repatriate, moved, taken

\* split_fee: the fee is part of the amount, whatever rate governance has set.
LEMMA FeeType ==
  ASSUME feeBps \in 0 .. MaxFeeBasisPoints, NEW amount \in Nat
  PROVE  E!Fee(amount) \in 0 .. amount
<1>1. feeBps \in Nat /\ feeBps <= 10000
  BY CollateralAssumption
<1>2. amount * feeBps \in Nat /\ amount * feeBps <= amount * 10000
  BY <1>1
<1> QED  BY <1>2 DEF E!Fee

\* A payout with its fee keeps every balance a pair of naturals.
LEMMA PaidType ==
  ASSUME bal \in Bal, feeBps \in 0 .. MaxFeeBasisPoints, NEW amount \in Nat,
         NEW e, e.payer \in Accounts
  PROVE  E!Paid(e, amount) \in Bal
<1> DEFINE b == E!Repatriate(bal, e.payer, e.provider, amount - E!Fee(amount))
<1>1. E!Fee(amount) \in Nat /\ amount - E!Fee(amount) \in Nat
  BY FeeType
<1>2. b \in Bal
  BY <1>1, RepatriateType
<1>3. E!Repatriate(b, e.payer, treasury, E!Fee(amount)) \in Bal
  BY <1>1, <1>2, RepatriateType
<1> QED  BY <1>2, <1>3 DEF E!Paid

-----------------------------------------------------------------------------
(* One escrow. *)

\* The part of TypeOK an escrow step can disturb.
EscrowType ==
  /\ escrow \in [Leases -> E!EscrowRecords]
  /\ \A l \in Leases : escrow[l].charged <= escrow[l].max
  /\ openCount \in [Accounts -> Nat]
  /\ feeBps \in 0 .. MaxFeeBasisPoints
  /\ billed \in [Leases -> Nat]

\* What the state of an escrow says of its other fields.
Sound(e) ==
  /\ e.state = "None" => /\ e.payer = None /\ e.settledAt = None /\ ~e.disputedOnce
                         /\ e.periodEnd = 0 /\ e.charged = 0
  /\ e.state # "None" => e.payer \in Accounts
  /\ e.state = "Funded" => e.settledAt = None /\ ~e.disputedOnce

EscrowsSound == \A l \in Leases : Sound(escrow[l])

\* A change of one escrow, with the seconds charged for, that keeps the types
\* and the soundness of all.
LEMMA EscrowChange ==
  ASSUME TypeOK, EscrowsSound, NoSecondBilledTwice,
         NEW l \in Leases, NEW e \in E!EscrowRecords, NEW s \in Nat,
         e.charged <= e.max, Sound(e), s <= e.periodEnd,
         escrow[l].disputedOnce => escrow[l].state = "Disputed",
         e.charged >= escrow[l].charged,
         escrow[l].settledAt # None => e.settledAt # None,
         escrow' = [escrow EXCEPT ![l] = e], billed' = [billed EXCEPT ![l] = s]
  PROVE  /\ escrow' \in [Leases -> E!EscrowRecords]
         /\ \A k \in Leases : escrow'[k].charged <= escrow'[k].max
         /\ billed' \in [Leases -> Nat]
         /\ EscrowsSound'
         /\ NoSecondBilledTwice'
         /\ FinalStep
<1>1. escrow \in [Leases -> E!EscrowRecords] /\ billed \in [Leases -> Nat]
  BY DEF TypeOK
<1>2. escrow' \in [Leases -> E!EscrowRecords] /\ billed' \in [Leases -> Nat]
  BY <1>1
<1>3. \A k \in Leases : /\ escrow'[k] = IF k = l THEN e ELSE escrow[k]
                        /\ billed'[k] = IF k = l THEN s ELSE billed[k]
  BY <1>1
<1>4. \A k \in Leases : escrow'[k].charged <= escrow'[k].max
  BY <1>3 DEF TypeOK
<1>5. \A k \in Leases : Sound(escrow'[k])
  BY <1>3 DEF EscrowsSound
<1>6. EscrowsSound'
  BY <1>5 DEF EscrowsSound, Sound
<1>7. NoSecondBilledTwice'
  BY <1>3 DEF NoSecondBilledTwice
<1>8. FinalStep
  <2>1. \A k \in Leases : escrow[k].charged >= escrow[k].charged
    BY <1>1 DEF E!EscrowRecords
  <2> QED  BY <1>3, <2>1 DEF FinalStep, E!StillReserved
<1> QED  BY <1>2, <1>4, <1>6, <1>7, <1>8

-----------------------------------------------------------------------------
(* The count of open escrows. *)

\* A payer has finitely many open escrows; the count is zero when there is none.
LEMMA OpensFinite ==
  ASSUME NEW a
  PROVE  /\ IsFiniteSet(OpenEscrows(a))
         /\ Cardinality(OpenEscrows(a)) \in Nat
         /\ Cardinality(OpenEscrows(a)) = 0 <=> OpenEscrows(a) = {}
<1>1. OpenEscrows(a) \subseteq Leases
  BY DEF OpenEscrows
<1>2. IsFiniteSet(OpenEscrows(a))
  BY <1>1, FS_Subset, CollateralAssumption
<1> QED  BY <1>2, FS_CardinalityType, FS_EmptySet

\* How a change of one escrow changes the open escrows of an account.
LEMMA OpensStep ==
  ASSUME escrow \in [Leases -> E!EscrowRecords], NEW l \in Leases, NEW e,
         escrow' = [escrow EXCEPT ![l] = e], NEW a
  PROVE  OpenEscrows(a)' = IF e.payer = a /\ e.settledAt = None
                           THEN OpenEscrows(a) \union {l} ELSE OpenEscrows(a) \ {l}
<1>1. \A k \in Leases : escrow'[k] = IF k = l THEN e ELSE escrow[k]
  OBVIOUS
<1> QED  BY <1>1 DEF OpenEscrows, E!StillReserved

\* The count stays exact when an escrow is opened.
LEMMA CountFund ==
  ASSUME TypeOK, CountIsExact, NEW l \in Leases, NEW e, e.payer \in Accounts,
         e.settledAt = None, escrow[l].payer = None,
         escrow' = [escrow EXCEPT ![l] = e],
         openCount' = [openCount EXCEPT ![e.payer] = @ + 1]
  PROVE  /\ CountIsExact'
         /\ \A a \in Accounts \ {e.payer} : OpenEscrows(a)' = OpenEscrows(a)
<1>1. escrow \in [Leases -> E!EscrowRecords] /\ openCount \in [Accounts -> Nat]
  BY DEF TypeOK
<1>2. \A a \in Accounts : l \notin OpenEscrows(a)
  BY CollateralAssumption DEF OpenEscrows
<1>3. OpenEscrows(e.payer)' = OpenEscrows(e.payer) \union {l}
  BY <1>1, OpensStep
<1>4. \A a \in Accounts \ {e.payer} : OpenEscrows(a)' = OpenEscrows(a)
  <2> TAKE a \in Accounts \ {e.payer}
  <2>1. OpenEscrows(a)' = OpenEscrows(a) \ {l}
    BY <1>1, OpensStep
  <2> QED  BY <1>2, <2>1
<1>5. Cardinality(OpenEscrows(e.payer) \union {l}) = Cardinality(OpenEscrows(e.payer)) + 1
  BY <1>2, OpensFinite, FS_AddElement
<1>6. \A a \in Accounts : openCount'[a] = Cardinality(OpenEscrows(a)')
  <2> TAKE a \in Accounts
  <2>1. CASE a = e.payer
    BY <1>1, <1>3, <1>5, <2>1 DEF CountIsExact
  <2>2. CASE a # e.payer
    <3>1. OpenEscrows(a)' = OpenEscrows(a)
      BY <1>4, <2>2
    <3> QED  BY <1>1, <2>2, <3>1 DEF CountIsExact
  <2> QED  BY <2>1, <2>2
<1> QED  BY <1>4, <1>6 DEF CountIsExact

\* The count stays exact when decrement_payer_open_count settles an open escrow;
\* its saturating subtraction never saturates.
LEMMA CountSettle ==
  ASSUME TypeOK, CountIsExact, NEW l \in Leases, NEW e, NEW state,
         e \in E!EscrowRecords, e.payer \in Accounts,
         escrow[l].payer = e.payer, E!StillReserved(escrow[l]), E!Settle(l, e, state)
  PROVE  /\ CountIsExact'
         /\ openCount' \in [Accounts -> Nat]
         /\ \A a \in Accounts : OpenEscrows(a)' \subseteq OpenEscrows(a)
<1> DEFINE new == [e EXCEPT !.state = state, !.settledAt = now]
<1>1. escrow \in [Leases -> E!EscrowRecords] /\ openCount \in [Accounts -> Nat]
  BY DEF TypeOK
<1>2. new.payer = e.payer /\ new.settledAt # None
  BY CollateralAssumption DEF TypeOK, E!EscrowRecords
<1>3. escrow' = [escrow EXCEPT ![l] = new]
  BY DEF E!Settle
<1> HIDE DEF new
<1>4. \A a \in Accounts : OpenEscrows(a)' = OpenEscrows(a) \ {l}
  BY <1>1, <1>2, <1>3, OpensStep
<1>5. l \in OpenEscrows(e.payer) /\ \A a \in Accounts \ {e.payer} : l \notin OpenEscrows(a)
  BY DEF OpenEscrows
<1>6. Cardinality(OpenEscrows(e.payer) \ {l}) = Cardinality(OpenEscrows(e.payer)) - 1
  BY <1>5, OpensFinite, FS_RemoveElement
<1>7. openCount[e.payer] # 0
  BY <1>5, OpensFinite DEF CountIsExact
<1>8. openCount' = [openCount EXCEPT ![e.payer] = @ - 1]
  BY <1>1, <1>7 DEF E!Settle
<1>9. \A a \in Accounts : openCount'[a] = Cardinality(OpenEscrows(a)')
  <2> TAKE a \in Accounts
  <2>1. CASE a = e.payer
    BY <1>1, <1>4, <1>6, <1>8, <2>1 DEF CountIsExact
  <2>2. CASE a # e.payer
    <3>1. OpenEscrows(a)' = OpenEscrows(a)
      BY <1>4, <1>5, <2>2, SMTT(30)
    <3> QED  BY <1>1, <1>8, <2>2, <3>1 DEF CountIsExact
  <2> QED  BY <2>1, <2>2
<1>10. openCount' \in [Accounts -> Nat]
  BY <1>1, <1>7, <1>8
<1> QED  BY <1>4, <1>9, <1>10 DEF CountIsExact

\* The count stays exact when an escrow changes and stays open, or stays settled.
LEMMA CountKeep ==
  ASSUME TypeOK, CountIsExact, NEW l \in Leases, NEW e, e.payer = escrow[l].payer,
         e.settledAt = None <=> escrow[l].settledAt = None,
         escrow' = [escrow EXCEPT ![l] = e], UNCHANGED openCount
  PROVE  /\ CountIsExact'
         /\ \A a \in Accounts : OpenEscrows(a)' \subseteq OpenEscrows(a)
<1>1. escrow \in [Leases -> E!EscrowRecords]
  BY DEF TypeOK
<1>2. \A a \in Accounts : OpenEscrows(a)' = OpenEscrows(a)
  BY <1>1, OpensStep DEF OpenEscrows, E!StillReserved
<1> QED  BY <1>2 DEF CountIsExact

-----------------------------------------------------------------------------
(* The extrinsics of pallet-escrow. *)

\* What an escrow step establishes.
EscrowStep ==
  /\ bal' \in Bal
  /\ EscrowType'
  /\ EscrowsSound'
  /\ CountIsExact'
  /\ NoSecondBilledTwice'
  /\ FinalStep
  /\ \A a \in Accounts :
       \/ OpenEscrows(a)' \subseteq OpenEscrows(a)
       \/ validator[a].status = "None" /\ bond[a].status = "None"

EscrowInv == TypeOK /\ EscrowsSound /\ CountIsExact /\ NoSecondBilledTwice

\* fund_escrow: only an account without another role opens an escrow.
LEMMA FundEscrowStep ==
  ASSUME EscrowInv, NEW l \in Leases, NEW payer \in Payers, NEW p \in Payees, NEW max \in Caps,
         E!FundEscrow(l, payer, p, max)
  PROVE  EscrowStep
<1> DEFINE e == [E!NoEscrow EXCEPT !.state = "Funded", !.payer = payer, !.provider = p,
                                   !.max = max, !.anchor = now]
<1>1. payer \in Accounts /\ p \in Accounts /\ max \in Nat /\ now \in Nat
  BY CollateralAssumption DEF EscrowInv, TypeOK
<1>2. /\ e.state = "Funded" /\ e.payer = payer /\ e.settledAt = None
      /\ e.charged = 0 /\ e.max = max /\ e.periodEnd = 0 /\ ~e.disputedOnce
      /\ e \in E!EscrowRecords
  BY <1>1 DEF E!NoEscrow, E!EscrowRecords, E!EscrowStates
<1>3. escrow' = [escrow EXCEPT ![l] = e]
  BY DEF E!FundEscrow
<1>4. /\ escrow[l].payer = None /\ escrow[l].periodEnd = 0 /\ ~escrow[l].disputedOnce
      /\ escrow[l].settledAt = None /\ escrow[l].charged = 0
      /\ billed \in [Leases -> Nat] /\ billed[l] <= escrow[l].periodEnd
  BY DEF E!FundEscrow, EscrowInv, EscrowsSound, Sound, TypeOK, NoSecondBilledTwice
<1>5. billed[l] = 0 /\ billed' = [billed EXCEPT ![l] = 0]
  BY <1>4 DEF E!FundEscrow
<1> HIDE DEF e
<1>6. Sound(e) /\ e.charged <= e.max /\ 0 <= e.periodEnd
  BY <1>1, <1>2 DEF Sound
<1>7. /\ escrow' \in [Leases -> E!EscrowRecords]
      /\ \A k \in Leases : escrow'[k].charged <= escrow'[k].max
      /\ billed' \in [Leases -> Nat]
      /\ EscrowsSound' /\ NoSecondBilledTwice' /\ FinalStep
  BY <1>2, <1>3, <1>4, <1>5, <1>6, 0 \in Nat, EscrowChange DEF EscrowInv
<1>8. openCount' = [openCount EXCEPT ![payer] = @ + 1] /\ openCount' \in [Accounts -> Nat]
  BY <1>1 DEF E!FundEscrow, EscrowInv, TypeOK
<1>9. /\ CountIsExact'
      /\ \A a \in Accounts \ {payer} : OpenEscrows(a)' = OpenEscrows(a)
  BY <1>1, <1>2, <1>3, <1>4, <1>8, CountFund DEF EscrowInv
<1>10. bal' \in Bal
  BY <1>1 DEF E!FundEscrow, E!Reserve, EscrowInv, TypeOK, Bal
<1>11. validator[payer].status = "None" /\ bond[payer].status = "None" /\ feeBps' = feeBps
  BY DEF E!FundEscrow, E!settings
<1> QED
  BY <1>7, <1>8, <1>9, <1>10, <1>11 DEF EscrowStep, EscrowType, EscrowInv, TypeOK

\* A call that settles an open escrow.
LEMMA SettleStep ==
  ASSUME EscrowInv, NEW l \in Leases, NEW e \in E!EscrowRecords, NEW s \in Nat,
         NEW state \in E!Settled, escrow[l].payer = e.payer, e.payer \in Accounts,
         E!StillReserved(escrow[l]), e.charged <= e.max, s <= e.periodEnd,
         escrow[l].disputedOnce => escrow[l].state = "Disputed",
         e.charged >= escrow[l].charged,
         E!Settle(l, e, state), billed' = [billed EXCEPT ![l] = s],
         bal' \in Bal, feeBps' = feeBps
  PROVE  EscrowStep
<1> DEFINE new == [e EXCEPT !.state = state, !.settledAt = now]
<1>1. escrow' = [escrow EXCEPT ![l] = new]
  BY DEF E!Settle
<1>2. now \in Nat /\ state \in E!EscrowStates /\ state \notin {"None", "Funded"}
  BY CollateralAssumption DEF EscrowInv, TypeOK, E!Settled, E!EscrowStates
<1>3. /\ new \in E!EscrowRecords /\ new.charged <= new.max /\ s <= new.periodEnd
      /\ new.state = state /\ new.payer = e.payer /\ new.charged = e.charged
  BY <1>2 DEF E!EscrowRecords
<1> HIDE DEF new
<1>4. Sound(new)
  BY <1>2, <1>3 DEF Sound
<1>5. /\ escrow' \in [Leases -> E!EscrowRecords]
      /\ \A k \in Leases : escrow'[k].charged <= escrow'[k].max
      /\ billed' \in [Leases -> Nat]
      /\ EscrowsSound' /\ NoSecondBilledTwice' /\ FinalStep
  BY <1>1, <1>3, <1>4, EscrowChange DEF EscrowInv, E!StillReserved
<1>6. /\ CountIsExact' /\ openCount' \in [Accounts -> Nat]
      /\ \A a \in Accounts : OpenEscrows(a)' \subseteq OpenEscrows(a)
  BY CountSettle DEF EscrowInv
<1> QED
  BY <1>5, <1>6 DEF EscrowStep, EscrowType, EscrowInv, TypeOK

\* A call that changes an escrow without releasing its reservation again.
LEMMA KeepStep ==
  ASSUME EscrowInv, NEW l \in Leases, NEW e \in E!EscrowRecords, NEW s \in Nat,
         escrow[l].payer = e.payer, Sound(e),
         e.settledAt = None <=> escrow[l].settledAt = None,
         e.charged <= e.max, s <= e.periodEnd,
         escrow[l].disputedOnce => escrow[l].state = "Disputed",
         e.charged >= escrow[l].charged,
         escrow' = [escrow EXCEPT ![l] = e], UNCHANGED openCount,
         billed' = [billed EXCEPT ![l] = s],
         bal' \in Bal, feeBps' = feeBps
  PROVE  EscrowStep
<1>1. /\ escrow' \in [Leases -> E!EscrowRecords]
      /\ \A k \in Leases : escrow'[k].charged <= escrow'[k].max
      /\ billed' \in [Leases -> Nat]
      /\ EscrowsSound' /\ NoSecondBilledTwice' /\ FinalStep
  BY EscrowChange DEF EscrowInv
<1>2. /\ CountIsExact'
      /\ \A a \in Accounts : OpenEscrows(a)' \subseteq OpenEscrows(a)
  BY CountKeep DEF EscrowInv
<1> QED
  BY <1>1, <1>2 DEF EscrowStep, EscrowType, EscrowInv, TypeOK

\* What the escrow of a lease looks like before a call that needs it Funded.
LEMMA FundedFacts ==
  ASSUME EscrowInv, NEW l \in Leases, escrow[l].state = "Funded"
  PROVE  /\ escrow[l] \in E!EscrowRecords /\ escrow[l].payer \in Accounts
         /\ E!StillReserved(escrow[l]) /\ ~escrow[l].disputedOnce
         /\ escrow[l].charged \in Nat /\ escrow[l].max \in Nat
         /\ escrow[l].charged <= escrow[l].max /\ escrow[l].periodEnd \in Nat
         /\ billed \in [Leases -> Nat] /\ billed[l] \in Nat
         /\ billed[l] <= escrow[l].periodEnd /\ bal \in Bal
         /\ feeBps \in 0 .. MaxFeeBasisPoints /\ now \in Nat
<1>1. escrow[l] \in E!EscrowRecords /\ escrow[l].charged <= escrow[l].max /\ Sound(escrow[l])
  BY DEF EscrowInv, EscrowsSound, TypeOK
<1> QED
  BY <1>1, CollateralAssumption
     DEF EscrowInv, TypeOK, Sound, E!EscrowRecords, E!StillReserved, NoSecondBilledTwice, Bal

\* refund_escrow.
LEMMA RefundEscrowStep ==
  ASSUME EscrowInv, NEW l \in Leases, E!RefundEscrow(l)
  PROVE  EscrowStep
<1> DEFINE e == escrow[l]
<1>1. e.state = "Funded" /\ E!Settle(l, e, "Refunded") /\ feeBps' = feeBps /\ billed' = billed
  BY DEF E!RefundEscrow, E!settings
<1>2. billed' = [billed EXCEPT ![l] = billed[l]]
  BY <1>1, FundedFacts
<1>3. bal' \in Bal
  BY <1>1, FundedFacts, UnreserveType DEF E!RefundEscrow, E!Remaining
<1>4. "Refunded" \in E!Settled
  BY DEF E!Settled
<1>5. /\ e \in E!EscrowRecords /\ e.payer \in Accounts /\ E!StillReserved(e)
      /\ e.charged <= e.max /\ ~e.disputedOnce /\ e.charged >= e.charged
      /\ billed[l] \in Nat /\ billed[l] <= e.periodEnd
  BY <1>1, FundedFacts
<1> QED  BY <1>1, <1>2, <1>3, <1>4, <1>5, SettleStep

\* The fields of metering evidence.
LEMMA EvidenceType ==
  ASSUME NEW ev \in E!Evidence
  PROVE  /\ ev.sequence \in Nat /\ ev.start \in Nat /\ ev.end \in Nat /\ ev.charge \in Nat
         /\ ev.start <= ev.end
<1>1. /\ ev \in [sequence : 1 .. MaxSequence, start : 0 .. MaxPeriodEnd,
                 end : 0 .. MaxPeriodEnd, charge : Charges]
      /\ ev.start <= ev.end
  BY DEF E!Evidence
<1>2. Charges \subseteq Nat /\ MaxSequence \in Nat /\ MaxPeriodEnd \in Nat
  BY CollateralAssumption
<1>3. /\ ev.charge \in Charges /\ ev.sequence \in 1 .. MaxSequence
      /\ ev.start \in 0 .. MaxPeriodEnd /\ ev.end \in 0 .. MaxPeriodEnd
  BY <1>1
<1>4. ev.charge \in Nat
  BY <1>2, <1>3, Zenon
<1>5. ev.sequence \in Nat /\ ev.start \in Nat /\ ev.end \in Nat
  BY <1>2, <1>3
<1> QED  BY <1>1, <1>4, <1>5

\* Accepted evidence: the seconds charged for still end before the last period.
LEMMA BilledFacts ==
  ASSUME EscrowInv, NEW l \in Leases, escrow[l].state = "Funded",
         NEW ev \in E!Evidence, E!Accepted(escrow[l], ev), NEW c \in Nat,
         c <= E!Remaining(escrow[l])
  PROVE  LET e == [E!Billed(escrow[l], ev) EXCEPT !.charged = @ + c]
             s == billed[l] + ev.end - ev.start
         IN  /\ e \in E!EscrowRecords /\ e.payer = escrow[l].payer
             /\ e.state = "Funded" /\ e.settledAt = None /\ ~e.disputedOnce
             /\ e.charged <= e.max /\ e.max = escrow[l].max
             /\ e.charged >= escrow[l].charged
             /\ e.periodEnd = ev.end
             /\ s \in Nat /\ s <= e.periodEnd
<1> DEFINE old == escrow[l]
           read == [old EXCEPT !.sequence = ev.sequence]
           new == [read EXCEPT !.periodEnd = ev.end]
<1>1. ev.start <= ev.end
  BY EvidenceType
<1>2. ev.sequence \in Nat /\ ev.start \in Nat /\ ev.end \in Nat
  BY EvidenceType
<1>3. ev.start >= old.periodEnd
  BY DEF E!Accepted
<1>4. old \in E!EscrowRecords
  BY FundedFacts
<1>5. /\ read \in E!EscrowRecords /\ read.payer = old.payer /\ read.state = old.state
      /\ read.settledAt = old.settledAt /\ read.disputedOnce = old.disputedOnce
      /\ read.charged = old.charged /\ read.max = old.max
  BY <1>2, <1>4 DEF E!EscrowRecords
<1> HIDE DEF read
<1>6. /\ new \in E!EscrowRecords /\ new.payer = old.payer /\ new.state = old.state
      /\ new.settledAt = old.settledAt /\ new.disputedOnce = old.disputedOnce
      /\ new.charged = old.charged /\ new.max = old.max /\ new.periodEnd = ev.end
  BY <1>2, <1>5 DEF E!EscrowRecords
<1>7. E!Billed(old, ev) = new
  BY <1>4 DEF E!Billed, read, E!EscrowRecords
<1> HIDE DEF new
<1>8. old.charged \in Nat /\ old.max \in Nat /\ old.charged + c <= old.max
  BY FundedFacts DEF E!Remaining
<1> DEFINE e == [new EXCEPT !.charged = @ + c]
<1>9. /\ e \in E!EscrowRecords /\ e.payer = old.payer /\ e.state = old.state
      /\ e.settledAt = old.settledAt /\ e.disputedOnce = old.disputedOnce
      /\ e.charged = old.charged + c /\ e.max = old.max /\ e.periodEnd = ev.end
  BY <1>6, <1>8 DEF E!EscrowRecords
<1>10. /\ billed[l] + ev.end - ev.start \in Nat
       /\ billed[l] + ev.end - ev.start <= ev.end
  BY <1>1, <1>2, <1>3, FundedFacts
<1> HIDE DEF e
<1> QED
  BY <1>7, <1>8, <1>9, <1>10, FundedFacts DEF E!StillReserved, e

\* complete_and_payout.
LEMMA CompleteAndPayoutStep ==
  ASSUME EscrowInv, NEW l \in Leases, NEW ev \in E!Evidence, E!CompleteAndPayout(l, ev)
  PROVE  EscrowStep
<1> DEFINE e == [E!Billed(escrow[l], ev) EXCEPT !.charged = @ + ev.charge]
           s == billed[l] + ev.end - ev.start
<1>1. /\ escrow[l].state = "Funded" /\ E!Accepted(escrow[l], ev)
      /\ ev.charge <= E!Remaining(escrow[l])
      /\ E!Settle(l, e, "Completed") /\ billed' = [billed EXCEPT ![l] = @ + ev.end - ev.start]
      /\ bal' = E!Unreserve(E!Paid(escrow[l], ev.charge), escrow[l].payer,
                            E!Remaining(escrow[l]) - ev.charge)
      /\ feeBps' = feeBps
  BY DEF E!CompleteAndPayout, E!settings
<1>2. ev.charge \in Nat
  BY EvidenceType
<1>3. /\ e \in E!EscrowRecords /\ e.payer = escrow[l].payer /\ e.charged <= e.max
      /\ e.charged >= escrow[l].charged /\ s \in Nat /\ s <= e.periodEnd
  BY <1>1, <1>2, BilledFacts
<1>4. /\ e.payer \in Accounts /\ E!StillReserved(escrow[l]) /\ ~escrow[l].disputedOnce
      /\ bal \in Bal /\ feeBps \in 0 .. MaxFeeBasisPoints
      /\ E!Remaining(escrow[l]) - ev.charge \in Nat
      /\ billed' = [billed EXCEPT ![l] = s]
  BY <1>1, <1>2, <1>3, FundedFacts DEF E!Remaining
<1>5. bal' \in Bal
  BY <1>1, <1>2, <1>3, <1>4, PaidType, UnreserveType
<1>6. "Completed" \in E!Settled
  BY DEF E!Settled
<1> HIDE DEF e, s
<1> QED  BY <1>1, <1>3, <1>4, <1>5, <1>6, SettleStep

\* stream_settle: streams, completes or degrades.
LEMMA StreamSettleStep ==
  ASSUME EscrowInv, NEW l \in Leases, NEW ev \in E!Evidence, E!StreamSettle(l, ev)
  PROVE  EscrowStep
<1> DEFINE charge == E!Least(ev.charge, E!Remaining(escrow[l]))
           e == [E!Billed(escrow[l], ev) EXCEPT !.charged = @ + charge]
           paid == [e EXCEPT !.anchor = now]
           s == billed[l] + ev.end - ev.start
<1>1. escrow[l].state = "Funded" /\ E!Accepted(escrow[l], ev) /\ feeBps' = feeBps
  BY DEF E!StreamSettle, E!settings
<1>2. ev.charge \in Nat
  BY EvidenceType
<1>3. charge \in Nat /\ charge <= E!Remaining(escrow[l])
  BY <1>1, <1>2, FundedFacts DEF E!Least, E!Remaining
<1>4. bal' = E!Paid(escrow[l], charge)
  BY DEF E!StreamSettle
<1> HIDE DEF charge
<1>5. /\ e \in E!EscrowRecords /\ e.payer = escrow[l].payer /\ e.charged <= e.max
      /\ e.state = "Funded" /\ e.settledAt = None /\ ~e.disputedOnce
      /\ e.charged >= escrow[l].charged /\ s \in Nat /\ s <= e.periodEnd
  BY <1>1, <1>3, BilledFacts
<1>6. [E!Billed(escrow[l], ev) EXCEPT !.charged = @ + charge, !.anchor = now] = paid
  BY DEF E!Billed
<1>7. \/ E!Settle(l, paid, "Degraded")
      \/ E!Settle(l, paid, "Completed")
      \/ escrow' = [escrow EXCEPT ![l] = paid] /\ UNCHANGED openCount
  BY <1>6 DEF E!StreamSettle, charge
<1> HIDE DEF e
<1>8. /\ paid \in E!EscrowRecords /\ paid.payer = escrow[l].payer /\ paid.charged <= paid.max
      /\ paid.state = "Funded" /\ paid.settledAt = None /\ ~paid.disputedOnce
      /\ paid.charged >= escrow[l].charged /\ s <= paid.periodEnd
  BY <1>1, <1>5, FundedFacts DEF E!EscrowRecords
<1> HIDE DEF paid
<1>9. /\ paid.payer \in Accounts /\ E!StillReserved(escrow[l]) /\ ~escrow[l].disputedOnce
      /\ bal \in Bal /\ feeBps \in 0 .. MaxFeeBasisPoints
      /\ billed' = [billed EXCEPT ![l] = s]
  BY <1>1, <1>8, FundedFacts DEF E!StreamSettle
<1>10. bal' \in Bal
  BY <1>3, <1>4, <1>8, <1>9, PaidType
<1>11. Sound(paid) /\ (paid.settledAt = None <=> escrow[l].settledAt = None)
  BY <1>8, <1>9 DEF Sound, E!StillReserved
<1>12. "Completed" \in E!Settled /\ "Degraded" \in E!Settled
  BY DEF E!Settled
<1> HIDE DEF s
<1>13. CASE E!Settle(l, paid, "Degraded")
  BY <1>1, <1>5, <1>8, <1>9, <1>10, <1>12, <1>13, SettleStep
<1>14. CASE E!Settle(l, paid, "Completed")
  BY <1>1, <1>5, <1>8, <1>9, <1>10, <1>12, <1>14, SettleStep
<1>15. CASE escrow' = [escrow EXCEPT ![l] = paid] /\ UNCHANGED openCount
  BY <1>1, <1>5, <1>8, <1>9, <1>10, <1>11, <1>15, KeepStep
<1> QED  BY <1>7, <1>13, <1>14, <1>15

\* What an escrow looks like before a call that needs it to exist.
LEMMA ExistsFacts ==
  ASSUME EscrowInv, NEW l \in Leases, escrow[l].state # "None"
  PROVE  /\ escrow[l] \in E!EscrowRecords /\ escrow[l].payer \in Accounts
         /\ escrow[l].charged \in Nat /\ escrow[l].max \in Nat
         /\ escrow[l].charged <= escrow[l].max
         /\ billed \in [Leases -> Nat] /\ billed[l] \in Nat
         /\ billed[l] <= escrow[l].periodEnd /\ bal \in Bal
         /\ feeBps \in 0 .. MaxFeeBasisPoints /\ now \in Nat
         /\ escrow[l].state = "Funded" => ~escrow[l].disputedOnce
<1>1. escrow[l] \in E!EscrowRecords /\ escrow[l].charged <= escrow[l].max /\ Sound(escrow[l])
  BY DEF EscrowInv, EscrowsSound, TypeOK
<1> QED
  BY <1>1, CollateralAssumption
     DEF EscrowInv, TypeOK, Sound, E!EscrowRecords, NoSecondBilledTwice, Bal

\* dispute_escrow.
LEMMA DisputeEscrowStep ==
  ASSUME EscrowInv, NEW l \in Leases, E!DisputeEscrow(l)
  PROVE  EscrowStep
<1> DEFINE marked == [escrow[l] EXCEPT !.state = "Disputed"]
           e == [marked EXCEPT !.disputedOnce = TRUE]
<1>1. escrow[l].state # "None" /\ (escrow[l].disputedOnce => escrow[l].state = "Funded")
  BY DEF E!DisputeEscrow, E!Settled
<1>2. escrow[l] \in E!EscrowRecords /\ escrow \in [Leases -> E!EscrowRecords]
  BY <1>1, ExistsFacts DEF EscrowInv, TypeOK
<1>3. escrow' = [escrow EXCEPT ![l] = e]
  BY <1>2 DEF E!DisputeEscrow, E!EscrowRecords
<1>4. /\ marked \in E!EscrowRecords /\ marked.payer = escrow[l].payer
      /\ marked.state = "Disputed" /\ marked.settledAt = escrow[l].settledAt
      /\ marked.charged = escrow[l].charged /\ marked.max = escrow[l].max
      /\ marked.periodEnd = escrow[l].periodEnd
  BY <1>2 DEF E!EscrowRecords, E!EscrowStates
<1> HIDE DEF marked
<1>5. /\ e \in E!EscrowRecords /\ e.payer = escrow[l].payer
      /\ e.state = "Disputed" /\ e.settledAt = escrow[l].settledAt
      /\ e.charged = escrow[l].charged /\ e.max = escrow[l].max
      /\ e.periodEnd = escrow[l].periodEnd
  BY <1>4 DEF E!EscrowRecords
<1> HIDE DEF e
<1>6. /\ Sound(e) /\ e.charged <= e.max /\ e.charged >= escrow[l].charged
      /\ billed[l] \in Nat /\ billed[l] <= e.periodEnd
  BY <1>1, <1>5, ExistsFacts DEF Sound
<1>7. ~escrow[l].disputedOnce
  BY <1>1, ExistsFacts
<1>8. /\ bal' \in Bal /\ feeBps' = feeBps /\ UNCHANGED openCount
      /\ billed' = [billed EXCEPT ![l] = billed[l]]
  BY <1>1, ExistsFacts DEF E!DisputeEscrow, E!settings
<1> QED  BY <1>3, <1>5, <1>6, <1>7, <1>8, KeepStep

\* resolve_dispute, whatever it decides.
LEMMA ResolveStep ==
  ASSUME EscrowInv, NEW l \in Leases, NEW state \in E!Settled,
         escrow[l].state = "Disputed", E!Resolve(l, state), bal' \in Bal
  PROVE  EscrowStep
<1> DEFINE e == [escrow[l] EXCEPT !.charged = escrow[l].max]
           new == [e EXCEPT !.state = state, !.settledAt = now]
<1>1. escrow[l].state # "None" /\ escrow[l] \in E!EscrowRecords /\ now \in Nat
  BY ExistsFacts
<1>2. \/ E!StillReserved(e) /\ E!Settle(l, e, state)
      \/ /\ ~E!StillReserved(e) /\ escrow' = [escrow EXCEPT ![l] = new]
         /\ UNCHANGED openCount
  BY DEF E!Resolve
<1>3. /\ e \in E!EscrowRecords /\ e.payer = escrow[l].payer
      /\ e.settledAt = escrow[l].settledAt
      /\ e.charged = escrow[l].max /\ e.max = escrow[l].max
      /\ e.periodEnd = escrow[l].periodEnd
  BY <1>1 DEF E!EscrowRecords
<1> HIDE DEF e
<1>4. /\ e.payer \in Accounts /\ e.charged <= e.max /\ e.charged >= escrow[l].charged
      /\ billed[l] \in Nat /\ billed[l] <= e.periodEnd
  BY <1>1, <1>3, ExistsFacts
<1>5. feeBps' = feeBps /\ billed' = [billed EXCEPT ![l] = billed[l]]
  BY <1>1, ExistsFacts DEF E!Resolve, E!settings
<1>6. CASE E!StillReserved(e) /\ E!Settle(l, e, state)
  BY <1>3, <1>4, <1>5, <1>6, SettleStep DEF E!StillReserved
<1>7. CASE /\ ~E!StillReserved(e) /\ escrow' = [escrow EXCEPT ![l] = new]
           /\ UNCHANGED openCount
  <2>1. state \in E!EscrowStates /\ state \notin {"None", "Funded"}
    BY DEF E!Settled, E!EscrowStates
  <2>2. /\ new \in E!EscrowRecords /\ new.payer = e.payer /\ new.state = state
        /\ new.settledAt = now /\ new.charged = e.charged /\ new.max = e.max
        /\ new.periodEnd = e.periodEnd
    BY <1>1, <1>3, <2>1 DEF E!EscrowRecords
  <2> HIDE DEF new
  <2>3. Sound(new) /\ (new.settledAt = None <=> escrow[l].settledAt = None)
    BY <1>1, <1>3, <1>4, <1>7, <2>1, <2>2, CollateralAssumption DEF Sound, E!StillReserved
  <2> QED  BY <1>3, <1>4, <1>5, <1>7, <2>2, <2>3, KeepStep
<1> QED  BY <1>2, <1>6, <1>7

\* resolve_dispute in favour of the provider, fully or short reserved.
LEMMA ResolvePayProviderStep ==
  ASSUME EscrowInv, NEW l \in Leases, NEW amount \in Charges, E!ResolvePayProvider(l, amount)
  PROVE  EscrowStep
<1> DEFINE e == escrow[l]
           due == amount - e.charged
           back == e.max - amount
<1>1. e.state = "Disputed" /\ E!Resolve(l, "Completed") /\ amount \in e.charged .. e.max
  BY DEF E!ResolvePayProvider
<1>2. due \in Nat /\ back \in Nat /\ e.payer \in Accounts /\ bal \in Bal
  BY <1>1, ExistsFacts
<1>3. E!Repatriate(bal, e.payer, e.provider, due) \in Bal /\ E!Paid(e, due) \in Bal
  BY <1>1, <1>2, ExistsFacts, RepatriateType, PaidType
<1>4. bal' \in Bal
  BY <1>2, <1>3, UnreserveType DEF E!ResolvePayProvider
<1>5. "Completed" \in E!Settled
  BY DEF E!Settled
<1> QED  BY <1>1, <1>4, <1>5, ResolveStep

\* resolve_dispute in favour of the payer.
LEMMA ResolveRefundPayerStep ==
  ASSUME EscrowInv, NEW l \in Leases, E!ResolveRefundPayer(l)
  PROVE  EscrowStep
<1>1. escrow[l].state = "Disputed" /\ E!Resolve(l, "Refunded")
  BY DEF E!ResolveRefundPayer
<1>2. /\ E!Remaining(escrow[l]) \in Nat /\ escrow[l].payer \in Accounts /\ bal \in Bal
  BY <1>1, ExistsFacts DEF E!Remaining
<1>3. bal' \in Bal
  BY <1>2, UnreserveType DEF E!ResolveRefundPayer
<1>4. "Refunded" \in E!Settled
  BY DEF E!Settled
<1> QED  BY <1>1, <1>3, <1>4, ResolveStep

-----------------------------------------------------------------------------
(* The extrinsics of pallet-network-validator. *)

\* What a validator step establishes.
ValidatorStep ==
  /\ bal' \in Bal
  /\ validator' \in [Accounts -> V!ValidatorRecords]
  /\ activeSet' \in SUBSET Accounts
  /\ ActiveSetAgrees'
  /\ \A a \in Accounts :
       \/ validator'[a].status # "None" => validator[a].status # "None"
       \/ openCount[a] = 0 /\ bond[a].status = "None"

ValidatorInv == TypeOK /\ ActiveSetAgrees

\* A change of one validator, which enters or leaves the active set with it.
LEMMA ValidatorChange ==
  ASSUME ValidatorInv, NEW v \in Accounts, NEW rec \in V!ValidatorRecords,
         validator' = [validator EXCEPT ![v] = rec],
         activeSet' = IF rec.status = "Active" THEN activeSet \union {v} ELSE activeSet \ {v},
         rec.status = "None" \/ validator[v].status # "None"
           \/ (openCount[v] = 0 /\ bond[v].status = "None"),
         bal' \in Bal
  PROVE  ValidatorStep
<1>1. validator \in [Accounts -> V!ValidatorRecords] /\ activeSet \in SUBSET Accounts
  BY DEF ValidatorInv, TypeOK
<1>2. validator' \in [Accounts -> V!ValidatorRecords] /\ activeSet' \in SUBSET Accounts
  BY <1>1
<1>3. \A a \in Accounts : validator'[a] = IF a = v THEN rec ELSE validator[a]
  BY <1>1
<1>4. ActiveSetAgrees'
  BY <1>1, <1>3 DEF ValidatorInv, ActiveSetAgrees, V!IsActive
<1> QED  BY <1>2, <1>3, <1>4 DEF ValidatorStep

\* The balance operations of the other pallets keep the type of the balances.
LEMMA ReservedType ==
  ASSUME bal \in Bal, NEW a \in Accounts, NEW v \in Nat
  PROVE  /\ v <= bal[a].free => V!Reserve(bal, a, v) \in Bal /\ P!Reserve(bal, a, v) \in Bal
         /\ V!Unreserve(bal, a, v) \in Bal /\ P!Unreserve(bal, a, v) \in Bal
         /\ V!SlashReserved(bal, a, v) \in Bal /\ P!SlashReserved(bal, a, v) \in Bal
<1>1. v <= bal[a].free => V!Reserve(bal, a, v) \in Bal /\ P!Reserve(bal, a, v) \in Bal
  BY DEF V!Reserve, P!Reserve, Bal
<1>2. V!Unreserve(bal, a, v) \in Bal /\ P!Unreserve(bal, a, v) \in Bal
  BY DEF V!Unreserve, V!Least, P!Unreserve, P!Least, Bal
<1>3. V!SlashReserved(bal, a, v) \in Bal /\ P!SlashReserved(bal, a, v) \in Bal
  BY DEF V!SlashReserved, V!Least, P!SlashReserved, P!Least, Bal
<1> QED  BY <1>1, <1>2, <1>3

\* The calls that change one validator.
LEMMA OneValidatorStep ==
  ASSUME ValidatorInv, NEW v \in Candidates,
         \/ \E stake \in Stakes : V!RegisterValidator(v, stake)
         \/ V!RequestExit(v)
         \/ V!WithdrawUnbonded(v)
         \/ V!Suspend(v)
         \/ V!Reinstate(v)
  PROVE  ValidatorStep
<1>1. /\ v \in Accounts /\ bal \in Bal /\ validator \in [Accounts -> V!ValidatorRecords]
      /\ validator[v] \in V!ValidatorRecords /\ now \in Nat /\ ValidatorUnbonding \in Nat
  BY CollateralAssumption DEF ValidatorInv, TypeOK, Bal
<1>2. ASSUME NEW stake \in Stakes, V!RegisterValidator(v, stake) PROVE ValidatorStep
  <2> DEFINE rec == [status |-> "Active", stake |-> stake, availableAt |-> 0]
  <2>1. stake \in Nat
    BY CollateralAssumption
  <2>2. rec \in V!ValidatorRecords /\ rec.status = "Active"
    BY <2>1 DEF V!ValidatorRecords, V!ValidatorStatuses
  <2>3. bal' \in Bal
    BY <1>1, <1>2, <2>1, ReservedType DEF V!RegisterValidator
  <2>4. /\ validator' = [validator EXCEPT ![v] = rec] /\ activeSet' = activeSet \union {v}
        /\ openCount[v] = 0 /\ bond[v].status = "None"
    BY <1>2 DEF V!RegisterValidator
  <2> HIDE DEF rec
  <2> QED  BY <1>1, <2>2, <2>3, <2>4, ValidatorChange
<1>3. CASE V!RequestExit(v)
  <2> DEFINE left == [validator[v] EXCEPT !.status = "Exiting"]
             rec == [left EXCEPT !.availableAt = now + ValidatorUnbonding]
  <2>1. left \in V!ValidatorRecords /\ left.status = "Exiting"
    BY <1>1 DEF V!ValidatorRecords, V!ValidatorStatuses
  <2>2. validator' = [validator EXCEPT ![v] = rec]
    BY <1>1, <1>3 DEF V!RequestExit, V!ValidatorRecords
  <2> HIDE DEF left
  <2>3. rec \in V!ValidatorRecords /\ rec.status = "Exiting"
    BY <1>1, <2>1 DEF V!ValidatorRecords
  <2> HIDE DEF rec
  <2>4. activeSet' = activeSet \ {v} /\ bal' \in Bal /\ validator[v].status # "None"
    BY <1>1, <1>3 DEF V!RequestExit
  <2> QED  BY <1>1, <2>2, <2>3, <2>4, ValidatorChange
<1>4. CASE V!WithdrawUnbonded(v)
  <2>1. V!NoValidator \in V!ValidatorRecords /\ V!NoValidator.status = "None"
    BY DEF V!NoValidator, V!ValidatorRecords, V!ValidatorStatuses
  <2>2. validator[v].stake \in Nat
    BY <1>1 DEF V!ValidatorRecords
  <2>3. bal' \in Bal
    BY <1>1, <1>4, <2>2, ReservedType DEF V!WithdrawUnbonded
  <2>4. activeSet' = activeSet \ {v} /\ validator' = [validator EXCEPT ![v] = V!NoValidator]
    BY <1>4 DEF V!WithdrawUnbonded
  <2> QED  BY <1>1, <2>1, <2>3, <2>4, ValidatorChange
<1>5. CASE V!Suspend(v)
  <2> DEFINE rec == [validator[v] EXCEPT !.status = "Suspended"]
  <2>1. rec \in V!ValidatorRecords /\ rec.status = "Suspended"
    BY <1>1 DEF V!ValidatorRecords, V!ValidatorStatuses
  <2>2. /\ validator' = [validator EXCEPT ![v] = rec] /\ activeSet' = activeSet \ {v}
        /\ bal' \in Bal /\ validator[v].status # "None"
    BY <1>1, <1>5 DEF V!Suspend, V!IsActive
  <2> HIDE DEF rec
  <2> QED  BY <1>1, <2>1, <2>2, ValidatorChange
<1>6. CASE V!Reinstate(v)
  <2> DEFINE rec == [validator[v] EXCEPT !.status = "Active"]
  <2>1. rec \in V!ValidatorRecords /\ rec.status = "Active"
    BY <1>1 DEF V!ValidatorRecords, V!ValidatorStatuses
  <2>2. /\ validator' = [validator EXCEPT ![v] = rec] /\ activeSet' = activeSet \union {v}
        /\ bal' \in Bal /\ validator[v].status # "None"
    BY <1>1, <1>6 DEF V!Reinstate
  <2> HIDE DEF rec
  <2> QED  BY <1>1, <2>1, <2>2, ValidatorChange
<1> QED  BY <1>2, <1>3, <1>4, <1>5, <1>6

\* A validator slashed for its submissions: it keeps a role, and is suspended
\* at most.
LEMMA PunishedFacts ==
  ASSUME TypeOK, NEW v \in Accounts
  PROVE  /\ V!Punished(v) \in V!ValidatorRecords
         /\ V!Punished(v).status = "Active" =>
              validator[v].status = "Active"
         /\ validator[v].status = "Active" =>
              V!Punished(v).status \in {"Active", "Suspended"}
         /\ validator[v].status = "None" => V!Punished(v).status = "None"
<1> DEFINE rec == validator[v]
           slashed == V!Least(ValidatorSlashAmount, bal[v].held)
           left == rec.stake - V!Least(rec.stake, slashed)
           paid == [rec EXCEPT !.stake = left]
           status == IF left = 0 /\ rec.status = "Active" THEN "Suspended" ELSE rec.status
           new == [paid EXCEPT !.status = status]
<1>1. rec \in V!ValidatorRecords /\ bal[v].held \in Nat /\ ValidatorSlashAmount \in Nat
  BY CollateralAssumption DEF TypeOK
<1>2. slashed \in Nat /\ rec.stake \in Nat
  BY <1>1 DEF V!Least, V!ValidatorRecords
<1>3. V!Punished(v) = IF slashed = 0 THEN rec ELSE new
  BY <1>1 DEF V!Punished, V!ValidatorRecords
<1> HIDE DEF slashed
<1>4. left \in Nat
  BY <1>2 DEF V!Least
<1> HIDE DEF left
<1>5. paid \in V!ValidatorRecords /\ paid.status = rec.status
  BY <1>1, <1>4 DEF V!ValidatorRecords
<1> HIDE DEF paid
<1>6. status \in V!ValidatorStatuses
  BY <1>1 DEF V!ValidatorRecords, V!ValidatorStatuses
<1>7. /\ rec.status = "Active" => status \in {"Active", "Suspended"}
      /\ rec.status # "Active" => status = rec.status
  OBVIOUS
<1> HIDE DEF status
<1>8. new \in V!ValidatorRecords /\ new.status = status
  BY <1>5, <1>6 DEF V!ValidatorRecords
<1> HIDE DEF new
<1> QED  BY <1>1, <1>3, <1>7, <1>8

\* resolve_round_dispute upheld: whoever is suspended by the slash leaves the
\* active set in the same step.
LEMMA ResolveUpheldStep ==
  ASSUME ValidatorInv, NEW p, NEW r, NEW d, V!ResolveUpheld(p, r, d)
  PROVE  ValidatorStep
<1> DEFINE guilty == {v \in round[<<p, r, d>>].submitters : validator[v].status # "None"}
<1>1. /\ validator \in [Accounts -> V!ValidatorRecords] /\ activeSet \in SUBSET Accounts
      /\ bal \in Bal /\ ValidatorSlashAmount \in Nat /\ TypeOK
      /\ activeSet = {v \in Accounts : validator[v].status = "Active"}
  BY CollateralAssumption DEF ValidatorInv, TypeOK, Bal, ActiveSetAgrees, V!IsActive
<1>2. /\ bal' = [a \in Accounts |-> IF a \in guilty
                 THEN V!SlashReserved(bal, a, ValidatorSlashAmount)[a] ELSE bal[a]]
      /\ validator' = [a \in Accounts |-> IF a \in guilty THEN V!Punished(a) ELSE validator[a]]
      /\ activeSet' = activeSet \ {v \in guilty : V!Punished(v).status = "Suspended"}
  BY DEF V!ResolveUpheld
<1>3. \A v \in guilty : validator[v].status # "None"
  OBVIOUS
<1> HIDE DEF guilty
<1>4. \A a \in Accounts : V!SlashReserved(bal, a, ValidatorSlashAmount)[a] \in [free : Nat, held : Nat]
  BY <1>1, ReservedType DEF Bal
<1>5. bal' \in Bal
  BY <1>1, <1>2, <1>4 DEF Bal
<1>6. \A a \in Accounts : validator'[a] = IF a \in guilty THEN V!Punished(a) ELSE validator[a]
  BY <1>2
<1>7. validator' \in [Accounts -> V!ValidatorRecords]
  BY <1>1, <1>2, PunishedFacts
<1>8. activeSet' = {v \in Accounts : validator'[v].status = "Active"}
  BY <1>1, <1>2, <1>6, PunishedFacts
<1>9. activeSet' \in SUBSET Accounts
  BY <1>1, <1>2
<1>10. \A a \in Accounts : validator'[a].status # "None" => validator[a].status # "None"
  BY <1>1, <1>6, PunishedFacts
<1> QED  BY <1>5, <1>7, <1>8, <1>9, <1>10 DEF ValidatorStep, ActiveSetAgrees, V!IsActive

\* Every call of pallet-network-validator.
LEMMA ValidatorSteps ==
  ASSUME ValidatorInv,
         \/ \E v \in Candidates : Validators(v)
         \/ \E p \in Operators, r \in RoundIds, d \in Dimensions : Rounds(p, r, d)
  PROVE  ValidatorStep
<1>1. ASSUME UNCHANGED <<bal, validator, activeSet>> PROVE ValidatorStep
  BY <1>1 DEF ValidatorInv, TypeOK, ValidatorStep, ActiveSetAgrees, V!IsActive, Bal
<1>2. ASSUME NEW v \in Candidates, Validators(v) PROVE ValidatorStep
  <2>1. ASSUME NEW p, NEW r, NEW d, NEW s, V!SubmitEvidence(v, p, r, d, s) PROVE ValidatorStep
    BY <1>1, <2>1 DEF V!SubmitEvidence
  <2> QED  BY <1>2, <2>1, OneValidatorStep DEF Validators
<1>3. ASSUME NEW p, NEW r, NEW d, Rounds(p, r, d) PROVE ValidatorStep
  <2>1. CASE V!CloseRound(p, r, d)
    BY <1>1, <2>1 DEF V!CloseRound
  <2>2. CASE V!DisputeRound(p, r, d)
    BY <1>1, <2>2 DEF V!DisputeRound
  <2>3. CASE V!ResolveUpheld(p, r, d)
    BY <2>3, ResolveUpheldStep
  <2>4. CASE V!ResolveRejected(p, r, d)
    BY <1>1, <2>4 DEF V!ResolveRejected
  <2> QED  BY <1>3, <2>1, <2>2, <2>3, <2>4 DEF Rounds
<1> QED  BY <1>2, <1>3

-----------------------------------------------------------------------------
(* The extrinsics of pallet-provider-registry and pallet-provider-slashing. *)

\* The keys of PendingSlashes and LastSlashedRound.
Keys == Accounts \X Dimensions

\* The watermark covers every executed slash, and a pending one begins above it.
SlashesSound ==
  \A k \in Keys :
    /\ \A r \in RoundIds : /\ executed[k][r] <= 1
                           /\ executed[k][r] > 0 => r <= lastSlashed[k]
    /\ pending[k].state # "None" => pending[k].first > lastSlashed[k]

\* What a provider step establishes of the balances, the statuses and the bonds,
\* and of the pending and the executed slashes.
RegistryStep ==
  /\ bal' \in Bal
  /\ provider' \in [Accounts -> P!ProviderStatuses \union {"None"}]
  /\ bond' \in [Accounts -> P!BondRecords]
  /\ \A a \in Accounts :
       \/ bond'[a].status # "None" => bond[a].status # "None"
       \/ openCount[a] = 0 /\ validator[a].status = "None"

SlashingStep ==
  /\ pending' \in [Keys -> P!PendingSlashRecords]
  /\ lastSlashed' \in [Keys -> Nat]
  /\ executed' \in [Keys -> [RoundIds -> Nat]]
  /\ SlashesSound'

\* What a provider step establishes.
ProviderStep == RegistryStep /\ SlashingStep /\ HeldStep

ProviderInv == TypeOK /\ SlashesSound

\* A call that leaves pallet-provider-registry alone.
LEMMA RegistryUnchanged ==
  ASSUME TypeOK, UNCHANGED <<bal, provider, bond>>
  PROVE  RegistryStep
BY DEF TypeOK, RegistryStep, Bal

\* A call that leaves pallet-provider-slashing alone.
LEMMA SlashingUnchanged ==
  ASSUME ProviderInv, UNCHANGED <<pending, lastSlashed, executed>>
  PROVE  SlashingStep
BY DEF ProviderInv, TypeOK, SlashingStep, SlashesSound, Keys

\* A change of one bond that every slash pending against it can bear.
LEMMA BondChange ==
  ASSUME TypeOK, NEW a \in Accounts, NEW rec \in P!BondRecords,
         bond' = [bond EXCEPT ![a] = rec],
         provider' \in [Accounts -> P!ProviderStatuses \union {"None"}],
         bal' \in Bal,
         \/ rec.status # "None" => bond[a].status # "None"
         \/ openCount[a] = 0 /\ validator[a].status = "None",
         P!HasPendingSlash(a) /\ bond[a].status # "None" =>
           /\ rec.status = bond[a].status
           /\ rec.stake < bond[a].stake =>
                /\ \E e \in Dimensions : pending[<<a, e>>].state # "None" /\ pending'[<<a, e>>].state = "None"
                /\ bond[a].stake <= rec.stake + ProviderSlashAmount
  PROVE  RegistryStep /\ HeldStep
<1>1. bond \in [Accounts -> P!BondRecords]
  BY DEF TypeOK
<1>2. bond' \in [Accounts -> P!BondRecords]
  BY <1>1
<1>3. \A k \in Accounts : bond'[k] = IF k = a THEN rec ELSE bond[k]
  BY <1>1
<1>4. \A k \in Accounts : ~(bond[k].stake < bond[k].stake)
  BY <1>1 DEF P!BondRecords
<1>5. RegistryStep
  BY <1>2, <1>3 DEF RegistryStep
<1>6. HeldStep
  <2> SUFFICES ASSUME NEW k \in Accounts, NEW d \in Dimensions,
                      pending[<<k, d>>].state # "None", bond[k].status # "None"
               PROVE  /\ bond'[k].status = bond[k].status
                      /\ bond'[k].stake < bond[k].stake =>
                           /\ \E e \in Dimensions : /\ pending[<<k, e>>].state # "None"
                                                   /\ pending'[<<k, e>>].state = "None"
                           /\ bond[k].stake <= bond'[k].stake + ProviderSlashAmount
    BY DEF HeldStep
  <2>1. CASE k # a
    BY <1>3, <1>4, <2>1
  <2>2. CASE k = a
    <3>1. P!HasPendingSlash(a)
      BY <2>2 DEF P!HasPendingSlash
    <3> QED  BY <1>3, <2>2, <3>1
  <2> QED  BY <2>1, <2>2
<1> QED  BY <1>5, <1>6

\* bond_stake: only an account without another role takes up the bond.
LEMMA BondStakeStep ==
  ASSUME ProviderInv, NEW a \in Operators, NEW v \in Bonds, P!BondStake(a, v)
  PROVE  ProviderStep
<1> DEFINE named == [bond[a] EXCEPT !.status = "Active"]
           rec == [named EXCEPT !.stake = @ + v]
<1>1. /\ a \in Accounts /\ v \in Nat /\ bal \in Bal /\ bond \in [Accounts -> P!BondRecords]
      /\ bond[a] \in P!BondRecords
  BY CollateralAssumption DEF ProviderInv, TypeOK, Bal
<1>2. /\ v <= bal[a].free /\ bal' = P!Reserve(bal, a, v) /\ openCount[a] = 0
      /\ bond[a].status # "Exiting"
      /\ validator[a].status = "None" /\ provider' = provider
      /\ UNCHANGED <<pending, lastSlashed, executed>>
  BY DEF P!BondStake, P!slashingVars
<1>3. bond' = [bond EXCEPT ![a] = rec]
  BY <1>1 DEF P!BondStake, P!BondRecords
<1>4. named \in P!BondRecords /\ named.stake = bond[a].stake /\ named.status = "Active"
  BY <1>1 DEF P!BondRecords
<1> HIDE DEF named
<1>5. rec \in P!BondRecords /\ rec.stake = bond[a].stake + v /\ rec.status = "Active"
  BY <1>1, <1>4 DEF P!BondRecords
<1> HIDE DEF rec
<1>8. bond[a].status # "None" => rec.status = bond[a].status
  BY <1>1, <1>2, <1>5 DEF P!BondRecords
<1>9. ~(rec.stake < bond[a].stake)
  BY <1>1, <1>5 DEF P!BondRecords
<1>6. bal' \in Bal /\ provider' \in [Accounts -> P!ProviderStatuses \union {"None"}]
  BY <1>1, <1>2, ReservedType DEF ProviderInv, TypeOK
<1>7. RegistryStep /\ HeldStep
  BY <1>1, <1>2, <1>3, <1>5, <1>6, <1>8, <1>9, BondChange DEF ProviderInv
<1> QED  BY <1>2, <1>7, SlashingUnchanged DEF ProviderStep

\* request_unbond.
LEMMA RequestUnbondStep ==
  ASSUME ProviderInv, NEW a \in Operators, P!RequestUnbond(a)
  PROVE  ProviderStep
<1> DEFINE named == [bond[a] EXCEPT !.status = "Exiting"]
           rec == [named EXCEPT !.availableAt = now + ProviderUnbonding]
<1>1. /\ a \in Accounts /\ now + ProviderUnbonding \in Nat
      /\ bond \in [Accounts -> P!BondRecords] /\ bond[a] \in P!BondRecords
  BY CollateralAssumption DEF ProviderInv, TypeOK
<1>2. /\ bal' = bal /\ bond[a].status # "None" /\ ~P!HasPendingSlash(a)
      /\ provider' = provider /\ UNCHANGED <<pending, lastSlashed, executed>>
  BY DEF P!RequestUnbond, P!slashingVars
<1>3. bond' = [bond EXCEPT ![a] = rec]
  BY <1>1 DEF P!RequestUnbond, P!BondRecords
<1>4. named \in P!BondRecords
  BY <1>1 DEF P!BondRecords
<1> HIDE DEF named
<1>5. rec \in P!BondRecords
  BY <1>1, <1>4 DEF P!BondRecords
<1> HIDE DEF rec
<1>6. bal' \in Bal /\ provider' \in [Accounts -> P!ProviderStatuses \union {"None"}]
  BY <1>2 DEF ProviderInv, TypeOK, Bal
<1>7. RegistryStep /\ HeldStep
  BY <1>1, <1>2, <1>3, <1>5, <1>6, BondChange DEF ProviderInv
<1> QED  BY <1>2, <1>7, SlashingUnchanged DEF ProviderStep

\* withdraw_unbonded: not while a slash is pending.
LEMMA WithdrawBondStep ==
  ASSUME ProviderInv, NEW a \in Operators, P!WithdrawUnbonded(a)
  PROVE  ProviderStep
<1>1. a \in Accounts /\ bal \in Bal /\ bond[a] \in P!BondRecords
  BY CollateralAssumption DEF ProviderInv, TypeOK, Bal
<1>2. /\ bal' = P!Unreserve(bal, a, bond[a].stake) /\ ~P!HasPendingSlash(a)
      /\ bond' = [bond EXCEPT ![a] = P!NoBond]
      /\ provider' = provider /\ UNCHANGED <<pending, lastSlashed, executed>>
  BY DEF P!WithdrawUnbonded, P!slashingVars
<1>3. bond[a].stake \in Nat
  BY <1>1 DEF P!BondRecords
<1>4. bal' \in Bal /\ provider' \in [Accounts -> P!ProviderStatuses \union {"None"}]
  BY <1>1, <1>2, <1>3, ReservedType DEF ProviderInv, TypeOK
<1>5. P!NoBond \in P!BondRecords /\ P!NoBond.status = "None"
  BY DEF P!NoBond, P!BondRecords
<1>6. RegistryStep /\ HeldStep
  BY <1>1, <1>2, <1>4, <1>5, BondChange DEF ProviderInv
<1> QED  BY <1>2, <1>6, SlashingUnchanged DEF ProviderStep

\* register_provider and set_status only touch the status.
LEMMA StatusStep ==
  ASSUME ProviderInv, NEW a \in Operators,
         P!RegisterProvider(a) \/ \E s \in Statuses : P!SetStatus(a, s)
  PROVE  ProviderStep
<1>1. PICK s \in P!ProviderStatuses : provider' = [provider EXCEPT ![a] = s]
  <2>1. CASE P!RegisterProvider(a)
    BY <2>1 DEF P!RegisterProvider, P!ProviderStatuses
  <2>2. CASE \E s \in Statuses : P!SetStatus(a, s)
    <3>1. PICK s \in Statuses : P!SetStatus(a, s)
      BY <2>2
    <3>2. s \in P!ProviderStatuses
      BY <3>1 DEF P!SetStatus, P!ValidTransition, P!ProviderStatuses
    <3> QED  BY <3>1, <3>2 DEF P!SetStatus
  <2> QED  BY <2>1, <2>2
<1>2. UNCHANGED <<bal, bond, pending, lastSlashed, executed>>
  BY DEF P!RegisterProvider, P!SetStatus, P!slashingVars
<1>3. provider' \in [Accounts -> P!ProviderStatuses \union {"None"}]
  BY <1>1, CollateralAssumption DEF ProviderInv, TypeOK
<1>4. RegistryStep
  BY <1>2, <1>3 DEF RegistryStep, ProviderInv, TypeOK, Bal
<1>5. HeldStep
  BY <1>2 DEF HeldStep, ProviderInv, TypeOK, P!BondRecords
<1> QED  BY <1>2, <1>4, <1>5, SlashingUnchanged DEF ProviderStep

\* record_breach: the streak begins above the watermark.
LEMMA RecordBreachStep ==
  ASSUME ProviderInv, NEW a \in Operators, NEW d \in Dimensions, NEW first \in RoundIds,
         P!RecordBreach(a, d, first)
  PROVE  ProviderStep
<1> DEFINE k == <<a, d>>
           rec == [state |-> "Proposed", first |-> first, createdAt |-> now]
<1>1. /\ k \in Keys /\ first \in Nat /\ now \in Nat /\ BreachRounds \in Nat \ {0}
      /\ pending \in [Keys -> P!PendingSlashRecords]
  BY CollateralAssumption DEF ProviderInv, TypeOK, Keys
<1>2. /\ pending' = [pending EXCEPT ![k] = rec]
      /\ UNCHANGED <<bal, provider, bond, lastSlashed, executed>>
  BY DEF P!RecordBreach, P!registryVars
<1>3. first \in P!Streak(first)
  BY <1>1 DEF P!Streak
<1>4. first > lastSlashed[k]
  BY <1>3 DEF P!RecordBreach
<1>5. rec \in P!PendingSlashRecords /\ rec.first = first
  BY <1>1 DEF P!PendingSlashRecords
<1> HIDE DEF rec, k
<1>6. pending' \in [Keys -> P!PendingSlashRecords]
  BY <1>1, <1>2, <1>5
<1>7. SlashesSound'
  BY <1>1, <1>2, <1>4, <1>5 DEF SlashesSound, ProviderInv
<1>8. SlashingStep
  BY <1>2, <1>6, <1>7 DEF SlashingStep, ProviderInv, TypeOK, Keys
<1>9. HeldStep
  BY <1>2 DEF HeldStep, ProviderInv, TypeOK, P!BondRecords
<1> QED  BY <1>2, <1>8, <1>9, RegistryUnchanged DEF ProviderStep, ProviderInv

\* appeal_slash.
LEMMA AppealSlashStep ==
  ASSUME ProviderInv, NEW a \in Operators, NEW d \in Dimensions, P!AppealSlash(a, d)
  PROVE  ProviderStep
<1> DEFINE k == <<a, d>>
           rec == [pending[k] EXCEPT !.state = "Appealed"]
<1>1. k \in Keys /\ pending \in [Keys -> P!PendingSlashRecords] /\ pending[k].state # "None"
  BY CollateralAssumption DEF ProviderInv, TypeOK, Keys, P!AppealSlash
<1>2. /\ pending' = [pending EXCEPT ![k] = rec]
      /\ UNCHANGED <<bal, provider, bond, lastSlashed, executed>>
  BY DEF P!AppealSlash, P!registryVars
<1> HIDE DEF k
<1>3. pending[k] \in P!PendingSlashRecords /\ pending[k].first > lastSlashed[k]
  BY <1>1 DEF ProviderInv, SlashesSound
<1>4. rec \in P!PendingSlashRecords /\ rec.first = pending[k].first
  BY <1>3 DEF P!PendingSlashRecords
<1> HIDE DEF rec
<1>5. pending' \in [Keys -> P!PendingSlashRecords]
  BY <1>1, <1>2, <1>4
<1>6. SlashesSound'
  BY <1>1, <1>2, <1>3, <1>4 DEF SlashesSound, ProviderInv
<1>7. SlashingStep
  BY <1>2, <1>5, <1>6 DEF SlashingStep, ProviderInv, TypeOK, Keys
<1>8. HeldStep
  BY <1>2 DEF HeldStep, ProviderInv, TypeOK, P!BondRecords
<1> QED  BY <1>2, <1>7, <1>8, RegistryUnchanged DEF ProviderStep, ProviderInv

\* A consumed streak moves the watermark of its dimension above all of its rounds;
\* none of them was executed before, so executing it makes each count at most once.
LEMMA ConsumeStep ==
  ASSUME ProviderInv, NEW a \in Accounts, NEW d \in Dimensions,
         pending[<<a, d>>].state # "None", P!Consume(a, d),
         \/ UNCHANGED executed
         \/ executed' = [executed EXCEPT ![<<a, d>>] =
              [r \in RoundIds |-> IF r \in P!Streak(pending[<<a, d>>].first) THEN @[r] + 1 ELSE @[r]]]
  PROVE  SlashingStep /\ pending'[<<a, d>>].state = "None"
<1> DEFINE k == <<a, d>>
           first == pending[k].first
           last == first + BreachRounds - 1
<1>1. k \in Keys
  BY DEF Keys
<1>2. P!Watermark(a, d, first) = IF last > lastSlashed[k] THEN last ELSE lastSlashed[k]
  BY DEF P!Watermark
<1>3. /\ pending[k].state # "None"
      /\ lastSlashed' = [lastSlashed EXCEPT ![k] = P!Watermark(a, d, first)]
      /\ pending' = [pending EXCEPT ![k] = P!NoSlash]
  BY DEF P!Consume
<1>4. \/ UNCHANGED executed
      \/ executed' = [executed EXCEPT ![k] =
           [r \in RoundIds |-> IF r \in P!Streak(first) THEN @[r] + 1 ELSE @[r]]]
  OBVIOUS
<1>5. SUFFICES SlashingStep /\ pending'[k].state = "None"
  OBVIOUS
<1> HIDE DEF k
<1>6. /\ pending \in [Keys -> P!PendingSlashRecords]
      /\ lastSlashed \in [Keys -> Nat] /\ executed \in [Keys -> [RoundIds -> Nat]]
      /\ BreachRounds \in Nat \ {0} /\ RoundIds \subseteq Nat
  BY CollateralAssumption DEF ProviderInv, TypeOK, Keys
<1>7. first \in Nat /\ first > lastSlashed[k] /\ lastSlashed[k] \in Nat
  BY <1>1, <1>3, <1>6 DEF ProviderInv, SlashesSound, P!PendingSlashRecords
<1>8. P!Streak(first) = first .. last
  BY DEF P!Streak
<1> HIDE DEF first
<1>9. last \in Nat /\ last >= first /\ last > lastSlashed[k]
  BY <1>6, <1>7
<1> HIDE DEF last
<1>10. lastSlashed' = [lastSlashed EXCEPT ![k] = last]
  BY <1>2, <1>3, <1>9
<1>11. P!NoSlash \in P!PendingSlashRecords /\ P!NoSlash.state = "None"
  BY DEF P!NoSlash, P!PendingSlashRecords
<1>12. /\ pending' \in [Keys -> P!PendingSlashRecords] /\ pending'[k].state = "None"
       /\ lastSlashed' \in [Keys -> Nat] /\ lastSlashed'[k] = last
  BY <1>1, <1>3, <1>6, <1>9, <1>10, <1>11
<1>13. \A r \in RoundIds :
         /\ executed'[k][r] \in Nat /\ executed'[k][r] <= 1
         /\ executed'[k][r] > 0 => r <= last
  <2> TAKE r \in RoundIds
  <2>1. /\ executed[k][r] \in Nat /\ executed[k][r] <= 1 /\ r \in Nat
        /\ executed[k][r] > 0 => r <= lastSlashed[k]
    BY <1>1, <1>6 DEF ProviderInv, SlashesSound
  <2>2. CASE UNCHANGED executed
    BY <1>7, <1>9, <2>1, <2>2
  <2>3. CASE executed' = [executed EXCEPT ![k] =
               [q \in RoundIds |-> IF q \in P!Streak(first) THEN @[q] + 1 ELSE @[q]]]
    <3>1. executed'[k][r] = IF r \in first .. last THEN executed[k][r] + 1 ELSE executed[k][r]
      BY <1>1, <1>6, <1>8, <2>3
    <3> QED  BY <1>7, <1>9, <2>1, <3>1
  <2> QED  BY <1>4, <2>2, <2>3
<1>14. executed' \in [Keys -> [RoundIds -> Nat]]
  <2>1. CASE UNCHANGED executed
    BY <1>6, <2>1
  <2>2. CASE executed' = [executed EXCEPT ![k] =
               [r \in RoundIds |-> IF r \in P!Streak(first) THEN @[r] + 1 ELSE @[r]]]
    BY <1>1, <1>6, <2>2
  <2> QED  BY <1>4, <2>1, <2>2
<1>15. \A q \in Keys \ {k} : /\ executed'[q] = executed[q] /\ pending'[q] = pending[q]
                             /\ lastSlashed'[q] = lastSlashed[q]
  BY <1>3, <1>4, <1>6, <1>10
<1>16. SlashesSound'
  BY <1>12, <1>13, <1>15 DEF SlashesSound, ProviderInv
<1> QED  BY <1>12, <1>14, <1>16 DEF SlashingStep

\* slash_bond: it shrinks the bond only as a pending slash is cleared, and by no
\* more than one slash.
LEMMA SlashBondStep ==
  ASSUME ProviderInv, NEW a \in Accounts, P!SlashBond(a),
         \E e \in Dimensions : pending[<<a, e>>].state # "None" /\ pending'[<<a, e>>].state = "None"
  PROVE  RegistryStep /\ HeldStep
<1> DEFINE slashed == P!Least(ProviderSlashAmount, bal[a].held)
           left == bond[a].stake - P!Least(bond[a].stake, slashed)
           rec == [bond[a] EXCEPT !.stake = left]
<1>1. /\ bal \in Bal /\ bond \in [Accounts -> P!BondRecords] /\ bond[a] \in P!BondRecords
      /\ provider \in [Accounts -> P!ProviderStatuses \union {"None"}]
      /\ ProviderSlashAmount \in Nat
  BY CollateralAssumption DEF ProviderInv, TypeOK, Bal
<1>2. CASE UNCHANGED <<bal, bond, provider>>
  <2>1. HeldStep
    BY <1>2 DEF HeldStep, ProviderInv, TypeOK, P!BondRecords
  <2> QED  BY <1>2, <2>1, RegistryUnchanged DEF ProviderInv
<1>3. CASE ~UNCHANGED <<bal, bond, provider>>
  <2>1. /\ bal' = P!SlashReserved(bal, a, ProviderSlashAmount)
        /\ bond' = [bond EXCEPT ![a].stake = left]
        /\ provider' = [provider EXCEPT ![a] =
             IF left < ProviderMinStake /\ @ = "Active" THEN "Suspended" ELSE @]
        /\ bond[a].status # "None"
    BY <1>3 DEF P!SlashBond
  <2>2. slashed \in Nat /\ slashed <= ProviderSlashAmount /\ bond[a].stake \in Nat
    BY <1>1 DEF P!Least, P!BondRecords, Bal
  <2> HIDE DEF slashed
  <2>3. left \in Nat /\ bond[a].stake <= left + ProviderSlashAmount
    BY <1>1, <2>2 DEF P!Least
  <2>4. bond' = [bond EXCEPT ![a] = rec]
    BY <2>1
  <2>5. provider' \in [Accounts -> P!ProviderStatuses \union {"None"}]
    BY <1>1, <2>1 DEF P!ProviderStatuses
  <2>6. bal' \in Bal
    BY <1>1, <2>1, ReservedType
  <2> HIDE DEF left
  <2>7. rec \in P!BondRecords /\ rec.status = bond[a].status /\ rec.stake = left
    BY <1>1, <2>3 DEF P!BondRecords
  <2> HIDE DEF rec
  <2>8. bond[a].stake <= rec.stake + ProviderSlashAmount
    BY <2>3, <2>7
  <2> QED  BY <2>1, <2>4, <2>5, <2>6, <2>7, <2>8, BondChange DEF ProviderInv
<1> QED  BY <1>2, <1>3

\* execute_slash and resolve_slash_appeal.
LEMMA ExecutedStep ==
  ASSUME ProviderInv, NEW a \in Operators, NEW d \in Dimensions,
         P!ExecuteSlash(a, d) \/ \E uphold \in BOOLEAN : P!ResolveSlashAppeal(a, d, uphold)
  PROVE  ProviderStep
<1>1. /\ pending[<<a, d>>].state # "None" /\ P!Consume(a, d)
      /\ P!DoExecute(a, d) \/ UNCHANGED <<bal, provider, bond, executed>>
  BY DEF P!ExecuteSlash, P!ResolveSlashAppeal, P!registryVars
<1>2. a \in Accounts
  BY CollateralAssumption
<1>3. SlashingStep /\ pending'[<<a, d>>].state = "None"
  BY <1>1, <1>2, ConsumeStep DEF P!DoExecute
<1>4. RegistryStep /\ HeldStep
  <2>1. CASE P!DoExecute(a, d)
    BY <1>1, <1>2, <1>3, <2>1, SlashBondStep DEF P!DoExecute
  <2>2. CASE UNCHANGED <<bal, provider, bond, executed>>
    <3>1. HeldStep
      BY <2>2 DEF HeldStep, ProviderInv, TypeOK, P!BondRecords
    <3> QED  BY <2>2, <3>1, RegistryUnchanged DEF ProviderInv
  <2> QED  BY <1>1, <2>1, <2>2
<1> QED  BY <1>3, <1>4 DEF ProviderStep

\* Every call of pallet-provider-registry and pallet-provider-slashing.
LEMMA ProviderSteps ==
  ASSUME ProviderInv, NEW p \in Operators, Providers(p)
  PROVE  ProviderStep
BY StatusStep, BondStakeStep, RequestUnbondStep, WithdrawBondStep, RecordBreachStep,
   AppealSlashStep, ExecutedStep DEF Providers

-----------------------------------------------------------------------------
(* The inductive invariant. *)

Inv ==
  /\ TypeOK
  /\ EscrowsSound
  /\ CountIsExact
  /\ NoSecondBilledTwice
  /\ OneRole
  /\ ActiveSetAgrees
  /\ SlashesSound

\* The invariant holds at genesis.
LEMMA InitInv == Init => Inv
<1> SUFFICES ASSUME Init PROVE Inv
  OBVIOUS
<1> USE CollateralAssumption DEF Init, E!Init, V!Init, P!Init
<1>1. /\ E!NoEscrow \in E!EscrowRecords /\ E!NoEscrow.charged <= E!NoEscrow.max
      /\ Sound(E!NoEscrow) /\ E!NoEscrow.payer = None /\ E!NoEscrow.periodEnd = 0
  BY DEF E!NoEscrow, E!EscrowRecords, E!EscrowStates, Sound
<1>2. /\ V!NoValidator \in V!ValidatorRecords /\ V!NoValidator.status = "None"
      /\ P!NoBond \in P!BondRecords /\ P!NoBond.status = "None"
      /\ P!NoSlash \in P!PendingSlashRecords /\ P!NoSlash.state = "None"
  BY DEF V!NoValidator, V!ValidatorRecords, V!ValidatorStatuses, P!NoBond, P!BondRecords,
         P!NoSlash, P!PendingSlashRecords
<1>3. \A l \in Leases : escrow[l] = E!NoEscrow
  OBVIOUS
<1>4. \A a \in Accounts : OpenEscrows(a) = {}
  BY <1>1, <1>3 DEF OpenEscrows
<1>5. TypeOK
  <2>1. bal \in [Accounts -> [free : Nat, held : Nat]]
    OBVIOUS
  <2>2. provider \in [Accounts -> P!ProviderStatuses \union {"None"}]
    BY DEF P!ProviderStatuses
  <2>3. /\ escrow \in [Leases -> E!EscrowRecords] /\ openCount \in [Accounts -> Nat]
        /\ billed \in [Leases -> Nat] /\ lastSlashed \in [Accounts \X Dimensions -> Nat]
        /\ executed \in [Accounts \X Dimensions -> [RoundIds -> Nat]] /\ now \in 0 .. MaxBlock
        /\ feeBps \in 0 .. MaxFeeBasisPoints /\ activeSet \in SUBSET Accounts
    BY <1>1
  <2>4. /\ validator \in [Accounts -> V!ValidatorRecords]
        /\ bond \in [Accounts -> P!BondRecords]
        /\ pending \in [Accounts \X Dimensions -> P!PendingSlashRecords]
    BY <1>2
  <2> QED  BY <1>1, <1>3, <2>1, <2>2, <2>3, <2>4 DEF TypeOK
<1>6. EscrowsSound
  BY <1>1, <1>3 DEF EscrowsSound
<1>7. CountIsExact
  <2>1. \A a \in Accounts : openCount[a] = 0
    OBVIOUS
  <2>2. ASSUME NEW a \in Accounts PROVE openCount[a] = Cardinality(OpenEscrows(a))
    <3>1. Cardinality(OpenEscrows(a)) = 0 <=> OpenEscrows(a) = {}
      BY OpensFinite
    <3>2. Cardinality(OpenEscrows(a)) = 0
      BY <1>4, <3>1
    <3> QED  BY <2>1, <3>2
  <2> QED  BY <2>2 DEF CountIsExact
<1>8. NoSecondBilledTwice
  BY <1>1, <1>3 DEF NoSecondBilledTwice
<1>9. OneRole
  BY <1>2, <1>4 DEF OneRole
<1>10. ActiveSetAgrees
  BY <1>2 DEF ActiveSetAgrees, V!IsActive
<1>11. SlashesSound
  BY <1>2 DEF SlashesSound, Keys
<1> QED  BY <1>5, <1>6, <1>7, <1>8, <1>9, <1>10, <1>11 DEF Inv

\* A call of pallet-escrow, governance included, preserves the invariant.
LEMMA EscrowSteps ==
  ASSUME Inv, (\E l \in Leases : Escrows(l)) \/ Governance,
         UNCHANGED <<now, validatorVars, providerVars>>
  PROVE  Inv' /\ FinalStep /\ HeldStep
<1>1. EscrowInv
  BY DEF Inv, EscrowInv
<1>2. EscrowStep
  <2>1. ASSUME NEW l \in Leases, Escrows(l) PROVE EscrowStep
    BY <1>1, <2>1, FundEscrowStep, CompleteAndPayoutStep, StreamSettleStep, RefundEscrowStep,
       DisputeEscrowStep, ResolvePayProviderStep, ResolveRefundPayerStep DEF Escrows
  <2>2. ASSUME Governance PROVE EscrowStep
    <3>1. UNCHANGED <<bal, escrow, openCount, billed>>
      BY <2>2 DEF Governance, E!SetPaused, E!SetFeeBasisPoints, E!SetTreasuryAccount
    <3>2. feeBps' \in 0 .. MaxFeeBasisPoints
      BY <1>1, <2>2, CollateralAssumption
         DEF Governance, E!SetPaused, E!SetFeeBasisPoints, E!SetTreasuryAccount, EscrowInv, TypeOK
    <3>3. FinalStep
      BY <1>1, <3>1 DEF FinalStep, EscrowInv, TypeOK, E!EscrowRecords, E!StillReserved
    <3>4. \A a \in Accounts : OpenEscrows(a)' = OpenEscrows(a)
      BY <3>1 DEF OpenEscrows, E!StillReserved
    <3>5. CountIsExact' /\ EscrowsSound' /\ NoSecondBilledTwice'
      BY <1>1, <3>1, <3>4 DEF EscrowInv, CountIsExact, EscrowsSound, Sound, NoSecondBilledTwice
    <3> QED  BY <1>1, <3>1, <3>2, <3>3, <3>4, <3>5
             DEF EscrowStep, EscrowType, EscrowInv, TypeOK, Bal
  <2> QED  BY <2>1, <2>2
<1>3. /\ UNCHANGED <<now, validator, activeSet, provider, bond, pending, lastSlashed, executed>>
  BY DEF validatorVars, providerVars
<1>4. TypeOK'
  BY <1>2, <1>3 DEF EscrowStep, EscrowType, Inv, TypeOK, Bal
<1>5. OneRole'
  BY <1>2, <1>3 DEF EscrowStep, Inv, OneRole
<1>6. ActiveSetAgrees' /\ SlashesSound'
  BY <1>3 DEF Inv, ActiveSetAgrees, V!IsActive, SlashesSound
<1>7. HeldStep
  BY <1>3 DEF Inv, TypeOK, HeldStep, P!BondRecords
<1> QED  BY <1>2, <1>4, <1>5, <1>6, <1>7 DEF Inv, EscrowStep

\* While pallet-escrow's storage does not change, neither do its invariants.
LEMMA EscrowUnchanged ==
  ASSUME Inv, UNCHANGED escrowVars
  PROVE  /\ EscrowType' /\ EscrowsSound' /\ CountIsExact' /\ NoSecondBilledTwice' /\ FinalStep
         /\ \A a \in Accounts : OpenEscrows(a)' = OpenEscrows(a)
<1>1. UNCHANGED <<escrow, openCount, feeBps, billed>>
  BY DEF escrowVars
<1>2. \A a \in Accounts : OpenEscrows(a)' = OpenEscrows(a)
  BY <1>1 DEF OpenEscrows, E!StillReserved
<1>3. CountIsExact' /\ EscrowsSound' /\ NoSecondBilledTwice' /\ EscrowType'
  BY <1>1, <1>2 DEF Inv, TypeOK, EscrowType, CountIsExact, EscrowsSound, Sound,
                    NoSecondBilledTwice
<1>4. FinalStep
  BY <1>1 DEF FinalStep, Inv, TypeOK, E!EscrowRecords, E!StillReserved
<1> QED  BY <1>2, <1>3, <1>4

\* What the guards of the other pallets conclude from PayerOpenEscrowCount.
LEMMA NoOpenEscrow ==
  ASSUME Inv, NEW a \in Accounts, openCount[a] = 0
  PROVE  OpenEscrows(a) = {}
BY OpensFinite DEF Inv, CountIsExact

\* Every step preserves the invariant, is final for what is settled and keeps the
\* bond of a pending slash.
LEMMA NextInv ==
  ASSUME Inv, [Next]_vars
  PROVE  Inv' /\ [FinalStep]_vars /\ [HeldStep]_vars
<1>1. CASE ((\E l \in Leases : Escrows(l)) \/ Governance)
           /\ UNCHANGED <<now, validatorVars, providerVars>>
  BY <1>1, EscrowSteps
<1>2. CASE /\ (\E v \in Candidates : Validators(v))
                \/ (\E p \in Operators, r \in RoundIds, d \in Dimensions : Rounds(p, r, d))
           /\ UNCHANGED <<now, escrowVars, providerVars>>
  <2>1. ValidatorStep
    BY <1>2, ValidatorSteps DEF Inv, ValidatorInv
  <2>2. UNCHANGED <<now, provider, bond, pending, lastSlashed, executed>>
    BY <1>2 DEF providerVars
  <2>3. /\ EscrowType' /\ EscrowsSound' /\ CountIsExact' /\ NoSecondBilledTwice' /\ FinalStep
        /\ \A a \in Accounts : OpenEscrows(a)' = OpenEscrows(a)
    BY <1>2, EscrowUnchanged
  <2>4. TypeOK'
    BY <2>1, <2>2, <2>3 DEF ValidatorStep, EscrowType, Inv, TypeOK, Bal
  <2>5. OneRole'
    BY <2>1, <2>2, <2>3, NoOpenEscrow DEF ValidatorStep, Inv, OneRole
  <2>6. SlashesSound' /\ HeldStep
    BY <2>2 DEF Inv, TypeOK, SlashesSound, HeldStep, P!BondRecords
  <2> QED  BY <2>1, <2>3, <2>4, <2>5, <2>6 DEF ValidatorStep, Inv
<1>3. CASE (\E p \in Operators : Providers(p)) /\ UNCHANGED <<now, escrowVars, validatorVars>>
  <2>1. ProviderStep
    BY <1>3, ProviderSteps DEF Inv, ProviderInv
  <2>2. UNCHANGED <<now, validator, activeSet>>
    BY <1>3 DEF validatorVars
  <2>3. /\ EscrowType' /\ EscrowsSound' /\ CountIsExact' /\ NoSecondBilledTwice' /\ FinalStep
        /\ \A a \in Accounts : OpenEscrows(a)' = OpenEscrows(a)
    BY <1>3, EscrowUnchanged
  <2>4. TypeOK'
    BY <2>1, <2>2, <2>3
       DEF ProviderStep, RegistryStep, SlashingStep, EscrowType, Inv, TypeOK, Bal, Keys
  <2>5. OneRole'
    BY <2>1, <2>2, <2>3, NoOpenEscrow DEF ProviderStep, RegistryStep, Inv, OneRole
  <2>6. ActiveSetAgrees'
    BY <2>2 DEF Inv, ActiveSetAgrees, V!IsActive
  <2> QED  BY <2>1, <2>3, <2>4, <2>5, <2>6 DEF ProviderStep, SlashingStep, Inv
<1>4. CASE Tick \/ UNCHANGED vars
  <2>1. /\ UNCHANGED <<bal, validator, activeSet, provider, bond, pending, lastSlashed, executed>>
        /\ UNCHANGED escrowVars /\ now' \in 0 .. MaxBlock
    BY <1>4, CollateralAssumption DEF Tick, vars, validatorVars, providerVars, Inv, TypeOK
  <2>2. /\ EscrowType' /\ EscrowsSound' /\ CountIsExact' /\ NoSecondBilledTwice' /\ FinalStep
        /\ \A a \in Accounts : OpenEscrows(a)' = OpenEscrows(a)
    BY <2>1, EscrowUnchanged
  <2>3. TypeOK'
    BY <2>1, <2>2 DEF EscrowType, Inv, TypeOK
  <2>4. OneRole' /\ ActiveSetAgrees' /\ SlashesSound'
    BY <2>1, <2>2 DEF Inv, OneRole, ActiveSetAgrees, V!IsActive, SlashesSound
  <2>5. HeldStep
    BY <2>1 DEF Inv, TypeOK, HeldStep, P!BondRecords
  <2> QED  BY <2>2, <2>3, <2>4, <2>5 DEF Inv
<1> QED  BY <1>1, <1>2, <1>3, <1>4 DEF Next

\* The inductive invariant holds in every reachable state of the three pallets.
THEOREM InvHolds == Spec => []Inv
BY InitInv, NextInv, PTL DEF Spec

\* Every storage item of the three pallets keeps its type, and no escrow is
\* charged above the cap its payer agreed to.
THEOREM CollateralTypeCorrect == Spec => []TypeOK
<1>1. Inv => TypeOK
  BY DEF Inv
<1> QED  BY <1>1, InvHolds, PTL

\* PayerOpenEscrowCount is the number of the payer's open escrows, for any
\* number of leases and accounts.
THEOREM CountHolds == Spec => []CountIsExact
<1>1. Inv => CountIsExact
  BY DEF Inv
<1> QED  BY <1>1, InvHolds, PTL

\* ADR-036: no account ever holds two of the roles escrow payer, registered
\* validator and bonded provider, so untagged reservations are never shared.
THEOREM OneRoleHolds == Spec => []OneRole
<1>1. Inv => OneRole
  BY DEF Inv
<1> QED  BY <1>1, InvHolds, PTL

\* verify_and_charge never charges for a metered second twice.
THEOREM BilledOnce == Spec => []NoSecondBilledTwice
<1>1. Inv => NoSecondBilledTwice
  BY DEF Inv
<1> QED  BY <1>1, InvHolds, PTL

\* ActiveValidatorSet is exactly the set of the validators whose status is Active.
THEOREM ActiveSetHolds == Spec => []ActiveSetAgrees
<1>1. Inv => ActiveSetAgrees
  BY DEF Inv
<1> QED  BY <1>1, InvHolds, PTL

\* No round of a dimension is consumed by two executed slashes of a provider.
THEOREM SlashedOnce == Spec => []NoRoundSlashedTwice
<1>1. Inv => NoRoundSlashedTwice
  BY DEF Inv, SlashesSound, NoRoundSlashedTwice, Keys
<1> QED  BY <1>1, InvHolds, PTL

\* An escrow is disputed once: its verdict is final, and released money stays
\* released.
THEOREM SettlementHolds == Spec => SettlementIsFinal
<1>1. Inv /\ [Next]_vars => [FinalStep]_vars
  BY NextInv
<1> QED  BY <1>1, InvHolds, PTL DEF Spec, SettlementIsFinal

\* While a slash stays pending, the bond it is against neither leaves nor begins to,
\* and only the executed slash of another dimension takes from it.
THEOREM BondHolds == Spec => PendingSlashHoldsBond
<1>1. Inv /\ [Next]_vars => [HeldStep]_vars
  BY NextInv
<1> QED  BY <1>1, InvHolds, PTL DEF Spec, PendingSlashHoldsBond
-----------------------------------------------------------------------------
(* What is reserved. *)

\* Who has no role has no stake in it.
RolesHoldStake == \A a \in Accounts :
  /\ validator[a].status = "None" => validator[a].stake = 0
  /\ bond[a].status = "None" => bond[a].stake = 0

ReservedInv == ReservedIsExplained /\ RolesHoldStake

UnitsOf(f, S) == UNION {{l} \X (1 .. f[l]) : l \in S}

\* Finitely many reservations are finitely many units.
LEMMA UnitsFinite ==
  ASSUME NEW f \in [Leases -> Nat], NEW S \in SUBSET Leases
  PROVE  IsFiniteSet(UnitsOf(f, S)) /\ Cardinality(UnitsOf(f, S)) \in Nat
<1> DEFINE C == {{l} \X (1 .. f[l]) : l \in S}
           g == [l \in S |-> {l} \X (1 .. f[l])]
<1>1. IsFiniteSet(S)
  BY CollateralAssumption, FS_Subset
<1>2. g \in Surjection(S, C)
  BY DEF Surjection
<1>3. IsFiniteSet(C)
  BY <1>1, <1>2, FS_Surjection
<1>4. ASSUME NEW X \in C PROVE IsFiniteSet(X)
  <2>1. PICK l \in S : X = {l} \X (1 .. f[l])
    OBVIOUS
  <2>2. 1 \in Int /\ f[l] \in Int
    OBVIOUS
  <2>3. IsFiniteSet({l}) /\ IsFiniteSet(1 .. f[l])
    BY <2>2, FS_Singleton, FS_Interval
  <2> QED  BY <2>1, <2>3, FS_Product
<1>5. IsFiniteSet(UnitsOf(f, S))
  BY <1>3, <1>4, FS_UNION DEF UnitsOf
<1> QED  BY <1>5, FS_CardinalityType

\* The reservations of two sets of units without one in common add up.
LEMMA UnitsSplit ==
  ASSUME NEW f \in [Leases -> Nat], NEW S \in SUBSET Leases, NEW l \in S
  PROVE  Cardinality(UnitsOf(f, S)) = Cardinality(UnitsOf(f, S \ {l})) + f[l]
<1> DEFINE k == f[l]
           U == {l} \X (1 .. k)
           R == UnitsOf(f, S \ {l})
<1>1. UnitsOf(f, S) = R \cup U
  BY DEF UnitsOf
<1>2. R \cap U = {}
  BY DEF UnitsOf
<1>3. k \in Nat /\ 1 \in Int /\ k \in Int
  OBVIOUS
<1> HIDE DEF k
<1>4. IsFiniteSet({l}) /\ Cardinality({l}) = 1
  BY FS_Singleton
<1>5. IsFiniteSet(1 .. k) /\ Cardinality(1 .. k) = k
  BY <1>3, FS_Interval
<1>6. IsFiniteSet(U) /\ Cardinality(U) = k
  <2>1. IsFiniteSet(U) /\ Cardinality(U) = Cardinality({l}) * Cardinality(1 .. k)
    BY <1>4, <1>5, FS_Product
  <2> QED  BY <1>3, <1>4, <1>5, <2>1
<1>7. IsFiniteSet(R) /\ Cardinality(R) \in Nat
  BY UnitsFinite
<1> HIDE DEF U, R
<1>8. Cardinality(R \cup U) = Cardinality(R) + Cardinality(U) - Cardinality(R \cap U)
  BY <1>6, <1>7, FS_Union
<1>9. Cardinality(R \cap U) = 0
  BY <1>2, FS_EmptySet
<1>10. Cardinality(R \cup U) = Cardinality(R) + k
  BY <1>3, <1>6, <1>7, <1>8, <1>9
<1> QED  BY <1>1, <1>10 DEF R, k

\* An account's part in one escrow.
Share(a, l) == IF l \in OpenEscrows(a) THEN E!Remaining(escrow[l]) ELSE 0

\* What an account owes is its part in one escrow and what is left without it.
Rest(a, l) == UNION {{k} \X (1 .. E!Remaining(escrow[k])) : k \in OpenEscrows(a) \ {l}}

\* What an account owes is what it owes for one lease and what it owes for the rest.
LEMMA OwedSplit ==
  ASSUME TypeOK, NEW l \in Leases, NEW a \in Accounts
  PROVE  /\ Share(a, l) \in Nat /\ Cardinality(Rest(a, l)) \in Nat
         /\ Cardinality(Owed(a)) = Cardinality(Rest(a, l)) + Share(a, l)
<1> DEFINE f == [k \in Leases |-> E!Remaining(escrow[k])]
           S == OpenEscrows(a)
<1>1. S \in SUBSET Leases
  BY DEF OpenEscrows
<1>2. f \in [Leases -> Nat]
  BY DEF TypeOK, E!EscrowRecords, E!Remaining
<1>3. \A k \in S : {k} \X (1 .. E!Remaining(escrow[k])) = {k} \X (1 .. f[k])
  BY <1>1
<1>4. Owed(a) = UnitsOf(f, S)
  BY <1>3 DEF Owed, UnitsOf
<1>5. Rest(a, l) = UnitsOf(f, S \ {l})
  BY <1>3 DEF Rest, UnitsOf
<1>6. f[l] = E!Remaining(escrow[l])
  OBVIOUS
<1> HIDE DEF f, S
<1>7. S \ {l} \in SUBSET Leases /\ Cardinality(UnitsOf(f, S \ {l})) \in Nat
  BY <1>1, <1>2, UnitsFinite
<1>8. CASE l \in S
  <2>1. Share(a, l) = f[l] /\ f[l] \in Nat
    BY <1>2, <1>6, <1>8 DEF Share, S
  <2>2. Cardinality(UnitsOf(f, S)) = Cardinality(UnitsOf(f, S \ {l})) + f[l]
    BY <1>1, <1>2, <1>8, UnitsSplit
  <2> QED  BY <1>4, <1>5, <1>7, <2>1, <2>2
<1>9. CASE l \notin S
  <2>1. Share(a, l) = 0 /\ S \ {l} = S
    BY <1>9 DEF Share, S
  <2> QED  BY <1>4, <1>5, <1>7, <2>1
<1> QED  BY <1>8, <1>9

\* The units of one lease and those of the rest.
IsSplit(a, l) == Cardinality(Owed(a)) = Cardinality(Rest(a, l)) + Share(a, l) /\ Share(a, l) \in Nat

\* OwedSplit holds after a step too.
LEMMA OwedSplitNext ==
  ASSUME NEW l \in Leases, NEW a \in Accounts
  PROVE  TypeOK' => IsSplit(a, l)'
<1>1. TypeOK => IsSplit(a, l)
  BY OwedSplit DEF IsSplit
<1> QED  BY <1>1, PTL

\* A change of one escrow changes what an account owes by its part in it.
LEMMA EscrowMoves ==
  ASSUME TypeOK, TypeOK', ReservedInv, NEW l \in Leases,
         \A k \in Leases \ {l} : escrow'[k] = escrow[k],
         UNCHANGED <<validator, bond>>,
         \A a \in Accounts : bal'[a].held + Share(a, l) = bal[a].held + Share(a, l)'
  PROVE  ReservedInv'
<1>1. ASSUME NEW a \in Accounts PROVE bal'[a].held = Cardinality(Owed(a)') + validator[a].stake + bond[a].stake
  <2>1. OpenEscrows(a) \ {l} = OpenEscrows(a)' \ {l}
    BY DEF OpenEscrows
  <2>2. \A k \in OpenEscrows(a) \ {l} : escrow'[k] = escrow[k]
    BY DEF OpenEscrows
  <2>3. Rest(a, l)' = Rest(a, l)
    BY <2>1, <2>2 DEF Rest, E!Remaining
  <2>4. /\ Cardinality(Owed(a)) = Cardinality(Rest(a, l)) + Share(a, l) /\ Share(a, l) \in Nat
        /\ Cardinality(Rest(a, l)) \in Nat
    BY OwedSplit
  <2>5. Cardinality(Owed(a)') = Cardinality(Rest(a, l)') + Share(a, l)' /\ Share(a, l)' \in Nat
    BY OwedSplitNext DEF IsSplit
  <2>6. bal[a].held = Cardinality(Owed(a)) + validator[a].stake + bond[a].stake
    BY DEF ReservedInv, ReservedIsExplained
  <2>7. bal[a].held \in Nat /\ bal'[a].held \in Nat /\ validator[a].stake \in Nat /\ bond[a].stake \in Nat
    BY DEF TypeOK, V!ValidatorRecords, P!BondRecords
  <2>8. bal'[a].held + Share(a, l) = bal[a].held + Share(a, l)'
    OBVIOUS
  <2>9. Cardinality(Owed(a)') = Cardinality(Rest(a, l)) + Share(a, l)'
    BY <2>3, <2>5, Zenon
  <2> QED  BY <2>4, <2>5, <2>6, <2>7, <2>8, <2>9
<1>2. ReservedIsExplained'
  BY <1>1 DEF ReservedIsExplained
<1>3. RolesHoldStake'
  BY DEF ReservedInv, RolesHoldStake
<1> QED  BY <1>2, <1>3 DEF ReservedInv

\* What a payout or a release takes off the reservation of one account.
Taken(b, c, p, v) ==
  c[p].held = b[p].held - v /\ \A a \in Accounts \ {p} : c[a].held = b[a].held

\* unreserve and repatriate_reserved move what is asked for when it is held.
LEMMA MovesAreTaken ==
  ASSUME NEW b \in Bal, NEW p \in Accounts, NEW to, NEW v \in Nat, v <= b[p].held
  PROVE  /\ Taken(b, E!Unreserve(b, p, v), p, v)
         /\ Taken(b, E!Repatriate(b, p, to, v), p, v)
<1>1. E!Least(v, b[p].held) = v
  BY DEF E!Least
<1>2. Taken(b, E!Unreserve(b, p, v), p, v)
  BY <1>1 DEF E!Unreserve, Taken, Bal
<1> DEFINE taken == [b EXCEPT ![p].held = @ - v]
<1>3. taken \in [Accounts -> [free : Nat, held : Nat]] /\ Taken(b, taken, p, v)
  BY DEF Bal, Taken
<1>4. E!Repatriate(b, p, to, v) = [taken EXCEPT ![to].free = @ + v]
  BY <1>1 DEF E!Repatriate
<1> HIDE DEF taken
<1>5. \A a \in Accounts : [taken EXCEPT ![to].free = @ + v][a].held = taken[a].held
  BY <1>3
<1> QED  BY <1>2, <1>3, <1>4, <1>5 DEF Taken

\* What is taken twice of one account is taken in sum.
LEMMA TakenTwice ==
  ASSUME NEW b \in Bal, NEW c, NEW d, NEW p \in Accounts, NEW v \in Nat, NEW w \in Nat,
         Taken(b, c, p, v), Taken(c, d, p, w)
  PROVE  Taken(b, d, p, v + w)
BY DEF Taken, Bal

\* A payout takes its amount, fee included, off the payer's reservation.
LEMMA PaidIsTaken ==
  ASSUME bal \in Bal, feeBps \in 0 .. MaxFeeBasisPoints, NEW amount \in Nat,
         NEW e, e.payer \in Accounts, amount <= bal[e.payer].held
  PROVE  Taken(bal, E!Paid(e, amount), e.payer, amount) /\ E!Paid(e, amount) \in Bal
<1> DEFINE fee == E!Fee(amount)
           b == E!Repatriate(bal, e.payer, e.provider, amount - fee)
           p == e.payer
<1>1. fee \in Nat /\ amount - fee \in Nat /\ fee <= amount /\ bal[p].held \in Nat
  BY FeeType DEF Bal
<1>2. b \in Bal /\ Taken(bal, b, p, amount - fee)
  BY <1>1, RepatriateType, MovesAreTaken
<1>3. E!Paid(e, amount) = IF fee = 0 THEN b ELSE E!Repatriate(b, p, treasury, fee)
  BY DEF E!Paid
<1> HIDE DEF fee, b, p
<1>4. CASE fee = 0
  <2>1. amount - fee = amount
    BY <1>4
  <2> QED  BY <1>2, <1>3, <1>4, <2>1, PaidType DEF p
<1>5. CASE fee # 0
  <2>1. fee <= b[p].held
    <3>1. amount <= bal[p].held
      BY DEF p
    <3>2. b[p].held = bal[p].held - (amount - fee)
      BY <1>2 DEF Taken
    <3> QED  BY <1>1, <3>1, <3>2
  <2>2. Taken(b, E!Repatriate(b, p, treasury, fee), p, fee)
    BY <1>1, <1>2, <2>1, MovesAreTaken DEF p
  <2>3. Taken(bal, E!Paid(e, amount), p, (amount - fee) + fee)
    <3>1. p \in Accounts
      BY DEF p
    <3>2. E!Paid(e, amount) = E!Repatriate(b, p, treasury, fee)
      BY <1>3, <1>5
    <3> QED  BY <1>1, <1>2, <2>2, <3>1, <3>2, TakenTwice
  <2>4. (amount - fee) + fee = amount
    BY <1>1
  <2> QED  BY <2>3, <2>4, PaidType DEF p
<1> QED  BY <1>4, <1>5

\* The reservation of a payer covers each of its open escrows.
LEMMA HeldCovers ==
  ASSUME TypeOK, ReservedInv, NEW l \in Leases, escrow[l].payer \in Accounts, E!StillReserved(escrow[l])
  PROVE  E!Remaining(escrow[l]) <= bal[escrow[l].payer].held /\ E!Remaining(escrow[l]) \in Nat
<1> DEFINE p == escrow[l].payer
<1>1. Share(p, l) = E!Remaining(escrow[l])
  BY DEF Share, OpenEscrows
<1>2. /\ Cardinality(Owed(p)) = Cardinality(Rest(p, l)) + Share(p, l) /\ Share(p, l) \in Nat
      /\ Cardinality(Rest(p, l)) \in Nat
  BY OwedSplit
<1>3. /\ bal[p].held = Cardinality(Owed(p)) + validator[p].stake + bond[p].stake
      /\ validator[p].stake \in Nat /\ bond[p].stake \in Nat
  BY DEF ReservedInv, ReservedIsExplained, TypeOK, V!ValidatorRecords, P!BondRecords
<1> QED  BY <1>1, <1>2, <1>3

\* A call that takes of an open escrow what it no longer owes.
LEMMA TakenStep ==
  ASSUME TypeOK, TypeOK', ReservedInv, NEW l \in Leases, NEW v \in Nat,
         escrow[l].payer \in Accounts, E!StillReserved(escrow[l]),
         \A k \in Leases \ {l} : escrow'[k] = escrow[k],
         escrow'[l].payer = escrow[l].payer, Taken(bal, bal', escrow[l].payer, v),
         \/ ~E!StillReserved(escrow'[l]) /\ v = E!Remaining(escrow[l])
         \/ E!StillReserved(escrow'[l]) /\ E!Remaining(escrow'[l]) = E!Remaining(escrow[l]) - v,
         UNCHANGED <<validator, bond>>
  PROVE  ReservedInv'
<1> DEFINE p == escrow[l].payer
<1>1. \A a \in Accounts : Share(a, l) = IF a = p THEN E!Remaining(escrow[l]) ELSE 0
  BY DEF Share, OpenEscrows
<1>2. \A a \in Accounts : Share(a, l)' = IF a = p /\ E!StillReserved(escrow'[l]) THEN E!Remaining(escrow'[l]) ELSE 0
  BY DEF Share, OpenEscrows, E!StillReserved, E!Remaining
<1>3. E!Remaining(escrow[l]) \in Nat
  BY HeldCovers
<1>4. \A a \in Accounts : bal[a].held \in Nat /\ bal'[a].held \in Nat
  BY DEF TypeOK
<1>5. ASSUME NEW a \in Accounts PROVE bal'[a].held + Share(a, l) = bal[a].held + Share(a, l)'
  <2>1. CASE a = p
    BY <1>1, <1>2, <1>3, <1>4, <2>1 DEF Taken
  <2>2. CASE a # p
    BY <1>1, <1>2, <1>4, <2>2 DEF Taken
  <2> QED  BY <2>1, <2>2
<1> QED  BY <1>5, EscrowMoves

\* A call on an escrow that owes nothing any more, before and after.
LEMMA SettledStep ==
  ASSUME TypeOK, TypeOK', ReservedInv, NEW l \in Leases,
         ~E!StillReserved(escrow[l]), ~E!StillReserved(escrow'[l]),
         \A k \in Leases \ {l} : escrow'[k] = escrow[k],
         UNCHANGED <<bal, validator, bond>>
  PROVE  ReservedInv'
<1>1. \A a \in Accounts : Share(a, l) = 0 /\ Share(a, l)' = 0
  BY DEF Share, OpenEscrows, E!StillReserved
<1>2. \A a \in Accounts : bal'[a].held + Share(a, l) = bal[a].held + Share(a, l)'
  BY <1>1
<1> QED  BY <1>2, EscrowMoves

\* Settling an escrow ends its reservation and leaves the others alone.
LEMMA SettleFacts ==
  ASSUME TypeOK, NEW l \in Leases, NEW e \in E!EscrowRecords, NEW state,
         escrow' = [escrow EXCEPT ![l] = [e EXCEPT !.state = state, !.settledAt = now]]
  PROVE  /\ \A k \in Leases \ {l} : escrow'[k] = escrow[k]
         /\ escrow'[l].payer = e.payer /\ ~E!StillReserved(escrow'[l])
<1>1. escrow \in [Leases -> E!EscrowRecords] /\ now # None
  BY CollateralAssumption DEF TypeOK
<1>2. escrow'[l] = [e EXCEPT !.state = state, !.settledAt = now]
  BY <1>1
<1> QED  BY <1>1, <1>2 DEF E!StillReserved, E!EscrowRecords

\* fund_escrow reserves what the new escrow owes.
LEMMA FundReserves ==
  ASSUME Inv, TypeOK', ReservedInv, NEW l \in Leases, NEW payer \in Payers, NEW p \in Payees, NEW max \in Caps,
         E!FundEscrow(l, payer, p, max), UNCHANGED <<validator, bond>>
  PROVE  ReservedInv'
<1> DEFINE e == [E!NoEscrow EXCEPT !.state = "Funded", !.payer = payer, !.provider = p,
                                   !.max = max, !.anchor = now]
<1>1. /\ escrow \in [Leases -> E!EscrowRecords] /\ bal \in Bal /\ payer \in Accounts /\ max \in Nat
      /\ escrow[l].payer = None /\ None \notin Accounts /\ TypeOK
  BY CollateralAssumption, SMTT(30) DEF Inv, TypeOK, EscrowsSound, Sound, E!FundEscrow, Bal
<1>2. e.payer = payer /\ e.settledAt = None /\ e.max = max /\ e.charged = 0
  BY DEF E!NoEscrow
<1>3. escrow' = [escrow EXCEPT ![l] = e] /\ bal' = E!Reserve(bal, payer, max)
  BY DEF E!FundEscrow
<1> HIDE DEF e
<1>4. escrow'[l] = e /\ \A k \in Leases \ {l} : escrow'[k] = escrow[k]
  BY <1>1, <1>3
<1>5. \A a \in Accounts : Share(a, l) = 0
  BY <1>1 DEF Share, OpenEscrows
<1>6. \A a \in Accounts : Share(a, l)' = IF a = payer THEN max ELSE 0
  BY <1>1, <1>2, <1>4 DEF Share, OpenEscrows, E!StillReserved, E!Remaining
<1>7. \A a \in Accounts : bal'[a].held = IF a = payer THEN bal[a].held + max ELSE bal[a].held
  BY <1>1, <1>3 DEF E!Reserve, Bal
<1>8. ASSUME NEW a \in Accounts PROVE bal'[a].held + Share(a, l) = bal[a].held + Share(a, l)'
  <2>1. bal[a].held \in Nat
    BY <1>1 DEF Bal
  <2> QED  BY <1>1, <1>5, <1>6, <1>7, <2>1
<1> QED  BY <1>1, <1>4, <1>8, EscrowMoves

\* complete_and_payout takes the charge and gives back the rest.
LEMMA PayoutTakes ==
  ASSUME Inv, TypeOK', ReservedInv, NEW l \in Leases, NEW ev \in E!Evidence, E!CompleteAndPayout(l, ev),
         UNCHANGED <<validator, bond>>
  PROVE  ReservedInv'
<1> DEFINE old == escrow[l]
           e == [E!Billed(old, ev) EXCEPT !.charged = @ + ev.charge]
           c == ev.charge
           back == E!Remaining(old) - c
           b == E!Paid(old, c)
<1>1. /\ old.state = "Funded" /\ E!Accepted(old, ev) /\ c <= E!Remaining(old) /\ E!CanPay(old, c)
      /\ back <= b[old.payer].held /\ bal' = E!Unreserve(b, old.payer, back)
      /\ E!Settle(l, e, "Completed")
  BY DEF E!CompleteAndPayout
<1>2. EscrowInv /\ TypeOK
  BY DEF Inv, EscrowInv
<1>3. /\ old \in E!EscrowRecords /\ old.payer \in Accounts /\ E!StillReserved(old) /\ bal \in Bal
      /\ feeBps \in 0 .. MaxFeeBasisPoints /\ c \in Nat
  BY <1>1, <1>2, FundedFacts, EvidenceType
<1>4. E!Remaining(old) \in Nat /\ back \in Nat
  BY <1>1, <1>2, <1>3, HeldCovers
<1>5. e \in E!EscrowRecords /\ e.payer = old.payer
  BY <1>1, <1>2, <1>3, BilledFacts
<1> HIDE DEF e
<1>6. Taken(bal, b, old.payer, c) /\ b \in Bal
  BY <1>1, <1>3, PaidIsTaken DEF E!CanPay
<1> HIDE DEF b, back, c
<1>7. Taken(b, bal', old.payer, back)
  BY <1>1, <1>3, <1>4, <1>6, MovesAreTaken
<1>8. Taken(bal, bal', old.payer, E!Remaining(old))
  <2>1. Taken(bal, bal', old.payer, c + back)
    BY <1>3, <1>4, <1>6, <1>7, TakenTwice
  <2>2. c + back = E!Remaining(old)
    BY <1>3, <1>4 DEF back
  <2> QED  BY <2>1, <2>2
<1>9. /\ \A k \in Leases \ {l} : escrow'[k] = escrow[k]
      /\ escrow'[l].payer = old.payer /\ ~E!StillReserved(escrow'[l])
  BY <1>1, <1>2, <1>5, SettleFacts DEF E!Settle
<1> QED  BY <1>2, <1>3, <1>4, <1>8, <1>9, TakenStep

\* stream_settle takes the charge, up to what the escrow still owes.
LEMMA StreamTakes ==
  ASSUME Inv, TypeOK', ReservedInv, NEW l \in Leases, NEW ev \in E!Evidence, E!StreamSettle(l, ev),
         UNCHANGED <<validator, bond>>
  PROVE  ReservedInv'
<1> DEFINE old == escrow[l]
           c == E!Least(ev.charge, E!Remaining(old))
           e == [E!Billed(old, ev) EXCEPT !.charged = @ + c]
           paid == [e EXCEPT !.anchor = now]
<1>1. old.state = "Funded" /\ E!Accepted(old, ev) /\ E!CanPay(old, c) /\ bal' = E!Paid(old, c)
  BY DEF E!StreamSettle
<1>2. EscrowInv /\ TypeOK
  BY DEF Inv, EscrowInv
<1>3. /\ old \in E!EscrowRecords /\ old.payer \in Accounts /\ E!StillReserved(old) /\ bal \in Bal
      /\ feeBps \in 0 .. MaxFeeBasisPoints /\ ev.charge \in Nat /\ old.charged \in Nat /\ old.max \in Nat
      /\ escrow \in [Leases -> E!EscrowRecords] /\ now \in Nat
  BY <1>1, <1>2, FundedFacts, EvidenceType DEF TypeOK
<1>4. E!Remaining(old) \in Nat /\ E!Remaining(old) = old.max - old.charged
  BY <1>2, <1>3, HeldCovers DEF E!Remaining
<1>5. c \in Nat /\ c <= E!Remaining(old) /\ (ev.charge > E!Remaining(old) => c = E!Remaining(old))
  BY <1>3, <1>4 DEF E!Least
<1>6. \/ ev.charge > E!Remaining(old) /\ E!Settle(l, [E!Billed(old, ev) EXCEPT !.charged = @ + c, !.anchor = now], "Degraded")
      \/ /\ [E!Billed(old, ev) EXCEPT !.charged = @ + c, !.anchor = now].charged = old.max
         /\ E!Settle(l, [E!Billed(old, ev) EXCEPT !.charged = @ + c, !.anchor = now], "Completed")
      \/ escrow' = [escrow EXCEPT ![l] = [E!Billed(old, ev) EXCEPT !.charged = @ + c, !.anchor = now]]
  BY DEF E!StreamSettle
<1> HIDE DEF c
<1>7. [E!Billed(old, ev) EXCEPT !.charged = @ + c, !.anchor = now] = paid
  BY DEF E!Billed
<1>8. e \in E!EscrowRecords /\ e.payer = old.payer /\ e.settledAt = None /\ e.max = old.max
  BY <1>1, <1>2, <1>5, BilledFacts
<1>9. e.charged = old.charged + c
  BY <1>3, <1>5 DEF E!Billed, E!EscrowRecords
<1> HIDE DEF e
<1>10. /\ paid \in E!EscrowRecords /\ paid.payer = old.payer /\ paid.settledAt = None
       /\ paid.max = old.max /\ paid.charged = old.charged + c
  BY <1>3, <1>8, <1>9 DEF E!EscrowRecords
<1> HIDE DEF paid
<1>11. Taken(bal, bal', old.payer, c)
  BY <1>1, <1>3, <1>5, PaidIsTaken DEF E!CanPay
<1>12. CASE ev.charge > E!Remaining(old) /\ E!Settle(l, paid, "Degraded")
  <2>1. /\ \A k \in Leases \ {l} : escrow'[k] = escrow[k]
        /\ escrow'[l].payer = old.payer /\ ~E!StillReserved(escrow'[l])
    BY <1>2, <1>10, <1>12, SettleFacts DEF E!Settle
  <2> QED  BY <1>2, <1>3, <1>5, <1>11, <1>12, <2>1, TakenStep
<1>13. CASE paid.charged = old.max /\ E!Settle(l, paid, "Completed")
  <2>1. /\ \A k \in Leases \ {l} : escrow'[k] = escrow[k]
        /\ escrow'[l].payer = old.payer /\ ~E!StillReserved(escrow'[l])
    BY <1>2, <1>10, <1>13, SettleFacts DEF E!Settle
  <2>2. c = E!Remaining(old)
    BY <1>3, <1>4, <1>5, <1>10, <1>13
  <2> QED  BY <1>2, <1>3, <1>5, <1>11, <2>1, <2>2, TakenStep
<1>14. CASE escrow' = [escrow EXCEPT ![l] = paid]
  <2>1. escrow'[l] = paid /\ \A k \in Leases \ {l} : escrow'[k] = escrow[k]
    BY <1>3, <1>14
  <2>2. E!StillReserved(escrow'[l]) /\ E!Remaining(escrow'[l]) = E!Remaining(old) - c
    BY <1>3, <1>4, <1>5, <1>10, <2>1 DEF E!StillReserved, E!Remaining
  <2> QED  BY <1>2, <1>3, <1>5, <1>10, <1>11, <2>1, <2>2, TakenStep
<1> QED  BY <1>6, <1>7, <1>12, <1>13, <1>14

\* refund_escrow gives back what the escrow still owes.
LEMMA RefundTakes ==
  ASSUME Inv, TypeOK', ReservedInv, NEW l \in Leases, E!RefundEscrow(l), UNCHANGED <<validator, bond>>
  PROVE  ReservedInv'
<1> DEFINE old == escrow[l]
<1>1. /\ old.state = "Funded" /\ bal' = E!Unreserve(bal, old.payer, E!Remaining(old))
      /\ E!Settle(l, old, "Refunded")
  BY DEF E!RefundEscrow
<1>2. EscrowInv /\ TypeOK
  BY DEF Inv, EscrowInv
<1>3. old \in E!EscrowRecords /\ old.payer \in Accounts /\ E!StillReserved(old) /\ bal \in Bal
  BY <1>1, <1>2, FundedFacts
<1>4. E!Remaining(old) \in Nat /\ E!Remaining(old) <= bal[old.payer].held
  BY <1>2, <1>3, HeldCovers
<1>5. Taken(bal, bal', old.payer, E!Remaining(old))
  BY <1>1, <1>3, <1>4, MovesAreTaken
<1>6. /\ \A k \in Leases \ {l} : escrow'[k] = escrow[k]
      /\ escrow'[l].payer = old.payer /\ ~E!StillReserved(escrow'[l])
  BY <1>1, <1>2, <1>3, SettleFacts DEF E!Settle
<1> QED  BY <1>2, <1>3, <1>4, <1>5, <1>6, TakenStep

\* dispute_escrow moves nothing.
LEMMA DisputeTakesNothing ==
  ASSUME Inv, TypeOK', ReservedInv, NEW l \in Leases, E!DisputeEscrow(l), UNCHANGED <<validator, bond>>
  PROVE  ReservedInv'
<1> DEFINE old == escrow[l]
<1>1. old.state # "None" /\ bal' = bal
      /\ escrow' = [escrow EXCEPT ![l].state = "Disputed", ![l].disputedOnce = TRUE]
  BY DEF E!DisputeEscrow, E!Settled
<1>2. EscrowInv /\ TypeOK /\ escrow \in [Leases -> E!EscrowRecords] /\ bal \in Bal
  BY DEF Inv, EscrowInv, TypeOK, Bal
<1>3. old \in E!EscrowRecords /\ old.payer \in Accounts /\ bal[old.payer].held \in Nat
  BY <1>1, <1>2, ExistsFacts DEF Bal
<1>4. /\ \A k \in Leases \ {l} : escrow'[k] = escrow[k]
      /\ escrow'[l].payer = old.payer /\ escrow'[l].settledAt = old.settledAt
      /\ escrow'[l].max = old.max /\ escrow'[l].charged = old.charged
  BY <1>1, <1>2, <1>3 DEF E!EscrowRecords
<1>5. CASE E!StillReserved(old)
  <2>1. E!Remaining(old) \in Nat
    BY <1>2, <1>3, <1>5, HeldCovers
  <2>2. E!StillReserved(escrow'[l]) /\ E!Remaining(escrow'[l]) = E!Remaining(old) - 0
    BY <1>4, <1>5, <2>1 DEF E!StillReserved, E!Remaining
  <2>3. Taken(bal, bal', old.payer, 0)
    BY <1>1, <1>3 DEF Taken
  <2> QED  BY <1>2, <1>3, <1>4, <1>5, <2>2, <2>3, TakenStep, 0 \in Nat
<1>6. CASE ~E!StillReserved(old)
  BY <1>1, <1>2, <1>4, <1>6, SettledStep DEF E!StillReserved
<1> QED  BY <1>5, <1>6

\* resolve_dispute releases what the escrow owes, if it owes anything, and no
\* more: the branch for a short reservation is never taken.
LEMMA VerdictTakes ==
  ASSUME Inv, TypeOK', ReservedInv, NEW l \in Leases,
         (\E amount \in Charges : E!ResolvePayProvider(l, amount)) \/ E!ResolveRefundPayer(l),
         UNCHANGED <<validator, bond>>
  PROVE  ReservedInv'
<1> DEFINE old == escrow[l]
           p == old.payer
<1>1. old.state = "Disputed" /\ (E!Resolve(l, "Completed") \/ E!Resolve(l, "Refunded"))
  BY DEF E!ResolvePayProvider, E!ResolveRefundPayer
<1>2. EscrowInv /\ TypeOK
  BY DEF Inv, EscrowInv
<1>3. /\ old \in E!EscrowRecords /\ p \in Accounts /\ bal \in Bal /\ feeBps \in 0 .. MaxFeeBasisPoints
      /\ old.charged \in Nat /\ old.max \in Nat
  BY <1>1, <1>2, ExistsFacts
<1>4. /\ \A k \in Leases \ {l} : escrow'[k] = escrow[k]
      /\ escrow'[l].payer = p /\ ~E!StillReserved(escrow'[l])
  <2> DEFINE e == [old EXCEPT !.charged = old.max]
  <2>1. e \in E!EscrowRecords /\ e.payer = p
    BY <1>3 DEF E!EscrowRecords
  <2>2. PICK state : escrow' = [escrow EXCEPT ![l] = [e EXCEPT !.state = state, !.settledAt = now]]
    BY <1>1 DEF E!Resolve, E!Settle
  <2> HIDE DEF e
  <2> QED  BY <1>2, <2>1, <2>2, SettleFacts
<1>5. CASE ~E!StillReserved(old)
  <2>1. bal' = bal
    BY <1>5 DEF E!ResolvePayProvider, E!ResolveRefundPayer
  <2> QED  BY <1>2, <1>4, <1>5, <2>1, SettledStep
<1>6. CASE E!StillReserved(old)
  <2>1. E!Remaining(old) \in Nat /\ E!Remaining(old) <= bal[p].held /\ bal[p].held \in Nat
        /\ E!Remaining(old) = old.max - old.charged
    BY <1>2, <1>3, <1>6, HeldCovers DEF E!Remaining, Bal
  <2>2. Taken(bal, bal', p, E!Remaining(old))
    <3>1. CASE E!ResolveRefundPayer(l)
      <4>1. bal' = E!Unreserve(bal, p, E!Remaining(old))
        BY <1>6, <3>1 DEF E!ResolveRefundPayer
      <4> QED  BY <1>3, <2>1, <4>1, MovesAreTaken
    <3>2. CASE \E amount \in Charges : E!ResolvePayProvider(l, amount)
      <4>1. PICK amount \in Charges : E!ResolvePayProvider(l, amount)
        BY <3>2
      <4> DEFINE due == amount - old.charged
                 back == old.max - amount
                 b == E!Paid(old, due)
      <4>2. amount \in old.charged .. old.max /\ E!CanPay(old, due) /\ bal' = E!Unreserve(b, p, back)
        BY <1>6, <2>1, <4>1 DEF E!ResolvePayProvider
      <4>3. due \in Nat /\ back \in Nat /\ due + back = E!Remaining(old)
        BY <1>3, <2>1, <4>2
      <4> HIDE DEF due, back
      <4>4. due <= bal[p].held
        BY <2>1, <4>3
      <4>5. Taken(bal, b, p, due) /\ b \in Bal
        BY <1>3, <4>3, <4>4, PaidIsTaken
      <4> HIDE DEF b
      <4>6. back <= b[p].held
        BY <2>1, <4>3, <4>5 DEF Taken
      <4>7. Taken(b, bal', p, back)
        BY <1>3, <4>2, <4>3, <4>5, <4>6, MovesAreTaken
      <4>8. Taken(bal, bal', p, due + back)
        BY <1>3, <4>3, <4>5, <4>7, TakenTwice
      <4> QED  BY <4>3, <4>8
    <3> QED  BY <3>1, <3>2
  <2> QED  BY <1>2, <1>3, <1>4, <1>6, <2>1, <2>2, TakenStep
<1> QED  BY <1>5, <1>6

\* What an account's escrows owe is a number.
LEMMA OwedIsNat ==
  ASSUME TypeOK, NEW a
  PROVE  Cardinality(Owed(a)) \in Nat
<1> DEFINE f == [k \in Leases |-> E!Remaining(escrow[k])]
<1>1. f \in [Leases -> Nat]
  BY DEF TypeOK, E!EscrowRecords, E!Remaining
<1>2. OpenEscrows(a) \in SUBSET Leases
  BY DEF OpenEscrows
<1>3. \A k \in OpenEscrows(a) : {k} \X (1 .. E!Remaining(escrow[k])) = {k} \X (1 .. f[k])
  BY <1>2
<1>4. Owed(a) = UnitsOf(f, OpenEscrows(a))
  BY <1>3 DEF Owed, UnitsOf
<1> HIDE DEF f
<1> QED  BY <1>1, <1>2, <1>4, UnitsFinite

\* A change of stakes, matched by one of the reservations, leaves escrows alone.
LEMMA StakesMove ==
  ASSUME TypeOK, ReservedInv, UNCHANGED escrow,
         \A a \in Accounts :
           bal'[a].held + validator[a].stake + bond[a].stake = bal[a].held + validator'[a].stake + bond'[a].stake,
         bal' \in Bal, validator' \in [Accounts -> V!ValidatorRecords], bond' \in [Accounts -> P!BondRecords],
         RolesHoldStake'
  PROVE  ReservedInv'
<1>1. ASSUME NEW a \in Accounts PROVE bal'[a].held = Cardinality(Owed(a)') + validator'[a].stake + bond'[a].stake
  <2>1. OpenEscrows(a)' = OpenEscrows(a)
    BY DEF OpenEscrows, E!StillReserved
  <2>2. Owed(a)' = Owed(a)
    BY <2>1 DEF Owed, E!Remaining
  <2>3. Cardinality(Owed(a)) \in Nat
    BY OwedIsNat
  <2>4. bal[a].held = Cardinality(Owed(a)) + validator[a].stake + bond[a].stake
    BY DEF ReservedInv, ReservedIsExplained
  <2>5. /\ bal[a].held \in Nat /\ bal'[a].held \in Nat /\ validator[a].stake \in Nat /\ bond[a].stake \in Nat
        /\ validator'[a].stake \in Nat /\ bond'[a].stake \in Nat
    BY DEF TypeOK, Bal, V!ValidatorRecords, P!BondRecords
  <2>6. bal'[a].held + validator[a].stake + bond[a].stake = bal[a].held + validator'[a].stake + bond'[a].stake
    OBVIOUS
  <2>7. Cardinality(Owed(a)') = Cardinality(Owed(a))
    BY <2>2, Zenon
  <2> DEFINE n == Cardinality(Owed(a))
             m == Cardinality(Owed(a)')
             h == bal[a].held
             h1 == bal'[a].held
             v == validator[a].stake
             v1 == validator'[a].stake
             b == bond[a].stake
             b1 == bond'[a].stake
  <2>8. /\ n \in Nat /\ m = n /\ h = n + v + b /\ h1 + v + b = h + v1 + b1
        /\ h \in Nat /\ h1 \in Nat /\ v \in Nat /\ v1 \in Nat /\ b \in Nat /\ b1 \in Nat
    BY <2>3, <2>4, <2>5, <2>6, <2>7
  <2>9. SUFFICES h1 = m + v1 + b1
    OBVIOUS
  <2> HIDE DEF n, m, h, h1, v, v1, b, b1
  <2> QED  BY <2>8
<1>2. ReservedIsExplained'
  BY <1>1, Zenon DEF ReservedIsExplained
<1> QED  BY <1>2 DEF ReservedInv

\* Validator stake: registering reserves it, leaving gives it back.
LEMMA ValidatorReserves ==
  ASSUME Inv, TypeOK', ReservedInv, NEW v \in Candidates, Validators(v), UNCHANGED <<escrow, bond>>
  PROVE  ReservedInv'
<1>1. /\ v \in Accounts /\ bal \in Bal /\ validator \in [Accounts -> V!ValidatorRecords] /\ TypeOK
      /\ bal' \in Bal /\ validator' \in [Accounts -> V!ValidatorRecords] /\ bond' \in [Accounts -> P!BondRecords]
      /\ bond \in [Accounts -> P!BondRecords]
  BY CollateralAssumption DEF Inv, TypeOK, Bal
<1>2. \A a \in Accounts : bal[a].held \in Nat /\ validator[a].stake \in Nat /\ bond[a].stake \in Nat
  BY <1>1 DEF Bal, V!ValidatorRecords, P!BondRecords
<1>3. ASSUME bal' = bal, \A a \in Accounts : /\ validator'[a].stake = validator[a].stake
                                             /\ validator'[a].status = "None" => validator[a].status = "None"
      PROVE  ReservedInv'
  <2>1. RolesHoldStake'
    BY <1>3 DEF ReservedInv, RolesHoldStake
  <2> QED  BY <1>1, <1>2, <1>3, <2>1, StakesMove
<1>4. ASSUME NEW s \in Stakes, V!RegisterValidator(v, s) PROVE ReservedInv'
  <2> DEFINE rec == [status |-> "Active", stake |-> s, availableAt |-> 0]
  <2>1. validator[v].status = "None" /\ bal' = V!Reserve(bal, v, s) /\ validator' = [validator EXCEPT ![v] = rec]
    BY <1>4 DEF V!RegisterValidator
  <2>2. s \in Nat /\ validator[v].stake = 0
    BY <1>1, <2>1, CollateralAssumption DEF ReservedInv, RolesHoldStake
  <2>3. \A a \in Accounts : bal'[a].held = IF a = v THEN bal[a].held + s ELSE bal[a].held
    BY <1>1, <2>1 DEF V!Reserve, Bal
  <2>4. \A a \in Accounts : validator'[a] = IF a = v THEN rec ELSE validator[a]
    BY <1>1, <2>1
  <2>5. rec.stake = s /\ rec.status = "Active"
    OBVIOUS
  <2> HIDE DEF rec
  <2>6. RolesHoldStake'
    BY <2>4, <2>5 DEF ReservedInv, RolesHoldStake
  <2> QED  BY <1>1, <1>2, <2>2, <2>3, <2>4, <2>5, <2>6, StakesMove
<1>5. CASE V!WithdrawUnbonded(v)
  <2>1. bal' = V!Unreserve(bal, v, validator[v].stake) /\ validator' = [validator EXCEPT ![v] = V!NoValidator]
    BY <1>5 DEF V!WithdrawUnbonded
  <2>2. validator[v].stake <= bal[v].held
    <3>1. Cardinality(Owed(v)) \in Nat
      BY <1>1, OwedIsNat
    <3>2. bal[v].held = Cardinality(Owed(v)) + validator[v].stake + bond[v].stake
      BY <1>1 DEF ReservedInv, ReservedIsExplained
    <3> QED  BY <1>1, <1>2, <3>1, <3>2
  <2>3. V!Least(validator[v].stake, bal[v].held) = validator[v].stake
    BY <2>2 DEF V!Least
  <2>4. \A a \in Accounts : bal'[a].held = IF a = v THEN bal[a].held - validator[a].stake ELSE bal[a].held
    BY <1>1, <2>1, <2>3 DEF V!Unreserve, Bal
  <2>5. \A a \in Accounts : validator'[a] = IF a = v THEN V!NoValidator ELSE validator[a]
    BY <1>1, <2>1
  <2>6. V!NoValidator.stake = 0
    BY DEF V!NoValidator
  <2>7. RolesHoldStake'
    BY <2>5, <2>6 DEF ReservedInv, RolesHoldStake
  <2> QED  BY <1>1, <1>2, <2>2, <2>4, <2>5, <2>6, <2>7, StakesMove
<1>6. CASE V!RequestExit(v)
  <2>1. bal' = bal /\ validator[v] \in V!ValidatorRecords
        /\ validator' = [validator EXCEPT ![v].status = "Exiting", ![v].availableAt = now + ValidatorUnbonding]
    BY <1>1, <1>6 DEF V!RequestExit
  <2>2. /\ validator'[v].status = "Exiting" /\ validator'[v].stake = validator[v].stake
        /\ \A a \in Accounts \ {v} : validator'[a] = validator[a]
    BY <1>1, <2>1 DEF V!ValidatorRecords
  <2> QED  BY <1>3, <2>1, <2>2
<1>7. CASE V!Suspend(v) \/ V!Reinstate(v)
  <2>1. PICK s \in {"Active", "Suspended"} : bal' = bal /\ validator' = [validator EXCEPT ![v].status = s]
    BY <1>7 DEF V!Suspend, V!Reinstate
  <2>2. /\ validator'[v].status = s /\ validator'[v].stake = validator[v].stake
        /\ \A a \in Accounts \ {v} : validator'[a] = validator[a]
    BY <1>1, <2>1 DEF V!ValidatorRecords
  <2> QED  BY <1>3, <2>1, <2>2
<1>8. ASSUME NEW p, NEW r, NEW d, NEW s, V!SubmitEvidence(v, p, r, d, s) PROVE ReservedInv'
  BY <1>3, <1>8 DEF V!SubmitEvidence
<1> QED  BY <1>4, <1>5, <1>6, <1>7, <1>8 DEF Validators

\* A registered validator has nothing reserved but its stake, and a bonded
\* provider nothing but its bond: what a slash takes is the offender's own.
LEMMA OneReservation ==
  ASSUME Inv, ReservedInv, NEW a \in Accounts
  PROVE  /\ validator[a].status # "None" => bal[a].held = validator[a].stake
         /\ bond[a].status # "None" => bal[a].held = bond[a].stake
<1>1. /\ bal[a].held = Cardinality(Owed(a)) + validator[a].stake + bond[a].stake
      /\ validator[a].stake \in Nat /\ bond[a].stake \in Nat
  BY DEF ReservedInv, ReservedIsExplained, Inv, TypeOK, V!ValidatorRecords, P!BondRecords
<1>2. OpenEscrows(a) = {} => Cardinality(Owed(a)) = 0
  <2> SUFFICES ASSUME OpenEscrows(a) = {} PROVE Cardinality(Owed(a)) = 0
    OBVIOUS
  <2>1. Owed(a) = {}
    BY DEF Owed
  <2> QED  BY <2>1, FS_EmptySet
<1>3. CASE validator[a].status # "None"
  <2>1. OpenEscrows(a) = {} /\ bond[a].status = "None"
    BY <1>3 DEF Inv, OneRole
  <2>2. bond[a].stake = 0
    BY <2>1 DEF ReservedInv, RolesHoldStake
  <2> QED  BY <1>1, <1>2, <2>1, <2>2
<1>4. CASE bond[a].status # "None"
  <2>1. OpenEscrows(a) = {} /\ validator[a].status = "None"
    BY <1>4 DEF Inv, OneRole
  <2>2. validator[a].stake = 0
    BY <2>1 DEF ReservedInv, RolesHoldStake
  <2> QED  BY <1>1, <1>2, <2>1, <2>2
<1> QED  BY <1>3, <1>4

\* slash_round_submitters takes from the record what it takes from the reservation.
LEMMA PunishedLoses ==
  ASSUME Inv, ReservedInv, NEW v \in Accounts, validator[v].status # "None"
  PROVE  /\ V!Punished(v).status # "None"
         /\ V!SlashReserved(bal, v, ValidatorSlashAmount)[v].held = V!Punished(v).stake
<1> DEFINE rec == validator[v]
           slashed == V!Least(ValidatorSlashAmount, bal[v].held)
           left == rec.stake - V!Least(rec.stake, slashed)
           paid == [rec EXCEPT !.stake = left]
           status == IF left = 0 /\ rec.status = "Active" THEN "Suspended" ELSE rec.status
           new == [paid EXCEPT !.status = status]
<1>1. rec \in V!ValidatorRecords /\ bal \in Bal /\ ValidatorSlashAmount \in Nat
  BY CollateralAssumption DEF Inv, TypeOK, Bal
<1>2. bal[v].held = rec.stake /\ rec.stake \in Nat
  BY <1>1, OneReservation DEF V!ValidatorRecords
<1>3. V!Punished(v) = IF slashed = 0 THEN rec ELSE new
  BY <1>1 DEF V!Punished, V!ValidatorRecords
<1>4. V!SlashReserved(bal, v, ValidatorSlashAmount)[v].held = bal[v].held - slashed
  BY <1>1 DEF V!SlashReserved, Bal
<1>5. slashed \in Nat /\ slashed <= rec.stake
  BY <1>1, <1>2 DEF V!Least
<1> HIDE DEF slashed
<1>6. left = rec.stake - slashed
  BY <1>2, <1>5 DEF V!Least
<1> HIDE DEF left
<1>7. paid.stake = left /\ paid.status = rec.status /\ paid \in [status : V!ValidatorStatuses, stake : {left}, availableAt : Nat]
  BY <1>1 DEF V!ValidatorRecords
<1> HIDE DEF paid
<1>8. status # "None"
  OBVIOUS
<1> HIDE DEF status
<1>9. new.stake = left /\ new.status = status
  BY <1>7
<1> HIDE DEF new
<1> QED  BY <1>2, <1>3, <1>4, <1>5, <1>6, <1>8, <1>9

\* The steps of a round: only an upheld dispute moves stake, and it burns of each
\* offender's reservation what it takes off its record.
LEMMA RoundReserves ==
  ASSUME Inv, TypeOK', ReservedInv, NEW p, NEW r, NEW d, Rounds(p, r, d),
         UNCHANGED <<escrow, bond>>
  PROVE  ReservedInv'
<1>1. /\ bal \in Bal /\ validator \in [Accounts -> V!ValidatorRecords] /\ TypeOK
      /\ bal' \in Bal /\ validator' \in [Accounts -> V!ValidatorRecords]
      /\ bond' \in [Accounts -> P!BondRecords] /\ bond \in [Accounts -> P!BondRecords]
  BY DEF Inv, TypeOK, Bal
<1>2. \A a \in Accounts : bal[a].held \in Nat /\ validator[a].stake \in Nat /\ bond[a].stake \in Nat
                          /\ bal'[a].held \in Nat /\ validator'[a].stake \in Nat
  BY <1>1 DEF Bal, V!ValidatorRecords, P!BondRecords
<1>3. CASE UNCHANGED <<bal, validator>>
  <2>1. RolesHoldStake'
    BY <1>3 DEF ReservedInv, RolesHoldStake
  <2> QED  BY <1>1, <1>2, <1>3, <2>1, StakesMove
<1>4. CASE V!ResolveUpheld(p, r, d)
  <2> DEFINE guilty == {v \in round[<<p, r, d>>].submitters : validator[v].status # "None"}
  <2>1. /\ bal' = [a \in Accounts |-> IF a \in guilty
                   THEN V!SlashReserved(bal, a, ValidatorSlashAmount)[a] ELSE bal[a]]
        /\ validator' = [a \in Accounts |-> IF a \in guilty THEN V!Punished(a) ELSE validator[a]]
    BY <1>4 DEF V!ResolveUpheld
  <2>2. \A v \in guilty : validator[v].status # "None"
    OBVIOUS
  <2> HIDE DEF guilty
  <2>3. \A a \in Accounts :
          /\ a \in guilty => /\ bal'[a] = V!SlashReserved(bal, a, ValidatorSlashAmount)[a]
                             /\ validator'[a] = V!Punished(a)
          /\ a \notin guilty => bal'[a] = bal[a] /\ validator'[a] = validator[a]
    BY <2>1
  <2>4. \A a \in guilty \cap Accounts : /\ bal[a].held = validator[a].stake
                                        /\ bal'[a].held = validator'[a].stake
                                        /\ validator'[a].status # "None"
    BY <2>2, <2>3, OneReservation, PunishedLoses
  <2>5. RolesHoldStake'
    BY <2>3, <2>4 DEF ReservedInv, RolesHoldStake
  <2>6. \A a \in Accounts : bal'[a].held + validator[a].stake + bond[a].stake
                              = bal[a].held + validator'[a].stake + bond'[a].stake
    BY <1>2, <2>3, <2>4
  <2> QED  BY <1>1, <2>5, <2>6, StakesMove
<1> QED  BY <1>3, <1>4 DEF Rounds, V!CloseRound, V!DisputeRound, V!ResolveRejected

\* slash_bond takes from the bond what it takes from the reservation.
LEMMA SlashBondReserves ==
  ASSUME Inv, TypeOK', ReservedInv, NEW p \in Accounts, P!SlashBond(p), UNCHANGED <<escrow, validator>>
  PROVE  ReservedInv'
<1>1. /\ bal \in Bal /\ bond \in [Accounts -> P!BondRecords] /\ TypeOK /\ bal' \in Bal
      /\ bond' \in [Accounts -> P!BondRecords] /\ validator' \in [Accounts -> V!ValidatorRecords]
      /\ validator \in [Accounts -> V!ValidatorRecords]
  BY DEF Inv, TypeOK, Bal
<1>2. \A a \in Accounts : /\ bal[a].held \in Nat /\ validator[a].stake \in Nat /\ bond[a].stake \in Nat
                          /\ bal'[a].held \in Nat /\ bond'[a].stake \in Nat
  BY <1>1 DEF Bal, V!ValidatorRecords, P!BondRecords
<1> DEFINE slashed == P!Least(ProviderSlashAmount, bal[p].held)
           left == bond[p].stake - P!Least(bond[p].stake, slashed)
<1>3. CASE UNCHANGED <<bal, bond>>
  <2>1. RolesHoldStake'
    BY <1>3 DEF ReservedInv, RolesHoldStake
  <2> QED  BY <1>1, <1>2, <1>3, <2>1, StakesMove
<1>4. CASE /\ bond[p].status # "None"
           /\ bal' = P!SlashReserved(bal, p, ProviderSlashAmount)
           /\ bond' = [bond EXCEPT ![p].stake = left]
  <2>1. bal[p].held = bond[p].stake /\ ProviderSlashAmount \in Nat
    BY <1>4, OneReservation, CollateralAssumption
  <2>2. bal'[p].held = bal[p].held - slashed /\ \A a \in Accounts \ {p} : bal'[a] = bal[a]
    BY <1>1, <1>4 DEF P!SlashReserved, Bal
  <2>3. slashed \in Nat /\ slashed <= bond[p].stake
    BY <1>2, <2>1 DEF P!Least
  <2> HIDE DEF slashed
  <2>4. left = bond[p].stake - slashed
    BY <1>2, <2>3 DEF P!Least
  <2> HIDE DEF left
  <2>5. /\ bond'[p].stake = left /\ bond'[p].status = bond[p].status
        /\ \A a \in Accounts \ {p} : bond'[a] = bond[a]
    BY <1>1, <1>4 DEF P!BondRecords
  <2>6. RolesHoldStake'
    BY <1>4, <2>5 DEF ReservedInv, RolesHoldStake
  <2>7. \A a \in Accounts : bal'[a].held + validator[a].stake + bond[a].stake
                              = bal[a].held + validator'[a].stake + bond'[a].stake
    BY <1>2, <2>1, <2>2, <2>4, <2>5
  <2> QED  BY <1>1, <2>6, <2>7, StakesMove
<1> QED  BY <1>3, <1>4 DEF P!SlashBond

\* Provider bonds: bonding reserves, withdrawing gives back, a slash burns.
LEMMA ProviderReserves ==
  ASSUME Inv, TypeOK', ReservedInv, NEW p \in Operators, Providers(p), UNCHANGED <<escrow, validator>>
  PROVE  ReservedInv'
<1>1. /\ bal \in Bal /\ bond \in [Accounts -> P!BondRecords] /\ TypeOK /\ bal' \in Bal
      /\ bond' \in [Accounts -> P!BondRecords] /\ validator' \in [Accounts -> V!ValidatorRecords]
      /\ validator \in [Accounts -> V!ValidatorRecords] /\ p \in Accounts
  BY CollateralAssumption DEF Inv, TypeOK, Bal
<1>2. \A a \in Accounts : /\ bal[a].held \in Nat /\ validator[a].stake \in Nat /\ bond[a].stake \in Nat
                          /\ bal'[a].held \in Nat /\ bond'[a].stake \in Nat
  BY <1>1 DEF Bal, V!ValidatorRecords, P!BondRecords
<1>3. ASSUME bal' = bal, \A a \in Accounts : /\ bond'[a].stake = bond[a].stake
                                             /\ bond'[a].status = "None" => bond[a].status = "None"
      PROVE  ReservedInv'
  <2>1. RolesHoldStake'
    BY <1>3 DEF ReservedInv, RolesHoldStake
  <2> QED  BY <1>1, <1>2, <1>3, <2>1, StakesMove
<1>4. ASSUME NEW s \in Bonds, P!BondStake(p, s) PROVE ReservedInv'
  <2>1. /\ bal' = P!Reserve(bal, p, s) /\ s \in Nat /\ bond[p] \in P!BondRecords
        /\ bond' = [bond EXCEPT ![p].status = "Active", ![p].stake = @ + s]
    BY <1>1, <1>4, CollateralAssumption DEF P!BondStake
  <2>2. bal'[p].held = bal[p].held + s /\ \A a \in Accounts \ {p} : bal'[a] = bal[a]
    BY <1>1, <2>1 DEF P!Reserve, Bal
  <2>3. /\ bond'[p].stake = bond[p].stake + s /\ bond'[p].status = "Active"
        /\ \A a \in Accounts \ {p} : bond'[a] = bond[a]
    BY <1>1, <2>1 DEF P!BondRecords
  <2>4. RolesHoldStake'
    BY <2>3 DEF ReservedInv, RolesHoldStake
  <2>5. \A a \in Accounts : bal'[a].held + validator[a].stake + bond[a].stake
                              = bal[a].held + validator'[a].stake + bond'[a].stake
    <3>1. s \in Nat
      BY <2>1
    <3>2. \A a \in Accounts : validator'[a].stake = validator[a].stake
      OBVIOUS
    <3>3. bal'[p].held + validator[p].stake + bond[p].stake
            = bal[p].held + validator'[p].stake + bond'[p].stake
      BY <1>1, <1>2, <2>2, <2>3, <3>1, <3>2
    <3> QED  BY <1>2, <2>2, <2>3, <3>2, <3>3
  <2> QED  BY <1>1, <2>4, <2>5, StakesMove
<1>5. CASE P!RequestUnbond(p)
  <2>1. bal' = bal /\ bond[p] \in P!BondRecords
        /\ bond' = [bond EXCEPT ![p].status = "Exiting", ![p].availableAt = now + ProviderUnbonding]
    BY <1>1, <1>5 DEF P!RequestUnbond
  <2>2. /\ bond'[p].status = "Exiting" /\ bond'[p].stake = bond[p].stake
        /\ \A a \in Accounts \ {p} : bond'[a] = bond[a]
    BY <1>1, <2>1 DEF P!BondRecords
  <2> QED  BY <1>3, <2>1, <2>2
<1>6. CASE P!WithdrawUnbonded(p)
  <2>1. /\ bal' = P!Unreserve(bal, p, bond[p].stake) /\ bond' = [bond EXCEPT ![p] = P!NoBond]
        /\ bal[p].held = bond[p].stake
    BY <1>1, <1>6, OneReservation DEF P!WithdrawUnbonded
  <2>2. P!Least(bond[p].stake, bal[p].held) = bond[p].stake
    BY <2>1 DEF P!Least
  <2>3. bal'[p].held = bal[p].held - bond[p].stake /\ \A a \in Accounts \ {p} : bal'[a] = bal[a]
    BY <1>1, <2>1, <2>2 DEF P!Unreserve, Bal
  <2>4. bond'[p].stake = 0 /\ \A a \in Accounts \ {p} : bond'[a] = bond[a]
    BY <1>1, <2>1 DEF P!NoBond
  <2>5. RolesHoldStake'
    BY <2>4 DEF ReservedInv, RolesHoldStake
  <2>6. \A a \in Accounts : bal'[a].held + validator[a].stake + bond[a].stake
                              = bal[a].held + validator'[a].stake + bond'[a].stake
    BY <1>2, <2>3, <2>4
  <2> QED  BY <1>1, <2>5, <2>6, StakesMove
<1>7. CASE P!SlashBond(p)
  BY <1>1, <1>7, SlashBondReserves
<1>8. CASE UNCHANGED <<bal, bond>>
  BY <1>3, <1>8
<1>9. P!RegisterProvider(p) \/ (\E s \in Statuses : P!SetStatus(p, s))
        \/ (\E d \in Dimensions : (\E r \in RoundIds : P!RecordBreach(p, d, r)) \/ P!AppealSlash(p, d))
        => UNCHANGED <<bal, bond>>
  BY DEF P!RegisterProvider, P!SetStatus, P!RecordBreach, P!AppealSlash, P!registryVars
<1>10. (\E d \in Dimensions : \/ P!ExecuteSlash(p, d)
                              \/ \E uphold \in BOOLEAN : P!ResolveSlashAppeal(p, d, uphold))
         => P!SlashBond(p) \/ UNCHANGED <<bal, bond>>
  BY DEF P!ExecuteSlash, P!ResolveSlashAppeal, P!DoExecute, P!registryVars
<1> QED  BY <1>4, <1>5, <1>6, <1>7, <1>8, <1>9, <1>10 DEF Providers

\* At genesis nothing is reserved.
LEMMA ReservedStart == Init => ReservedInv
<1> SUFFICES ASSUME Init PROVE ReservedInv
  OBVIOUS
<1>1. /\ \A a \in Accounts : /\ bal[a].held = 0 /\ validator[a].stake = 0 /\ bond[a].stake = 0
      /\ \A l \in Leases : escrow[l] = E!NoEscrow
  BY DEF Init, E!Init, V!Init, P!Init, V!NoValidator, P!NoBond
<1>2. ASSUME NEW a \in Accounts PROVE Cardinality(Owed(a)) = 0
  <2>1. OpenEscrows(a) = {}
    BY <1>1, CollateralAssumption DEF OpenEscrows, E!NoEscrow
  <2>2. Owed(a) = {}
    BY <2>1 DEF Owed
  <2> QED  BY <2>2, FS_EmptySet
<1> QED  BY <1>1, <1>2 DEF ReservedInv, ReservedIsExplained, RolesHoldStake

\* Every step moves reservations by what it moves in the records.
LEMMA ReservedStep ==
  ASSUME Inv, Inv', ReservedInv, [Next]_vars
  PROVE  ReservedInv'
<1>1. TypeOK /\ TypeOK'
  BY DEF Inv
<1>2. ASSUME NEW l \in Leases, Escrows(l), UNCHANGED <<now, validatorVars, providerVars>>
      PROVE  ReservedInv'
  <2>1. UNCHANGED <<validator, bond>>
    BY <1>2 DEF validatorVars, providerVars
  <2> QED  BY <1>1, <1>2, <2>1, FundReserves, PayoutTakes, StreamTakes, RefundTakes,
              DisputeTakesNothing, VerdictTakes DEF Escrows
<1>3. ASSUME NEW v \in Candidates, Validators(v), UNCHANGED <<now, escrowVars, providerVars>>
      PROVE  ReservedInv'
  BY <1>1, <1>3, ValidatorReserves DEF escrowVars, providerVars
<1>4. ASSUME NEW p \in Operators, NEW r \in RoundIds, NEW d \in Dimensions, Rounds(p, r, d),
             UNCHANGED <<now, escrowVars, providerVars>>
      PROVE  ReservedInv'
  BY <1>1, <1>4, RoundReserves DEF escrowVars, providerVars
<1>5. ASSUME NEW p \in Operators, Providers(p), UNCHANGED <<now, escrowVars, validatorVars>>
      PROVE  ReservedInv'
  BY <1>1, <1>5, ProviderReserves DEF escrowVars, validatorVars
<1>6. ASSUME UNCHANGED <<bal, escrow, validator, bond>> PROVE ReservedInv'
  <2>1. /\ RolesHoldStake' /\ bal' \in Bal /\ validator' \in [Accounts -> V!ValidatorRecords]
        /\ bond' \in [Accounts -> P!BondRecords]
    BY <1>1, <1>6 DEF ReservedInv, RolesHoldStake, TypeOK, Bal
  <2> QED  BY <1>1, <1>6, <2>1, StakesMove
<1>7. Governance /\ UNCHANGED <<now, validatorVars, providerVars>> => UNCHANGED <<bal, escrow, validator, bond>>
  BY DEF Governance, E!SetPaused, E!SetFeeBasisPoints, E!SetTreasuryAccount, validatorVars, providerVars
<1>8. Tick \/ UNCHANGED vars => UNCHANGED <<bal, escrow, validator, bond>>
  BY DEF Tick, vars, escrowVars, validatorVars, providerVars
<1> QED  BY <1>2, <1>3, <1>4, <1>5, <1>6, <1>7, <1>8 DEF Next

\* Balances carry no tag, yet what an account has reserved is at every moment, to
\* the unit, what its open escrows owe, its validator stake and its bond: whatever
\* the order of payouts, refunds, verdicts, withdrawals and slashes, none takes
\* from a reservation that is not its own.
THEOREM ReservedHolds == Spec => []ReservedIsExplained
<1>1. ReservedInv => ReservedIsExplained
  BY DEF ReservedInv
<1>2. Inv /\ [Next]_vars => Inv'
  BY NextInv
<1> QED  BY <1>1, <1>2, InitInv, ReservedStart, ReservedStep, InvHolds, PTL DEF Spec
=============================================================================
