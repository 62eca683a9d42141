------------------------ MODULE ProviderSessionProofs ------------------------
(***************************************************************************)
(* Proofs about ProviderSession and the joins it extends, for any number   *)
(* of providers, challenges, handlers, attempts, certificates and faults.  *)
(***************************************************************************)
EXTENDS ProviderSession, TLAPS

Calls == [pc : Steps, p : Providers \union {None}, n : Nat, via : Providers \union {None}]

\* What the calls in flight work on: a provider, and a heartbeat's number and
\* the connection it came over.
CallsTyped ==
  /\ call \in [Callers -> Calls]
  /\ \A c \in Callers : call[c].pc # "idle" => call[c].p \in Providers
  /\ \A c \in Callers :
       call[c].pc \in {"check", "record"} =>
         c \in Handlers /\ call[c].n \in Beats(call[c].p) /\ call[c].via \in Providers

Typed ==
  /\ TypeOK /\ CallsTyped
  /\ DOMAIN pending = Providers /\ DOMAIN usage = Providers /\ DOMAIN beat = Providers

-----------------------------------------------------------------------------
(* Types. *)

\* Everybody who may call is a handler or the Reconciler.
LEMMA Caller ==
  /\ Handlers \subseteq Callers /\ Sweeper \in Callers
  /\ Idle \in Calls
  /\ Idle.pc = "idle" /\ Idle.p = None /\ Idle.n = 0 /\ Idle.via = None
BY DEF Callers, Idle, Steps, Calls

\* Every handler, the sweeper included, stays at one of its own steps.
LEMMA CallsStep ==
  ASSUME Typed, [Next]_vars
  PROVE  CallsTyped'
<1>1. call \in [Callers -> Calls] /\ \A p \in Providers : Beats(p) \subseteq Nat
  BY SessionAssumption DEF Typed, CallsTyped, Beats
<1>2. CASE call' = call
  BY <1>2 DEF Typed, CallsTyped
<1>3. ASSUME NEW c \in Callers, Return(c) PROVE CallsTyped'
  BY <1>1, <1>3, Caller DEF Return, Typed, CallsTyped, Calls
<1>4. ASSUME NEW c \in Callers, NEW step \in Steps, Goto(c, step), call[c].pc # "idle",
             step \in {"check", "record"} => call[c].pc \in {"check", "record"}
      PROVE  CallsTyped'
  BY <1>1, <1>4 DEF Goto, Typed, CallsTyped, Calls
<1>5. ASSUME NEW c \in Callers, NEW step \in {"idle", "lock"}, NEW p \in Providers \union {None}, NEW n \in Nat,
             step = "lock" => p \in Providers,
             call' = [call EXCEPT ![c] = [pc |-> step, p |-> p, n |-> n, via |-> None]]
      PROVE  CallsTyped'
  BY <1>1, <1>5 DEF Typed, CallsTyped, Steps, Calls
<1>6. ASSUME NEW h \in Handlers, NEW p \in Providers, NEW q \in Providers, NEW n \in Beats(p), ReportHeartbeat(h, q, p, n)
      PROVE  CallsTyped'
  BY <1>1, <1>6, Caller DEF ReportHeartbeat, Typed, CallsTyped, Steps, Calls
<1>7. ASSUME NEW h \in Handlers, NEW j \in Joins, NEW b \in Begins, CompleteJoin(h, j, b)
      PROVE  CallsTyped'
  <2>1. challenge[b].p \in Providers
    BY <1>7 DEF CompleteJoin, Typed, TypeOK, JoinTypeOK
  <2>2. \/ call' = [call EXCEPT ![h] = [pc |-> "idle", p |-> None, n |-> 0, via |-> None]]
        \/ call' = [call EXCEPT ![h] = [pc |-> "lock", p |-> challenge[b].p, n |-> 0, via |-> None]]
    BY <1>7 DEF CompleteJoin, Idle
  <2>3. QED
    BY <1>5, <2>1, <2>2, Caller
<1>8. ASSUME NEW c \in Callers, Drive(c) PROVE CallsTyped'
  <2>1. {"activate", "wait"} \subseteq Steps
    BY DEF Steps
  <2>2. QED
    BY <1>3, <1>4, <1>8, <2>1
       DEF Drive, EnsureActive, WaitForFinalizedStatus, UnsupportedStatus, ChainCallFails, GiveUp,
           ActivateProvider, ActivationLost
<1>9. ASSUME NEW p \in Providers, ReconcileOne(p) PROVE CallsTyped'
  <2>1. batch[p] \in Nat
    BY <1>9, JoinAssumption DEF ReconcileOne, Typed, TypeOK, JoinTypeOK
  <2>2. QED
    BY <1>5, <1>9, <2>1, Caller DEF ReconcileOne
<1>10. CASE Restart
  BY <1>10, Caller DEF Restart, CallsTyped
<1>11. CASE JoinStep
  <2>1. ASSUME NEW h \in Handlers, WaitAborted(h) PROVE CallsTyped'
    BY <1>3, <2>1, Caller DEF WaitAborted, GiveUp
  <2>2. CASE JoinNext
    <3>1. CASE \E b \in Begins : ChallengeExpires(b) \/ \E p \in Providers : BeginJoin(b, p)
      BY <1>2, <3>1 DEF ChallengeExpires, BeginJoin
    <3>2. CASE \E p \in Providers : \/ BackoffEnds(p) \/ RevokeProvider(p) \/ ChainExecutes(p)
                                    \/ PoolLoses(p) \/ Bond(p) \/ \E to \in ChainStatuses : SetStatus(p, to)
      BY <1>2, <3>2 DEF BackoffEnds, RevokeProvider, ChainExecutes, PoolLoses, Bond, SetStatus
    <3>3. CASE Reconcile
      BY <1>2, <1>9, <3>3 DEF Reconcile, ReconcileOnce
    <3>4. QED
      BY <1>7, <1>8, <1>10, <2>1, <2>2, <3>1, <3>2, <3>3 DEF JoinNext
  <2>3. ASSUME NEW h \in Handlers, JoinCertified(h) PROVE CallsTyped'
    BY <1>3, <1>7, <2>3, Caller DEF JoinCertified, ActivateProvider
  <2>4. QED
    BY <1>11, <2>2, <2>3 DEF JoinStep
<1>12. ASSUME NEW h \in Handlers, Accept(h) \/ RecordUsage(h) PROVE CallsTyped'
  <2>1. "record" \in Steps
    BY DEF Steps
  <2>2. QED
    BY <1>3, <1>4, <1>12, <2>1, Caller DEF Accept, RecordUsage
<1>13. CASE \/ \E p \in Providers :
                 \/ \E s \in Serials : Handshake(p, s)
                 \/ \E n \in 1 .. MaxNonce : RenewCertificate(p, n)
                 \/ HeartbeatExpires(p)
            \/ \E s \in Serials : LeafExpires(s)
            \/ SweepRevoked \/ Flush \/ UNCHANGED vars
  BY <1>2, <1>13 DEF Handshake, RenewCertificate, HeartbeatExpires, LeafExpires, SweepRevoked, Flush,
                     vars, joinVars
<1>14. QED
  BY <1>6, <1>11, <1>12, <1>13 DEF Next

\* A step of a join, by what it does to the rows.
RowsSame == UNCHANGED joinDb
RowsMove ==
  \/ RowsSame
  \/ \E b \in Begins : ChallengeExpires(b) \/ \E p \in Providers : BeginJoin(b, p)
  \/ \E j \in Joins, b \in Begins :
       completion[j] = None /\ challenge[b].p # None /\ CommitJoin(j, b)
  \/ \E c \in Callers : ActivateProvider(c)
  \/ call[Sweeper].pc \in {"lock", "wait"} /\ GiveUp(Sweeper)
  \/ \E p \in Providers : BackoffEnds(p) \/ RevokeProvider(p)

\* Nobody else writes them: the Agents' calls and the chain never do.
LEMMA RowsStep == [Next]_vars => RowsMove
<1>1. ASSUME NEW c \in Callers, GiveUp(c), call[c].pc \in {"lock", "wait"} PROVE RowsMove
  <2>1. CASE c = Sweeper
    BY <1>1, <2>1 DEF RowsMove
  <2>2. CASE c # Sweeper
    BY <1>1, <2>2 DEF GiveUp, RowsMove, RowsSame, joinDb
  <2>3. QED
    BY <2>1, <2>2
<1>2. ASSUME NEW h \in Handlers, NEW j \in Joins, NEW b \in Begins, CompleteJoin(h, j, b)
      PROVE  RowsMove
  BY <1>2 DEF CompleteJoin, RowsMove, RowsSame
<1>3. ASSUME NEW c \in Callers, Drive(c) PROVE RowsMove
  BY <1>1, <1>3 DEF Drive, EnsureActive, WaitForFinalizedStatus, UnsupportedStatus, ChainCallFails,
                    ActivationLost, RowsMove, RowsSame
<1>4. ASSUME NEW h \in Handlers, WaitAborted(h) \/ JoinCertified(h) PROVE RowsMove
  BY <1>1, <1>2, <1>4, Caller DEF WaitAborted, JoinCertified, RowsMove
<1>5. CASE JoinNext
  BY <1>2, <1>3, <1>4, <1>5
     DEF JoinNext, Reconcile, ReconcileOnce, ReconcileOne, ChainExecutes, PoolLoses, Bond, SetStatus,
         Restart, RowsMove, RowsSame
<1>6. CASE JoinStep
  BY <1>4, <1>5, <1>6 DEF JoinStep
<1>7. CASE \/ \E p \in Providers :
                \/ \E s \in Serials : Handshake(p, s)
                \/ \E n \in 1 .. MaxNonce : RenewCertificate(p, n)
                \/ HeartbeatExpires(p)
                \/ \E h \in Handlers, q \in Providers, n \in Beats(p) : ReportHeartbeat(h, q, p, n)
           \/ \E s \in Serials : LeafExpires(s)
           \/ \E h \in Handlers : Accept(h) \/ RecordUsage(h)
           \/ SweepRevoked \/ Flush \/ UNCHANGED vars
  BY <1>7 DEF Handshake, RenewCertificate, HeartbeatExpires, ReportHeartbeat, LeafExpires, Accept,
              RecordUsage, SweepRevoked, Flush, vars, joinVars, joinDb, RowsMove, RowsSame
<1>8. QED
  BY <1>6, <1>7 DEF Next

-----------------------------------------------------------------------------
(***************************************************************************)
(* Attempts. A list the Reconciler works through holds the attempt counts  *)
(* of its rows, and only the Reconciler moves them: whatever handlers do   *)
(* to the states meanwhile, the count it read is the one it increments.    *)
(***************************************************************************)

AttemptsExact ==
  /\ \A p \in Providers :
       /\ outbox[p].state = None => outbox[p].attempts = 0
       /\ batch[p] # None => batch[p] = outbox[p].attempts /\ batch[p] < MaxAttempts
  /\ call[Sweeper].pc # "idle" =>
       LET p == call[Sweeper].p
       IN  call[Sweeper].n = outbox[p].attempts /\ call[Sweeper].n < MaxAttempts /\ batch[p] = None

\* How a challenge stands, and what its completion left behind.
ChallengesSpent ==
  /\ \A b \in Begins : challenge[b].p = None <=> challenge[b].state = "none"
  /\ \A j \in Joins : completion[j] # None => challenge[completion[j]].state = "consumed"
  /\ ChallengeSpentOnce

\* A write of a row, an outbox entry or a challenge is one of their values.
LEMMA RowTypesStep ==
  ASSUME Typed, AttemptsExact, RowsMove
  PROVE  /\ row' \in [Providers -> Statuses]
         /\ outbox' \in [Providers -> [state : OutboxStates, attempts : 0 .. MaxAttempts, due : BOOLEAN]]
         /\ challenge' \in [Begins -> [p : Providers \union {None},
                                       state : {"none", "open", "consumed", "expired"}]]
         /\ completion' \in [Joins -> Begins \union {None}]
<1> USE JoinAssumption
<1>1. /\ row \in [Providers -> Statuses]
      /\ outbox \in [Providers -> [state : OutboxStates, attempts : 0 .. MaxAttempts, due : BOOLEAN]]
      /\ challenge \in [Begins -> [p : Providers \union {None},
                                   state : {"none", "open", "consumed", "expired"}]]
      /\ completion \in [Joins -> Begins \union {None}]
  BY DEF Typed, TypeOK, JoinTypeOK
<1>2. CASE RowsSame
  BY <1>1, <1>2 DEF RowsSame, joinDb
<1>3. ASSUME NEW b \in Begins, ChallengeExpires(b) \/ \E p \in Providers : BeginJoin(b, p)
      PROVE  /\ challenge' \in [Begins -> [p : Providers \union {None},
                                           state : {"none", "open", "consumed", "expired"}]]
             /\ UNCHANGED <<row, outbox, completion>>
  BY <1>1, <1>3 DEF ChallengeExpires, BeginJoin
<1>4. ASSUME NEW j \in Joins, NEW b \in Begins, challenge[b].p # None, CommitJoin(j, b)
      PROVE  /\ row' \in [Providers -> Statuses]
             /\ outbox' \in [Providers -> [state : OutboxStates, attempts : 0 .. MaxAttempts, due : BOOLEAN]]
             /\ challenge' \in [Begins -> [p : Providers \union {None},
                                           state : {"none", "open", "consumed", "expired"}]]
             /\ completion' \in [Joins -> Begins \union {None}]
  <2>1. [state |-> "READY", attempts |-> 0, due |-> TRUE]
          \in [state : OutboxStates, attempts : 0 .. MaxAttempts, due : BOOLEAN]
    BY DEF OutboxStates
  <2>2. challenge[b].p \in Providers /\ "PENDING" \in Statuses
    BY <1>1, <1>4 DEF Statuses
  <2>3. QED
    BY <1>1, <1>4, <2>1, <2>2 DEF CommitJoin
<1>5. ASSUME NEW c \in Callers, ActivateProvider(c)
      PROVE  /\ row' \in [Providers -> Statuses]
             /\ outbox' \in [Providers -> [state : OutboxStates, attempts : 0 .. MaxAttempts, due : BOOLEAN]]
             /\ UNCHANGED <<challenge, completion>>
  BY <1>1, <1>5, ZenonT(60) DEF ActivateProvider, Statuses, OutboxStates
<1>6. ASSUME call[Sweeper].pc \in {"lock", "wait"}, GiveUp(Sweeper)
      PROVE  /\ outbox' \in [Providers -> [state : OutboxStates, attempts : 0 .. MaxAttempts, due : BOOLEAN]]
             /\ UNCHANGED <<row, challenge, completion>>
  <2>1. call[Sweeper].p \in Providers
    BY <1>6, Caller DEF Typed, CallsTyped
  <2>2. outbox[call[Sweeper].p].attempts + 1 \in 0 .. MaxAttempts
    BY <1>1, <1>6, <2>1 DEF AttemptsExact
  <2>3. Failed(call[Sweeper].p, call[Sweeper].n + 1)
          \in [state : OutboxStates, attempts : 0 .. MaxAttempts, due : BOOLEAN]
    BY <2>2 DEF Failed, OutboxStates
  <2>4. QED
    BY <1>1, <1>6, <2>1, <2>3 DEF GiveUp
<1>7. ASSUME NEW p \in Providers, BackoffEnds(p) \/ RevokeProvider(p)
      PROVE  /\ row' \in [Providers -> Statuses]
             /\ outbox' \in [Providers -> [state : OutboxStates, attempts : 0 .. MaxAttempts, due : BOOLEAN]]
             /\ UNCHANGED <<challenge, completion>>
  <2>1. CASE BackoffEnds(p)
    <3> DEFINE yes == TRUE
               r == [outbox[p] EXCEPT !.due = yes]
    <3>1. outbox' = [outbox EXCEPT ![p] = r] /\ UNCHANGED <<row, challenge, completion>>
      BY <2>1 DEF BackoffEnds
    <3>2. yes \in BOOLEAN
      OBVIOUS
    <3> HIDE DEF yes
    <3>3. r \in [state : OutboxStates, attempts : 0 .. MaxAttempts, due : BOOLEAN]
      BY <1>1, <3>2
    <3> HIDE DEF r
    <3>4. QED
      BY <1>1, <3>1, <3>3
  <2>2. CASE RevokeProvider(p)
    BY <1>1, <2>2 DEF RevokeProvider, Statuses
  <2>3. QED
    BY <1>7, <2>1, <2>2
<1>8. QED
  BY <1>1, <1>2, <1>3, <1>4, <1>5, <1>6, <1>7 DEF RowsMove

\* A challenge is spent by one request, and its provider keeps its rows.
LEMMA ChallengesStep ==
  ASSUME Typed, ChallengesSpent, RowsMove
  PROVE  ChallengesSpent'
<1> USE JoinAssumption
<1>1. /\ row \in [Providers -> Statuses]
      /\ outbox \in [Providers -> [state : OutboxStates, attempts : 0 .. MaxAttempts, due : BOOLEAN]]
      /\ challenge \in [Begins -> [p : Providers \union {None},
                                   state : {"none", "open", "consumed", "expired"}]]
      /\ completion \in [Joins -> Begins \union {None}]
  BY DEF Typed, TypeOK, JoinTypeOK
<1>2. CASE RowsSame
  BY <1>2 DEF RowsSame, joinDb, ChallengesSpent, ChallengeSpentOnce
<1>3. ASSUME NEW b \in Begins, ChallengeExpires(b) \/ \E p \in Providers : BeginJoin(b, p)
      PROVE  ChallengesSpent'
  <2>1. challenge[b].state # "consumed" /\ UNCHANGED <<row, outbox, completion>>
    BY <1>1, <1>3 DEF ChallengeExpires, BeginJoin, ChallengesSpent
  <2>2. \A a \in Begins : a # b => challenge'[a] = challenge[a]
    BY <1>1, <1>3 DEF ChallengeExpires, BeginJoin
  <2>3. challenge'[b].p = None <=> challenge'[b].state = "none"
    BY <1>1, <1>3 DEF ChallengeExpires, BeginJoin, ChallengesSpent
  <2>4. QED
    BY <1>1, <2>1, <2>2, <2>3 DEF ChallengesSpent, ChallengeSpentOnce
<1>4. ASSUME NEW j \in Joins, NEW b \in Begins, completion[j] = None, challenge[b].p # None,
             CommitJoin(j, b)
      PROVE  ChallengesSpent'
  <2>1. challenge[b].state = "open" /\ challenge[b].p \in Providers /\ b # None
    BY <1>1, <1>4 DEF CommitJoin, Spendable
  <2>2. \A k \in Joins : completion[k] # b
    BY <2>1 DEF ChallengesSpent
  <2>3. /\ \A a \in Begins : challenge'[a].p = challenge[a].p
        /\ challenge'[b].state = "consumed" /\ \A a \in Begins : a # b => challenge'[a] = challenge[a]
        /\ completion'[j] = b /\ \A k \in Joins : k # j => completion'[k] = completion[k]
    BY <1>1, <1>4 DEF CommitJoin
  <2>4. /\ \A p \in Providers : row[p] # None \/ p = challenge[b].p => row'[p] # None
        /\ \A p \in Providers : outbox[p].state # None \/ p = challenge[b].p => outbox'[p].state # None
    <3>1. "PENDING" # None /\ "READY" # None
      OBVIOUS
    <3>2. QED
      BY <1>1, <1>4, <2>1, <3>1 DEF CommitJoin
  <2>5. \A a \in Begins : challenge[a].p = None <=> challenge[a].state = "none"
    BY DEF ChallengesSpent
  <2>6. \A a \in Begins : challenge'[a].p = None <=> challenge'[a].state = "none"
    BY <2>1, <2>3, <2>5
  <2>7. ASSUME NEW k \in Joins, completion'[k] # None
        PROVE  /\ challenge'[completion'[k]].state = "consumed"
               /\ row'[challenge'[completion'[k]].p] # None
               /\ outbox'[challenge'[completion'[k]].p].state # None
               /\ \A i \in Joins : completion'[i] = completion'[k] => i = k
    <3>1. CASE k = j
      BY <2>1, <2>2, <2>3, <2>4, <3>1
    <3>2. CASE k # j
      <4>1. completion'[k] = completion[k] /\ completion[k] \in Begins /\ completion[k] # b
        BY <1>1, <2>2, <2>3, <2>7, <3>2
      <4>2. /\ challenge[completion[k]].state = "consumed"
            /\ row[challenge[completion[k]].p] # None
            /\ outbox[challenge[completion[k]].p].state # None
            /\ \A i \in Joins : completion[i] = completion[k] => i = k
        BY <2>7, <4>1 DEF ChallengesSpent, ChallengeSpentOnce
      <4>3. challenge[completion[k]].p \in Providers
        BY <1>1, <2>5, <4>1, <4>2
      <4>4. QED
        BY <2>3, <2>4, <4>1, <4>2, <4>3
    <3>3. QED
      BY <3>1, <3>2
  <2>8. QED
    BY <2>6, <2>7 DEF ChallengesSpent, ChallengeSpentOnce
<1>5. ASSUME UNCHANGED <<challenge, completion>>,
             \A p \in Providers : row[p] # None => row'[p] # None,
             \A p \in Providers : outbox[p].state # None => outbox'[p].state # None
      PROVE  ChallengesSpent'
  <2>1. ASSUME NEW j \in Joins, completion[j] # None PROVE challenge[completion[j]].p \in Providers
    BY <1>1, <2>1 DEF ChallengesSpent
  <2>2. QED
    BY <1>5, <2>1 DEF ChallengesSpent, ChallengeSpentOnce
<1>6. ASSUME NEW c \in Callers, ActivateProvider(c) PROVE ChallengesSpent'
  <2>1. "ACTIVE" # None /\ "FINALIZED" # None
    OBVIOUS
  <2>2. QED
    BY <1>1, <1>5, <1>6, <2>1 DEF ActivateProvider
<1>7. ASSUME GiveUp(Sweeper) PROVE ChallengesSpent'
  <2>1. "FAILED" # None /\ "RETRY" # None
    OBVIOUS
  <2>2. QED
    BY <1>1, <1>5, <1>7, <2>1 DEF GiveUp, Failed
<1>8. ASSUME NEW p \in Providers, BackoffEnds(p) \/ RevokeProvider(p) PROVE ChallengesSpent'
  <2>1. "REVOKED" # None
    OBVIOUS
  <2>2. QED
    BY <1>1, <1>5, <1>8, <2>1 DEF BackoffEnds, RevokeProvider
<1>9. QED
  BY <1>2, <1>3, <1>4, <1>6, <1>7, <1>8 DEF RowsMove

\* What a step does to the Reconciler's list and to its call.
SweepSame == batch' = batch /\ call'[Sweeper] = call[Sweeper]
SweepMove ==
  \/ SweepSame
  \/ ReconcileOnce
  \/ \E p \in Providers : ReconcileOne(p)
  \/ batch' = batch /\ call'[Sweeper].pc = "idle"
  \/ /\ batch' = batch /\ call[Sweeper].pc # "idle"
     /\ call'[Sweeper].p = call[Sweeper].p /\ call'[Sweeper].n = call[Sweeper].n
  \/ batch' = [p \in Providers |-> None] /\ call'[Sweeper].pc = "idle"

\* The reconciler lists once, then takes its batch provider by provider.
LEMMA SweepStep ==
  ASSUME Typed, [Next]_vars
  PROVE  SweepMove
<1>1. call \in [Callers -> [pc : Steps, p : Providers \union {None}, n : Nat, via : Providers \union {None}]]
  BY DEF Typed, CallsTyped, Calls
<1>2. CASE call' = call /\ batch' = batch
  BY <1>2 DEF SweepMove, SweepSame
<1>3. ASSUME NEW c \in Callers, Return(c), batch' = batch PROVE SweepMove
  BY <1>1, <1>3, Caller DEF Return, SweepMove, SweepSame
<1>4. ASSUME NEW c \in Callers, NEW step, Goto(c, step), call[c].pc # "idle", batch' = batch PROVE SweepMove
  BY <1>1, <1>4, Caller DEF Goto, SweepMove, SweepSame
<1>5. ASSUME NEW h \in Handlers, NEW x, call' = [call EXCEPT ![h] = x], batch' = batch PROVE SweepMove
  BY <1>1, <1>5, Caller, JoinAssumption DEF SweepMove, SweepSame
<1>6. ASSUME NEW c \in Callers, Drive(c) PROVE SweepMove
  BY <1>3, <1>4, <1>6
     DEF Drive, EnsureActive, WaitForFinalizedStatus, UnsupportedStatus, ChainCallFails, GiveUp,
         ActivateProvider, ActivationLost
<1>7. CASE Restart
  BY <1>7, Caller DEF Restart, SweepMove
<1>8. ASSUME NEW h \in Handlers,
             WaitAborted(h) \/ JoinCertified(h) \/ (\E j \in Joins, b \in Begins : CompleteJoin(h, j, b))
      PROVE  SweepMove
  BY <1>3, <1>5, <1>8, Caller DEF WaitAborted, GiveUp, JoinCertified, ActivateProvider, CompleteJoin
<1>9. CASE JoinStep
  <2>1. CASE JoinNext
    BY <1>2, <1>6, <1>7, <1>8, <2>1
       DEF JoinNext, ChallengeExpires, BeginJoin, Reconcile, BackoffEnds, RevokeProvider, ChainExecutes,
           PoolLoses, Bond, SetStatus, SweepMove
  <2>2. QED
    BY <1>8, <1>9, <2>1 DEF JoinStep
<1>10. ASSUME NEW h \in Handlers, Accept(h) \/ RecordUsage(h) PROVE SweepMove
  BY <1>3, <1>4, <1>10, Caller DEF Accept, RecordUsage
<1>11. ASSUME NEW h \in Handlers, NEW p \in Providers, NEW q \in Providers, NEW n \in Beats(p), ReportHeartbeat(h, q, p, n) PROVE SweepMove
  BY <1>5, <1>11 DEF ReportHeartbeat
<1>12. CASE \/ \E p \in Providers :
                 \/ \E s \in Serials : Handshake(p, s)
                 \/ \E n \in 1 .. MaxNonce : RenewCertificate(p, n)
                 \/ HeartbeatExpires(p)
            \/ \E s \in Serials : LeafExpires(s)
            \/ SweepRevoked \/ Flush \/ UNCHANGED vars
  BY <1>2, <1>12 DEF Handshake, RenewCertificate, HeartbeatExpires, LeafExpires, SweepRevoked, Flush,
                     vars, joinVars
<1>13. QED
  BY <1>9, <1>10, <1>11, <1>12 DEF Next

\* The attempt counts move by the Reconciler's failures alone.
AttemptsMove ==
  \/ \A p \in Providers : outbox'[p].attempts = outbox[p].attempts
  \/ /\ call[Sweeper].pc # "idle" /\ call'[Sweeper].pc = "idle" /\ batch' = batch
     /\ \A p \in Providers : p # call[Sweeper].p => outbox'[p].attempts = outbox[p].attempts

\* Only the sweeper counts an attempt, on the number it listed: the count is exact
\* and an entry fails at its limit only.
LEMMA AttemptsStep ==
  ASSUME Typed, AttemptsExact, FailedIsExhausted, [Next]_vars
  PROVE  AttemptsExact' /\ FailedIsExhausted'
<1> USE JoinAssumption
<1>1. /\ outbox \in [Providers -> [state : OutboxStates, attempts : 0 .. MaxAttempts, due : BOOLEAN]]
      /\ batch \in [Providers -> 0 .. MaxAttempts \union {None}]
      /\ MaxAttempts \in Nat \ {0}
      /\ call[Sweeper].pc # "idle" => call[Sweeper].p \in Providers
  BY Caller DEF Typed, TypeOK, JoinTypeOK, CallsTyped
<1>2. RowsMove /\ SweepMove
  BY RowsStep, SweepStep
<1>3. /\ AttemptsMove
      /\ \A p \in Providers : outbox'[p].state = None => outbox'[p].attempts = 0
      /\ FailedIsExhausted'
  <2>1. \A p \in Providers :
          /\ outbox[p] \in [state : OutboxStates, attempts : 0 .. MaxAttempts, due : BOOLEAN]
          /\ outbox[p].state = None => outbox[p].attempts = 0
          /\ outbox[p].state = "FAILED" => outbox[p].attempts = MaxAttempts
          /\ outbox[p].attempts = MaxAttempts => outbox[p].state \in {"FAILED", "FINALIZED"}
    BY <1>1 DEF AttemptsExact, FailedIsExhausted
  <2>2. ASSUME NEW q \in Providers, \A p \in Providers : p # q => outbox'[p] = outbox[p],
               outbox'[q].attempts = outbox[q].attempts,
               \/ outbox'[q].state = outbox[q].state
               \/ outbox'[q].state = "FINALIZED"
               \/ outbox[q].state = None /\ outbox'[q].state = "READY"
        PROVE  /\ AttemptsMove
               /\ \A p \in Providers : outbox'[p].state = None => outbox'[p].attempts = 0
               /\ FailedIsExhausted'
    <3>1. None \notin {"FINALIZED", "READY", "FAILED"}
      OBVIOUS
    <3>2. QED
      BY <2>1, <2>2, <3>1 DEF AttemptsMove, FailedIsExhausted
  <2>3. CASE UNCHANGED outbox
    BY <2>1, <2>3 DEF AttemptsMove, FailedIsExhausted
  <2>4. ASSUME NEW j \in Joins, NEW b \in Begins, challenge[b].p # None, CommitJoin(j, b)
        PROVE  /\ AttemptsMove
               /\ \A p \in Providers : outbox'[p].state = None => outbox'[p].attempts = 0
               /\ FailedIsExhausted'
    <3>1. challenge[b].p \in Providers
      BY <2>4 DEF Typed, TypeOK, JoinTypeOK
    <3>2. QED
      BY <1>1, <2>1, <2>2, <2>4, <3>1 DEF CommitJoin
  <2>5. ASSUME NEW c \in Callers, ActivateProvider(c)
        PROVE  /\ AttemptsMove
               /\ \A p \in Providers : outbox'[p].state = None => outbox'[p].attempts = 0
               /\ FailedIsExhausted'
    <3>1. call[c].p \in Providers
      BY <2>5 DEF ActivateProvider, Typed, CallsTyped
    <3>2. QED
      BY <1>1, <2>2, <2>5, <3>1 DEF ActivateProvider
  <2>6. ASSUME call[Sweeper].pc \in {"lock", "wait"}, GiveUp(Sweeper)
        PROVE  /\ AttemptsMove
               /\ \A p \in Providers : outbox'[p].state = None => outbox'[p].attempts = 0
               /\ FailedIsExhausted'
    <3>1. call'[Sweeper].pc = "idle" /\ batch' = batch
      BY <2>6, Caller DEF GiveUp, Return, Typed, CallsTyped
    <3> DEFINE q == call[Sweeper].p
               n == outbox[q].attempts
    <3>2. /\ q \in Providers /\ n \in Nat /\ n < MaxAttempts /\ call[Sweeper].n = n
      BY <1>1, <2>6 DEF AttemptsExact
    <3>3. /\ \A p \in Providers : p # q => outbox'[p] = outbox[p]
          /\ outbox'[q] = [state |-> IF n + 1 >= MaxAttempts THEN "FAILED" ELSE "RETRY",
                           attempts |-> n + 1, due |-> FALSE]
      BY <1>1, <2>6, <3>2 DEF GiveUp, Failed
    <3>4. None \notin {"FAILED", "RETRY"}
      OBVIOUS
    <3> HIDE DEF n
    <3>5. /\ outbox'[q].attempts = n + 1 /\ outbox'[q].state # None
          /\ outbox'[q].state = "FAILED" => n + 1 = MaxAttempts
          /\ n + 1 = MaxAttempts => outbox'[q].state = "FAILED"
      BY <1>1, <3>2, <3>3, <3>4
    <3>6. QED
      BY <2>1, <2>6, <3>1, <3>3, <3>5 DEF AttemptsMove, FailedIsExhausted
  <2>7. ASSUME NEW p \in Providers, BackoffEnds(p)
        PROVE  /\ AttemptsMove
               /\ \A q \in Providers : outbox'[q].state = None => outbox'[q].attempts = 0
               /\ FailedIsExhausted'
    BY <1>1, <2>2, <2>7 DEF BackoffEnds
  <2>8. QED
    BY <1>2, <2>3, <2>4, <2>5, <2>6, <2>7
       DEF RowsMove, RowsSame, joinDb, ChallengeExpires, BeginJoin, RevokeProvider
<1>4. \A p \in Providers :
        /\ batch[p] # None => batch[p] = outbox[p].attempts /\ batch[p] < MaxAttempts
        /\ outbox[p].attempts \in 0 .. MaxAttempts
  BY <1>1 DEF AttemptsExact
<1>5. call[Sweeper].pc # "idle" =>
        /\ call[Sweeper].n = outbox[call[Sweeper].p].attempts /\ call[Sweeper].n < MaxAttempts
        /\ batch[call[Sweeper].p] = None
  BY DEF AttemptsExact
<1>6. CASE SweepSame \/ (/\ batch' = batch /\ call[Sweeper].pc # "idle"
                         /\ call'[Sweeper].p = call[Sweeper].p /\ call'[Sweeper].n = call[Sweeper].n)
  <2>1. CASE \A p \in Providers : outbox'[p].attempts = outbox[p].attempts
    BY <1>1, <1>3, <1>4, <1>5, <1>6, <2>1 DEF AttemptsExact, SweepSame
  <2>2. CASE /\ call[Sweeper].pc # "idle" /\ call'[Sweeper].pc = "idle" /\ batch' = batch
             /\ \A p \in Providers : p # call[Sweeper].p => outbox'[p].attempts = outbox[p].attempts
    BY <1>1, <1>3, <1>4, <1>5, <1>6, <2>2 DEF AttemptsExact
  <2>3. QED
    BY <1>3, <2>1, <2>2 DEF AttemptsMove
<1>7. CASE ReconcileOnce
  <2>1. \A p \in Providers : Due(p) => outbox[p].attempts < MaxAttempts
    BY <1>4 DEF Due, FailedIsExhausted
  <2>2. outbox' = outbox /\ call' = call /\ call[Sweeper].pc = "idle"
    BY <1>7 DEF ReconcileOnce, joinDb
  <2>3. \A p \in Providers : batch'[p] = IF Due(p) THEN outbox[p].attempts ELSE None
    BY <1>7 DEF ReconcileOnce
  <2>4. QED
    BY <1>3, <2>1, <2>2, <2>3 DEF AttemptsExact
<1>8. ASSUME NEW p \in Providers, ReconcileOne(p) PROVE AttemptsExact'
  <2>1. /\ outbox' = outbox /\ batch[p] # None
        /\ call'[Sweeper].p = p /\ call'[Sweeper].n = batch[p]
        /\ batch'[p] = None /\ \A q \in Providers : q # p => batch'[q] = batch[q]
    BY <1>1, <1>8, Caller DEF ReconcileOne, joinDb, Typed, CallsTyped
  <2>2. QED
    BY <1>3, <1>4, <2>1 DEF AttemptsExact
<1>9. CASE call'[Sweeper].pc = "idle" /\ (batch' = batch \/ batch' = [p \in Providers |-> None])
  <2>1. \A p \in Providers : batch'[p] # None => outbox'[p].attempts = outbox[p].attempts /\ batch'[p] = batch[p]
    BY <1>3, <1>5, <1>9 DEF AttemptsMove
  <2>2. QED
    BY <1>3, <1>4, <1>9, <2>1 DEF AttemptsExact
<1>10. QED
  BY <1>2, <1>3, <1>6, <1>7, <1>8, <1>9 DEF SweepMove

-----------------------------------------------------------------------------
(* The chain: an Active status is suspended, restored or removed, and never *)
(* leads back to one that was on its way there.                              *)

Submissions == {StepsTo(s) : s \in ChainStatuses}

\* What is left of a submission when its first status change was executed.
LEMMA SubmissionRest ==
  /\ <<>> \in Submissions
  /\ \A q \in Submissions : q # <<>> => Tail(q) \in Submissions
  /\ \A s \in ChainStatuses : StepsTo(s) \in Submissions
  /\ \A q \in Submissions : q # <<>> => Head(q) \in {"Registered", "Verified", "Active"}
<1>1. /\ StepsTo("Absent") = <<"Registered", "Verified", "Active">>
      /\ StepsTo("Registered") = <<"Verified", "Active">>
      /\ StepsTo("Verified") = <<"Active">>
      /\ StepsTo("Active") = <<>>
      /\ StepsTo("Suspended") = <<>>
      /\ StepsTo("Removed") = <<>>
  BY DEF StepsTo
<1>2. Submissions = {<<"Registered", "Verified", "Active">>, <<"Verified", "Active">>, <<"Active">>, <<>>}
  BY <1>1 DEF Submissions, ChainStatuses
<1>3. /\ Tail(<<"Registered", "Verified", "Active">>) = <<"Verified", "Active">>
      /\ Tail(<<"Verified", "Active">>) = <<"Active">>
      /\ Tail(<<"Active">>) = <<>>
      /\ Head(<<"Registered", "Verified", "Active">>) = "Registered"
      /\ Head(<<"Verified", "Active">>) = "Verified"
      /\ Head(<<"Active">>) = "Active"
  OBVIOUS
<1>4. QED
  BY <1>1, <1>2, <1>3 DEF ChainStatuses

\* An edge of the registry stays within the statuses and does not leave the
\* admissible ones.
LEMMA TransitionRest ==
  ASSUME NEW from, NEW to, <<from, to>> \in Transitions
  PROVE  to \in ChainStatuses /\ (from \in Admissible => to \in Admissible)
BY DEF Transitions, ChainStatuses, Admissible

ChainTypes ==
  /\ chain \in [Providers -> ChainStatuses]
  /\ bonded \in [Providers -> BOOLEAN]
  /\ DOMAIN pending = Providers
  /\ \A p \in Providers : pending[p] \in Submissions

\* The chain takes submissions, and never turns away an account it has admitted.
LEMMA ChainStep ==
  ASSUME Typed, [Next]_vars
  PROVE  /\ ChainTypes'
         /\ \A p \in Providers : chain[p] \in Admissible => chain'[p] \in Admissible
<1> DEFINE Goal ==
      /\ ChainTypes'
      /\ \A p \in Providers : chain[p] \in Admissible => chain'[p] \in Admissible
<1>1. ChainTypes
  BY DEF Typed, TypeOK, JoinTypeOK, ChainTypes, Submissions
<1>2. CASE UNCHANGED joinChain
  BY <1>1, <1>2 DEF joinChain, ChainTypes
<1>3. ASSUME NEW c \in Callers, EnsureActive(c) PROVE Goal
  <2>1. call[c].p \in Providers /\ chain[call[c].p] \in ChainStatuses
    BY <1>1, <1>3 DEF EnsureActive, Typed, CallsTyped, ChainTypes
  <2>2. StepsTo(chain[call[c].p]) \in Submissions
    BY <2>1, SubmissionRest
  <2>3. UNCHANGED <<chain, bonded>>
    BY <1>3 DEF EnsureActive
  <2>4. pending' = pending \/ pending' = [pending EXCEPT ![call[c].p] = StepsTo(chain[call[c].p])]
    BY <1>3 DEF EnsureActive
  <2>5. DOMAIN pending' = Providers /\ \A p \in Providers : pending'[p] \in Submissions
    BY <1>1, <2>2, <2>4 DEF ChainTypes
  <2>6. QED
    BY <1>1, <2>3, <2>5 DEF ChainTypes
<1>4. ASSUME NEW p \in Providers, ChainExecutes(p) PROVE Goal
  <2> DEFINE to == Head(pending[p])
             ok == Allowed(p, to)
  <2>1. /\ pending' = [pending EXCEPT ![p] = Tail(pending[p])] /\ bonded' = bonded
        /\ pending[p] \in Submissions /\ pending[p] # <<>>
        /\ chain' = [chain EXCEPT ![p] = IF ok THEN to ELSE chain[p]]
    BY <1>1, <1>4 DEF ChainExecutes, ChainTypes
  <2>2. Tail(pending[p]) \in Submissions
    BY <2>1, SubmissionRest
  <2>3. ok => to \in ChainStatuses /\ (chain[p] \in Admissible => to \in Admissible)
    BY TransitionRest DEF Allowed
  <2> HIDE DEF to, ok
  <2>4. chain'[p] \in ChainStatuses /\ (chain[p] \in Admissible => chain'[p] \in Admissible)
    BY <1>1, <2>1, <2>3 DEF ChainTypes
  <2>5. /\ \A q \in Providers : q # p => chain'[q] = chain[q]
        /\ chain' = [q \in Providers |-> chain'[q]]
    BY <1>1, <2>1 DEF ChainTypes
  <2>6. chain' \in [Providers -> ChainStatuses]
    BY <1>1, <2>4, <2>5 DEF ChainTypes
  <2>7. DOMAIN pending' = Providers /\ \A q \in Providers : pending'[q] \in Submissions
    BY <1>1, <2>1, <2>2 DEF ChainTypes
  <2>8. QED
    BY <1>1, <2>1, <2>4, <2>5, <2>6, <2>7 DEF ChainTypes
<1>5. ASSUME NEW p \in Providers, PoolLoses(p) \/ Bond(p) \/ \E to \in ChainStatuses : SetStatus(p, to)
      PROVE  Goal
  <2>1. CASE PoolLoses(p)
    BY <1>1, <2>1, SubmissionRest DEF PoolLoses, ChainTypes
  <2>2. CASE Bond(p)
    BY <1>1, <2>2 DEF Bond, ChainTypes
  <2>3. ASSUME NEW to \in ChainStatuses, SetStatus(p, to) PROVE Goal
    <3>1. /\ to \in ChainStatuses /\ (chain[p] \in Admissible => to \in Admissible)
          /\ chain' = [chain EXCEPT ![p] = to] /\ UNCHANGED <<bonded, pending>>
      BY <2>3, TransitionRest DEF SetStatus, Allowed
    <3>2. QED
      BY <1>1, <3>1 DEF ChainTypes
  <2>4. QED
    BY <1>5, <2>1, <2>2, <2>3
<1> HIDE DEF Goal
<1>6. ASSUME NEW c \in Callers, Drive(c) PROVE Goal
  BY <1>2, <1>3, <1>6
     DEF Drive, WaitForFinalizedStatus, UnsupportedStatus, ChainCallFails, GiveUp, ActivateProvider,
         ActivationLost, Goal
<1>7. CASE JoinNext
  BY <1>2, <1>4, <1>5, <1>6, <1>7
     DEF JoinNext, ChallengeExpires, BeginJoin, CompleteJoin, WaitAborted, GiveUp, Reconcile,
         ReconcileOnce, ReconcileOne, BackoffEnds, RevokeProvider, Restart, Goal
<1>8. CASE JoinStep
  BY <1>2, <1>7, <1>8 DEF JoinStep, JoinCertified, ActivateProvider, CompleteJoin, Goal
<1>9. CASE \/ \E p \in Providers :
                \/ \E s \in Serials : Handshake(p, s)
                \/ \E n \in 1 .. MaxNonce : RenewCertificate(p, n)
                \/ HeartbeatExpires(p)
                \/ \E h \in Handlers, q \in Providers, n \in Beats(p) : ReportHeartbeat(h, q, p, n)
           \/ \E s \in Serials : LeafExpires(s)
           \/ \E h \in Handlers : Accept(h) \/ RecordUsage(h)
           \/ SweepRevoked \/ Flush \/ UNCHANGED vars
  <2>1. UNCHANGED joinChain
    BY <1>9 DEF Handshake, RenewCertificate, HeartbeatExpires, ReportHeartbeat, LeafExpires, Accept,
                RecordUsage, SweepRevoked, Flush, vars, joinVars, joinChain
  <2>2. QED
    BY <1>2, <2>1 DEF Goal
<1>10. QED
  BY <1>8, <1>9 DEF Next, Goal

\* Whoever is about to activate a provider has seen it Active.
ActivationsFinal == \A c \in Callers : call[c].pc = "activate" => chain[call[c].p] \in Admissible

\* A call comes to "activate" after a finalized read, and to ACTIVE from there.
LEMMA ActivationStep ==
  ASSUME Typed, ActivationsFinal, ActiveIsFinalized, [Next]_vars
  PROVE  ActivationsFinal' /\ ActiveIsFinalized'
<1>1. \A p \in Providers : chain[p] \in Admissible => chain'[p] \in Admissible
  BY ChainStep
<1>2. call \in [Callers -> [pc : Steps, p : Providers \union {None}, n : Nat, via : Providers \union {None}]]
  BY DEF Typed, CallsTyped, Calls
<1>3. \A c \in Callers :
        call'[c].pc = "activate" =>
          \/ call'[c].p = call[c].p /\ call[c].pc = "activate"
          \/ call'[c].p = call[c].p /\ call[c].pc # "idle" /\ chain[call[c].p] \in Admissible
  <2> DEFINE Kept(c) ==
        call'[c].pc = "activate" =>
          \/ call'[c].p = call[c].p /\ call[c].pc = "activate"
          \/ call'[c].p = call[c].p /\ call[c].pc # "idle" /\ chain[call[c].p] \in Admissible
  <2>1. CASE call' = call
    BY <2>1
  <2>2. ASSUME NEW c \in Callers, Return(c) PROVE \A d \in Callers : Kept(d)
    BY <1>2, <2>2, Caller DEF Return
  <2>3. ASSUME NEW c \in Callers, NEW step, Goto(c, step), call[c].pc # "idle",
               step = "activate" => chain[call[c].p] \in Admissible
        PROVE  \A d \in Callers : Kept(d)
    BY <1>2, <2>3 DEF Goto
  <2>4. ASSUME NEW c \in Callers, NEW step \in {"idle", "lock", "check"}, NEW q, NEW n, NEW v,
               call' = [call EXCEPT ![c] = [pc |-> step, p |-> q, n |-> n, via |-> v]]
        PROVE  \A d \in Callers : Kept(d)
    BY <1>2, <2>4
  <2>5. ASSUME NEW c \in Callers, Drive(c) PROVE \A d \in Callers : Kept(d)
    <3> HIDE DEF Kept
    <3>1. QED
      BY <2>2, <2>3, <2>5
         DEF Drive, EnsureActive, WaitForFinalizedStatus, Finalized, UnsupportedStatus, ChainCallFails,
             GiveUp, ActivateProvider, ActivationLost, Admissible
  <2>6. ASSUME NEW h \in Handlers,
               WaitAborted(h) \/ JoinCertified(h) \/ (\E j \in Joins, b \in Begins : CompleteJoin(h, j, b))
        PROVE  \A d \in Callers : Kept(d)
    <3>1. ASSUME NEW j \in Joins, NEW b \in Begins, CompleteJoin(h, j, b) PROVE \A d \in Callers : Kept(d)
      <4>1. \/ call' = [call EXCEPT ![h] = [pc |-> "idle", p |-> None, n |-> 0, via |-> None]]
            \/ call' = [call EXCEPT ![h] = [pc |-> "lock", p |-> challenge[b].p, n |-> 0, via |-> None]]
        BY <3>1 DEF CompleteJoin, Idle
      <4> HIDE DEF Kept
      <4>2. QED
        BY <2>4, <4>1, Caller
    <3> HIDE DEF Kept
    <3>2. QED
      BY <2>2, <2>6, <3>1, Caller DEF WaitAborted, GiveUp, JoinCertified, ActivateProvider
  <2>7. ASSUME NEW p \in Providers, ReconcileOne(p) PROVE \A d \in Callers : Kept(d)
    <3>1. call' = [call EXCEPT ![Sweeper] = [pc |-> "lock", p |-> p, n |-> batch[p], via |-> None]]
      BY <2>7 DEF ReconcileOne
    <3> HIDE DEF Kept
    <3>2. QED
      BY <2>4, <3>1, Caller
  <2>8. CASE Restart
    BY <2>8, Caller DEF Restart
  <2>9. ASSUME NEW h \in Handlers, Accept(h) \/ RecordUsage(h) PROVE \A d \in Callers : Kept(d)
    <3> HIDE DEF Kept
    <3>1. QED
      BY <2>2, <2>3, <2>9, Caller DEF Accept, RecordUsage
  <2>10. ASSUME NEW h \in Handlers, NEW p \in Providers, NEW q \in Providers, NEW n \in Beats(p), ReportHeartbeat(h, q, p, n)
         PROVE  \A d \in Callers : Kept(d)
    <3>1. call' = [call EXCEPT ![h] = [pc |-> "check", p |-> p, n |-> n, via |-> q]]
      BY <2>10 DEF ReportHeartbeat
    <3> HIDE DEF Kept
    <3>2. QED
      BY <2>4, <3>1, Caller
  <2>11. CASE JoinNext
    <3>1. CASE \/ \E b \in Begins : ChallengeExpires(b) \/ \E p \in Providers : BeginJoin(b, p)
               \/ ReconcileOnce
               \/ \E p \in Providers : \/ BackoffEnds(p) \/ RevokeProvider(p) \/ ChainExecutes(p)
                                       \/ PoolLoses(p) \/ Bond(p) \/ \E to \in ChainStatuses : SetStatus(p, to)
      BY <2>1, <3>1 DEF ChallengeExpires, BeginJoin, ReconcileOnce, BackoffEnds, RevokeProvider,
                        ChainExecutes, PoolLoses, Bond, SetStatus
    <3> HIDE DEF Kept
    <3>2. QED
      BY <2>5, <2>6, <2>7, <2>8, <2>11, <3>1 DEF JoinNext, Reconcile, Kept
  <2>12. CASE \/ \E p \in Providers :
                   \/ \E s \in Serials : Handshake(p, s)
                   \/ \E n \in 1 .. MaxNonce : RenewCertificate(p, n)
                   \/ HeartbeatExpires(p)
              \/ \E s \in Serials : LeafExpires(s)
              \/ SweepRevoked \/ Flush \/ UNCHANGED vars
    BY <2>1, <2>12 DEF Handshake, RenewCertificate, HeartbeatExpires, LeafExpires, SweepRevoked, Flush,
                       vars, joinVars
  <2> HIDE DEF Kept
  <2>13. QED
    BY <2>6, <2>9, <2>10, <2>11, <2>12 DEF Next, JoinStep, Kept
<1>4. ActivationsFinal'
  <2>1. \A c \in Callers : call[c].pc # "idle" => call[c].p \in Providers
    BY DEF Typed, CallsTyped
  <2>2. QED
    BY <1>1, <1>3, <2>1 DEF ActivationsFinal
<1>5. \A p \in Providers :
        row'[p] = "ACTIVE" =>
          row[p] = "ACTIVE" \/ \E c \in Callers : call[c].pc = "activate" /\ call[c].p = p
  <2>1. row \in [Providers -> Statuses] /\ RowsMove
    BY RowsStep DEF Typed, TypeOK, JoinTypeOK
  <2>2. ASSUME NEW j \in Joins, NEW b \in Begins, CommitJoin(j, b)
        PROVE  \A p \in Providers : row'[p] = "ACTIVE" => row[p] = "ACTIVE"
    BY <2>1, <2>2 DEF CommitJoin
  <2>3. ASSUME NEW c \in Callers, ActivateProvider(c)
        PROVE  \A p \in Providers :
                 row'[p] = "ACTIVE" => row[p] = "ACTIVE" \/ (call[c].pc = "activate" /\ call[c].p = p)
    BY <2>1, <2>3 DEF ActivateProvider
  <2>4. ASSUME NEW p \in Providers, RevokeProvider(p)
        PROVE  \A q \in Providers : row'[q] = "ACTIVE" => row[q] = "ACTIVE"
    BY <2>1, <2>4 DEF RevokeProvider
  <2>5. QED
    BY <2>1, <2>2, <2>3, <2>4
       DEF RowsMove, RowsSame, joinDb, ChallengeExpires, BeginJoin, GiveUp, BackoffEnds
<1>6. ActiveIsFinalized'
  BY <1>1, <1>5 DEF ActiveIsFinalized, ActivationsFinal, Admissible
<1>7. QED
  BY <1>4, <1>6

-----------------------------------------------------------------------------
(***************************************************************************)
(* Certificates. A connection was opened with a leaf of its own provider,  *)
(* and a leaf is issued to a provider the chain has admitted, so whoever   *)
(* carries a heartbeat was admitted, be it the signer or another one.      *)
(***************************************************************************)

CertificatesHeld ==
  /\ \A p \in Providers : conn[p] # None => leaf[conn[p]].p = p
  /\ \A s \in Serials : leaf[s].p # None => chain[leaf[s].p] \in Admissible
  /\ CarriersAreRegistered

LeafTypes == leaf \in [Serials -> [p : Providers \union {None}, valid : BOOLEAN]]

\* What a step may do to the leaves: keep the provider of each, and issue new
\* ones to providers the chain has admitted.
LeavesMove ==
  /\ LeafTypes'
  /\ \A s \in Serials :
       \/ leaf'[s].p = leaf[s].p
       \/ leaf[s].p = None /\ leaf'[s].p \in Providers /\ chain[leaf'[s].p] \in Admissible

\* A leaf keeps its provider, through issues and expiries, and is issued after
\* the activation, or to a provider whose row is ACTIVE.
LEMMA LeavesStep ==
  ASSUME Typed, ActivationsFinal, ActiveIsFinalized, [Next]_vars
  PROVE  LeavesMove
<1>1. LeafTypes
  BY DEF Typed, TypeOK, LeafTypes
<1>2. CASE UNCHANGED leaf
  BY <1>1, <1>2 DEF LeafTypes, LeavesMove
<1>3. ASSUME NEW p \in Providers, IssueLeaf(p), chain[p] \in Admissible
      PROVE  LeavesMove
  <2> DEFINE new == [p |-> p, valid |-> TRUE]
  <2>1. new \in [p : Providers \union {None}, valid : BOOLEAN] /\ new.p = p
    OBVIOUS
  <2>2. PICK s \in Serials \ Issued : leaf' = [leaf EXCEPT ![s] = new]
    BY <1>3 DEF IssueLeaf
  <2> HIDE DEF new
  <2>3. leaf[s].p = None
    BY <2>2 DEF Issued
  <2>4. QED
    BY <1>1, <1>3, <2>1, <2>2, <2>3 DEF LeafTypes, LeavesMove
<1>4. ASSUME NEW s \in Serials, LeafExpires(s)
      PROVE  LeavesMove
  <2> DEFINE no == FALSE
             old == [leaf[s] EXCEPT !.valid = no]
  <2>1. leaf' = [leaf EXCEPT ![s] = old]
    BY <1>4 DEF LeafExpires
  <2>2. no \in BOOLEAN
    OBVIOUS
  <2> HIDE DEF no
  <2>3. old \in [p : Providers \union {None}, valid : BOOLEAN] /\ old.p = leaf[s].p
    BY <1>1, <2>2 DEF LeafTypes
  <2> HIDE DEF old
  <2>4. QED
    BY <1>1, <2>1, <2>3 DEF LeafTypes, LeavesMove
<1>5. ASSUME NEW h \in Handlers, JoinCertified(h)
      PROVE  \E p \in Providers : IssueLeaf(p) /\ chain[p] \in Admissible
  <2>1. CASE ActivateProvider(h) /\ IssueLeaf(call[h].p)
    <3>1. call[h].p \in Providers /\ chain[call[h].p] \in Admissible
      BY <2>1, Caller DEF ActivateProvider, Typed, CallsTyped, ActivationsFinal
    <3>2. QED
      BY <2>1, <3>1
  <2>2. ASSUME NEW j \in Joins, NEW b \in Begins, row[challenge[b].p] = "ACTIVE", CompleteJoin(h, j, b),
               IssueLeaf(challenge[b].p)
        PROVE  \E p \in Providers : IssueLeaf(p) /\ chain[p] \in Admissible
    <3>1. challenge[b].p \in Providers
      BY <2>2 DEF CompleteJoin, Typed, TypeOK, JoinTypeOK
    <3>2. QED
      BY <2>2, <3>1 DEF ActiveIsFinalized
  <2>3. QED
    BY <1>5, <2>1, <2>2 DEF JoinCertified
<1>6. ASSUME NEW p \in Providers, NEW n \in 1 .. MaxNonce, RenewCertificate(p, n) PROVE LeavesMove
  BY <1>3, <1>6 DEF RenewCertificate, ActiveIsFinalized
<1>7. QED
  BY <1>2, <1>3, <1>4, <1>5, <1>6
     DEF Next, JoinStep, Handshake, HeartbeatExpires, ReportHeartbeat, Accept, RecordUsage,
         SweepRevoked, Flush, vars, sessionVars, certs

SessionTypes ==
  /\ conn \in [Providers -> Serials \union {None}]
  /\ revoked \subseteq Providers
  /\ nonce \in [Providers -> 0 .. MaxNonce]
  /\ DOMAIN beat = Providers /\ DOMAIN usage = Providers
  /\ \A p \in Providers :
       /\ beat[p] \in Beats(p) \union {None}
       /\ usage[p] = None \/ \E n \in Beats(p) : usage[p] = Reports[p][n]

\* A step of the Agents' side, by the keys and the rows it writes.
SessionMove ==
  \/ UNCHANGED <<conn, revoked, nonce, beat, usage>>
  \/ \E p \in Providers, s \in Serials : Handshake(p, s)
  \/ \E p \in Providers, n \in 1 .. MaxNonce : RenewCertificate(p, n)
  \/ \E p \in Providers : HeartbeatExpires(p)
  \/ \E h \in Handlers : Accept(h) \/ RecordUsage(h)
  \/ SweepRevoked
  \/ Flush

\* Connections, heartbeats, usage and revocations change in the ways of SessionMove.
LEMMA SessionStep ==
  ASSUME Typed, [Next]_vars
  PROVE  SessionTypes' /\ SessionMove
<1>1. SessionTypes
  BY DEF Typed, TypeOK, SessionTypes
<1>2. SessionMove
  BY DEF Next, JoinStep, ReportHeartbeat, LeafExpires, vars, sessionVars, certs, SessionMove
<1>3. ASSUME NEW h \in Handlers, call[h].pc \in {"check", "record"}
      PROVE  call[h].p \in Providers /\ call[h].n \in Beats(call[h].p)
  BY <1>3, Caller DEF Typed, CallsTyped
<1>4. CASE UNCHANGED <<conn, revoked, nonce, beat, usage>>
  BY <1>1, <1>2, <1>4 DEF SessionTypes
<1>5. ASSUME NEW p \in Providers, NEW s \in Serials, Handshake(p, s) PROVE SessionTypes'
  BY <1>1, <1>5 DEF Handshake, SessionTypes
<1>6. ASSUME NEW p \in Providers, NEW n \in 1 .. MaxNonce, RenewCertificate(p, n) PROVE SessionTypes'
  BY <1>1, <1>6, SessionAssumption DEF RenewCertificate, SessionTypes
<1>7. ASSUME NEW p \in Providers, HeartbeatExpires(p) PROVE SessionTypes'
  BY <1>1, <1>7 DEF HeartbeatExpires, certs, SessionTypes
<1>8. ASSUME NEW h \in Handlers, Accept(h) PROVE SessionTypes'
  BY <1>1, <1>3, <1>8 DEF Accept, certs, SessionTypes
<1>9. ASSUME NEW h \in Handlers, RecordUsage(h) PROVE SessionTypes'
  <2>1. call[h].pc = "record"
    BY <1>9 DEF RecordUsage
  <2>2. call[h].p \in Providers /\ call[h].n \in Beats(call[h].p)
    BY <1>3, <2>1
  <2>3. UNCHANGED <<conn, revoked, nonce, beat>>
    BY <1>9 DEF RecordUsage, certs
  <2>4. \/ usage' = usage
        \/ usage' = [usage EXCEPT ![call[h].p] = Reports[call[h].p][call[h].n]]
        \/ usage' = [usage EXCEPT ![call[h].p] = usage[call[h].p]]
    BY <1>9 DEF RecordUsage
  <2>5. QED
    BY <1>1, <2>2, <2>3, <2>4 DEF SessionTypes
<1>10. CASE SweepRevoked \/ Flush
  <2>1. 0 \in 0 .. MaxNonce
    BY SessionAssumption
  <2>2. QED
    BY <1>1, <1>2, <1>10, <2>1 DEF SweepRevoked, Flush, certs, RevokedRows, SessionTypes
<1>11. QED
  BY <1>2, <1>4, <1>5, <1>6, <1>7, <1>8, <1>9, <1>10 DEF SessionMove

\* A call is at a heartbeat's steps only since a ReportHeartbeat.
LEMMA BeatCalls ==
  ASSUME Typed, [Next]_vars, NEW c \in Callers, call'[c].pc \in {"check", "record"}
  PROVE  \/ call'[c] = call[c]
         \/ call'[c].pc = "record" /\ call[c].pc = "check" /\ call'[c].p = call[c].p /\ call'[c].via = call[c].via
         \/ /\ call'[c].pc = "check" /\ c \in Handlers
            /\ \E p \in Providers, q \in Providers : \E n \in Beats(p) :
                 ReportHeartbeat(c, q, p, n) /\ call'[c].p = p /\ call'[c].via = q
<1> DEFINE Kept ==
      \/ call'[c] = call[c]
      \/ call'[c].pc = "record" /\ call[c].pc = "check" /\ call'[c].p = call[c].p /\ call'[c].via = call[c].via
      \/ /\ call'[c].pc = "check" /\ c \in Handlers
         /\ \E p \in Providers, q \in Providers : \E n \in Beats(p) :
              ReportHeartbeat(c, q, p, n) /\ call'[c].p = p /\ call'[c].via = q
<1>1. call \in [Callers -> [pc : Steps, p : Providers \union {None}, n : Nat, via : Providers \union {None}]]
  BY DEF Typed, CallsTyped, Calls
<1>2. CASE call' = call
  BY <1>2
<1>3. ASSUME NEW d \in Callers, Return(d) PROVE Kept
  BY <1>1, <1>3, Caller DEF Return
<1>4. ASSUME NEW d \in Callers, NEW step \in {"wait", "activate"}, Goto(d, step) PROVE Kept
  BY <1>1, <1>4 DEF Goto
<1>5. ASSUME NEW d \in Callers, NEW step \in {"idle", "lock"}, NEW q, NEW n, NEW v,
             call' = [call EXCEPT ![d] = [pc |-> step, p |-> q, n |-> n, via |-> v]]
      PROVE  Kept
  BY <1>1, <1>5
<1>6. ASSUME NEW h \in Handlers, call[h].pc = "check", Goto(h, "record") PROVE Kept
  BY <1>1, <1>6, Caller DEF Goto
<1>7. ASSUME NEW h \in Handlers, NEW p \in Providers, NEW q \in Providers, NEW n \in Beats(p), ReportHeartbeat(h, q, p, n) PROVE Kept
  <2>1. call' = [call EXCEPT ![h] = [pc |-> "check", p |-> p, n |-> n, via |-> q]]
    BY <1>7 DEF ReportHeartbeat
  <2>2. CASE c = h
    BY <1>1, <1>7, <2>1, <2>2, Caller
  <2>3. CASE c # h
    BY <1>1, <2>1, <2>3
  <2>4. QED
    BY <2>2, <2>3
<1>8. CASE Restart
  BY <1>8, Caller DEF Restart
<1> HIDE DEF Kept
<1>9. ASSUME NEW d \in Callers, Drive(d) PROVE Kept
  BY <1>3, <1>4, <1>9
     DEF Drive, EnsureActive, WaitForFinalizedStatus, UnsupportedStatus, ChainCallFails, GiveUp,
         ActivateProvider, ActivationLost
<1>10. ASSUME NEW h \in Handlers, NEW j \in Joins, NEW b \in Begins, CompleteJoin(h, j, b) PROVE Kept
  <2>1. \/ call' = [call EXCEPT ![h] = [pc |-> "idle", p |-> None, n |-> 0, via |-> None]]
        \/ call' = [call EXCEPT ![h] = [pc |-> "lock", p |-> challenge[b].p, n |-> 0, via |-> None]]
    BY <1>10 DEF CompleteJoin, Idle
  <2>2. QED
    BY <1>5, <2>1, Caller
<1>11. ASSUME NEW p \in Providers, ReconcileOne(p) PROVE Kept
  BY <1>5, <1>11, Caller DEF ReconcileOne
<1>12. ASSUME NEW h \in Handlers, WaitAborted(h) \/ JoinCertified(h) PROVE Kept
  BY <1>3, <1>10, <1>12, Caller DEF WaitAborted, GiveUp, JoinCertified, ActivateProvider
<1>13. CASE JoinNext
  <2>1. CASE \/ \E b \in Begins : ChallengeExpires(b) \/ \E p \in Providers : BeginJoin(b, p)
             \/ ReconcileOnce
             \/ \E p \in Providers : \/ BackoffEnds(p) \/ RevokeProvider(p) \/ ChainExecutes(p)
                                     \/ PoolLoses(p) \/ Bond(p) \/ \E to \in ChainStatuses : SetStatus(p, to)
    BY <1>2, <2>1 DEF ChallengeExpires, BeginJoin, ReconcileOnce, BackoffEnds, RevokeProvider,
                      ChainExecutes, PoolLoses, Bond, SetStatus, Kept
  <2>2. QED
    BY <1>8, <1>9, <1>10, <1>11, <1>12, <1>13, <2>1 DEF JoinNext, Reconcile, Kept
<1>14. CASE \/ \E p \in Providers :
                 \/ \E s \in Serials : Handshake(p, s)
                 \/ \E n \in 1 .. MaxNonce : RenewCertificate(p, n)
                 \/ HeartbeatExpires(p)
            \/ \E s \in Serials : LeafExpires(s)
            \/ SweepRevoked \/ Flush \/ UNCHANGED vars
  BY <1>2, <1>14 DEF Handshake, RenewCertificate, HeartbeatExpires, LeafExpires, SweepRevoked, Flush,
                     vars, joinVars, Kept
<1>15. ASSUME NEW h \in Handlers, Accept(h) \/ RecordUsage(h) PROVE Kept
  BY <1>3, <1>6, <1>15, Caller DEF Accept, RecordUsage
<1>16. QED
  BY <1>7, <1>12, <1>13, <1>14, <1>15 DEF Next, JoinStep, Kept

\* Heartbeats come over connections that were opened with a certificate, and
\* certificates are issued to admitted providers.
LEMMA CertificatesStep ==
  ASSUME Typed, ActivationsFinal, ActiveIsFinalized, CertificatesHeld, [Next]_vars
  PROVE  CertificatesHeld'
<1> USE JoinAssumption
<1>1. LeavesMove /\ SessionMove /\ SessionTypes'
  BY LeavesStep, SessionStep
<1>2. \A p \in Providers : chain[p] \in Admissible => chain'[p] \in Admissible
  BY ChainStep
<1>3. ASSUME NEW p \in Providers, conn'[p] # None PROVE leaf'[conn'[p]].p = p
  <2>1. CASE conn'[p] = conn[p]
    <3>1. conn[p] \in Serials
      BY <1>3, <2>1 DEF Typed, TypeOK
    <3>2. QED
      BY <1>1, <1>3, <2>1, <3>1 DEF CertificatesHeld, LeavesMove
  <2>2. ASSUME NEW s \in Serials, Handshake(p, s) PROVE leaf'[conn'[p]].p = p
    BY <2>2 DEF Handshake, Typed, TypeOK
  <2>3. ASSUME NEW q \in Providers, NEW s \in Serials, Handshake(q, s), q # p PROVE conn'[p] = conn[p]
    BY <2>3 DEF Handshake, Typed, TypeOK
  <2>4. QED
    BY <1>1, <2>1, <2>2, <2>3
       DEF SessionMove, RenewCertificate, HeartbeatExpires, Accept, RecordUsage, SweepRevoked, Flush, certs
<1>4. ASSUME NEW s \in Serials, leaf'[s].p # None PROVE chain'[leaf'[s].p] \in Admissible
  <2>1. leaf'[s].p \in Providers
    BY <1>1, <1>4 DEF LeavesMove, LeafTypes
  <2>2. chain[leaf'[s].p] \in Admissible
    BY <1>1, <1>4 DEF LeavesMove, CertificatesHeld
  <2>3. QED
    BY <1>2, <2>1, <2>2
<1>5. ASSUME NEW p \in Providers, beat'[p] # None PROVE chain'[p] \in Admissible
  <2>1. CASE beat'[p] = beat[p]
    BY <1>2, <1>5, <2>1 DEF CertificatesHeld, CarriersAreRegistered
  <2>2. ASSUME NEW h \in Handlers, Accept(h) PROVE beat'[p] = beat[p] \/ chain[p] \in Admissible
    BY <2>2, Caller DEF Accept, Typed, TypeOK, CertificatesHeld, CarriersAreRegistered
  <2>3. ASSUME NEW q \in Providers, HeartbeatExpires(q) PROVE beat'[p] = beat[p] \/ beat'[p] = None
    BY <2>3 DEF HeartbeatExpires, Typed, TypeOK
  <2>4. QED
    BY <1>1, <1>2, <1>5, <2>1, <2>2, <2>3
       DEF SessionMove, Handshake, RenewCertificate, RecordUsage, SweepRevoked, Flush, certs
<1>6. ASSUME NEW h \in Handlers, call'[h].pc \in {"check", "record"}, NEW q \in {call'[h].p, call'[h].via}
      PROVE  chain'[q] \in Admissible
  <2>1. CASE call'[h].p = call[h].p /\ call'[h].via = call[h].via /\ call[h].pc \in {"check", "record"}
    <3>1. q \in Providers /\ chain[q] \in Admissible
      BY <1>6, <2>1, Caller DEF CertificatesHeld, CarriersAreRegistered, Typed, CallsTyped
    <3>2. QED
      BY <1>2, <3>1
  <2>2. ASSUME NEW p \in Providers, NEW v \in Providers, NEW n \in Beats(p), ReportHeartbeat(h, v, p, n),
               call'[h].p = p, call'[h].via = v
        PROVE  chain'[q] \in Admissible
    <3>1. chain[p] \in Admissible
      BY <2>2 DEF ReportHeartbeat, ActiveIsFinalized
    <3>2. conn[v] # None /\ conn[v] \in Serials
      BY <2>2 DEF ReportHeartbeat, Admitted, ChainVerified, Typed, TypeOK
    <3>3. chain[v] \in Admissible
      BY <2>2, <3>2 DEF CertificatesHeld
    <3>4. QED
      BY <1>2, <1>6, <2>2, <3>1, <3>3
  <2>3. QED
    BY <1>6, <2>1, <2>2, BeatCalls, Caller
<1>7. CarriersAreRegistered'
  BY <1>5, <1>6 DEF CarriersAreRegistered
<1>8. QED
  BY <1>3, <1>4, <1>7 DEF CertificatesHeld

-----------------------------------------------------------------------------
(* The invariant of the joins and the sessions, and what it yields. *)

\* The mutex, the Reconciler's list and the faults.
LEMMA RestTypes ==
  ASSUME Typed, [Next]_vars
  PROVE  /\ lock' \in Callers \union {None}
         /\ batch' \in [Providers -> 0 .. MaxAttempts \union {None}]
         /\ faults' \in 0 .. MaxFaults
<1>1. /\ lock \in Callers \union {None} /\ faults \in 0 .. MaxFaults
      /\ batch \in [Providers -> 0 .. MaxAttempts \union {None}]
      /\ outbox \in [Providers -> [state : OutboxStates, attempts : 0 .. MaxAttempts, due : BOOLEAN]]
  BY DEF Typed, TypeOK, JoinTypeOK
<1>2. Fault \/ faults' = faults => faults' \in 0 .. MaxFaults
  BY <1>1, JoinAssumption DEF Fault
<1>3. ReconcileOnce => batch' \in [Providers -> 0 .. MaxAttempts \union {None}]
  BY <1>1 DEF ReconcileOnce
<1>4. ASSUME NEW p \in Providers, ReconcileOne(p) PROVE batch' \in [Providers -> 0 .. MaxAttempts \union {None}]
  BY <1>1, <1>4 DEF ReconcileOne
<1>5. Restart => batch' \in [Providers -> 0 .. MaxAttempts \union {None}]
  BY DEF Restart
<1>6. /\ (Fault \/ faults' = faults)
      /\ lock' \in Callers \union {None}
      /\ batch' = batch \/ ReconcileOnce \/ (\E p \in Providers : ReconcileOne(p)) \/ Restart
  <2>1. CASE UNCHANGED <<lock, batch>> /\ (Fault \/ faults' = faults)
    BY <1>1, <2>1
  <2>2. ASSUME NEW c \in Callers, Drive(c) \/ WaitAborted(c)
        PROVE  batch' = batch /\ lock' \in Callers \union {None} /\ (Fault \/ faults' = faults)
    BY <1>1, <2>2
       DEF Drive, EnsureActive, WaitForFinalizedStatus, UnsupportedStatus, ChainCallFails, WaitAborted,
           GiveUp, ActivateProvider, ActivationLost
  <2>3. CASE Restart \/ Reconcile
    BY <1>1, <2>3 DEF Restart, Reconcile, ReconcileOnce, ReconcileOne
  <2>4. CASE JoinNext
    BY <2>1, <2>2, <2>3, <2>4, Caller
       DEF JoinNext, ChallengeExpires, BeginJoin, CompleteJoin, BackoffEnds, RevokeProvider, ChainExecutes,
           PoolLoses, Bond, SetStatus
  <2>5. QED
    BY <2>1, <2>4
       DEF Next, JoinStep, JoinCertified, ActivateProvider, CompleteJoin, Handshake, RenewCertificate,
           HeartbeatExpires, ReportHeartbeat, LeafExpires, Accept, RecordUsage, SweepRevoked, Flush,
           vars, joinVars
<1>7. QED
  BY <1>1, <1>2, <1>3, <1>4, <1>5, <1>6

SessionInv ==
  /\ Typed
  /\ AttemptsExact /\ FailedIsExhausted
  /\ ChallengesSpent
  /\ ActivationsFinal /\ ActiveIsFinalized
  /\ CertificatesHeld

\* Whoever has joined already was admitted by the chain.
LEMMA SessionStart == Init => SessionInv
<1> SUFFICES ASSUME Init PROVE SessionInv
  OBVIOUS
<1> USE JoinAssumption, StartAssumption, SessionAssumption
<1> PICK held \in Starts :
      /\ JoinInit({held[s] : s \in DOMAIN held})
      /\ leaf = [s \in Serials |->
           IF s \in DOMAIN held THEN [p |-> held[s], valid |-> TRUE] ELSE NoLeaf]
      /\ conn = [p \in Providers |-> None]
      /\ revoked = {}
      /\ nonce = [p \in Providers |-> 0]
      /\ beat = [p \in Providers |-> None]
      /\ usage = [p \in Providers |-> None]
  BY DEF Init
<1> DEFINE joined == {held[s] : s \in DOMAIN held}
<1>0. \A s \in DOMAIN held : held[s] \in Providers
  BY DEF JoinInit
<1>b. bonded \in [Providers -> BOOLEAN]
  <2>1. bonded = [p \in Providers |-> p \in joined]
    BY DEF JoinInit
  <2> HIDE DEF joined
  <2>2. QED
    BY <2>1
<1>1. CallsTyped /\ \A c \in Callers : call[c] = Idle
  BY Caller DEF JoinInit, CallsTyped
<1>2. JoinTypeOK
  <2>1. /\ row \in [Providers -> Statuses]
        /\ outbox \in [Providers -> [state : OutboxStates, attempts : 0 .. MaxAttempts, due : BOOLEAN]]
        /\ challenge \in [Begins -> [p : Providers \union {None},
                                     state : {"none", "open", "consumed", "expired"}]]
        /\ completion \in [Joins -> Begins \union {None}]
    BY DEF JoinInit, Statuses, OutboxStates
  <2>2. /\ chain \in [Providers -> ChainStatuses]
        /\ \A p \in Providers : pending[p] \in Submissions
    BY SubmissionRest DEF JoinInit, ChainStatuses
  <2>3. /\ lock \in Callers \union {None} /\ faults \in 0 .. MaxFaults
        /\ batch \in [Providers -> 0 .. MaxAttempts \union {None}]
        /\ \A c \in Callers : call[c].pc \in Steps
    BY <1>1 DEF JoinInit, CallsTyped, Calls
  <2>4. QED
    BY <1>b, <2>1, <2>2, <2>3 DEF JoinTypeOK, Submissions
<1>3. TypeOK
  <2>1. leaf \in [Serials -> [p : Providers \union {None}, valid : BOOLEAN]]
    BY <1>0 DEF NoLeaf
  <2>2. QED
    BY <1>2, <2>1 DEF TypeOK
<1>4. Typed
  BY <1>1, <1>3 DEF JoinInit, Typed
<1>5. AttemptsExact /\ FailedIsExhausted /\ ActiveIsFinalized
  BY <1>1, Caller DEF JoinInit, AttemptsExact, FailedIsExhausted, ActiveIsFinalized, Admissible
<1>6. ChallengesSpent
  BY DEF JoinInit, ChallengesSpent, ChallengeSpentOnce
<1>7. ActivationsFinal /\ CertificatesHeld
  BY <1>0, <1>1, Caller DEF JoinInit, NoLeaf, ActivationsFinal, CertificatesHeld, CarriersAreRegistered, Admissible
<1>8. QED
  BY <1>4, <1>5, <1>6, <1>7 DEF SessionInv

\* Every step keeps the invariant.
LEMMA SessionKept ==
  ASSUME SessionInv, [Next]_vars
  PROVE  SessionInv'
<1>1. CallsTyped' /\ LeafTypes' /\ SessionTypes' /\ ChainTypes'
  BY CallsStep, LeavesStep, SessionStep, ChainStep DEF SessionInv, LeavesMove
<1>2. /\ row' \in [Providers -> Statuses]
      /\ outbox' \in [Providers -> [state : OutboxStates, attempts : 0 .. MaxAttempts, due : BOOLEAN]]
      /\ challenge' \in [Begins -> [p : Providers \union {None},
                                    state : {"none", "open", "consumed", "expired"}]]
      /\ completion' \in [Joins -> Begins \union {None}]
  BY RowsStep, RowTypesStep DEF SessionInv
<1>3. \A c \in Callers : call'[c].pc \in Steps
  BY <1>1 DEF CallsTyped, Calls
<1>4. JoinTypeOK'
  BY <1>1, <1>2, <1>3, RestTypes DEF SessionInv, JoinTypeOK, ChainTypes, Submissions
<1>5. Typed'
  BY <1>1, <1>4 DEF Typed, TypeOK, LeafTypes, SessionTypes, ChainTypes
<1>6. QED
  BY <1>5, RowsStep, AttemptsStep, ChallengesStep, ActivationStep, CertificatesStep DEF SessionInv

\* The invariant of the joins and the sessions, however handlers, the
\* Reconciler, the operator, the chain and restarts interleave.
THEOREM SessionInvariant == Spec => []SessionInv
<1>1. SessionInv /\ UNCHANGED vars => SessionInv'
  BY SessionKept
<1>2. QED
  BY SessionStart, SessionKept, <1>1, PTL DEF Spec

\* A provider is ACTIVE only once the chain says so, FAILED only once the
\* attempts are spent, and no challenge is answered twice (CompleteJoin and the
\* Reconciler racing for one registration).
THEOREM JoinsAreSound == Spec => []JoinIsSound
<1>1. SessionInv => JoinIsSound
  BY DEF SessionInv, Typed, ChallengesSpent, JoinIsSound
<1>2. QED
  BY SessionInvariant, <1>1, PTL

\* Every heartbeat the Control Plane works on, and every one it remembers, was
\* signed by a provider the chain has admitted and came over the connection of
\* one, be it the same or another (UnaryServerInterceptor, IssueLeaf).
THEOREM CarriersHoldRegistration == Spec => []CarriersAreRegistered
<1>1. SessionInv => CarriersAreRegistered
  BY DEF SessionInv, CertificatesHeld
<1>2. QED
  BY SessionInvariant, <1>1, PTL

\* Late and repeated heartbeats turn neither the watermark nor a window's byte
\* counter back (acceptHeartbeatScript, recordBandwidthUsage).
THEOREM HeartbeatsNeverTurnBack == Spec => HeartbeatsMonotone
<1> DEFINE Forward ==
      \A p \in Providers :
        /\ beat[p] # None /\ beat'[p] # None => beat'[p] >= beat[p]
        /\ usage[p] # None /\ usage'[p].window = usage[p].window => usage'[p].bytes >= usage[p].bytes
<1>1. ASSUME SessionInv, [Next]_vars PROVE Forward
  <2>1. SessionMove /\ Typed
    BY <1>1, SessionStep DEF SessionInv
  <2>2. \A p \in Providers : \A n \in Beats(p) : n \in Nat /\ Reports[p][n].bytes \in Nat
    <3> DEFINE Report == [window : Nat, bytes : Nat]
    <3>1. Reports \in [Providers -> Seq(Report)] /\ \A x \in Report : x.bytes \in Nat
      BY SessionAssumption
    <3> HIDE DEF Report
    <3>2. \A p \in Providers : Len(Reports[p]) \in Nat /\ \A n \in 1 .. Len(Reports[p]) : Reports[p][n] \in Report
      BY <3>1
    <3>3. QED
      BY <3>1, <3>2 DEF Beats
  <2>3. \A p \in Providers :
          /\ beat[p] # None => beat[p] \in Nat
          /\ usage[p] # None => usage[p].bytes \in Nat
    BY <2>1, <2>2 DEF Typed, TypeOK
  <2>4. ASSUME NEW h \in Handlers, Accept(h)
        PROVE  \A p \in Providers : beat[p] # None /\ beat'[p] # None => beat'[p] >= beat[p]
    BY <2>1, <2>2, <2>3, <2>4 DEF Accept, Acceptable, Typed, TypeOK
  <2>5. ASSUME NEW h \in Handlers, RecordUsage(h), NEW p \in Providers, usage[p] # None,
               usage'[p].window = usage[p].window
        PROVE  usage'[p].bytes >= usage[p].bytes
    <3>1. usage'[p] = usage[p] \/ (usage'[p] = Reports[p][call[h].n] /\ Keeps(usage[p], Reports[p][call[h].n]))
      BY <2>1, <2>5 DEF RecordUsage, Typed
    <3>2. QED
      BY <2>3, <2>5, <3>1 DEF Keeps
  <2>6. ASSUME NEW q \in Providers, HeartbeatExpires(q)
        PROVE  \A p \in Providers : beat[p] # None /\ beat'[p] # None => beat'[p] >= beat[p]
    BY <2>1, <2>2, <2>3, <2>6 DEF HeartbeatExpires, Typed, TypeOK
  <2>7. CASE Flush
    BY <2>3, <2>7 DEF Flush
  <2>8. (beat' = beat => \A p \in Providers : beat[p] # None => beat'[p] >= beat[p])
        /\ (usage' = usage => \A p \in Providers : usage[p] # None => usage'[p].bytes >= usage[p].bytes)
    BY <2>2, <2>3
  <2>9. QED
    BY <2>1, <2>4, <2>5, <2>6, <2>7, <2>8
       DEF SessionMove, Handshake, RenewCertificate, HeartbeatExpires, Accept, RecordUsage, SweepRevoked, certs
<1>2. QED
  BY SessionInvariant, <1>1, PTL DEF Spec, HeartbeatsMonotone

\* From the sweep of its revocation until Redis loses its data, a provider
\* renews no certificate, opens no connection, and no heartbeat comes in over
\* the ones it had opened, nor one it signed while its row is REVOKED.
THEOREM RevokedAreCutOff == Spec => SweptIsCutOff
<1> DEFINE Off ==
      \A p \in Providers :
        p \in revoked =>
          /\ faults' = faults => p \in revoked' /\ nonce'[p] = nonce[p]
          /\ conn'[p] = conn[p]
          /\ \A h \in Handlers :
               call'[h].pc = "check" /\ (call'[h].via = p \/ (call'[h].p = p /\ row[p] = "REVOKED")) =>
                 call[h] = call'[h]
<1>1. ASSUME SessionInv, [Next]_vars PROVE Off
  <2>1. SessionMove /\ Typed
    BY <1>1, SessionStep DEF SessionInv
  <2>2. ASSUME NEW p \in Providers, p \in revoked, faults' = faults PROVE p \in revoked' /\ nonce'[p] = nonce[p]
    <3>1. ~Flush
      BY <2>1, <2>2, JoinAssumption DEF Flush, Fault, Typed, TypeOK, JoinTypeOK
    <3>2. ASSUME NEW q \in Providers, NEW n \in 1 .. MaxNonce, RenewCertificate(q, n)
          PROVE  p \in revoked' /\ nonce'[p] = nonce[p]
      BY <2>1, <2>2, <3>2 DEF RenewCertificate, Admitted, Typed, TypeOK
    <3>3. QED
      BY <2>1, <2>2, <3>1, <3>2
         DEF SessionMove, Handshake, HeartbeatExpires, Accept, RecordUsage, SweepRevoked, certs
  <2>3. ASSUME NEW p \in Providers, p \in revoked PROVE conn'[p] = conn[p]
    <3>1. ASSUME NEW q \in Providers, NEW s \in Serials, Handshake(q, s) PROVE conn'[p] = conn[p]
      BY <2>1, <2>3, <3>1 DEF Handshake, Typed, TypeOK
    <3>2. QED
      BY <2>1, <3>1
         DEF SessionMove, RenewCertificate, HeartbeatExpires, Accept, RecordUsage, SweepRevoked, Flush, certs
  <2>4. ASSUME NEW p \in Providers, p \in revoked, NEW h \in Handlers, call'[h].pc = "check",
               call'[h].via = p \/ (call'[h].p = p /\ row[p] = "REVOKED")
        PROVE  call[h] = call'[h]
    BY <1>1, <2>1, <2>4, BeatCalls, Caller DEF ReportHeartbeat, Admitted
  <2>5. QED
    BY <2>2, <2>3, <2>4
<1>2. QED
  BY SessionInvariant, <1>1, PTL DEF Spec, SweptIsCutOff
=============================================================================
