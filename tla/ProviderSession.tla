--------------------------- MODULE ProviderSession ---------------------------
(***************************************************************************)
(* What a joined provider does with the Control Plane: certificates        *)
(* (internal/pki and RenewCertificate), heartbeats with their Redis        *)
(* watermark and bandwidth counters, and the sweep that mirrors            *)
(* revocations into Redis.                                                 *)
(*                                                                         *)
(* A connection is the serial of the leaf it was opened with. Bootstrap    *)
(* (self-signed) connections reach BeginJoin and CompleteJoin only, which  *)
(* is why those two ask for no connection in ProviderJoin. Heartbeat n of  *)
(* an Agent is one signed payload: request id, sequence n, and a counter   *)
(* report; the network may deliver it late, twice, or beside another one,  *)
(* so what an Agent has signed so far need not be remembered. It may also  *)
(* come over the connection of another provider: RenewCertificate alone    *)
(* compares the two.                                                       *)
(***************************************************************************)
EXTENDS ProviderJoin

CONSTANTS
  Reports,          \* Reports[p][n]: window and byte counter of p's heartbeat n
  MaxSerial,        \* bound: certificates issued
  MaxNonce          \* bound: renewal requests an Agent signs

ASSUME SessionAssumption ==
  /\ Reports \in [Providers -> Seq([window : Nat, bytes : Nat])]
  /\ MaxSerial \in Nat
  /\ MaxNonce \in Nat

VARIABLES
  leaf,             \* leaf[s]: whose certificate serial s is, and whether it is valid
  conn,             \* the serial each provider's open connection was made with
  revoked,          \* the Redis set openinfra:revoked
  nonce,            \* openinfra:renewal-nonce:<provider>
  beat,             \* openinfra:heartbeat:<provider>, None once expired
  usage             \* workload_bandwidth_usage

certs == <<leaf, conn, nonce>>
sessionVars == <<leaf, conn, revoked, nonce, beat, usage>>
vars == <<joinVars, sessionVars>>

Serials == 1 .. MaxSerial
\* A heartbeat is numbered by its sequence, which validateHeartbeat wants positive.
Beats(p) == 1 .. Len(Reports[p])
NoLeaf == [p |-> None, valid |-> FALSE]
Issued == {s \in Serials : leaf[s].p # None}

\* Who joined before holds the certificate of that time.
Init ==
  \E held \in Starts :
    /\ JoinInit({held[s] : s \in DOMAIN held})
    /\ leaf = [s \in Serials |->
         IF s \in DOMAIN held THEN [p |-> held[s], valid |-> TRUE] ELSE NoLeaf]
    /\ conn = [p \in Providers |-> None]
    /\ revoked = {}
    /\ nonce = [p \in Providers |-> 0]
    /\ beat = [p \in Providers |-> None]
    /\ usage = [p \in Providers |-> None]

\* IssueLeaf: a fresh serial bound to the provider.
IssueLeaf(p) ==
  \E s \in Serials \ Issued :
    /\ \A t \in Serials \ Issued : s <= t
    /\ leaf' = [leaf EXCEPT ![s] = [p |-> p, valid |-> TRUE]]

\* CompleteJoin's answer carries a certificate when the request has a TLS key:
\* after the activation, or at once when the provider was active already.
JoinCertified(h) ==
  \/ ActivateProvider(h) /\ IssueLeaf(call[h].p)
  \/ \E j \in Joins, b \in Begins :
       /\ completion[j] = b /\ row[challenge[b].p] = "ACTIVE"
       /\ CompleteJoin(h, j, b)
       /\ IssueLeaf(challenge[b].p)

JoinStep ==
  /\ \/ JoinNext /\ UNCHANGED leaf
     \/ \E h \in Handlers : JoinCertified(h)
  /\ UNCHANGED <<conn, revoked, nonce, beat, usage>>

\* Mutant: bootstrap connections pass for verified ones.
ChainVerifiedAny(p) == TRUE
\* ChainVerified, for the serial a connection presented.
ChainVerified(p) == conn[p] # None /\ leaf[conn[p]].valid

\* Mutant: revocation is only checked at the handshake.
AdmittedOnce(p) == ChainVerified(p)
\* UnaryServerInterceptor for every RPC but BeginJoin and CompleteJoin.
Admitted(p) == ChainVerified(p) /\ p \notin revoked

\* ClientCertVerifier.
Handshake(p, s) ==
  /\ leaf[s] = [p |-> p, valid |-> TRUE]
  /\ p \notin revoked
  /\ conn[p] # s
  /\ conn' = [conn EXCEPT ![p] = s]
  /\ UNCHANGED <<joinVars, leaf, revoked, nonce, beat, usage>>

\* Every leaf lives for DefaultLeafTTL, so the oldest one expires first.
LeafExpires(s) ==
  /\ leaf[s].valid
  /\ \A t \in Issued : leaf[t].valid => s <= t
  /\ leaf' = [leaf EXCEPT ![s].valid = FALSE]
  /\ UNCHANGED <<joinVars, conn, revoked, nonce, beat, usage>>

\* acceptRenewalNonceScript.
NonceAdvances(p, n) == n > nonce[p]

RenewCertificate(p, n) ==
  /\ Admitted(p)
  /\ row[p] = "ACTIVE"
  /\ NonceAdvances(p, n)
  /\ nonce' = [nonce EXCEPT ![p] = n]
  /\ IssueLeaf(p)
  /\ UNCHANGED <<joinVars, conn, revoked, beat, usage>>

\* ReportHeartbeat up to the status check: the row is read here. The signature
\* is p's, the connection is q's.
ReportHeartbeat(h, q, p, n) ==
  /\ call[h].pc = "idle"
  /\ Admitted(q)
  /\ row[p] = "ACTIVE"
  /\ call' = [call EXCEPT ![h] = [pc |-> "check", p |-> p, n |-> n, via |-> q]]
  /\ UNCHANGED <<joinDb, joinChain, lock, batch, faults, sessionVars>>

\* Mutant: any newer-looking request id overwrites the key.
AcceptableAnyOrder(p, n) == TRUE
\* acceptHeartbeatScript: the same request again, or a higher sequence.
Acceptable(p, n) == beat[p] = None \/ n >= beat[p]

Accept(h) ==
  LET p == call[h].p  n == call[h].n
  IN  /\ call[h].pc = "check"
      /\ IF Acceptable(p, n)
           THEN beat' = [beat EXCEPT ![p] = n] /\ Goto(h, "record")
           ELSE Return(h) /\ UNCHANGED beat
      /\ UNCHANGED <<joinDb, joinChain, lock, batch, faults, certs, revoked, usage>>

\* The upsert's WHERE: another window, or no counter that went down.
Keeps(old, new) == old = None \/ new.window # old.window \/ new.bytes >= old.bytes

\* recordBandwidthUsage, best effort: a failed write is logged.
RecordUsage(h) ==
  LET p == call[h].p  new == Reports[p][call[h].n]
  IN  /\ call[h].pc = "record"
      /\ Return(h)
      /\ \/ usage' = [usage EXCEPT ![p] = IF Keeps(@, new) THEN new ELSE @] /\ UNCHANGED faults
         \/ Fault /\ UNCHANGED usage
      /\ UNCHANGED <<joinDb, joinChain, lock, batch, certs, revoked, beat>>

HeartbeatExpires(p) ==
  /\ beat[p] # None
  /\ beat' = [beat EXCEPT ![p] = None]
  /\ UNCHANGED <<joinVars, certs, revoked, usage>>

RevokedRows == {p \in Providers : row[p] = "REVOKED"}

\* pki.Reconciler: entries are only ever added.
SweepRevoked ==
  /\ RevokedRows \ revoked # {}
  /\ revoked' = revoked \union RevokedRows
  /\ UNCHANGED <<joinVars, certs, beat, usage>>

\* Redis loses its data.
Flush ==
  /\ Fault
  /\ revoked' = {}
  /\ nonce' = [p \in Providers |-> 0]
  /\ beat' = [p \in Providers |-> None]
  /\ UNCHANGED <<joinDb, joinChain, lock, call, batch, leaf, conn, usage>>

Next ==
  \/ JoinStep
  \/ \E p \in Providers :
       \/ \E s \in Serials : Handshake(p, s)
       \/ \E n \in 1 .. MaxNonce : RenewCertificate(p, n)
       \/ HeartbeatExpires(p)
       \/ \E h \in Handlers, q \in Providers, n \in Beats(p) : ReportHeartbeat(h, q, p, n)
  \/ \E s \in Serials : LeafExpires(s)
  \/ \E h \in Handlers : Accept(h) \/ RecordUsage(h)
  \/ SweepRevoked
  \/ Flush

Spec == Init /\ [][Next]_vars

\* The Reconciler is a goroutine of a running Control Plane, the Go scheduler
\* runs a call that can proceed, a handler's context ends, a backoff ends, and
\* the chain executes what is in its pool. Nobody has to bond or to retry.
\* Go's mutex starves nobody: strong fairness for whoever waits for it.
FairSpec ==
  /\ Spec
  /\ WF_vars(Reconcile /\ UNCHANGED sessionVars)
  /\ \A c \in Callers :
       /\ SF_vars((EnsureActive(c) \/ UnsupportedStatus(c)) /\ UNCHANGED sessionVars)
       /\ WF_vars((WaitForFinalizedStatus(c) \/ ActivateProvider(c)) /\ UNCHANGED sessionVars)
  /\ \A h \in Handlers : WF_vars(WaitAborted(h) /\ UNCHANGED sessionVars)
  /\ \A p \in Providers :
       WF_vars((BackoffEnds(p) \/ ChainExecutes(p)) /\ UNCHANGED sessionVars)

-----------------------------------------------------------------------------
\* Those, with the certificates, the Redis keys and the usage rows.
TypeOK ==
  /\ JoinTypeOK
  /\ leaf \in [Serials -> [p : Providers \union {None}, valid : BOOLEAN]]
  /\ conn \in [Providers -> Serials \union {None}]
  /\ revoked \subseteq Providers
  /\ nonce \in [Providers -> 0 .. MaxNonce]
  /\ \A p \in Providers :
       /\ beat[p] \in Beats(p) \union {None}
       /\ usage[p] = None \/ \E n \in Beats(p) : usage[p] = Reports[p][n]

\* A heartbeat in the works came over the connection of a provider whose own
\* registration was finalized, and so was its signer's, who need not be the
\* same one: nobody is let in before the chain has admitted it, and a bootstrap
\* connection carries no heartbeat (UnaryServerInterceptor), whatever is
\* suspended, removed, expired or revoked meanwhile. What it leaves in Redis
\* is then the heartbeat of an admitted provider.
CarriersAreRegistered ==
  /\ \A h \in Handlers :
       call[h].pc \in {"check", "record"} =>
         \A q \in {call[h].p, call[h].via} : chain[q] \in Admissible
  /\ \A p \in Providers : beat[p] # None => chain[p] \in Admissible

\* What a provider is believed to be comes from a whole join: its row is well
\* formed, ACTIVE only once the chain says so, FAILED only once the attempts
\* are spent, and no challenge has been answered twice (CompleteJoin racing
\* the Reconciler and itself).
JoinIsSound == TypeOK /\ ActiveIsFinalized /\ ChallengeSpentOnce /\ FailedIsExhausted

\* Heartbeats that race, are repeated or come late never turn a provider back:
\* while its key lives the sequence only goes up (acceptHeartbeatScript), and
\* within one window the stored byte counter never goes down, though two
\* heartbeats race between the watermark and the upsert (RecordUsage).
HeartbeatsMonotone ==
  [][\A p \in Providers :
       /\ beat[p] # None /\ beat'[p] # None => beat'[p] >= beat[p]
       /\ usage[p] # None /\ usage'[p].window = usage[p].window =>
            usage'[p].bytes >= usage[p].bytes]_vars

\* From the sweep of its revocation on, and until Redis loses its data, a
\* provider renews no certificate, opens no connection, and no heartbeat comes
\* in over the connections it had opened before, its own or another's. Its
\* signed heartbeats may still come over somebody else's connection, but not
\* while its row is REVOKED. (A late activation makes the row ACTIVE again, and
\* CompleteJoin then issues a leaf, with which no connection can be opened.)
SweptIsCutOff ==
  [][\A p \in Providers :
       p \in revoked =>
         /\ faults' = faults => p \in revoked' /\ nonce'[p] = nonce[p]
         /\ conn'[p] = conn[p]
         /\ \A h \in Handlers :
              call'[h].pc = "check" /\ (call'[h].via = p \/ (call'[h].p = p /\ row[p] = "REVOKED")) =>
                call[h] = call'[h]]_vars

\* A committed registration that is neither suspended nor removed ends FINALIZED or
\* FAILED, as the Reconciler's comment says. It does not: set_status(Active) of
\* a provider that has not bonded yet is finalized as a failure, and the
\* Reconciler waits for Active with no deadline, holding the mutex that every
\* other chain call of the process needs.
RegistrationSettles ==
  \A p \in Providers :
    outbox[p].state = "READY" ~> (outbox[p].state \in {"FINALIZED", "FAILED"} \/ Unsupported(p))

=============================================================================
