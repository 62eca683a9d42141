------------------------- MODULE ControlPlaneProofs -------------------------
(***************************************************************************)
(* Theorems about the five services of ControlPlane.  Each has an          *)
(* inductive invariant of its own; a behaviour that follows one of them    *)
(* leaves the tables of the others as they began.                          *)
(***************************************************************************)
EXTENDS ControlPlane, FiniteSetTheorems, WellFoundedInduction, TLAPS

-----------------------------------------------------------------------------
(* Invariants.                                                             *)

\* Rate limits: a counter that counts expires, and no more calls were let
\* through than it has counted.
LimitTyped ==
  /\ window \in [Windows -> [count : 0 .. (Limit + 1), expires : BOOLEAN]]
  /\ admitted \in [Windows -> 0 .. Limit]
AdmittedAreCounted == \A x \in Windows :
  admitted[x] <= window[x].count /\ (window[x].count > 0 => window[x].expires)
LimitInv == LimitTyped /\ AdmittedAreCounted

\* Releases: what the cache trusts is signed by the server's key, and was read
\* no later than it was revoked.
ReleaseRow == [cid : Nat, key : {TrustedKey, OtherKey}, revoked : BOOLEAN, age : 0 .. TTL]
ReleaseTyped ==
  /\ release \in [Ids -> ReleaseRow] /\ Ids \subseteq 1 .. MaxRelease
  /\ cache \in [of : Ids \cup {Unknown}, age : 0 .. TTL]
RevokedAge == \A i \in Ids : ~release[i].revoked => release[i].age = 0
CachedIsTrusted == cache.of # Unknown =>
  /\ release[cache.of].key = TrustedKey
  /\ release[cache.of].revoked => release[cache.of].age <= cache.age
ReleaseInv == ReleaseTyped /\ RevokedAge /\ CachedIsTrusted

\* Identity: what a request in flight was granted, by whom it was.
KeyRow == [born : {TRUE}, state : {"live", "revoked", "expired"}, user : Users, project : Scopes,
           expires : BOOLEAN, challenge : Challenges \cup {None}, account : Accounts \cup {None}]
MintRequest == [op : {"mint"}, user : Users, project : Scopes, expires : BOOLEAN,
                challenge : Challenges \cup {None}, account : Accounts \cup {None}]
ScopeRequest == [op : {"scope"}, user : Users, project : Projects]
LoginRequest == [op : {"consume", "account", "create"}, challenge : Challenges, account : Accounts]
IdentityRequest == {Idle} \cup MintRequest \cup ScopeRequest \cup LoginRequest
UnbornKey == [born |-> FALSE]

IdentityTyped ==
  /\ user \subseteq Users
  /\ wallet \in [Accounts -> user \cup {None}]
  /\ key \in [Keys -> {UnbornKey} \cup KeyRow]
  /\ challenge \in [Challenges -> {"none", "live", "expired", "consumed"}]
  /\ member \subseteq Projects \X user
  /\ request \in [Requests -> IdentityRequest]

\* Keys, and those about to be minted, are of users that exist and are members
\* of the project they are scoped to.
Entitled(x) == x.user \in user /\ (x.project # None => <<x.project, x.user>> \in member)
GrantsAreEntitled ==
  /\ \A k \in Keys : key[k].born => Entitled(key[k])
  /\ \A r \in Requests : request[r].op = "mint" => Entitled(request[r])
  /\ \A r \in Requests : request[r].op = "scope" => request[r].user \in user

\* A session, and one about to be minted, is its account's.
Linked(x) == x.challenge # None => x.account \in Accounts /\ wallet[x.account] = x.user
SessionsAreLinked ==
  /\ \A k \in Keys : key[k].born => Linked(key[k])
  /\ \A r \in Requests : request[r].op = "mint" => Linked(request[r])

\* The challenges that a login has consumed and a session was granted for.
Spends(r) == request[r].op \in {"account", "create", "mint"} /\ request[r].challenge # None
Spent(k) == key[k].born /\ key[k].challenge # None
ChallengesAreSpentOnce ==
  /\ \A r \in Requests : Spends(r) => challenge[request[r].challenge] = "consumed"
  /\ \A k \in Keys : Spent(k) => challenge[key[k].challenge] = "consumed"
  /\ \A r, x \in Requests : r # x /\ Spends(r) /\ Spends(x) => request[r].challenge # request[x].challenge
  /\ \A r \in Requests, k \in Keys : Spends(r) /\ Spent(k) => request[r].challenge # key[k].challenge
  /\ \A j, k \in Keys : j # k /\ Spent(j) /\ Spent(k) => key[j].challenge # key[k].challenge

\* The advisory lock: one first login per account, and it is the first.
FirstLoginsAreLocked ==
  /\ FirstLoginIsAlone
  /\ \A r, x \in Requests :
       r # x /\ request[r].op = "create" /\ request[x].op = "create" => request[r].account # request[x].account

IdentityInv == /\ IdentityTyped /\ GrantsAreEntitled /\ SessionsAreLinked
               /\ ChallengesAreSpentOnce /\ FirstLoginsAreLocked

\* Metering: what is about to be billed is its provider's, is exact, and is
\* newer than all that was billed while the cursor is locked.
Charge(u) == u.cpu * Rates.cpu + u.ram * Rates.ram + u.storage * Rates.storage
               + (u.egress + u.ingress) * Rates.network
UsageRequest == [op : {"accept", "insert"}, provider : Providers, workload : Workloads,
                 sequence : 1 .. MaxSequence, usage : Usages]
Evidence == [provider : Providers, workload : Workloads, sequence : 1 .. MaxSequence,
             usage : Usages, total : 0 .. MaxInt]
MeteringTyped ==
  /\ placed \in [Workloads -> Providers \cup {None}]
  /\ cursor \in [Providers -> [Workloads -> 0 .. MaxSequence]]
  /\ request \in [Requests -> {Idle} \cup UsageRequest]
  /\ evidence \subseteq Evidence /\ disputed \subseteq evidence

EvidenceIsSound == \A e \in evidence :
  /\ e.provider = placed[e.workload] /\ e.sequence <= cursor[e.provider][e.workload]
  /\ e.total = Charge(e.usage)

ChecksHold == \A r \in Requests : request[r] # Idle =>
  /\ placed[request[r].workload] = request[r].provider
  /\ ComputeCharge(request[r].usage) \in 0 .. MaxInt

CursorsAreLocked ==
  /\ \A r \in Requests : request[r].op = "insert" =>
       request[r].sequence > cursor[request[r].provider][request[r].workload]
  /\ \A r, x \in Requests : r # x /\ request[r].op = "insert" /\ request[x].op = "insert" =>
       <<request[r].provider, request[r].workload>> # <<request[x].provider, request[x].workload>>

Stale == rejection # None /\ rejection.reason \in {"out_of_order", "conflicting_evidence"}
RejectedIsPassed == Stale =>
  /\ rejection.provider \in Providers /\ rejection.workload \in Workloads
  /\ rejection.sequence <= cursor[rejection.provider][rejection.workload]
  /\ rejection.sequence \in Nat

MeteringInv == /\ MeteringTyped /\ EvidenceIsSound /\ ChecksHold /\ CursorsAreLocked
               /\ RejectedIsPassed /\ RejectedIsNeverBilled

\* Placement: the ledger of a provider is within its ceiling, and a ranking in
\* hand is that of a workload still to be placed.
JobRow == [state : {"SCHEDULING", "OPEN", "CLOSED", "FAILED"}, host : Hosts \cup {0}, tries : Nat]
Dimensions == {"cpu", "bandwidth"}
SchedulerTyped ==
  /\ job \in [Jobs -> JobRow] /\ pending \in [Jobs -> Hosts \cup {0}]
  /\ seen \subseteq [job : Jobs, all : Candidates]
RankedArePending == \A j \in Jobs : pending[j] # 0 => job[j].state = "SCHEDULING"
LedgerHolds == \A h \in Hosts, d \in Dimensions : Reserved(h, d) <= Ceiling(h)[d]
SchedulerInv == SchedulerTyped /\ RankedArePending /\ LedgerHolds

\* The services together.
ControlInv ==
  /\ service \in {"identity", "billing", "limits", "scheduling", "releases"}
  /\ IF service = "identity" THEN IdentityInv ELSE IdentityInit
  /\ IF service = "billing" THEN MeteringInv ELSE MeteringInit
  /\ service \notin {"identity", "billing"} => request = [r \in Requests |-> Idle]
  /\ LimitInv /\ ReleaseInv /\ SchedulerInv
-----------------------------------------------------------------------------
(* Rate limits.                                                            *)

\* A call of a caller is counted, and let through only within the limit.
LEMMA AllowKeeps ==
  ASSUME LimitInv, NEW x \in Windows, Allow(x)
  PROVE  LimitInv'
<1> DEFINE c == window[x].count
           expires == window[x].expires \/ c = 0
           new == [count |-> Counted(c), expires |-> expires]
<1>1. c \in 0 .. (Limit + 1) /\ Limit \in Nat /\ window[x].expires \in BOOLEAN /\ admitted[x] \in 0 .. Limit
  BY LimitAssumption DEF LimitInv, LimitTyped
<1>2. Counted(c) \in 1 .. (Limit + 1) /\ Counted(c) >= c /\ (Counted(c) <= Limit => Counted(c) = c + 1)
  BY <1>1 DEF Counted
<1>3. expires
  BY <1>1 DEF LimitInv, AdmittedAreCounted
<1>4. window' = [window EXCEPT ![x] = new]
  BY Zenon DEF Allow, windowScript
<1>5. new.count = Counted(c) /\ new.expires
  BY <1>3, Zenon
<1>6. new \in [count : 0 .. (Limit + 1), expires : BOOLEAN]
  <2>1. expires \in BOOLEAN /\ Counted(c) \in 0 .. (Limit + 1)
    BY <1>1, <1>2
  <2> HIDE DEF expires
  <2>2. QED
    BY <2>1
<1> HIDE DEF new
<1>7. window' \in [Windows -> [count : 0 .. (Limit + 1), expires : BOOLEAN]] /\ window'[x] = new
      /\ \A y \in Windows : y # x => window'[y] = window[y]
  BY <1>4, <1>6 DEF LimitInv, LimitTyped
<1>8. window'[x].count = Counted(c)
  BY <1>5, <1>7
<1>9. admitted' = [admitted EXCEPT ![x] = IF Counted(c) <= Limit THEN admitted[x] + 1 ELSE admitted[x]]
  BY <1>8 DEF Allow, WithinLimit
<1>10. /\ admitted' \in [Windows -> 0 .. Limit] /\ admitted'[x] <= Counted(c)
       /\ \A y \in Windows : y # x => admitted'[y] = admitted[y]
  BY <1>1, <1>2, <1>9 DEF LimitInv, LimitTyped, AdmittedAreCounted
<1>11. AdmittedAreCounted'
  <2>1. SUFFICES ASSUME NEW y \in Windows
                 PROVE  admitted'[y] <= window'[y].count /\ (window'[y].count > 0 => window'[y].expires)
    BY DEF AdmittedAreCounted
  <2>2. CASE y = x
    BY <1>5, <1>7, <1>8, <1>10, <2>2
  <2>3. CASE y # x
    BY <1>7, <1>10, <2>3 DEF LimitInv, AdmittedAreCounted
  <2>4. QED
    BY <2>2, <2>3
<1>12. QED
  BY <1>7, <1>10, <1>11 DEF LimitInv, LimitTyped

\* An absent counter is one that has counted nothing.
LEMMA AbsentIsTyped ==
  Absent \in [count : 0 .. (Limit + 1), expires : BOOLEAN] /\ Absent.count = 0
<1> DEFINE no == FALSE
<1>1. no \in BOOLEAN /\ Absent = [count |-> 0, expires |-> no]
  BY Zenon DEF Absent
<1> HIDE DEF no
<1>2. QED
  BY <1>1, LimitAssumption

\* Every step of the limiter: a call, the end of a window, a flush of Redis.
LEMMA LimitStep ==
  ASSUME LimitInv, LimitNext
  PROVE  LimitInv'
<1>1. ASSUME NEW x \in Windows, Allow(x) PROVE LimitInv'
  BY <1>1, AllowKeeps
<1>2. ASSUME NEW x \in Windows, WindowEnds(x) PROVE LimitInv'
  <2>1. window' = [window EXCEPT ![x] = Absent] /\ admitted' = [admitted EXCEPT ![x] = 0]
    BY <1>2 DEF WindowEnds
  <2>2. QED
    BY <2>1, AbsentIsTyped, LimitAssumption DEF LimitInv, LimitTyped, AdmittedAreCounted
<1>3. ASSUME Flush PROVE LimitInv'
  <2>1. window' = [x \in Windows |-> Absent] /\ admitted' = [x \in Windows |-> 0]
    BY <1>3 DEF Flush
  <2>2. QED
    BY <2>1, AbsentIsTyped, LimitAssumption DEF LimitInv, LimitTyped, AdmittedAreCounted
<1>4. ASSUME NEW x \in Addresses, allowRate(x) \/ rateLimitTokenIssuance(x) PROVE \E y \in Windows : Allow(y)
  <2>1. \A e \in {"auth-challenge", "auth-login", "openstack-token-issue"} : <<e, x>> \in Windows
    BY DEF Windows
  <2>2. QED
    BY <1>4, <2>1 DEF allowRate, rateLimitTokenIssuance
<1>5. ASSUME NEW u \in Tenants, NewUnaryInterceptor(u) PROVE \E y \in Windows : Allow(y)
  BY <1>5 DEF NewUnaryInterceptor, Windows
<1>6. QED
  BY <1>1, <1>2, <1>3, <1>4, <1>5 DEF LimitNext

\* No counter exists at the start.
LEMMA LimitStart == LimitInit => LimitInv
  BY AbsentIsTyped, LimitAssumption DEF LimitInit, LimitInv, LimitTyped, AdmittedAreCounted

\* A counter with an end that counts what it let through is a window that ends.
LEMMA LimitFollows == LimitInv => WindowsEnd
  BY LimitAssumption DEF LimitInv, LimitTyped, AdmittedAreCounted, WindowsEnd
-----------------------------------------------------------------------------
(* Front-end releases.                                                     *)

\* A nonempty bounded set of numbers has a greatest one, and Max is it.
LEMMA MaxIsGreatest ==
  ASSUME NEW n \in Nat, NEW T \in SUBSET (0 .. n), T # {}
  PROVE  Max(T) \in T /\ \A y \in T : Max(T) >= y
<1> DEFINE R == {ss \in Nat \X Nat : ss[1] < ss[2]}
           D == {d \in Nat : n - d \in T}
<1>1. D \subseteq Nat /\ D # {}
  <2>1. PICK t : t \in T
    OBVIOUS
  <2>2. n - t \in D
    BY <2>1
  <2>3. QED
    BY <2>2
<1>2. PICK d \in D : \A y \in D : ~(<<y, d>> \in R)
  <2>1. IsWellFoundedOn(R, Nat)
    BY NatLessThanWellFounded DEF OpToRel
  <2> HIDE DEF R, D
  <2>2. QED
    BY <1>1, <2>1, WFMin
<1>3. ASSUME NEW y \in T PROVE n - d >= y
  <2>1. n - y \in D /\ d \in Nat /\ n - y \in Nat
    BY <1>2
  <2>2. ~(n - y < d)
    BY <1>2, <2>1
  <2>3. QED
    BY <2>1, <2>2
<1>4. n - d \in T
  BY <1>2
<1>5. QED
  BY <1>3, <1>4 DEF Max

\* The latest release is one that is there and not revoked.
LEMMA LatestIsLive ==
  ASSUME ReleaseInv, Latest # Unknown
  PROVE  Latest \in Ids /\ ~release[Latest].revoked
<1>1. LiveReleases \in SUBSET (0 .. MaxRelease) /\ MaxRelease \in Nat
  <2>1. LiveReleases \subseteq Ids
    BY Zenon DEF LiveReleases
  <2>2. Ids \subseteq 1 .. MaxRelease /\ MaxRelease \in Nat
    BY ReleaseAssumption DEF ReleaseInv, ReleaseTyped
  <2> HIDE DEF LiveReleases, Ids
  <2>3. QED
    BY <2>1, <2>2
<1>2. LiveReleases # {} /\ Latest = Max(LiveReleases)
  BY DEF Latest
<1>3. Latest \in LiveReleases
  <2> HIDE DEF LiveReleases
  <2>1. QED
    BY <1>1, <1>2, MaxIsGreatest, Zenon
<1>4. QED
  BY <1>3 DEF LiveReleases

\* What the next answer may rest on: a release of the table under the server's
\* key, not revoked, or revoked for less than the TTL.
Trusted(by, i) == i # Unknown =>
  /\ i \in Ids /\ release[i].key = TrustedKey
  /\ release[i].revoked => by = "origin" /\ release[i].age < TTL

\* What is read of the table now.
ReadNow == IF Verifies(Latest) THEN Latest ELSE Unknown

\* What the database answers is signed by the trusted key and not revoked.
LEMMA ReadIsTrusted ==
  ASSUME ReleaseInv
  PROVE  /\ ReadNow \in Ids \cup {Unknown}
         /\ ReadNow # Unknown => release[ReadNow].key = TrustedKey /\ ~release[ReadNow].revoked
  BY LatestIsLive, Zenon DEF ReadNow, Verifies

\* Adding a release leaves the rows of the others alone.
LEMMA AddKeeps ==
  ASSUME ReleaseInv, NEW n \in 1 .. MaxRelease, n \notin Ids, NEW cid \in Nat,
         NEW k \in {TrustedKey, OtherKey}, Add(n, cid, k), cache' = cache
  PROVE  ReleaseInv'
<1> DEFINE new == [cid |-> cid, key |-> k, revoked |-> FALSE, age |-> 0]
<1>1. new \in ReleaseRow /\ ~new.revoked /\ new.age = 0
  <2> DEFINE no == FALSE
  <2>1. no \in BOOLEAN /\ new = [cid |-> cid, key |-> k, revoked |-> no, age |-> 0]
    BY Zenon
  <2>2. ~new.revoked
    BY Zenon
  <2> HIDE DEF no
  <2>3. new \in ReleaseRow /\ new.age = 0
    BY <2>1, ReleaseAssumption DEF ReleaseRow
  <2>4. QED
    BY <2>2, <2>3
<1>2. release' = [i \in Ids \cup {n} |-> IF i = n THEN new ELSE release[i]]
  BY Zenon DEF Add
<1> HIDE DEF new
<1>3. Ids' = Ids \cup {n} /\ release'[n] = new /\ \A i \in Ids : release'[i] = release[i]
  BY <1>2 DEF Ids
<1>4. release' \in [Ids' -> ReleaseRow] /\ Ids' \subseteq 1 .. MaxRelease
  BY <1>1, <1>2, <1>3 DEF ReleaseInv, ReleaseTyped
<1>5. cache' \in [of : Ids' \cup {Unknown}, age : 0 .. TTL]
  BY <1>3 DEF ReleaseInv, ReleaseTyped
<1>6. RevokedAge'
  BY <1>1, <1>3 DEF ReleaseInv, RevokedAge
<1>7. CachedIsTrusted'
  BY <1>3 DEF ReleaseInv, ReleaseTyped, CachedIsTrusted
<1>8. QED
  BY <1>4, <1>5, <1>6, <1>7 DEF ReleaseInv, ReleaseTyped

\* A revocation is young when it happens: the cache was read before it.
LEMMA RevokeKeeps ==
  ASSUME ReleaseInv, NEW i \in Ids, Revoke(i)
  PROVE  ReleaseInv'
<1> DEFINE yes == TRUE
           new == [release[i] EXCEPT !.revoked = yes]
<1>1. yes \in BOOLEAN /\ release' = [release EXCEPT ![i] = new] /\ cache' = cache /\ ~release[i].revoked
  BY Zenon DEF Revoke
<1> HIDE DEF yes
<1>2. /\ release[i] \in ReleaseRow /\ release[i].age = 0
      /\ release \in [Ids -> ReleaseRow] /\ Ids \subseteq 1 .. MaxRelease
      /\ cache \in [of : Ids \cup {Unknown}, age : 0 .. TTL]
  BY <1>1 DEF ReleaseInv, ReleaseTyped, RevokedAge
<1>3. new \in ReleaseRow /\ new.age = 0 /\ new.key = release[i].key
  BY <1>1, <1>2 DEF ReleaseRow
<1> HIDE DEF new
<1>4. Ids' = Ids /\ release'[i] = new /\ \A j \in Ids : j # i => release'[j] = release[j]
  BY <1>1, <1>2 DEF Ids
<1>5. release' \in [Ids' -> ReleaseRow]
  BY <1>1, <1>2, <1>3, <1>4
<1>6. RevokedAge'
  BY <1>3, <1>4 DEF ReleaseInv, RevokedAge
<1>7. CachedIsTrusted'
  <2>1. SUFFICES ASSUME cache.of # Unknown
                 PROVE  /\ release'[cache.of].key = TrustedKey
                        /\ release'[cache.of].revoked => release'[cache.of].age <= cache.age
    BY <1>1 DEF CachedIsTrusted
  <2>2. cache.of \in Ids /\ cache.age \in Nat /\ release[cache.of].key = TrustedKey
        /\ (release[cache.of].revoked => release[cache.of].age <= cache.age)
    BY <1>2, <2>1, ReleaseAssumption DEF ReleaseInv, CachedIsTrusted
  <2>3. CASE cache.of = i
    BY <1>3, <1>4, <2>2, <2>3
  <2>4. CASE cache.of # i
    BY <1>4, <2>2, <2>4
  <2>5. QED
    BY <2>3, <2>4
<1>8. QED
  BY <1>1, <1>2, <1>4, <1>5, <1>6, <1>7 DEF ReleaseInv, ReleaseTyped

\* Cache and revocations age together.
LEMMA TickKeeps ==
  ASSUME ReleaseInv, Tick
  PROVE  ReleaseInv'
<1> DEFINE aged(x) == [x EXCEPT !.age = IF x.revoked THEN Older(x.age) ELSE x.age]
<1>1. /\ release \in [Ids -> ReleaseRow] /\ Ids \subseteq 1 .. MaxRelease
      /\ cache \in [of : Ids \cup {Unknown}, age : 0 .. TTL] /\ TTL \in Nat
  BY ReleaseAssumption DEF ReleaseInv, ReleaseTyped
<1>2. \A m, n \in 0 .. TTL : Older(n) \in 0 .. TTL /\ (m <= n => Older(m) <= Older(n))
  BY <1>1 DEF Older
<1>3. release' = [i \in Ids |-> aged(release[i])] /\ cache' = [cache EXCEPT !.age = Older(cache.age)]
  BY Zenon DEF Tick
<1>4. ASSUME NEW x \in ReleaseRow
      PROVE  /\ aged(x) \in ReleaseRow /\ aged(x).key = x.key /\ aged(x).revoked = x.revoked
             /\ x.revoked => aged(x).age = Older(x.age)
             /\ ~x.revoked => aged(x).age = x.age
  <2> DEFINE v == IF x.revoked THEN Older(x.age) ELSE x.age
  <2>1. v \in 0 .. TTL /\ (x.revoked => v = Older(x.age)) /\ (~x.revoked => v = x.age)
    BY <1>2 DEF ReleaseRow
  <2>2. aged(x) = [x EXCEPT !.age = v]
    BY Zenon
  <2> HIDE DEF v, aged
  <2>3. aged(x) \in ReleaseRow /\ aged(x).key = x.key /\ aged(x).revoked = x.revoked /\ aged(x).age = v
    BY <2>1, <2>2 DEF ReleaseRow
  <2>4. QED
    BY <2>1, <2>3
<1> HIDE DEF aged
<1>5. Ids' = Ids /\ \A i \in Ids : release'[i] = aged(release[i]) /\ release[i] \in ReleaseRow
  BY <1>1, <1>3 DEF Ids
<1>6. release' \in [Ids' -> ReleaseRow]
  BY <1>3, <1>4, <1>5
<1>7. cache' \in [of : Ids \cup {Unknown}, age : 0 .. TTL] /\ cache'.of = cache.of /\ cache'.age = Older(cache.age)
      /\ cache.age \in 0 .. TTL
  BY <1>1, <1>2, <1>3
<1>8. RevokedAge'
  <2>1. SUFFICES ASSUME NEW i \in Ids, ~release'[i].revoked PROVE release'[i].age = 0
    BY <1>5 DEF RevokedAge
  <2>2. aged(release[i]).revoked = release[i].revoked /\ ~aged(release[i]).revoked
    BY <1>4, <1>5, <2>1
  <2>3. ~release[i].revoked
    BY <2>2, Zenon
  <2>4. QED
    BY <1>4, <1>5, <2>3 DEF ReleaseInv, RevokedAge
<1>9. CachedIsTrusted'
  <2>1. SUFFICES ASSUME cache.of # Unknown
                 PROVE  /\ release'[cache.of].key = TrustedKey
                        /\ release'[cache.of].revoked => release'[cache.of].age <= cache'.age
    BY <1>7 DEF CachedIsTrusted
  <2> DEFINE x == release[cache.of]
  <2>2. cache.of \in Ids /\ x.key = TrustedKey /\ (x.revoked => x.age <= cache.age)
    BY <1>1, <2>1 DEF ReleaseInv, CachedIsTrusted
  <2>3. x \in ReleaseRow /\ release'[cache.of] = aged(x) /\ x.age \in 0 .. TTL
    BY <1>5, <2>2 DEF ReleaseRow
  <2> HIDE DEF x
  <2>4. aged(x).revoked = x.revoked /\ aged(x).key = x.key /\ (x.revoked => aged(x).age = Older(x.age))
    BY <1>4, <2>3
  <2>5. ASSUME aged(x).revoked PROVE x.revoked
    BY <2>4, <2>5, Zenon
  <2>6. QED
    BY <1>2, <1>7, <2>2, <2>3, <2>4, <2>5
<1>10. QED
  BY <1>1, <1>5, <1>6, <1>7, <1>8, <1>9 DEF ReleaseInv, ReleaseTyped

\* The table is read again: what is cached was not revoked.
LEMMA CacheKeeps ==
  ASSUME ReleaseInv, NEW i \in Ids \cup {Unknown}, cache' = [of |-> i, age |-> 0], release' = release,
         i # Unknown => release[i].key = TrustedKey /\ ~release[i].revoked
  PROVE  ReleaseInv'
<1>1. cache' \in [of : Ids \cup {Unknown}, age : 0 .. TTL] /\ cache'.of = i
  BY ReleaseAssumption
<1>2. Ids' = Ids
  BY DEF Ids
<1>3. RevokedAge'
  BY <1>2 DEF ReleaseInv, RevokedAge
<1>4. CachedIsTrusted'
  BY <1>1 DEF CachedIsTrusted
<1>5. QED
  BY <1>1, <1>2, <1>3, <1>4 DEF ReleaseInv, ReleaseTyped

\* Every step of the commands, the clock and the server, and what it answers.
LEMMA ReleaseStep ==
  ASSUME ReleaseInv, ReleaseNext
  PROVE  ReleaseInv' /\ (answer' # answer => Trusted(answer'.by, answer'.of))
<1> DEFINE Goal == ReleaseInv' /\ (answer' # answer => Trusted(answer'.by, answer'.of))
<1>1. ASSUME NEW n \in 1 .. MaxRelease, NEW k \in {TrustedKey, OtherKey}, Publish(n, k) PROVE Goal
  <2>1. n \in Nat /\ n \notin Ids /\ Add(n, n, k) /\ cache' = cache /\ answer' = answer
    BY <1>1, ReleaseAssumption DEF Publish
  <2>2. QED
    BY <2>1, AddKeeps
<1>2. ASSUME NEW n \in 1 .. MaxRelease, NEW k \in {TrustedKey, OtherKey}, NEW i \in Ids, runRollback(i, n, k)
      PROVE  Goal
  <2>1. Add(n, release[i].cid, k) /\ cache' = cache /\ answer' = answer /\ \A j \in Ids : j < n
    BY <1>2 DEF runRollback
  <2>2. n \notin Ids
    BY <2>1, ReleaseAssumption
  <2>3. release[i].cid \in Nat
    BY DEF ReleaseInv, ReleaseTyped, ReleaseRow
  <2>4. QED
    BY <2>1, <2>2, <2>3, AddKeeps
<1>3. ASSUME NEW i \in Ids, Revoke(i) PROVE Goal
  BY <1>3, RevokeKeeps DEF Revoke
<1>4. ASSUME Tick PROVE Goal
  BY <1>4, TickKeeps DEF Tick
<1>5. ASSUME wellKnownFrontend PROVE Goal
  <2>1. answer' = [by |-> "manifest", of |-> ReadNow] /\ release' = release /\ cache' = cache
    BY <1>5, Zenon DEF wellKnownFrontend, ReadNow
  <2>2. ReleaseInv'
    BY <2>1 DEF ReleaseInv, ReleaseTyped, RevokedAge, CachedIsTrusted, Ids
  <2>3. Trusted(answer'.by, answer'.of)
    BY <2>1, ReadIsTrusted DEF Trusted
  <2>4. QED
    BY <2>2, <2>3
<1>6. ASSUME originAllowed PROVE Goal
  <2>1. /\ cache' = IF cache.age < TTL THEN cache ELSE [of |-> ReadNow, age |-> 0]
        /\ answer' = [by |-> "origin", of |-> cache'.of] /\ release' = release
    BY <1>6, Zenon DEF originAllowed, FreshlyRead, ReadNow
  <2>2. CASE cache.age < TTL
    <3>1. cache' = cache /\ answer'.of = cache.of /\ answer'.by = "origin"
      BY <2>1, <2>2
    <3>2. ReleaseInv'
      BY <2>1, <3>1 DEF ReleaseInv, ReleaseTyped, RevokedAge, CachedIsTrusted, Ids
    <3>3. ASSUME cache.of # Unknown PROVE Trusted("origin", cache.of)
      <4>1. cache.of \in Ids /\ cache.age \in 0 .. TTL /\ release[cache.of].key = TrustedKey
            /\ (release[cache.of].revoked => release[cache.of].age <= cache.age)
        BY <3>3 DEF ReleaseInv, ReleaseTyped, CachedIsTrusted
      <4>2. release[cache.of].age \in 0 .. TTL
        BY <4>1 DEF ReleaseInv, ReleaseTyped, ReleaseRow
      <4>3. release[cache.of].revoked => release[cache.of].age < TTL
        BY <2>2, <4>1, <4>2, ReleaseAssumption
      <4>4. QED
        BY <4>1, <4>3 DEF Trusted
    <3>4. QED
      BY <3>1, <3>2, <3>3 DEF Trusted
  <2>3. CASE ~(cache.age < TTL)
    <3>1. cache' = [of |-> ReadNow, age |-> 0]
      BY <2>1, <2>3
    <3>2. ReleaseInv'
      BY <2>1, <3>1, ReadIsTrusted, CacheKeeps
    <3>3. answer'.of = ReadNow
      BY <2>1, <3>1
    <3>4. QED
      BY <3>2, <3>3, ReadIsTrusted DEF Trusted
  <2>4. QED
    BY <2>2, <2>3
<1>7. ASSUME ReadFails PROVE Goal
  <2>1. cache' = [of |-> Unknown, age |-> 0] /\ answer'.of = Unknown /\ release' = release
    BY <1>7 DEF ReadFails
  <2>2. QED
    BY <2>1, CacheKeeps DEF Trusted
<1> HIDE DEF Goal
<1>8. Goal
  BY <1>1, <1>2, <1>3, <1>4, <1>5, <1>6, <1>7 DEF ReleaseNext
<1>9. QED
  BY <1>8 DEF Goal

\* There is no release at the start, and the cache is empty.
LEMMA ReleaseStart == ReleaseInit => ReleaseInv
<1>1. SUFFICES ASSUME ReleaseInit PROVE ReleaseInv
  OBVIOUS
<1>2. Ids = {} /\ release \in [{} -> ReleaseRow]
  BY <1>1 DEF ReleaseInit, Ids
<1>3. cache \in [of : Ids \cup {Unknown}, age : 0 .. TTL] /\ cache.of = Unknown
  BY <1>1, <1>2, ReleaseAssumption DEF ReleaseInit
<1>4. QED
  BY <1>2, <1>3 DEF ReleaseInv, ReleaseTyped, RevokedAge, CachedIsTrusted
-----------------------------------------------------------------------------
(* Identity.                                                               *)

\* The kinds of rows and of requests are told apart by born and by op.
LEMMA KeyKinds ==
  ASSUME NEW x \in {UnbornKey} \cup KeyRow
  PROVE  (x \in KeyRow => x.born) /\ (x.born => x \in KeyRow)
<1>1. UnbornKey.born = FALSE
  BY Zenon DEF UnbornKey
<1>2. \A y \in KeyRow : y.born = TRUE
  BY DEF KeyRow
<1>3. QED
  BY <1>1, <1>2, Zenon

\* A request has the fields its step reads.
LEMMA IdentityRequestKinds ==
  ASSUME NEW q \in IdentityRequest
  PROVE  /\ q.op = "mint" => q \in MintRequest
         /\ q.op = "scope" => q \in ScopeRequest
         /\ q.op \in {"consume", "account", "create"} => q \in LoginRequest
         /\ q.op = "idle" => q = Idle
  BY DEF IdentityRequest, MintRequest, ScopeRequest, LoginRequest, Idle

\* What a minted row keeps when it expires or is revoked.
LEMMA KeyState ==
  ASSUME NEW x \in KeyRow, NEW s \in {"live", "revoked", "expired"}, NEW y, y = [x EXCEPT !.state = s]
  PROVE  /\ y \in KeyRow /\ y.user = x.user /\ y.project = x.project
         /\ y.challenge = x.challenge /\ y.account = x.account
  BY DEF KeyRow

\* The row that Mint inserts for what a request was granted.
LEMMA MintedRow ==
  ASSUME NEW m \in MintRequest,
         NEW y, y = [born |-> TRUE, state |-> "live", user |-> m.user, project |-> m.project,
                     expires |-> m.expires, challenge |-> m.challenge, account |-> m.account]
  PROVE  /\ y \in KeyRow /\ y.user = m.user /\ y.project = m.project
         /\ y.challenge = m.challenge /\ y.account = m.account
<1> DEFINE yes == TRUE
<1>1. y = [born |-> yes, state |-> "live", user |-> m.user, project |-> m.project,
           expires |-> m.expires, challenge |-> m.challenge, account |-> m.account] /\ yes \in {TRUE}
  BY Zenon
<1> HIDE DEF yes
<1>2. QED
  BY <1>1 DEF KeyRow, MintRequest

\* The two kinds of grants: of a session or token, and of an API key.
Expiring(u, c, ch, a) == Minting(u, c, TRUE, ch, a)
Lasting(u, c, ch, a) == Minting(u, c, FALSE, ch, a)

\* What a grant consists of.
LEMMA MintingIs ==
  ASSUME NEW u \in Users, NEW c \in Scopes, NEW ch \in Challenges \cup {None}, NEW a \in Accounts \cup {None},
         NEW m, m = Expiring(u, c, ch, a) \/ m = Lasting(u, c, ch, a)
  PROVE  /\ m \in MintRequest /\ m.op = "mint" /\ m.user = u /\ m.project = c /\ m.challenge = ch /\ m.account = a
<1> DEFINE yes == TRUE
           no == FALSE
<1>1. yes \in BOOLEAN /\ no \in BOOLEAN /\ (m = Minting(u, c, yes, ch, a) \/ m = Minting(u, c, no, ch, a))
  BY Zenon DEF Expiring, Lasting
<1> HIDE DEF yes, no
<1>2. QED
  BY <1>1 DEF Minting, MintRequest

\* Users, links, memberships and consumed challenges are never taken back.
Grows ==
  /\ user \subseteq user' /\ user' \subseteq Users
  /\ member \subseteq member' /\ member' \subseteq Projects \X user'
  /\ wallet' \in [Accounts -> user' \cup {None}]
  /\ \A a \in Accounts : wallet[a] # None => wallet'[a] = wallet[a]
  /\ challenge' \in [Challenges -> {"none", "live", "expired", "consumed"}]
  /\ \A c \in Challenges : challenge[c] = "consumed" => challenge'[c] = "consumed"

\* What makes a grant sound goes on to hold.
LEMMA GrantsKept ==
  ASSUME IdentityTyped, Grows, NEW x
  PROVE  /\ Entitled(x) => x.user \in user' /\ (x.project # None => <<x.project, x.user>> \in member')
         /\ Linked(x) /\ x.user \in user =>
              (x.challenge # None => x.account \in Accounts /\ wallet'[x.account] = x.user)
<1>1. Entitled(x) => x.user \in user' /\ (x.project # None => <<x.project, x.user>> \in member')
  BY DEF Entitled, Grows
<1>2. ASSUME Linked(x), x.user \in user, x.challenge # None
      PROVE  x.account \in Accounts /\ wallet'[x.account] = x.user
  <2>1. x.user # None
    BY <1>2, IdentityAssumption DEF IdentityTyped
  <2>2. QED
    BY <1>2, <2>1 DEF Linked, Grows
<1>3. QED
  BY <1>1, <1>2

\* One request goes on, or ends, while the keys stay.
LEMMA RequestWrite ==
  ASSUME IdentityInv, Grows, key' = key, NEW r \in Requests, NEW q \in IdentityRequest,
         request' = [request EXCEPT ![r] = q],
         q.op = "mint" =>
           /\ q.user \in user' /\ (q.project # None => <<q.project, q.user>> \in member')
           /\ q.challenge # None => q.account \in Accounts /\ wallet'[q.account] = q.user,
         q.op = "scope" => q.user \in user',
         q.op \in {"account", "create", "mint"} /\ q.challenge # None =>
           /\ challenge'[q.challenge] = "consumed"
           /\ \A x \in Requests \ {r} : Spends(x) => request[x].challenge # q.challenge
           /\ \A k \in Keys : Spent(k) => key[k].challenge # q.challenge,
         q.op = "create" => wallet'[q.account] = None /\ \A x \in Requests \ {r} :
                              request[x].op = "create" => request[x].account # q.account,
         \A x \in Requests \ {r} : request[x].op = "create" => wallet'[request[x].account] = None
  PROVE  IdentityInv'
<1>1. IdentityTyped /\ request \in [Requests -> IdentityRequest]
  BY DEF IdentityInv, IdentityTyped
<1>2. request'[r] = q /\ \A x \in Requests \ {r} : request'[x] = request[x]
  BY <1>1
<1>3. IdentityTyped'
  BY <1>1 DEF IdentityTyped, Grows
<1>4. ASSUME NEW k \in Keys, key[k].born
      PROVE  /\ key[k].user \in user' /\ (key[k].project # None => <<key[k].project, key[k].user>> \in member')
             /\ key[k].challenge # None => key[k].account \in Accounts /\ wallet'[key[k].account] = key[k].user
  <2>1. Entitled(key[k]) /\ Linked(key[k])
    BY <1>4, Zenon DEF IdentityInv, GrantsAreEntitled, SessionsAreLinked
  <2>2. key[k].user \in user
    BY <2>1, Zenon DEF Entitled
  <2>3. QED
    BY <1>1, <2>1, <2>2, GrantsKept
<1>5. ASSUME NEW x \in Requests \ {r}, request[x].op = "mint"
      PROVE  /\ request[x].user \in user'
             /\ request[x].project # None => <<request[x].project, request[x].user>> \in member'
             /\ request[x].challenge # None =>
                  request[x].account \in Accounts /\ wallet'[request[x].account] = request[x].user
  <2>1. Entitled(request[x]) /\ Linked(request[x])
    BY <1>5 DEF IdentityInv, GrantsAreEntitled, SessionsAreLinked
  <2>2. request[x].user \in user
    BY <2>1 DEF Entitled
  <2>3. QED
    BY <1>1, <2>1, <2>2, GrantsKept
<1>6. GrantsAreEntitled'
  <2>1. \A k \in Keys : key[k].born => Entitled(key[k])'
    BY <1>4 DEF Entitled
  <2>2. \A x \in Requests : request'[x].op = "mint" => Entitled(request[x])'
    BY <1>2, <1>5 DEF Entitled
  <2>3. \A x \in Requests : request'[x].op = "scope" => request'[x].user \in user'
    BY <1>2 DEF IdentityInv, GrantsAreEntitled, Grows
  <2>4. QED
    BY <2>1, <2>2, <2>3 DEF GrantsAreEntitled
<1>7. SessionsAreLinked'
  <2>1. \A k \in Keys : key[k].born => Linked(key[k])'
    BY <1>4 DEF Linked
  <2>2. \A x \in Requests : request'[x].op = "mint" => Linked(request[x])'
    BY <1>2, <1>5 DEF Linked
  <2>3. QED
    BY <2>1, <2>2 DEF SessionsAreLinked
<1>8. ChallengesAreSpentOnce'
  <2>1. \A x \in Requests \ {r} : Spends(x)' <=> Spends(x)
    BY <1>2 DEF Spends
  <2>2. Spends(r)' <=> q.op \in {"account", "create", "mint"} /\ q.challenge # None
    BY <1>2 DEF Spends
  <2>3. \A k \in Keys : Spent(k)' <=> Spent(k)
    BY Zenon DEF Spent
  <2>4. \A x \in Requests : Spends(x) => request[x].challenge \in Challenges
    BY <1>1, IdentityRequestKinds DEF Spends, MintRequest, LoginRequest
  <2>5. \A k \in Keys : Spent(k) => key[k].challenge \in Challenges
    <3>1. ASSUME NEW k \in Keys, Spent(k) PROVE key[k] \in KeyRow /\ key[k].challenge # None
      BY <1>1, <3>1, KeyKinds, Zenon DEF IdentityTyped, Spent
    <3>2. QED
      BY <3>1 DEF KeyRow
  <2>6. ChallengesAreSpentOnce
    BY DEF IdentityInv
  <2> HIDE DEF Spends, Spent
  <2>7. \A x \in Requests : Spends(x)' => challenge'[request'[x].challenge] = "consumed"
    BY <1>2, <2>1, <2>2, <2>4, <2>6 DEF ChallengesAreSpentOnce, Grows
  <2>8. \A k \in Keys : Spent(k)' => challenge'[key'[k].challenge] = "consumed"
    BY <2>3, <2>5, <2>6 DEF ChallengesAreSpentOnce, Grows
  <2>9. \A y, x \in Requests : y # x /\ Spends(y)' /\ Spends(x)' => request'[y].challenge # request'[x].challenge
    BY <1>2, <2>1, <2>2, <2>6 DEF ChallengesAreSpentOnce
  <2>10. \A x \in Requests, k \in Keys : Spends(x)' /\ Spent(k)' => request'[x].challenge # key'[k].challenge
    BY <1>2, <2>1, <2>2, <2>3, <2>6 DEF ChallengesAreSpentOnce
  <2>11. \A j, k \in Keys : j # k /\ Spent(j)' /\ Spent(k)' => key'[j].challenge # key'[k].challenge
    BY <2>3, <2>6 DEF ChallengesAreSpentOnce
  <2>12. QED
    BY <2>7, <2>8, <2>9, <2>10, <2>11 DEF ChallengesAreSpentOnce
<1>9. FirstLoginsAreLocked'
  <2>1. FirstLoginIsAlone'
    BY <1>2 DEF FirstLoginIsAlone
  <2>2. \A y, x \in Requests : y # x /\ request'[y].op = "create" /\ request'[x].op = "create" =>
          request'[y].account # request'[x].account
    BY <1>2 DEF IdentityInv, FirstLoginsAreLocked
  <2>3. QED
    BY <2>1, <2>2 DEF FirstLoginsAreLocked
<1>10. QED
  BY <1>3, <1>6, <1>7, <1>8, <1>9 DEF IdentityInv

\* At most one key is written, and requests end: what a key is granted for was
\* spent for it alone.
LEMMA KeyWrite ==
  ASSUME IdentityInv, Grows, wallet' = wallet,
         key' \in [Keys -> {UnbornKey} \cup KeyRow], request' \in [Requests -> IdentityRequest],
         \A x \in Requests : request'[x] = request[x] \/ request'[x] = Idle,
         NEW K \in SUBSET Keys, \A i, j \in K : i = j, \A j \in Keys \ K : key'[j] = key[j],
         \A k \in K :
           /\ key'[k] \in KeyRow /\ key'[k].user \in user'
           /\ key'[k].project # None => <<key'[k].project, key'[k].user>> \in member'
           /\ key'[k].challenge # None =>
                /\ key'[k].account \in Accounts /\ wallet'[key'[k].account] = key'[k].user
                /\ challenge'[key'[k].challenge] = "consumed"
                /\ \A x \in Requests : request'[x] = request[x] /\ Spends(x) => request[x].challenge # key'[k].challenge
                /\ \A j \in Keys \ K : Spent(j) => key[j].challenge # key'[k].challenge
  PROVE  IdentityInv'
<1>1. IdentityTyped
  BY DEF IdentityInv
<1>2. IdentityTyped'
  BY <1>1 DEF IdentityTyped, Grows
<1>3. Idle.op = "idle"
  BY DEF Idle
<1>4. ASSUME NEW k \in Keys, key'[k].born
      PROVE  /\ key'[k].user \in user' /\ (key'[k].project # None => <<key'[k].project, key'[k].user>> \in member')
             /\ key'[k].challenge # None => key'[k].account \in Accounts /\ wallet'[key'[k].account] = key'[k].user
  <2>1. CASE k \in K
    BY <2>1
  <2>2. CASE k \notin K
    <3>1. key'[k] = key[k]
      BY <2>2
    <3>2. Entitled(key[k]) /\ Linked(key[k])
      BY <1>4, <3>1, Zenon DEF IdentityInv, GrantsAreEntitled, SessionsAreLinked
    <3>3. key[k].user \in user
      BY <3>2, Zenon DEF Entitled
    <3>4. QED
      BY <1>1, <3>1, <3>2, <3>3, GrantsKept
  <2>3. QED
    BY <2>1, <2>2
<1>5. ASSUME NEW x \in Requests, request'[x].op = "mint"
      PROVE  /\ request'[x].user \in user'
             /\ request'[x].project # None => <<request'[x].project, request'[x].user>> \in member'
             /\ request'[x].challenge # None =>
                  request'[x].account \in Accounts /\ wallet'[request'[x].account] = request'[x].user
  <2>1. request'[x] = request[x]
    BY <1>3, <1>5
  <2>2. Entitled(request[x]) /\ Linked(request[x])
    BY <1>5, <2>1 DEF IdentityInv, GrantsAreEntitled, SessionsAreLinked
  <2>3. request[x].user \in user
    BY <2>2 DEF Entitled
  <2>4. QED
    BY <1>1, <2>1, <2>2, <2>3, GrantsKept
<1>6. GrantsAreEntitled'
  <2>1. \A k \in Keys : key'[k].born => Entitled(key[k])'
    BY <1>4 DEF Entitled
  <2>2. \A x \in Requests : request'[x].op = "mint" => Entitled(request[x])'
    BY <1>5 DEF Entitled
  <2>3. \A x \in Requests : request'[x].op = "scope" => request'[x].user \in user'
    BY <1>3 DEF IdentityInv, GrantsAreEntitled, Grows
  <2>4. QED
    BY <2>1, <2>2, <2>3 DEF GrantsAreEntitled
<1>7. SessionsAreLinked'
  <2>1. \A k \in Keys : key'[k].born => Linked(key[k])'
    BY <1>4 DEF Linked
  <2>2. \A x \in Requests : request'[x].op = "mint" => Linked(request[x])'
    BY <1>5 DEF Linked
  <2>3. QED
    BY <2>1, <2>2 DEF SessionsAreLinked
<1>8. ChallengesAreSpentOnce'
  <2>1. \A x \in Requests : Spends(x)' => Spends(x) /\ request'[x] = request[x]
    BY <1>3 DEF Spends
  <2>2. \A k \in Keys \ K : Spent(k)' <=> Spent(k)
    BY Zenon DEF Spent
  <2>3. \A k \in K : Spent(k)' => key'[k].challenge # None
    BY Zenon DEF Spent
  <2>4. \A x \in Requests : Spends(x) => request[x].challenge \in Challenges
    BY <1>1, IdentityRequestKinds DEF IdentityTyped, Spends, MintRequest, LoginRequest
  <2>5. \A k \in Keys : Spent(k) => key[k].challenge \in Challenges
    <3>1. ASSUME NEW k \in Keys, Spent(k) PROVE key[k] \in KeyRow /\ key[k].challenge # None
      BY <1>1, <3>1, KeyKinds, Zenon DEF IdentityTyped, Spent
    <3>2. QED
      BY <3>1 DEF KeyRow
  <2>6. ChallengesAreSpentOnce
    BY DEF IdentityInv
  <2> HIDE DEF Spends, Spent
  <2>7. \A x \in Requests : Spends(x)' => challenge'[request'[x].challenge] = "consumed"
    BY <2>1, <2>4, <2>6 DEF ChallengesAreSpentOnce, Grows
  <2>8. \A k \in Keys : Spent(k)' => challenge'[key'[k].challenge] = "consumed"
    <3>1. ASSUME NEW k \in Keys, Spent(k)' PROVE challenge'[key'[k].challenge] = "consumed"
      <4>1. CASE k \in K
        BY <2>3, <3>1, <4>1
      <4>2. CASE k \notin K
        <5>1. Spent(k) /\ key'[k] = key[k] /\ key[k].challenge \in Challenges
          BY <2>2, <2>5, <3>1, <4>2
        <5>2. challenge[key[k].challenge] = "consumed"
          BY <2>6, <5>1, Zenon DEF ChallengesAreSpentOnce
        <5>3. QED
          BY <5>1, <5>2 DEF Grows
      <4>3. QED
        BY <4>1, <4>2
    <3>2. QED
      BY <3>1
  <2>9. \A y, x \in Requests : y # x /\ Spends(y)' /\ Spends(x)' => request'[y].challenge # request'[x].challenge
    BY <2>1, <2>6 DEF ChallengesAreSpentOnce
  <2>10. \A x \in Requests, k \in Keys : Spends(x)' /\ Spent(k)' => request'[x].challenge # key'[k].challenge
    <3>1. ASSUME NEW x \in Requests, NEW k \in Keys, Spends(x)', Spent(k)'
          PROVE  request'[x].challenge # key'[k].challenge
      <4>1. Spends(x) /\ request'[x] = request[x]
        BY <2>1, <3>1
      <4>2. CASE k \in K
        <5>1. key'[k].challenge # None
          BY <2>3, <3>1, <4>2, Zenon
        <5>2. request[x].challenge # key'[k].challenge
          BY <4>1, <4>2, <5>1, Zenon
        <5>3. QED
          BY <4>1, <5>2
      <4>3. CASE k \notin K
        <5>1. Spent(k) /\ key'[k] = key[k]
          BY <2>2, <3>1, <4>3
        <5>2. request[x].challenge # key[k].challenge
          BY <2>6, <4>1, <5>1, Zenon DEF ChallengesAreSpentOnce
        <5>3. QED
          BY <4>1, <5>1, <5>2
      <4>4. QED
        BY <4>2, <4>3
    <3>2. QED
      BY <3>1
  <2>11. \A j, k \in Keys : j # k /\ Spent(j)' /\ Spent(k)' => key'[j].challenge # key'[k].challenge
    <3>1. ASSUME NEW j \in Keys, NEW k \in Keys \ K, j # k, Spent(j)', Spent(k)'
          PROVE  key'[j].challenge # key'[k].challenge
      <4>1. Spent(k) /\ key'[k] = key[k]
        BY <2>2, <3>1
      <4>2. CASE j \in K
        <5>1. key'[j].challenge # None
          BY <2>3, <3>1, <4>2, Zenon
        <5>2. key[k].challenge # key'[j].challenge
          BY <4>1, <4>2, <5>1, Zenon
        <5>3. QED
          BY <4>1, <5>2
      <4>3. CASE j \notin K
        <5>1. Spent(j) /\ key'[j] = key[j]
          BY <2>2, <3>1, <4>3
        <5>2. key[j].challenge # key[k].challenge
          BY <2>6, <3>1, <4>1, <5>1, Zenon DEF ChallengesAreSpentOnce
        <5>3. QED
          BY <4>1, <5>1, <5>2
      <4>4. QED
        BY <4>2, <4>3
    <3>2. ASSUME NEW j \in Keys, NEW k \in Keys, j # k PROVE j \in Keys \ K \/ k \in Keys \ K
      BY <3>2
    <3>3. QED
      BY <3>1, <3>2, Zenon
  <2>12. QED
    BY <2>7, <2>8, <2>9, <2>10, <2>11 DEF ChallengesAreSpentOnce
<1>9. FirstLoginsAreLocked'
  <2>1. FirstLoginIsAlone'
    BY <1>3 DEF FirstLoginIsAlone, IdentityInv, FirstLoginsAreLocked
  <2>2. \A y, x \in Requests : y # x /\ request'[y].op = "create" /\ request'[x].op = "create" =>
          request'[y].account # request'[x].account
    BY <1>3 DEF IdentityInv, FirstLoginsAreLocked
  <2>3. QED
    BY <2>1, <2>2 DEF FirstLoginsAreLocked
<1>10. QED
  BY <1>2, <1>6, <1>7, <1>8, <1>9 DEF IdentityInv

\* Steps of the operator, of time and of the process: no key is written.
LEMMA QuietStep ==
  ASSUME IdentityInv, Grows, wallet' = wallet, key' = key,
         request' \in [Requests -> IdentityRequest],
         \A x \in Requests : request'[x] = request[x] \/ request'[x] = Idle
  PROVE  IdentityInv'
<1>1. {} \in SUBSET Keys /\ key' \in [Keys -> {UnbornKey} \cup KeyRow] /\ \A j \in Keys \ {} : key'[j] = key[j]
  BY Zenon DEF IdentityInv, IdentityTyped
<1>2. QED
  BY <1>1, KeyWrite

\* Nothing but requests or keys changes.
LEMMA GrowsStill ==
  ASSUME IdentityInv, UNCHANGED <<user, wallet, challenge, member>>
  PROVE  Grows
  BY DEF Grows, IdentityInv, IdentityTyped

\* A request that ends has no effect but on itself.
LEMMA RequestOver ==
  ASSUME IdentityInv, NEW r \in Requests, Finish(r), UNCHANGED identityVars
  PROVE  IdentityInv'
<1>1. Grows
  BY GrowsStill DEF identityVars
<1>2. Idle \in IdentityRequest /\ request \in [Requests -> IdentityRequest]
  BY DEF IdentityRequest, IdentityInv, IdentityTyped
<1>3. request' \in [Requests -> IdentityRequest] /\ \A x \in Requests : request'[x] = request[x] \/ request'[x] = Idle
  BY <1>2 DEF Finish
<1>4. QED
  BY <1>1, <1>3, QuietStep DEF identityVars

\* The challenge is consumed by the one login that finds it live.
LEMMA ConsumeStep ==
  ASSUME IdentityInv, NEW r \in Requests, ConsumeChallenge(r)
  PROVE  IdentityInv'
<1> DEFINE c == request[r].challenge
           q == [request[r] EXCEPT !.op = "account"]
<1>1. request[r] \in LoginRequest /\ c \in Challenges
  BY IdentityRequestKinds DEF ConsumeChallenge, IdentityInv, IdentityTyped, LoginRequest
<1>2. CASE Consumable(c)
  <2>1. /\ challenge[c] = "live" /\ challenge' = [challenge EXCEPT ![c] = "consumed"]
        /\ request' = [request EXCEPT ![r] = q] /\ UNCHANGED <<user, wallet, key, member>>
    BY <1>2 DEF ConsumeChallenge, Consumable
  <2>2. q \in LoginRequest /\ q.op = "account" /\ q.challenge = c
    BY <1>1 DEF LoginRequest
  <2>3. Grows /\ challenge'[c] = "consumed"
    BY <1>1, <2>1 DEF Grows, IdentityInv, IdentityTyped
  <2>4. \A x \in Requests : Spends(x) => request[x].challenge # c
    BY <2>1 DEF IdentityInv, ChallengesAreSpentOnce
  <2>5. \A k \in Keys : Spent(k) => key[k].challenge # c
    <3>1. \A k \in Keys : Spent(k) => challenge[key[k].challenge] = "consumed"
      BY Zenon DEF IdentityInv, ChallengesAreSpentOnce
    <3>2. QED
      BY <2>1, <3>1
  <2>6. \A x \in Requests : request[x].op = "create" => wallet'[request[x].account] = None
    BY <2>1 DEF IdentityInv, FirstLoginsAreLocked, FirstLoginIsAlone
  <2>7. q \in IdentityRequest
    BY <2>2 DEF IdentityRequest
  <2> HIDE DEF q, c
  <2>8. QED
    BY <2>1, <2>2, <2>3, <2>4, <2>5, <2>6, <2>7, RequestWrite
<1>3. CASE ~Consumable(c)
  BY <1>3, RequestOver DEF ConsumeChallenge, identityVars
<1>4. QED
  BY <1>2, <1>3

\* What a login that has consumed its challenge holds.
LEMMA LoginHolds ==
  ASSUME IdentityInv, NEW r \in Requests, request[r].op \in {"account", "create"}
  PROVE  /\ request[r] \in LoginRequest /\ request[r].challenge \in Challenges /\ request[r].account \in Accounts
         /\ challenge[request[r].challenge] = "consumed"
         /\ \A x \in Requests \ {r} : Spends(x) => request[x].challenge # request[r].challenge
         /\ \A k \in Keys : Spent(k) => key[k].challenge # request[r].challenge
<1>1. request[r] \in LoginRequest /\ request[r].challenge \in Challenges /\ request[r].account \in Accounts
  BY IdentityRequestKinds DEF IdentityInv, IdentityTyped, LoginRequest
<1>2. Spends(r)
  BY <1>1, IdentityAssumption DEF Spends
<1>3. challenge[request[r].challenge] = "consumed"
      /\ \A x \in Requests \ {r} : Spends(x) => request[x].challenge # request[r].challenge
  BY <1>2, Zenon DEF IdentityInv, ChallengesAreSpentOnce
<1>4. \A k \in Keys : Spent(k) => key[k].challenge # request[r].challenge
  BY <1>2, Zenon DEF IdentityInv, ChallengesAreSpentOnce
<1>5. QED
  BY <1>1, <1>3, <1>4, Zenon

\* Under the lock the account is found linked, or is nobody else's to link.
LEMMA FindUserStep ==
  ASSUME IdentityInv, NEW r \in Requests, FindUser(r)
  PROVE  IdentityInv'
<1> DEFINE a == request[r].account
           c == request[r].challenge
           create == [request[r] EXCEPT !.op = "create"]
           mint == Minting(wallet[a], None, TRUE, c, a)
<1>1. /\ request[r] \in LoginRequest /\ c \in Challenges /\ a \in Accounts /\ challenge[c] = "consumed"
      /\ \A x \in Requests \ {r} : Spends(x) => request[x].challenge # c
      /\ \A k \in Keys : Spent(k) => key[k].challenge # c
  BY LoginHolds DEF FindUser
<1>2. /\ UNCHANGED <<user, wallet, challenge, member>> /\ key' = key /\ AccountUnlocked(a)
      /\ request' = [request EXCEPT ![r] = IF wallet[a] = None THEN create ELSE mint]
  <2>1. UNCHANGED <<user, wallet, challenge, member>> /\ key' = key
    BY DEF FindUser, identityVars
  <2>2. QED
    BY <2>1, Zenon DEF FindUser
<1>3. Grows
  BY <1>2, GrowsStill
<1>4. \A x \in Requests : request[x].op = "create" => wallet'[request[x].account] = None
  BY <1>2 DEF IdentityInv, FirstLoginsAreLocked, FirstLoginIsAlone
<1>5. CASE wallet[a] = None
  <2>1. create \in LoginRequest /\ create.op = "create" /\ create.challenge = c /\ create.account = a
    BY <1>1 DEF LoginRequest
  <2>2. create \in IdentityRequest
    BY <2>1 DEF IdentityRequest
  <2>3. \A x \in Requests \ {r} : request[x].op = "create" => request[x].account # a
    BY <1>2 DEF AccountUnlocked
  <2>4. request' = [request EXCEPT ![r] = create]
    BY <1>2, <1>5
  <2> HIDE DEF create, mint, a, c
  <2>5. create.op # "mint" /\ create.op # "scope" /\ wallet'[create.account] = None /\ challenge'[create.challenge] = "consumed"
    BY <1>1, <1>2, <1>5, <2>1
  <2>6. /\ \A x \in Requests \ {r} : Spends(x) => request[x].challenge # create.challenge
        /\ \A k \in Keys : Spent(k) => key[k].challenge # create.challenge
        /\ \A x \in Requests \ {r} : request[x].op = "create" => request[x].account # create.account
        /\ \A x \in Requests \ {r} : request[x].op = "create" => wallet'[request[x].account] = None
    BY <1>1, <1>4, <2>1, <2>3
  <2>7. QED
    BY <1>2, <1>3, <2>2, <2>4, <2>5, <2>6, RequestWrite, Zenon
<1>6. CASE wallet[a] # None
  <2>1. wallet[a] \in user /\ wallet[a] \in Users
    BY <1>1, <1>6 DEF IdentityInv, IdentityTyped
  <2>2. /\ mint \in MintRequest /\ mint.op = "mint" /\ mint.user = wallet[a] /\ mint.project = None
        /\ mint.challenge = c /\ mint.account = a
    <3>1. None \in Scopes /\ c \in Challenges \cup {None} /\ a \in Accounts \cup {None}
      BY <1>1, Zenon DEF Scopes
    <3>2. mint = Expiring(wallet[a], None, c, a)
      BY Zenon DEF Expiring
    <3> HIDE DEF mint, a, c
    <3>3. QED
      BY <2>1, <3>1, <3>2, MintingIs
  <2>3. mint \in IdentityRequest
    BY <2>2, Zenon DEF IdentityRequest
  <2>4. request' = [request EXCEPT ![r] = mint]
    BY <1>2, <1>6, Zenon
  <2> HIDE DEF create, mint, a, c
  <2>5. /\ mint.op # "create" /\ mint.op # "scope" /\ wallet'[mint.account] = mint.user /\ mint.account \in Accounts
        /\ mint.user \in user' /\ challenge'[mint.challenge] = "consumed"
    BY <1>1, <1>2, <2>1, <2>2
  <2>6. /\ \A x \in Requests \ {r} : Spends(x) => request[x].challenge # mint.challenge
        /\ \A k \in Keys : Spent(k) => key[k].challenge # mint.challenge
        /\ \A x \in Requests \ {r} : request[x].op = "create" => wallet'[request[x].account] = None
    BY <1>1, <1>4, <2>2
  <2>7. QED
    BY <1>2, <1>3, <2>2, <2>3, <2>4, <2>5, <2>6, RequestWrite, ZenonT(60)
<1>7. QED
  BY <1>5, <1>6

\* The first login of an account links it to a user nobody else is.
LEMMA CreateUserStep ==
  ASSUME IdentityInv, NEW r \in Requests, CreateUserForAccount(r)
  PROVE  IdentityInv'
<1> DEFINE a == request[r].account
           c == request[r].challenge
<1>1. /\ c \in Challenges /\ a \in Accounts /\ challenge[c] = "consumed"
      /\ \A x \in Requests \ {r} : Spends(x) => request[x].challenge # c
      /\ \A k \in Keys : Spent(k) => key[k].challenge # c
  BY LoginHolds DEF CreateUserForAccount
<1>2. wallet[a] = None /\ \A x \in Requests \ {r} : request[x].op = "create" =>
                            request[x].account # a /\ wallet[request[x].account] = None /\ request[x].account \in Accounts
  <2>1. wallet[a] = None /\ \A x \in Requests \ {r} : request[x].op = "create" =>
                              request[x].account # a /\ wallet[request[x].account] = None
    BY DEF CreateUserForAccount, IdentityInv, FirstLoginsAreLocked, FirstLoginIsAlone
  <2>2. QED
    BY <2>1, LoginHolds
<1>3. PICK u \in Users \ user :
        /\ user' = user \cup {u} /\ wallet' = [wallet EXCEPT ![a] = u]
        /\ request' = [request EXCEPT ![r] = Minting(u, None, TRUE, c, a)]
  BY <1>2, Zenon DEF CreateUserForAccount
<1>4. key' = key /\ challenge' = challenge /\ member' = member
  BY DEF CreateUserForAccount
<1> DEFINE mint == Minting(u, None, TRUE, c, a)
<1>5. /\ mint \in MintRequest /\ mint.op = "mint" /\ mint.user = u /\ mint.project = None
      /\ mint.challenge = c /\ mint.account = a
  <2>1. None \in Scopes /\ c \in Challenges \cup {None} /\ a \in Accounts \cup {None} /\ u \in Users
    BY <1>1, Zenon DEF Scopes
  <2>2. mint = Expiring(u, None, c, a)
    BY Zenon DEF Expiring
  <2> HIDE DEF mint, a, c
  <2>3. QED
    BY <2>1, <2>2, MintingIs
<1>6. mint \in IdentityRequest
  BY <1>5, Zenon DEF IdentityRequest
<1>7. request' = [request EXCEPT ![r] = mint]
  BY <1>3
<1> HIDE DEF mint, a, c
<1>8. Grows /\ wallet'[a] = u
  BY <1>1, <1>2, <1>3, <1>4 DEF Grows, IdentityInv, IdentityTyped
<1>9. /\ mint.op # "create" /\ mint.op # "scope" /\ wallet'[mint.account] = mint.user /\ mint.account \in Accounts
      /\ mint.user \in user' /\ challenge'[mint.challenge] = "consumed"
  BY <1>1, <1>3, <1>4, <1>5, <1>8
<1>10. /\ \A x \in Requests \ {r} : Spends(x) => request[x].challenge # mint.challenge
       /\ \A k \in Keys : Spent(k) => key[k].challenge # mint.challenge
       /\ \A x \in Requests \ {r} : request[x].op = "create" => wallet'[request[x].account] = None
  <2>1. wallet \in [Accounts -> user \cup {None}]
    BY DEF IdentityInv, IdentityTyped
  <2>2. \A b \in Accounts : b # a => wallet'[b] = wallet[b]
    BY <1>3, <2>1
  <2>3. QED
    BY <1>1, <1>2, <1>5, <2>2
<1>11. QED
  BY <1>4, <1>5, <1>6, <1>7, <1>8, <1>9, <1>10, RequestWrite, Zenon

\* A grant without a challenge, for a user who exists and, if it has a scope,
\* is a member of it.
LEMMA PlainGrant ==
  ASSUME IdentityInv, UNCHANGED identityVars, NEW r \in Requests, NEW m, NEW u \in user, NEW c \in Scopes,
         m = Expiring(u, c, None, None) \/ m = Lasting(u, c, None, None),
         c # None => <<c, u>> \in member,
         request' = [request EXCEPT ![r] = m]
  PROVE  IdentityInv'
<1>1. m \in MintRequest /\ m.op = "mint" /\ m.user = u /\ m.project = c /\ m.challenge = None
  <2>1. None \in Challenges \cup {None} /\ None \in Accounts \cup {None} /\ u \in Users
    BY DEF IdentityInv, IdentityTyped
  <2>2. QED
    BY <2>1, MintingIs
<1>2. UNCHANGED <<user, wallet, challenge, member>> /\ key' = key
  BY DEF identityVars
<1>3. Grows
  BY <1>2, GrowsStill
<1>4. m \in IdentityRequest /\ m.op # "create" /\ m.op # "scope"
  BY <1>1 DEF IdentityRequest
<1>5. \A x \in Requests \ {r} : request[x].op = "create" => wallet'[request[x].account] = None
  BY <1>2 DEF IdentityInv, FirstLoginsAreLocked, FirstLoginIsAlone
<1>6. m.user \in user' /\ (m.project # None => <<m.project, m.user>> \in member')
  BY <1>1, <1>2
<1>7. QED
  BY <1>1, <1>2, <1>3, <1>4, <1>5, <1>6, RequestWrite, Zenon

\* A request that asks for a scope, or has read a live challenge: nothing is
\* granted yet.
LEMMA PlainRequest ==
  ASSUME IdentityInv, UNCHANGED identityVars, NEW r \in Requests, NEW q \in ScopeRequest \cup LoginRequest,
         q.op \in {"scope", "consume"}, q.op = "scope" => q.user \in user,
         request' = [request EXCEPT ![r] = q]
  PROVE  IdentityInv'
<1>1. UNCHANGED <<user, wallet, challenge, member>> /\ key' = key
  BY DEF identityVars
<1>2. Grows
  BY <1>1, GrowsStill
<1>3. q \in IdentityRequest /\ q.op \notin {"account", "create", "mint"} /\ q.op # "create" /\ q.op # "mint"
  BY DEF IdentityRequest
<1>4. \A x \in Requests \ {r} : request[x].op = "create" => wallet'[request[x].account] = None
  BY <1>1 DEF IdentityInv, FirstLoginsAreLocked, FirstLoginIsAlone
<1>5. q.op = "scope" => q.user \in user'
  BY <1>1
<1>6. QED
  BY <1>1, <1>2, <1>3, <1>4, <1>5, RequestWrite, Zenon

\* Whoever presents a usable key is a user.
LEMMA UsableHolds ==
  ASSUME IdentityInv, NEW k \in Keys, key[k].born
  PROVE  key[k] \in KeyRow /\ key[k].user \in user /\ Entitled(key[k]) /\ Linked(key[k])
<1>1. key[k] \in KeyRow
  BY KeyKinds, Zenon DEF IdentityInv, IdentityTyped
<1>2. Entitled(key[k]) /\ Linked(key[k])
  BY Zenon DEF IdentityInv, GrantsAreEntitled, SessionsAreLinked
<1>3. QED
  BY <1>1, <1>2, Zenon DEF Entitled

\* Scopes are resolved, keys presented and challenges read.
LEMMA GrantSteps ==
  ASSUME IdentityInv, NEW r \in Requests,
         \/ resolveScope(r)
         \/ \E k \in Keys : authIssueAPIKey(r, k)
         \/ \E k \in Keys, scope \in Scopes : issueToken(r, k, scope)
         \/ \E c \in Challenges, a \in Accounts : LiveChallengeNonce(r, c, a)
  PROVE  IdentityInv'
<1>1. ASSUME resolveScope(r) PROVE IdentityInv'
  <2> DEFINE c == request[r].project
             u == request[r].user
  <2>1. request[r] \in ScopeRequest /\ u \in user /\ c \in Scopes /\ UNCHANGED identityVars
    <3>1. request[r] \in ScopeRequest
      BY <1>1, IdentityRequestKinds DEF resolveScope, IdentityInv, IdentityTyped
    <3>2. QED
      BY <1>1, <3>1 DEF resolveScope, IdentityInv, GrantsAreEntitled, ScopeRequest, Scopes
  <2>2. CASE GetMembership(c, u)
    <3>1. request' = [request EXCEPT ![r] = Minting(u, c, TRUE, None, None)] /\ <<c, u>> \in member
      BY <1>1, <2>2, Zenon DEF resolveScope, GetMembership
    <3>2. request' = [request EXCEPT ![r] = Expiring(u, c, None, None)]
      BY <3>1, Zenon DEF Expiring
    <3> HIDE DEF c, u
    <3>3. QED
      BY <2>1, <3>1, <3>2, PlainGrant
  <2>3. CASE ~GetMembership(c, u)
    BY <1>1, <2>1, <2>3, RequestOver DEF resolveScope
  <2>4. QED
    BY <2>2, <2>3
<1>2. ASSUME NEW k \in Keys, authIssueAPIKey(r, k) PROVE IdentityInv'
  <2>1. request' = [request EXCEPT ![r] = Minting(key[k].user, None, FALSE, None, None)] /\ key[k].born
    BY <1>2, Zenon DEF authIssueAPIKey, Begin, Usable
  <2>2. request' = [request EXCEPT ![r] = Lasting(key[k].user, None, None, None)]
    BY <2>1, Zenon DEF Lasting
  <2>3. key[k].user \in user /\ None \in Scopes /\ UNCHANGED identityVars
    BY <1>2, <2>1, UsableHolds DEF Scopes, authIssueAPIKey
  <2>4. QED
    BY <2>2, <2>3, PlainGrant
<1>3. ASSUME NEW k \in Keys, NEW scope \in Scopes, issueToken(r, k, scope) PROVE IdentityInv'
  <2>1. key[k].born /\ request' = [request EXCEPT ![r] =
           IF scope = None THEN Minting(key[k].user, None, TRUE, None, None)
           ELSE [op |-> "scope", user |-> key[k].user, project |-> scope]]
    BY <1>3, Zenon DEF issueToken, Begin, Usable
  <2>2. key[k].user \in user /\ None \in Scopes
    BY <2>1, UsableHolds DEF Scopes
  <2>3. UNCHANGED identityVars /\ key[k].user \in Users
    BY <1>3, <2>2 DEF issueToken, identityVars, IdentityInv, IdentityTyped
  <2>4. CASE scope = None
    <3>1. request' = [request EXCEPT ![r] = Expiring(key[k].user, None, None, None)]
      BY <2>1, <2>4, Zenon DEF Expiring
    <3>2. QED
      BY <2>2, <2>3, <3>1, PlainGrant
  <2>5. CASE scope # None
    <3> DEFINE q == [op |-> "scope", user |-> key[k].user, project |-> scope]
    <3>1. request' = [request EXCEPT ![r] = q]
      BY <2>1, <2>5, Zenon
    <3>2. q \in ScopeRequest /\ q.op = "scope" /\ q.user = key[k].user
      BY <2>3, <2>5 DEF ScopeRequest, Scopes
    <3> HIDE DEF q
    <3>3. QED
      BY <2>2, <2>3, <3>1, <3>2, PlainRequest
  <2>6. QED
    BY <2>4, <2>5
<1>4. ASSUME NEW c \in Challenges, NEW a \in Accounts, LiveChallengeNonce(r, c, a) PROVE IdentityInv'
  <2> DEFINE q == [op |-> "consume", challenge |-> c, account |-> a]
  <2>1. request' = [request EXCEPT ![r] = q] /\ UNCHANGED identityVars
    BY <1>4 DEF LiveChallengeNonce, Begin, identityVars
  <2>2. q \in LoginRequest /\ q.op = "consume"
    BY DEF LoginRequest
  <2> HIDE DEF q
  <2>3. QED
    BY <2>1, <2>2, PlainRequest
<1>5. QED
  BY <1>1, <1>2, <1>3, <1>4

\* A key is inserted for a grant: of a request that ends with it, or of the
\* operator.
LEMMA MintKeeps ==
  ASSUME IdentityInv, UNCHANGED <<user, wallet, challenge, member>>, NEW m \in MintRequest, Mint(m),
         request' \in [Requests -> IdentityRequest],
         \A x \in Requests : request'[x] = request[x] \/ request'[x] = Idle,
         m.user \in user, m.project # None => <<m.project, m.user>> \in member,
         m.challenge # None =>
           /\ m.account \in Accounts /\ wallet[m.account] = m.user /\ challenge[m.challenge] = "consumed"
           /\ \A x \in Requests : request'[x] = request[x] /\ Spends(x) => request[x].challenge # m.challenge
           /\ \A j \in Keys : Spent(j) => key[j].challenge # m.challenge
  PROVE  IdentityInv'
<1>1. PICK k \in Keys : ~key[k].born /\ key' =
        [key EXCEPT ![k] = [born |-> TRUE, state |-> "live", user |-> m.user, project |-> m.project,
                            expires |-> m.expires, challenge |-> m.challenge, account |-> m.account]]
  BY Zenon DEF Mint
<1> DEFINE y == [born |-> TRUE, state |-> "live", user |-> m.user, project |-> m.project,
                 expires |-> m.expires, challenge |-> m.challenge, account |-> m.account]
<1>2. /\ y \in KeyRow /\ y.user = m.user /\ y.project = m.project
      /\ y.challenge = m.challenge /\ y.account = m.account
  BY MintedRow, Zenon
<1>3. key' = [key EXCEPT ![k] = y]
  BY <1>1, Zenon
<1> HIDE DEF y
<1>4. key \in [Keys -> {UnbornKey} \cup KeyRow]
  BY DEF IdentityInv, IdentityTyped
<1>5. key' \in [Keys -> {UnbornKey} \cup KeyRow] /\ key'[k] = y /\ \A j \in Keys \ {k} : key'[j] = key[j]
  BY <1>2, <1>3, <1>4
<1>6. Grows /\ wallet' = wallet /\ user' = user /\ member' = member /\ challenge' = challenge
  BY GrowsStill
<1>7. /\ key'[k] \in KeyRow /\ key'[k].user \in user'
      /\ key'[k].project # None => <<key'[k].project, key'[k].user>> \in member'
  BY <1>2, <1>5, <1>6
<1>8. key'[k].challenge # None =>
        /\ key'[k].account \in Accounts /\ wallet'[key'[k].account] = key'[k].user
        /\ challenge'[key'[k].challenge] = "consumed"
        /\ \A x \in Requests : request'[x] = request[x] /\ Spends(x) => request[x].challenge # key'[k].challenge
        /\ \A j \in Keys \ {k} : Spent(j) => key[j].challenge # key'[k].challenge
  BY <1>2, <1>5, <1>6
<1> DEFINE K == {k}
<1>9. K \in SUBSET Keys /\ (\A i, j \in K : i = j) /\ (\A j \in Keys \ K : key'[j] = key[j])
  BY <1>5
<1>10. \A i \in K :
        /\ key'[i] \in KeyRow /\ key'[i].user \in user'
        /\ key'[i].project # None => <<key'[i].project, key'[i].user>> \in member'
        /\ key'[i].challenge # None =>
             /\ key'[i].account \in Accounts /\ wallet'[key'[i].account] = key'[i].user
             /\ challenge'[key'[i].challenge] = "consumed"
             /\ \A x \in Requests : request'[x] = request[x] /\ Spends(x) => request[x].challenge # key'[i].challenge
             /\ \A j \in Keys \ K : Spent(j) => key[j].challenge # key'[i].challenge
  <2>1. \A i \in K : i = k
    OBVIOUS
  <2>2. QED
    BY <1>7, <1>8, <2>1, Zenon
<1> HIDE DEF K
<1>11. QED
  BY <1>5, <1>6, <1>9, <1>10, KeyWrite, Zenon

\* The last step of a request for a key: it is written as asked.
LEMMA CreateKeyStep ==
  ASSUME IdentityInv, NEW r \in Requests, createAPIKey(r)
  PROVE  IdentityInv'
<1> DEFINE m == request[r]
<1>1. m \in MintRequest /\ request \in [Requests -> IdentityRequest] /\ m.op = "mint"
  BY IdentityRequestKinds DEF createAPIKey, IdentityInv, IdentityTyped
<1>2. Entitled(m) /\ Linked(m)
  BY <1>1 DEF IdentityInv, GrantsAreEntitled, SessionsAreLinked
<1>3. /\ m.challenge # None => /\ challenge[m.challenge] = "consumed"
                               /\ \A x \in Requests \ {r} : Spends(x) => request[x].challenge # m.challenge
                               /\ \A j \in Keys : Spent(j) => key[j].challenge # m.challenge
  <2>1. ASSUME m.challenge # None PROVE Spends(r)
    BY <1>1, <2>1 DEF Spends
  <2>2. QED
    BY <2>1, Zenon DEF IdentityInv, ChallengesAreSpentOnce
<1>4. Idle \in IdentityRequest /\ Idle.op = "idle"
  BY DEF IdentityRequest, Idle
<1>5. /\ request' \in [Requests -> IdentityRequest] /\ request'[r] = Idle
      /\ \A x \in Requests : request'[x] = request[x] \/ request'[x] = Idle
  BY <1>1, <1>4 DEF createAPIKey, Finish
<1>6. request'[r] # request[r]
  BY <1>1, <1>4, <1>5
<1>7. m.user \in user /\ (m.project # None => <<m.project, m.user>> \in member)
      /\ (m.challenge # None => m.account \in Accounts /\ wallet[m.account] = m.user)
  BY <1>2 DEF Entitled, Linked
<1>8. m.challenge # None => \A x \in Requests : request'[x] = request[x] /\ Spends(x) => request[x].challenge # m.challenge
  BY <1>3, <1>6
<1>9. Mint(m) /\ UNCHANGED <<user, wallet, challenge, member>>
  BY DEF createAPIKey
<1> HIDE DEF m
<1>10. QED
  BY <1>1, <1>3, <1>5, <1>7, <1>8, <1>9, MintKeeps, Zenon

\* A key a user makes is unscoped and lasts.
LEMMA IssueKeyStep ==
  ASSUME IdentityInv, NEW u \in Users, CreateAPIKey(u)
  PROVE  IdentityInv'
<1> DEFINE m == Minting(u, None, FALSE, None, None)
<1>1. m \in MintRequest /\ m.user = u /\ m.project = None /\ m.challenge = None
  <2>1. m = Lasting(u, None, None, None)
    BY Zenon DEF Lasting
  <2>2. None \in Scopes /\ None \in Challenges \cup {None} /\ None \in Accounts \cup {None}
    BY DEF Scopes
  <2> HIDE DEF m
  <2>3. QED
    BY <2>1, <2>2, MintingIs
<1>2. u \in user /\ Mint(m)
  <2>1. Mint(Minting(u, None, FALSE, None, None)) /\ u \in user
    BY DEF CreateAPIKey
  <2>2. QED
    BY <2>1
<1>3. UNCHANGED <<user, wallet, challenge, member>> /\ request' = request
  BY DEF CreateAPIKey
<1>4. request' \in [Requests -> IdentityRequest] /\ \A x \in Requests : request'[x] = request[x] \/ request'[x] = Idle
  BY <1>3 DEF IdentityInv, IdentityTyped
<1> HIDE DEF m
<1>5. QED
  BY <1>1, <1>2, <1>3, <1>4, MintKeeps, Zenon

\* A key that expires or is revoked stays the session it was.
LEMMA KeyStateStep ==
  ASSUME IdentityInv, NEW k \in Keys, RevokeAPIKey(k) \/ KeyExpires(k)
  PROVE  IdentityInv'
<1>1. PICK s \in {"live", "revoked", "expired"} : key' = [key EXCEPT ![k].state = s]
  BY DEF RevokeAPIKey, KeyExpires
<1> DEFINE y == [key[k] EXCEPT !.state = s]
<1>2. key[k].born /\ UNCHANGED <<user, wallet, challenge, member>> /\ request' = request
  <2>1. key[k].born
    BY Zenon DEF RevokeAPIKey, KeyExpires, Usable
  <2>2. QED
    BY <2>1 DEF RevokeAPIKey, KeyExpires
<1>3. key[k] \in KeyRow /\ Entitled(key[k]) /\ Linked(key[k])
  BY <1>2, UsableHolds
<1>4. /\ y \in KeyRow /\ y.user = key[k].user /\ y.project = key[k].project
      /\ y.challenge = key[k].challenge /\ y.account = key[k].account
  BY <1>3, KeyState
<1>5. key' = [key EXCEPT ![k] = y] /\ key \in [Keys -> {UnbornKey} \cup KeyRow]
  BY <1>1 DEF IdentityInv, IdentityTyped
<1> HIDE DEF y
<1>6. key' \in [Keys -> {UnbornKey} \cup KeyRow] /\ key'[k] = y /\ \A j \in Keys \ {k} : key'[j] = key[j]
  BY <1>4, <1>5
<1>7. Grows /\ wallet' = wallet /\ user' = user /\ member' = member /\ challenge' = challenge
  BY <1>2, GrowsStill
<1>8. /\ key'[k] \in KeyRow /\ key'[k].user \in user'
      /\ key'[k].project # None => <<key'[k].project, key'[k].user>> \in member'
  BY <1>3, <1>4, <1>6, <1>7 DEF Entitled
<1>9. ASSUME key'[k].challenge # None
      PROVE  /\ key'[k].account \in Accounts /\ wallet'[key'[k].account] = key'[k].user
             /\ challenge'[key'[k].challenge] = "consumed"
             /\ \A x \in Requests : request'[x] = request[x] /\ Spends(x) => request[x].challenge # key'[k].challenge
             /\ \A j \in Keys \ {k} : Spent(j) => key[j].challenge # key'[k].challenge
  <2>1. key[k].challenge # None
    BY <1>4, <1>6, <1>9
  <2>2. Spent(k)
    BY <1>2, <2>1, Zenon DEF Spent
  <2>3. challenge[key[k].challenge] = "consumed"
        /\ (\A x \in Requests : Spends(x) => request[x].challenge # key[k].challenge)
        /\ (\A j \in Keys \ {k} : Spent(j) => key[j].challenge # key[k].challenge)
    BY <2>2, Zenon DEF IdentityInv, ChallengesAreSpentOnce
  <2>4. key[k].account \in Accounts /\ wallet[key[k].account] = key[k].user
    BY <1>3, <2>1, Zenon DEF Linked
  <2>5. QED
    BY <1>4, <1>6, <1>7, <2>3, <2>4
<1>10. request' \in [Requests -> IdentityRequest] /\ \A x \in Requests : request'[x] = request[x] \/ request'[x] = Idle
  BY <1>2 DEF IdentityInv, IdentityTyped
<1> DEFINE K == {k}
<1>11. K \in SUBSET Keys /\ (\A i, j \in K : i = j) /\ (\A j \in Keys \ K : key'[j] = key[j])
  BY <1>6
<1>12. \A i \in K :
        /\ key'[i] \in KeyRow /\ key'[i].user \in user'
        /\ key'[i].project # None => <<key'[i].project, key'[i].user>> \in member'
        /\ key'[i].challenge # None =>
             /\ key'[i].account \in Accounts /\ wallet'[key'[i].account] = key'[i].user
             /\ challenge'[key'[i].challenge] = "consumed"
             /\ \A x \in Requests : request'[x] = request[x] /\ Spends(x) => request[x].challenge # key'[i].challenge
             /\ \A j \in Keys \ K : Spent(j) => key[j].challenge # key'[i].challenge
  <2>1. \A i \in K : i = k
    OBVIOUS
  <2>2. QED
    BY <1>8, <1>9, <2>1, Zenon
<1> HIDE DEF K
<1>13. QED
  BY <1>6, <1>7, <1>10, <1>11, <1>12, KeyWrite, Zenon

\* Every step of logins, tokens and the operator.
LEMMA IdentityStep ==
  ASSUME IdentityInv, IdentityNext
  PROVE  IdentityInv'
<1> DEFINE Goal == IdentityInv'
<1>1. ASSUME NewChallenge \/ \E c \in Challenges : ChallengeExpires(c) PROVE Goal
  <2>1. PICK c \in Challenges, s \in {"live", "expired"} :
          challenge[c] # "consumed" /\ challenge' = [challenge EXCEPT ![c] = s]
    BY <1>1 DEF NewChallenge, ChallengeExpires
  <2>2. UNCHANGED <<user, wallet, member>> /\ wallet' = wallet /\ key' = key /\ request' = request
    BY <1>1 DEF NewChallenge, ChallengeExpires
  <2>3. Grows
    BY <2>1, <2>2 DEF Grows, IdentityInv, IdentityTyped
  <2>4. request' \in [Requests -> IdentityRequest]
    BY <2>2 DEF IdentityInv, IdentityTyped
  <2>5. QED
    BY <2>2, <2>3, <2>4, QuietStep
<1>2. ASSUME CreateUser \/ \E u \in Users, c \in Projects : AddMembership(c, u) PROVE Goal
  <2>1. wallet' = wallet /\ challenge' = challenge /\ key' = key /\ request' = request
    BY <1>2 DEF CreateUser, AddMembership
  <2>2. /\ user \subseteq user' /\ user' \subseteq Users
        /\ member \subseteq member' /\ member' \subseteq Projects \X user'
    <3>1. user \subseteq Users /\ member \subseteq Projects \X user
      BY DEF IdentityInv, IdentityTyped
    <3>2. CASE CreateUser
      BY <3>1, <3>2 DEF CreateUser
    <3>3. CASE \E u \in Users, c \in Projects : AddMembership(c, u)
      BY <3>1, <3>3 DEF AddMembership
    <3>4. QED
      BY <1>2, <3>2, <3>3
  <2>3. Grows
    BY <2>1, <2>2 DEF Grows, IdentityInv, IdentityTyped
  <2>4. request' \in [Requests -> IdentityRequest]
    BY <2>1 DEF IdentityInv, IdentityTyped
  <2>5. QED
    BY <2>1, <2>3, <2>4, QuietStep
<1>3. ASSUME AbandonRequests \/ \E k \in Keys : validateToken(k) PROVE Goal
  <2>1. UNCHANGED <<user, wallet, challenge, member>> /\ wallet' = wallet /\ key' = key
        /\ (request' = request \/ request' = [r \in Requests |-> Idle])
    BY <1>3 DEF AbandonRequests, validateToken, identityVars
  <2>2. Idle \in IdentityRequest /\ request \in [Requests -> IdentityRequest]
    BY DEF IdentityRequest, IdentityInv, IdentityTyped
  <2>3. request' \in [Requests -> IdentityRequest] /\ \A x \in Requests : request'[x] = request[x] \/ request'[x] = Idle
    BY <2>1, <2>2
  <2>4. QED
    BY <2>1, <2>3, GrowsStill, QuietStep
<1>4. ASSUME NEW r \in Requests, LoginStep(r) PROVE Goal
  BY <1>4, ConsumeStep, FindUserStep, CreateUserStep, GrantSteps, CreateKeyStep DEF LoginStep
<1>5. ASSUME NEW r \in Requests,
             \/ \E k \in Keys : authIssueAPIKey(r, k)
             \/ \E k \in Keys, scope \in Scopes : issueToken(r, k, scope)
             \/ \E c \in Challenges, a \in Accounts : LiveChallengeNonce(r, c, a)
      PROVE  Goal
  BY <1>5, GrantSteps, Zenon
<1>6. ASSUME NEW k \in Keys, RevokeAPIKey(k) \/ KeyExpires(k) PROVE Goal
  BY <1>6, KeyStateStep
<1>7. ASSUME NEW u \in Users, CreateAPIKey(u) PROVE Goal
  BY <1>7, IssueKeyStep
<1> HIDE DEF Goal
<1>8. Goal
  BY <1>1, <1>2, <1>3, <1>4, <1>5, <1>6, <1>7, Zenon DEF IdentityNext
<1>9. QED
  BY <1>8 DEF Goal

\* No keys, users or requests: the tables as they begin.
LEMMA IdentityStart ==
  ASSUME IdentityInit, ApiInit
  PROVE  IdentityInv
<1>1. /\ user = {} /\ member = {} /\ wallet = [a \in Accounts |-> None] /\ key = [k \in Keys |-> UnbornKey]
      /\ challenge = [c \in Challenges |-> "none"] /\ request = [r \in Requests |-> Idle]
  BY Zenon DEF IdentityInit, ApiInit, UnbornKey
<1>2. Idle \in IdentityRequest /\ Idle.op = "idle"
  BY DEF IdentityRequest, Idle
<1>3. IdentityTyped
  BY <1>1, <1>2 DEF IdentityTyped
<1>4. \A r \in Requests : request[r].op = "idle"
  BY <1>1, <1>2
<1>5. \A k \in Keys : ~key[k].born
  <2>1. UnbornKey.born = FALSE
    BY Zenon DEF UnbornKey
  <2>2. \A k \in Keys : key[k] = UnbornKey
    BY <1>1
  <2>3. QED
    BY <2>1, <2>2, Zenon
<1>6. QED
  BY <1>3, <1>4, <1>5 DEF IdentityInv, GrantsAreEntitled, SessionsAreLinked, ChallengesAreSpentOnce,
                          FirstLoginsAreLocked, FirstLoginIsAlone, Spends, Spent

\* The invariant has what the run checks of identities.
LEMMA IdentityFollows ==
  IdentityInv => IdentityTypeOK /\ OneSessionPerChallenge /\ FirstLoginIsAlone /\ ScopedKeysAreMembers
<1>1. SUFFICES ASSUME IdentityInv
               PROVE  IdentityTypeOK /\ OneSessionPerChallenge /\ FirstLoginIsAlone /\ ScopedKeysAreMembers
  OBVIOUS
<1>2. IdentityTypeOK
  <2>1. ASSUME NEW k \in Keys, key[k].born
        PROVE  /\ key[k].user \in user /\ key[k].project \in Scopes
               /\ key[k].state \in {"live", "revoked", "expired"}
    BY <1>1, <2>1, UsableHolds DEF KeyRow
  <2>2. QED
    BY <1>1, <2>1 DEF IdentityInv, IdentityTyped, IdentityTypeOK
<1>3. OneSessionPerChallenge
  <2>1. SUFFICES ASSUME NEW k \in Keys, key[k].born, key[k].challenge # None
                 PROVE  /\ key[k].user = wallet[key[k].account]
                        /\ \A j \in Keys \ {k} : key[j].born => key[j].challenge # key[k].challenge
    BY Zenon DEF OneSessionPerChallenge
  <2>2. key[k].user = wallet[key[k].account]
    BY <1>1, <2>1, UsableHolds, Zenon DEF Linked
  <2>3. ASSUME NEW j \in Keys \ {k}, key[j].born PROVE key[j].challenge # key[k].challenge
    BY <1>1, <2>1, <2>3, Zenon DEF IdentityInv, ChallengesAreSpentOnce, Spent
  <2>4. QED
    BY <2>2, <2>3
<1>4. ScopedKeysAreMembers
  BY <1>1, Zenon DEF IdentityInv, GrantsAreEntitled, Entitled, ScopedKeysAreMembers
<1>5. QED
  BY <1>1, <1>2, <1>3, <1>4 DEF IdentityInv, FirstLoginsAreLocked
-----------------------------------------------------------------------------
(* Charges.                                                                *)

\* What wraps: the remainder by the width.
LEMMA WrappedIs ==
  ASSUME NEW n \in Nat
  PROVE  /\ Wrapped(n) \in 0 .. MaxUint
         /\ n <= MaxUint => Wrapped(n) = n
         /\ n > MaxUint => Wrapped(n) <= n - (MaxUint + 1)
         /\ n > MaxUint /\ n <= 2 * MaxUint + 1 => Wrapped(n) = n - (MaxUint + 1)
<1> DEFINE w == MaxUint + 1
           d == n \div w
           m == n % w
<1>1. MaxUint \in Nat /\ w \in Nat /\ w > 0
  BY MeteringAssumption
<1> HIDE DEF w
<1>2. m \in 0 .. (w - 1) /\ d \in Nat /\ n = w * d + m
  BY <1>1
<1> HIDE DEF d, m
<1>3. d = 0 => w * d = 0
  BY <1>1, <1>2
<1>4. d >= 1 => w * d >= w
  BY <1>1, <1>2
<1>5. d >= 2 => w * d >= 2 * w
  BY <1>1, <1>2
<1>6. d = 1 => w * d = w
  BY <1>1, <1>2
<1>7. Wrapped(n) = m /\ w = MaxUint + 1
  BY DEF Wrapped, w, m
<1> DEFINE p == w * d
<1>8. p \in Nat
  BY <1>1, <1>2
<1> HIDE DEF p
<1>9. n = p + m /\ (d = 0 => p = 0) /\ (d >= 1 => p >= w) /\ (d >= 2 => p >= 2 * w) /\ (d = 1 => p = w)
  BY <1>2, <1>3, <1>4, <1>5, <1>6 DEF p
<1>10. QED
  BY <1>1, <1>2, <1>7, <1>8, <1>9

\* checkedMul returns the exact product or says that it does not fit.
LEMMA MulIsExact ==
  ASSUME NEW x \in 0 .. Overflow, NEW y \in 0 .. Overflow
  PROVE  /\ checkedMul(x, y) \in 0 .. Overflow
         /\ checkedMul(x, y) # Overflow => checkedMul(x, y) = x * y /\ x # Overflow /\ y # Overflow
<1>1. MaxUint \in Nat /\ Overflow = MaxUint + 1 /\ x \in Nat /\ y \in Nat /\ x * y \in Nat
  BY MeteringAssumption DEF Overflow
<1>2. CASE Overflow \in {x, y}
  BY <1>1, <1>2 DEF checkedMul
<1>3. CASE Overflow \notin {x, y} /\ (x = 0 \/ y = 0)
  <2>1. checkedMul(x, y) = 0
    BY <1>3 DEF checkedMul
  <2>2. x * y = 0
    BY <1>1, <1>3
  <2>3. QED
    BY <1>1, <1>3, <2>1, <2>2
<1>4. CASE Overflow \notin {x, y} /\ x # 0 /\ y # 0
  <2> DEFINE p == x * y
             w == Wrapped(p)
             d == w \div x
  <2>1. checkedMul(x, y) = IF d # y THEN Overflow ELSE w
    BY <1>4 DEF checkedMul
  <2>2. /\ w \in 0 .. MaxUint /\ (p <= MaxUint => w = p) /\ (p > MaxUint => w <= p - (MaxUint + 1))
    BY <1>1, WrappedIs
  <2>3. x * d <= w
    <3> HIDE DEF w, p
    <3>1. x \in Nat /\ x > 0 /\ w \in Nat
      BY <1>1, <1>4, <2>2
    <3>2. QED
      BY <3>1
  <2>4. d = y => p <= w
    BY <2>3
  <2> HIDE DEF p, w, d
  <2>5. p \in Nat
    BY <1>1 DEF p
  <2>6. d = y => p <= MaxUint /\ w = p
    BY <1>1, <2>2, <2>4, <2>5
  <2>7. QED
    BY <1>1, <1>4, <2>1, <2>2, <2>6 DEF p
<1>5. QED
  BY <1>2, <1>3, <1>4

\* checkedAdd returns the exact sum or says that it does not fit.
LEMMA AddIsExact ==
  ASSUME NEW x \in 0 .. Overflow, NEW y \in 0 .. Overflow
  PROVE  /\ checkedAdd(x, y) \in 0 .. Overflow
         /\ checkedAdd(x, y) # Overflow => checkedAdd(x, y) = x + y /\ x # Overflow /\ y # Overflow
<1>1. MaxUint \in Nat /\ Overflow = MaxUint + 1 /\ x \in Nat /\ y \in Nat /\ x + y \in Nat
  BY MeteringAssumption DEF Overflow
<1>2. CASE Overflow \in {x, y}
  BY <1>1, <1>2 DEF checkedAdd
<1>3. CASE Overflow \notin {x, y}
  <2> DEFINE w == Wrapped(x + y)
  <2>1. checkedAdd(x, y) = IF w < x THEN Overflow ELSE w
    BY <1>3 DEF checkedAdd
  <2>2. x <= MaxUint /\ y <= MaxUint
    BY <1>1, <1>3
  <2>3. /\ w \in 0 .. MaxUint /\ (x + y <= MaxUint => w = x + y)
        /\ (x + y > MaxUint => w = x + y - (MaxUint + 1))
    BY <1>1, <2>2, WrappedIs
  <2> HIDE DEF w
  <2>4. QED
    BY <1>1, <2>1, <2>2, <2>3
<1>4. QED
  BY <1>2, <1>3

\* A charge that fits is exact: no partial result has wrapped on the way.
LEMMA ChargeIsExact ==
  ASSUME NEW u \in Usages, ComputeCharge(u) # Overflow
  PROVE  ComputeCharge(u) = Charge(u) /\ ComputeCharge(u) \in Nat
<1> DEFINE traffic == checkedAdd(u.egress, u.ingress)
           network == checkedMul(traffic, Rates.network)
           cpu == checkedMul(u.cpu, Rates.cpu)
           ram == checkedMul(u.ram, Rates.ram)
           storage == checkedMul(u.storage, Rates.storage)
           first == checkedAdd(cpu, ram)
           second == checkedAdd(first, storage)
           third == checkedAdd(second, network)
<1>1. /\ MaxUint \in Nat /\ Overflow = MaxUint + 1
      /\ Rates \in [{"cpu", "ram", "storage", "network"} -> 0 .. MaxUint]
      /\ u \in [{"cpu", "ram", "storage", "egress", "ingress"} -> 0 .. MaxUint]
  BY MeteringAssumption DEF Overflow
<1>2. /\ Rates.cpu \in 0 .. Overflow /\ Rates.ram \in 0 .. Overflow /\ Rates.storage \in 0 .. Overflow
      /\ Rates.network \in 0 .. Overflow
  BY <1>1
<1>3. /\ u.cpu \in 0 .. Overflow /\ u.ram \in 0 .. Overflow /\ u.storage \in 0 .. Overflow
      /\ u.egress \in 0 .. Overflow /\ u.ingress \in 0 .. Overflow
  BY <1>1
<1>4. ComputeCharge(u) = third
  BY DEF ComputeCharge
<1>5. traffic \in 0 .. Overflow /\ (traffic # Overflow => traffic = u.egress + u.ingress)
  BY <1>3, AddIsExact
<1>6. network \in 0 .. Overflow /\ (network # Overflow => traffic # Overflow /\ network = traffic * Rates.network)
  BY <1>2, <1>5, MulIsExact
<1>7. cpu \in 0 .. Overflow /\ (cpu # Overflow => cpu = u.cpu * Rates.cpu)
  BY <1>2, <1>3, MulIsExact
<1>8. ram \in 0 .. Overflow /\ (ram # Overflow => ram = u.ram * Rates.ram)
  BY <1>2, <1>3, MulIsExact
<1>9. storage \in 0 .. Overflow /\ (storage # Overflow => storage = u.storage * Rates.storage)
  BY <1>2, <1>3, MulIsExact
<1>10. first \in 0 .. Overflow /\ (first # Overflow => first = cpu + ram /\ cpu # Overflow /\ ram # Overflow)
  BY <1>7, <1>8, AddIsExact
<1>11. second \in 0 .. Overflow /\ (second # Overflow => second = first + storage /\ first # Overflow /\ storage # Overflow)
  BY <1>9, <1>10, AddIsExact
<1>12. third \in 0 .. Overflow /\ (third # Overflow => third = second + network /\ second # Overflow /\ network # Overflow)
  BY <1>6, <1>11, AddIsExact
<1> HIDE DEF traffic, network, cpu, ram, storage, first, second, third
<1>13. third = ((cpu + ram) + storage) + network /\ cpu # Overflow /\ ram # Overflow /\ storage # Overflow /\ network # Overflow
  BY <1>4, <1>10, <1>11, <1>12
<1>14. third = ((u.cpu * Rates.cpu + u.ram * Rates.ram) + u.storage * Rates.storage) + (u.egress + u.ingress) * Rates.network
  BY <1>5, <1>6, <1>7, <1>8, <1>9, <1>13
<1>15. QED
  BY <1>1, <1>4, <1>12, <1>14 DEF Charge
-----------------------------------------------------------------------------
(* Metering.                                                               *)

\* What a step may add to the evidence (the body of BilledInOrder).
AddedInOrder ==
  /\ evidence \subseteq evidence'
  /\ \A e \in evidence, f \in evidence' \ evidence :
       <<e.provider, e.workload>> = <<f.provider, f.workload>> => e.sequence < f.sequence

\* Requests are told apart by op.
LEMMA UsageKinds ==
  ASSUME NEW q \in {Idle} \cup UsageRequest, q.op \in {"accept", "insert"}
  PROVE  q \in UsageRequest /\ q # Idle
  BY DEF Idle

\* Requests change, tables do not: each that is left was checked, and one that
\* is about to insert has the cursor to itself.
LEMMA UsageRequestStep ==
  ASSUME MeteringInv, UNCHANGED <<placed, cursor, evidence, disputed>>,
         request' \in [Requests -> {Idle} \cup UsageRequest],
         ChecksHold', CursorsAreLocked', RejectedIsPassed', RejectedIsNeverBilled'
  PROVE  MeteringInv' /\ AddedInOrder
<1>1. MeteringTyped'
  BY DEF MeteringInv, MeteringTyped
<1>2. EvidenceIsSound'
  BY DEF MeteringInv, EvidenceIsSound
<1>3. AddedInOrder
  BY DEF AddedInOrder
<1>4. QED
  BY <1>1, <1>2, <1>3 DEF MeteringInv

\* A request that ends leaves the others checked.
LEMMA UsageEnds ==
  ASSUME MeteringInv, UNCHANGED <<placed, cursor>>,
         \A x \in Requests : request'[x] = request[x] \/ request'[x] = Idle
  PROVE  ChecksHold' /\ CursorsAreLocked'
<1>1. Idle.op = "idle"
  BY DEF Idle
<1>2. ChecksHold'
  BY DEF MeteringInv, ChecksHold
<1>3. CursorsAreLocked'
  BY <1>1 DEF MeteringInv, CursorsAreLocked
<1>4. QED
  BY <1>2, <1>3

\* A rejection that says nothing about order rules nothing out.
LEMMA RejectStep ==
  ASSUME MeteringInv, NEW p \in Providers, NEW s \in Summaries, Outcome(p, s) # "none", reject(Outcome(p, s))
  PROVE  MeteringInv' /\ AddedInOrder
<1>1. Outcome(p, s) \notin {"out_of_order", "conflicting_evidence"}
  <2>1. s.defect \in Defects \cup {None}
    BY DEF Summaries
  <2>2. \A d \in Defects : d \notin {"out_of_order", "conflicting_evidence"}
    BY DEF Defects
  <2>3. s.defect # None => Outcome(p, s) \in Defects
    BY <2>1 DEF Outcome
  <2>4. s.defect = None => Outcome(p, s) \in {"workload_provider_mismatch", "lease_mismatch", "charge_overflow", "none"}
    BY DEF Outcome
  <2>5. QED
    BY <2>2, <2>3, <2>4
<1>2. rejection' = [reason |-> Outcome(p, s)] /\ UNCHANGED <<placed, cursor, evidence, disputed>> /\ request' = request
  BY DEF reject
<1>3. rejection'.reason = Outcome(p, s)
  BY <1>2
<1>4. ~Stale'
  BY <1>1, <1>3 DEF Stale
<1>5. RejectedIsPassed' /\ RejectedIsNeverBilled'
  BY <1>4 DEF Stale, RejectedIsPassed, RejectedIsNeverBilled
<1>6. request' \in [Requests -> {Idle} \cup UsageRequest]
  BY <1>2 DEF MeteringInv, MeteringTyped
<1>7. ChecksHold' /\ CursorsAreLocked'
  BY <1>2, UsageEnds
<1>8. QED
  BY <1>2, <1>5, <1>6, <1>7, UsageRequestStep

\* A summary that passed every check waits for its cursor.
LEMMA RecordStep ==
  ASSUME MeteringInv, NEW r \in Requests, NEW p \in Providers, NEW s \in Summaries, RecordUsage(r, p, s)
  PROVE  MeteringInv' /\ AddedInOrder
<1> DEFINE q == [op |-> "accept", provider |-> p, workload |-> s.workload,
                 sequence |-> s.sequence, usage |-> s.usage]
<1>1. s.workload \in Workloads /\ s.sequence \in 1 .. MaxSequence /\ s.usage \in Usages
  BY DEF Summaries
<1>2. /\ request' = [request EXCEPT ![r] = q] /\ request \in [Requests -> {Idle} \cup UsageRequest]
      /\ UNCHANGED <<placed, cursor, evidence, rejection, disputed>>
  BY DEF RecordUsage, Begin, meteringVars, MeteringInv, MeteringTyped
<1>3. q \in UsageRequest /\ q.op = "accept" /\ q.workload = s.workload /\ q.provider = p /\ q.usage = s.usage
  BY <1>1 DEF UsageRequest
<1>4. placed[s.workload] = p /\ ComputeCharge(s.usage) # Overflow
  <2>1. s.defect \in Defects \cup {None} /\ "none" \notin Defects
    BY DEF Summaries, Defects
  <2>2. Outcome(p, s) = "none"
    BY DEF RecordUsage
  <2>3. QED
    BY <2>1, <2>2, Zenon DEF Outcome
<1>5. ComputeCharge(s.usage) \in 0 .. MaxInt
  BY <1>1, <1>4, ChargeIsExact, MeteringAssumption DEF RecordUsage, checkBigintRange
<1> HIDE DEF q
<1>6. request' \in [Requests -> {Idle} \cup UsageRequest] /\ request'[r] = q
      /\ \A x \in Requests : x # r => request'[x] = request[x]
  BY <1>2, <1>3
<1>7. ChecksHold'
  BY <1>2, <1>3, <1>4, <1>5, <1>6 DEF MeteringInv, ChecksHold
<1>8. CursorsAreLocked'
  BY <1>2, <1>3, <1>6 DEF MeteringInv, CursorsAreLocked
<1>9. RejectedIsPassed' /\ RejectedIsNeverBilled'
  BY <1>2 DEF MeteringInv, RejectedIsPassed, RejectedIsNeverBilled, Stale
<1>10. QED
  BY <1>2, <1>6, <1>7, <1>8, <1>9, UsageRequestStep

\* The cursor is locked and compared.
LEMMA LockStep ==
  ASSUME MeteringInv, NEW r \in Requests, LockCursor(r)
  PROVE  MeteringInv' /\ AddedInOrder
<1> DEFINE q == request[r]
           i == [q EXCEPT !.op = "insert"]
<1>1. /\ q \in UsageRequest /\ q # Idle /\ request \in [Requests -> {Idle} \cup UsageRequest]
      /\ cursor \in [Providers -> [Workloads -> 0 .. MaxSequence]]
  BY UsageKinds DEF LockCursor, MeteringInv, MeteringTyped
<1>2. /\ q.provider \in Providers /\ q.workload \in Workloads /\ q.sequence \in 1 .. MaxSequence
      /\ cursor[q.provider][q.workload] \in 0 .. MaxSequence /\ MaxSequence \in Nat
  BY <1>1, MeteringAssumption DEF UsageRequest
<1>3. UNCHANGED <<placed, cursor, evidence, disputed>>
  BY DEF LockCursor
<1>4. CASE q.sequence > cursor[q.provider][q.workload]
  <2>1. request' = [request EXCEPT ![r] = i] /\ rejection' = rejection
    BY <1>4 DEF LockCursor
  <2>2. i \in UsageRequest /\ i.op = "insert" /\ i.provider = q.provider /\ i.workload = q.workload
        /\ i.sequence = q.sequence /\ i.usage = q.usage
    BY <1>1 DEF UsageRequest
  <2>3. \A x \in Requests : request[x].op = "insert" =>
          <<request[x].provider, request[x].workload>> # <<q.provider, q.workload>>
    BY DEF LockCursor, CursorFree
  <2>4. placed[q.workload] = q.provider /\ ComputeCharge(q.usage) \in 0 .. MaxInt
    BY <1>1 DEF MeteringInv, ChecksHold
  <2> HIDE DEF i
  <2>5. request' \in [Requests -> {Idle} \cup UsageRequest] /\ request'[r] = i
        /\ \A x \in Requests : x # r => request'[x] = request[x]
    BY <1>1, <2>1, <2>2
  <2> HIDE DEF q
  <2>6. ChecksHold'
    BY <1>3, <2>2, <2>4, <2>5 DEF MeteringInv, ChecksHold
  <2>7. CursorsAreLocked'
    <3>1. \A x \in Requests : request'[x].op = "insert" =>
            request'[x].sequence > cursor[request'[x].provider][request'[x].workload]
      BY <1>4, <2>2, <2>5 DEF MeteringInv, CursorsAreLocked
    <3>2. ASSUME NEW x \in Requests, NEW y \in Requests, x # y, request'[x].op = "insert", request'[y].op = "insert"
          PROVE  <<request'[x].provider, request'[x].workload>> # <<request'[y].provider, request'[y].workload>>
      <4>1. CASE x = r \/ y = r
        BY <2>2, <2>3, <2>5, <3>2, <4>1
      <4>2. CASE x # r /\ y # r
        BY <2>5, <3>2, <4>2 DEF MeteringInv, CursorsAreLocked
      <4>3. QED
        BY <4>1, <4>2
    <3>3. QED
      BY <1>3, <3>1, <3>2 DEF CursorsAreLocked
  <2>8. RejectedIsPassed' /\ RejectedIsNeverBilled'
    BY <1>3, <2>1 DEF MeteringInv, RejectedIsPassed, RejectedIsNeverBilled, Stale
  <2>9. QED
    BY <1>3, <2>5, <2>6, <2>7, <2>8, UsageRequestStep
<1>5. CASE ~(q.sequence > cursor[q.provider][q.workload])
  <2> DEFINE reason == classifyStaleSequence(q)
             x == [provider |-> q.provider, workload |-> q.workload, sequence |-> q.sequence,
                   usage |-> q.usage, reason |-> reason]
  <2>1. Finish(r) /\ (rejection' = rejection \/ (reason # "duplicate" /\ rejection' = x))
    BY <1>5, Zenon DEF LockCursor
  <2>2. request' \in [Requests -> {Idle} \cup UsageRequest]
        /\ \A y \in Requests : request'[y] = request[y] \/ request'[y] = Idle
    BY <1>1, <2>1 DEF Finish
  <2>3. ChecksHold' /\ CursorsAreLocked'
    BY <1>3, <2>2, UsageEnds
  <2>4. RejectedIsPassed' /\ RejectedIsNeverBilled'
    <3>1. CASE rejection' = rejection
      BY <1>3, <3>1 DEF MeteringInv, RejectedIsPassed, RejectedIsNeverBilled, Stale
    <3>2. CASE reason # "duplicate" /\ rejection' = x
      <4>1. /\ rejection'.provider = q.provider /\ rejection'.workload = q.workload
            /\ rejection'.sequence = q.sequence /\ rejection'.usage = q.usage
        BY <3>2
      <4>2. \A e \in evidence : Content(e) # Content(q)
        <5>1. SUFFICES ASSUME NEW e \in evidence, Content(e) = Content(q) PROVE FALSE
          OBVIOUS
        <5>2. <<e.provider, e.workload, e.sequence>> = <<q.provider, q.workload, q.sequence>> /\ SameHash(e, q)
          BY <5>1 DEF Content, SameHash
        <5> HIDE DEF q
        <5>3. reason = "duplicate"
          BY <5>2 DEF classifyStaleSequence
        <5>4. QED
          BY <3>2, <5>3
      <4>3. RejectedIsPassed'
        BY <1>2, <1>3, <1>5, <4>1 DEF RejectedIsPassed
      <4>4. RejectedIsNeverBilled'
        BY <1>3, <4>1, <4>2 DEF RejectedIsNeverBilled, Content
      <4>5. QED
        BY <4>3, <4>4
    <3>3. QED
      BY <2>1, <3>1, <3>2
  <2>5. QED
    BY <1>3, <2>2, <2>3, <2>4, UsageRequestStep
<1>6. QED
  BY <1>4, <1>5

\* The evidence and its line are written: newer than all there is, since the
\* cursor has been locked since it was compared.
LEMMA AcceptStep ==
  ASSUME MeteringInv, NEW r \in Requests, AcceptEvidence(r)
  PROVE  MeteringInv' /\ AddedInOrder
<1> DEFINE q == request[r]
           new == [provider |-> q.provider, workload |-> q.workload, sequence |-> q.sequence,
                   usage |-> q.usage, total |-> ComputeCharge(q.usage)]
<1>1. /\ q \in UsageRequest /\ q # Idle /\ q.op = "insert" /\ request \in [Requests -> {Idle} \cup UsageRequest]
      /\ cursor \in [Providers -> [Workloads -> 0 .. MaxSequence]]
      /\ evidence \subseteq Evidence /\ MaxSequence \in Nat
  BY UsageKinds, MeteringAssumption DEF AcceptEvidence, MeteringInv, MeteringTyped
<1>2. q.provider \in Providers /\ q.workload \in Workloads /\ q.sequence \in 1 .. MaxSequence /\ q.usage \in Usages
  BY <1>1 DEF UsageRequest
<1>3. /\ placed[q.workload] = q.provider /\ ComputeCharge(q.usage) \in 0 .. MaxInt
      /\ q.sequence > cursor[q.provider][q.workload]
  BY <1>1 DEF MeteringInv, ChecksHold, CursorsAreLocked
<1>4. UNCHANGED <<placed, rejection, disputed>> /\ Finish(r)
  BY DEF AcceptEvidence
<1>5. Idle.op = "idle" /\ request' \in [Requests -> {Idle} \cup UsageRequest] /\ request'[r] = Idle
      /\ \A x \in Requests : x # r => request'[x] = request[x]
  BY <1>1, <1>4 DEF Finish, Idle
<1>6. CASE UNCHANGED <<cursor, evidence>>
  <2>1. ChecksHold' /\ CursorsAreLocked'
    BY <1>4, <1>5, <1>6, UsageEnds
  <2>2. RejectedIsPassed' /\ RejectedIsNeverBilled'
    BY <1>4, <1>6 DEF MeteringInv, RejectedIsPassed, RejectedIsNeverBilled, Stale
  <2>3. QED
    BY <1>4, <1>5, <1>6, <2>1, <2>2, UsageRequestStep
<1>7. CASE cursor' = [cursor EXCEPT ![q.provider][q.workload] = q.sequence] /\ evidence' = evidence \cup {new}
  <2>1. /\ new \in Evidence /\ new.provider = q.provider /\ new.workload = q.workload /\ new.sequence = q.sequence
        /\ new.usage = q.usage /\ new.total = ComputeCharge(q.usage)
    BY <1>2, <1>3 DEF Evidence
  <2>2. new.total = Charge(q.usage)
    <3>1. ComputeCharge(q.usage) # Overflow
      BY <1>3, MeteringAssumption DEF Overflow
    <3>2. QED
      BY <1>2, <2>1, <3>1, ChargeIsExact
  <2> HIDE DEF new
  <2>3. /\ cursor' \in [Providers -> [Workloads -> 0 .. MaxSequence]] /\ cursor'[q.provider][q.workload] = q.sequence
        /\ \A p \in Providers, w \in Workloads : cursor'[p][w] >= cursor[p][w]
        /\ \A p \in Providers, w \in Workloads : <<p, w>> # <<q.provider, q.workload>> => cursor'[p][w] = cursor[p][w]
    <3> HIDE DEF q
    <3>1. QED
      BY <1>1, <1>2, <1>3, <1>7
  <2>4. MeteringTyped'
    BY <1>4, <1>5, <1>7, <2>1, <2>3 DEF MeteringInv, MeteringTyped
  <2>5. \A e \in evidence : /\ e.provider \in Providers /\ e.workload \in Workloads /\ e.sequence \in Nat
                            /\ e.sequence <= cursor[e.provider][e.workload]
                            /\ e.provider = placed[e.workload] /\ e.total = Charge(e.usage)
    BY <1>1 DEF Evidence, MeteringInv, EvidenceIsSound
  <2> HIDE DEF q
  <2>6. \A p \in Providers, w \in Workloads : cursor[p][w] \in Nat /\ cursor'[p][w] \in Nat
    BY <1>1, <2>3
  <2>7. EvidenceIsSound'
    <3>1. ASSUME NEW e \in evidence
          PROVE  e.provider = placed[e.workload] /\ e.sequence <= cursor'[e.provider][e.workload] /\ e.total = Charge(e.usage)
      BY <2>3, <2>5, <2>6
    <3>2. new.provider = placed[new.workload] /\ new.sequence <= cursor'[new.provider][new.workload]
          /\ new.total = Charge(new.usage)
      BY <1>2, <1>3, <2>1, <2>2, <2>3
    <3>3. QED
      BY <1>4, <1>7, <3>1, <3>2 DEF EvidenceIsSound
  <2>8. ChecksHold'
    BY <1>4, <1>5 DEF MeteringInv, ChecksHold
  <2>9. CursorsAreLocked'
    <3>1. ASSUME NEW x \in Requests, request'[x].op = "insert"
          PROVE  request'[x].sequence > cursor'[request'[x].provider][request'[x].workload]
      <4>1. x # r /\ request'[x] = request[x] /\ request[x].op = "insert"
        BY <1>5, <3>1
      <4>2. request[x] \in UsageRequest
        BY <1>1, <4>1, UsageKinds
      <4>3. /\ request[x].provider \in Providers /\ request[x].workload \in Workloads
            /\ <<request[x].provider, request[x].workload>> # <<q.provider, q.workload>>
            /\ request[x].sequence > cursor[request[x].provider][request[x].workload]
        BY <1>1, <4>1, <4>2 DEF MeteringInv, CursorsAreLocked, UsageRequest, q
      <4>4. QED
        BY <2>3, <4>1, <4>3
    <3>2. \A x, y \in Requests : x # y /\ request'[x].op = "insert" /\ request'[y].op = "insert" =>
            <<request'[x].provider, request'[x].workload>> # <<request'[y].provider, request'[y].workload>>
      BY <1>5 DEF MeteringInv, CursorsAreLocked
    <3>3. QED
      BY <3>1, <3>2 DEF CursorsAreLocked
  <2>10. RejectedIsPassed'
    <3>1. Stale' => Stale
      BY <1>4 DEF Stale
    <3>2. QED
      BY <1>4, <2>3, <2>6, <3>1 DEF MeteringInv, RejectedIsPassed
  <2>11. RejectedIsNeverBilled'
    <3>1. SUFFICES ASSUME Stale, NEW e \in evidence' PROVE Content(e) # Content(rejection)
      BY <1>4 DEF RejectedIsNeverBilled, Stale, Content
    <3>2. CASE e \in evidence
      BY <3>1, <3>2 DEF MeteringInv, RejectedIsNeverBilled, Stale
    <3>3. CASE e = new
      <4>1. /\ rejection.provider \in Providers /\ rejection.workload \in Workloads /\ rejection.sequence \in Nat
            /\ rejection.sequence <= cursor[rejection.provider][rejection.workload]
        BY <3>1 DEF MeteringInv, RejectedIsPassed
      <4>2. ASSUME Content(new) = Content(rejection) PROVE FALSE
        <5>1. q.provider = rejection.provider /\ q.workload = rejection.workload /\ q.sequence = rejection.sequence
          BY <2>1, <4>2 DEF Content
        <5>2. QED
          BY <1>2, <1>3, <2>6, <4>1, <5>1
      <4>3. QED
        BY <3>3, <4>2
    <3>4. QED
      BY <1>7, <3>2, <3>3
  <2>12. AddedInOrder
    <3>1. ASSUME NEW e \in evidence, <<e.provider, e.workload>> = <<new.provider, new.workload>>
          PROVE  e.sequence < new.sequence
      BY <1>2, <1>3, <2>1, <2>5, <2>6, <3>1
    <3>2. QED
      BY <1>7, <3>1 DEF AddedInOrder
  <2>13. QED
    BY <2>4, <2>7, <2>8, <2>9, <2>10, <2>11, <2>12 DEF MeteringInv
<1>8. QED
  BY <1>6, <1>7 DEF AcceptEvidence

\* Every step of the metering service.
LEMMA MeteringStep ==
  ASSUME MeteringInv, MeteringNext
  PROVE  MeteringInv' /\ AddedInOrder
<1> DEFINE Goal == MeteringInv' /\ AddedInOrder
<1>1. ASSUME NEW p \in Providers, NEW s \in Summaries, Outcome(p, s) # "none", reject(Outcome(p, s)) PROVE Goal
  BY <1>1, RejectStep
<1>2. ASSUME NEW r \in Requests, NEW p \in Providers, NEW s \in Summaries, RecordUsage(r, p, s) PROVE Goal
  BY <1>2, RecordStep
<1>3. ASSUME NEW r \in Requests, LockCursor(r) PROVE Goal
  BY <1>3, LockStep
<1>4. ASSUME NEW r \in Requests, AcceptEvidence(r) PROVE Goal
  BY <1>4, AcceptStep
<1>5. ASSUME RollBack PROVE Goal
  <2>1. UNCHANGED <<placed, cursor, evidence, disputed>> /\ rejection' = rejection /\ request' = [r \in Requests |-> Idle]
    BY <1>5 DEF RollBack, meteringVars
  <2>2. request' \in [Requests -> {Idle} \cup UsageRequest]
        /\ \A x \in Requests : request'[x] = request[x] \/ request'[x] = Idle
    BY <2>1
  <2>3. ChecksHold' /\ CursorsAreLocked'
    BY <2>1, <2>2, UsageEnds
  <2>4. RejectedIsPassed' /\ RejectedIsNeverBilled'
    BY <2>1 DEF MeteringInv, RejectedIsPassed, RejectedIsNeverBilled, Stale
  <2>5. QED
    BY <2>1, <2>2, <2>3, <2>4, UsageRequestStep
<1>6. ASSUME NEW e \in evidence, RaiseDispute(e) PROVE Goal
  <2>1. UNCHANGED <<placed, cursor, evidence, rejection, request>> /\ disputed' = disputed \cup {e}
    BY <1>6 DEF RaiseDispute
  <2>2. MeteringTyped'
    BY <2>1 DEF MeteringInv, MeteringTyped
  <2>3. EvidenceIsSound' /\ ChecksHold' /\ CursorsAreLocked'
    BY <2>1 DEF MeteringInv, EvidenceIsSound, ChecksHold, CursorsAreLocked
  <2>4. RejectedIsPassed' /\ RejectedIsNeverBilled'
    BY <2>1 DEF MeteringInv, RejectedIsPassed, RejectedIsNeverBilled, Stale
  <2>5. QED
    BY <2>1, <2>2, <2>3, <2>4 DEF MeteringInv, AddedInOrder
<1>7. ASSUME NEW w \in Workloads, NEW p \in Providers, AssignLease(w, p) PROVE Goal
  <2>1. /\ UNCHANGED <<cursor, evidence, rejection, disputed, request>>
        /\ placed[w] = None /\ placed' = [placed EXCEPT ![w] = p]
    BY <1>7 DEF AssignLease
  <2>2. placed \in [Workloads -> Providers \cup {None}] /\ evidence \subseteq Evidence
        /\ request \in [Requests -> {Idle} \cup UsageRequest]
    BY DEF MeteringInv, MeteringTyped
  <2>3. \A v \in Workloads : placed[v] \in Providers => placed'[v] = placed[v]
    BY <2>1, <2>2, MeteringAssumption
  <2>4. MeteringTyped'
    BY <2>1, <2>2 DEF MeteringInv, MeteringTyped
  <2>5. EvidenceIsSound'
    BY <2>1, <2>2, <2>3 DEF MeteringInv, EvidenceIsSound, Evidence
  <2>6. ChecksHold'
    <3>1. ASSUME NEW r \in Requests, request[r] # Idle
          PROVE  /\ placed'[request[r].workload] = request[r].provider
                 /\ ComputeCharge(request[r].usage) \in 0 .. MaxInt
      <4>1. request[r] \in UsageRequest
        BY <2>2, <3>1
      <4>2. QED
        BY <2>3, <3>1, <4>1 DEF MeteringInv, ChecksHold, UsageRequest
    <3>2. QED
      BY <2>1, <3>1 DEF ChecksHold
  <2>7. CursorsAreLocked'
    BY <2>1 DEF MeteringInv, CursorsAreLocked
  <2>8. RejectedIsPassed' /\ RejectedIsNeverBilled'
    BY <2>1 DEF MeteringInv, RejectedIsPassed, RejectedIsNeverBilled, Stale
  <2>9. QED
    BY <2>1, <2>4, <2>5, <2>6, <2>7, <2>8 DEF MeteringInv, AddedInOrder
<1> HIDE DEF Goal
<1>8. Goal
  BY <1>1, <1>2, <1>3, <1>4, <1>5, <1>6, <1>7 DEF MeteringNext
<1>9. QED
  BY <1>8 DEF Goal

\* No evidence, no rejection, nothing placed.
LEMMA MeteringStart ==
  ASSUME MeteringInit, request = [r \in Requests |-> Idle]
  PROVE  MeteringInv
<1>1. /\ placed = [w \in Workloads |-> None] /\ cursor = [p \in Providers |-> [w \in Workloads |-> 0]]
      /\ evidence = {} /\ rejection = None /\ disputed = {}
  BY DEF MeteringInit
<1>2. MeteringTyped
  BY <1>1, MeteringAssumption DEF MeteringTyped
<1>3. \A r \in Requests : request[r] = Idle /\ request[r].op = "idle"
  BY DEF Idle
<1>4. EvidenceIsSound /\ ChecksHold /\ CursorsAreLocked
  BY <1>1, <1>3 DEF EvidenceIsSound, ChecksHold, CursorsAreLocked
<1>5. RejectedIsPassed /\ RejectedIsNeverBilled
  BY <1>1 DEF RejectedIsPassed, RejectedIsNeverBilled, Stale
<1>6. QED
  BY <1>2, <1>4, <1>5 DEF MeteringInv

\* The invariant has what the run checks of bills.
LEMMA MeteringFollows == MeteringInv => BillingIsSound
<1>1. SUFFICES ASSUME MeteringInv PROVE BillingIsSound
  OBVIOUS
<1>2. evidence \subseteq Evidence
  BY <1>1 DEF MeteringInv, MeteringTyped
<1>3. MeteringTypeOK
  BY <1>1, <1>2 DEF MeteringInv, MeteringTyped, EvidenceIsSound, MeteringTypeOK, Evidence
<1>4. InvoiceIsExact
  BY <1>1 DEF MeteringInv, EvidenceIsSound, InvoiceIsExact, Charge
<1>5. QED
  BY <1>1, <1>3, <1>4 DEF MeteringInv, BillingIsSound
-----------------------------------------------------------------------------
(* Placement: the ledger.                                                  *)

\* A ceiling by its dimensions.
LEMMA CeilingIs ==
  ASSUME NEW h \in Hosts
  PROVE  Ceiling(h)["cpu"] = Total[h].cpu /\ Ceiling(h)["bandwidth"] = WireGuardEffectiveMbps(Total[h].bandwidth)
<1> DEFINE w == WireGuardEffectiveMbps(Total[h].bandwidth)
<1>1. Ceiling(h) = [Total[h] EXCEPT !.bandwidth = w]
  BY DEF Ceiling
<1>2. Total[h] \in [cpu : Nat, bandwidth : Nat]
  BY SchedulerAssumption
<1> HIDE DEF w
<1>3. Ceiling(h).cpu = Total[h].cpu /\ Ceiling(h).bandwidth = w
  BY <1>1, <1>2
<1>4. QED
  BY <1>3 DEF w

\* Needs and ceilings are numbers, in either dimension.
LEMMA NeedsAreNumbers ==
  ASSUME NEW d \in Dimensions
  PROVE  /\ \A j \in Jobs : Need[j][d] \in Nat
         /\ \A h \in Hosts : Ceiling(h)[d] \in Nat
<1>1. \A j \in Jobs : Need[j]["cpu"] \in Nat /\ Need[j]["bandwidth"] \in Nat
  BY SchedulerAssumption
<1>2. MTU \in Nat \ {0} /\ MTU - Overhead \in Nat
  BY SchedulerAssumption
<1>3. ASSUME NEW h \in Hosts PROVE WireGuardEffectiveMbps(Total[h].bandwidth) \in Nat
  <2>1. Total[h].bandwidth \in Nat
    BY SchedulerAssumption
  <2>2. QED
    BY <1>2, <2>1 DEF WireGuardEffectiveMbps
<1>4. ASSUME NEW h \in Hosts PROVE Ceiling(h)["cpu"] \in Nat /\ Ceiling(h)["bandwidth"] \in Nat
  BY <1>3, CeilingIs, SchedulerAssumption
<1>5. QED
  BY <1>1, <1>4 DEF Dimensions

\* Finitely many workloads reserve finitely many units.
LEMMA UnitsFinite ==
  ASSUME NEW d \in Dimensions, NEW jobs \in SUBSET Jobs
  PROVE  IsFiniteSet(Units(jobs, d)) /\ Cardinality(Units(jobs, d)) \in Nat
<1> DEFINE C == {{j} \X (1 .. Need[j][d]) : j \in jobs}
           f == [j \in jobs |-> {j} \X (1 .. Need[j][d])]
<1>1. IsFiniteSet(jobs)
  BY SchedulerAssumption, FS_Subset
<1>2. f \in Surjection(jobs, C)
  BY DEF Surjection
<1>3. IsFiniteSet(C)
  BY <1>1, <1>2, FS_Surjection
<1>4. ASSUME NEW X \in C PROVE IsFiniteSet(X)
  <2>1. PICK j \in jobs : X = {j} \X (1 .. Need[j][d])
    OBVIOUS
  <2>2. 1 \in Int /\ Need[j][d] \in Int
    BY NeedsAreNumbers
  <2>3. IsFiniteSet({j}) /\ IsFiniteSet(1 .. Need[j][d])
    BY <2>2, FS_Singleton, FS_Interval
  <2>4. QED
    BY <2>1, <2>3, FS_Product
<1>5. IsFiniteSet(Units(jobs, d))
  BY <1>3, <1>4, FS_UNION DEF Units
<1>6. QED
  BY <1>5, FS_CardinalityType

\* Fewer workloads reserve no more.
LEMMA UnitsMonotone ==
  ASSUME NEW d \in Dimensions, NEW jobs \in SUBSET Jobs, NEW fewer \in SUBSET jobs
  PROVE  Cardinality(Units(fewer, d)) <= Cardinality(Units(jobs, d))
<1>1. Units(fewer, d) \subseteq Units(jobs, d)
  BY DEF Units
<1>2. QED
  BY <1>1, UnitsFinite, FS_Subset

\* One more workload reserves what it needs more.
LEMMA UnitsAdd ==
  ASSUME NEW d \in Dimensions, NEW jobs \in SUBSET Jobs, NEW j \in Jobs
  PROVE  Cardinality(Units(jobs \cup {j}, d)) <= Cardinality(Units(jobs, d)) + Need[j][d]
<1> DEFINE k == Need[j][d]
           U == {j} \X (1 .. k)
<1>1. Units(jobs \cup {j}, d) = Units(jobs, d) \cup U
  BY DEF Units
<1>2. k \in Nat
  BY NeedsAreNumbers
<1> HIDE DEF k
<1>3. IsFiniteSet({j}) /\ Cardinality({j}) = 1
  BY FS_Singleton
<1>4. IsFiniteSet(1 .. k) /\ Cardinality(1 .. k) = k
  <2>1. 1 \in Int /\ k \in Int
    BY <1>2
  <2>2. QED
    BY <1>2, <2>1, FS_Interval
<1>5. IsFiniteSet(U) /\ Cardinality(U) = k
  <2>1. IsFiniteSet(U) /\ Cardinality(U) = Cardinality({j}) * Cardinality(1 .. k)
    BY <1>3, <1>4, FS_Product
  <2>2. QED
    BY <1>2, <1>3, <1>4, <2>1
<1>6. IsFiniteSet(Units(jobs, d)) /\ Cardinality(Units(jobs, d)) \in Nat
  BY UnitsFinite
<1> HIDE DEF U
<1>7. /\ Cardinality(Units(jobs, d) \cup U) =
           Cardinality(Units(jobs, d)) + Cardinality(U) - Cardinality(Units(jobs, d) \cap U)
      /\ IsFiniteSet(Units(jobs, d) \cap U)
  BY <1>5, <1>6, FS_Union, FS_Intersection
<1>8. Cardinality(Units(jobs, d) \cap U) \in Nat
  BY <1>7, FS_CardinalityType
<1>9. Cardinality(Units(jobs \cup {j}, d)) = Cardinality(Units(jobs, d) \cup U)
  BY <1>1, Zenon
<1>10. QED
  BY <1>2, <1>5, <1>6, <1>7, <1>8, <1>9 DEF k

\* The ledger holds while no workload opens, or the one that does has room.
LEMMA LedgerKeeps ==
  ASSUME SchedulerInv, NEW j \in Jobs, job' \in [Jobs -> JobRow],
         \A i \in Jobs : i # j => job'[i] = job[i],
         \/ job'[j].state # "OPEN"
         \/ job'[j].host \in Hosts /\ HasRoom(j, job'[j].host)
  PROVE  LedgerHolds'
<1>1. SUFFICES ASSUME NEW h \in Hosts, NEW d \in Dimensions
               PROVE  Reserved(h, d)' <= Ceiling(h)[d]
  BY DEF LedgerHolds
<1>2. Open(h) \subseteq Jobs /\ Open(h)' \subseteq Jobs
  BY DEF Open
<1>3. /\ Reserved(h, d) = Cardinality(Units(Open(h), d))
      /\ Reserved(h, d)' = Cardinality(Units(Open(h)', d))
  BY Zenon DEF Reserved, Units
<1>4. Reserved(h, d) <= Ceiling(h)[d] /\ Ceiling(h)[d] \in Nat /\ Need[j][d] \in Nat
  BY NeedsAreNumbers DEF SchedulerInv, LedgerHolds
<1>5. CASE Open(h)' \subseteq Open(h)
  <2>1. Cardinality(Units(Open(h)', d)) <= Cardinality(Units(Open(h), d))
    BY <1>2, <1>5, UnitsMonotone
  <2>2. Cardinality(Units(Open(h)', d)) \in Nat /\ Cardinality(Units(Open(h), d)) \in Nat
    BY <1>2, UnitsFinite
  <2>3. QED
    BY <1>3, <1>4, <2>1, <2>2
<1>6. CASE ~(Open(h)' \subseteq Open(h))
  <2>1. job'[j].state = "OPEN" /\ job'[j].host = h /\ Open(h)' \subseteq Open(h) \cup {j}
    BY <1>6 DEF Open
  <2>2. HasRoom(j, h)
    BY <2>1
  <2>3. Reserved(h, d) + Need[j][d] <= Ceiling(h)[d]
    BY <2>2, Zenon DEF HasRoom, Dimensions
  <2>4. Cardinality(Units(Open(h)', d)) <= Cardinality(Units(Open(h) \cup {j}, d))
    <3>1. Open(h) \cup {j} \in SUBSET Jobs
      BY <1>2
    <3>2. QED
      BY <2>1, <3>1, UnitsMonotone
  <2>5. Cardinality(Units(Open(h) \cup {j}, d)) <= Cardinality(Units(Open(h), d)) + Need[j][d]
    BY <1>2, UnitsAdd
  <2>6. /\ Cardinality(Units(Open(h)', d)) \in Nat /\ Cardinality(Units(Open(h), d)) \in Nat
        /\ Cardinality(Units(Open(h) \cup {j}, d)) \in Nat
    <3>1. Open(h) \cup {j} \in SUBSET Jobs
      BY <1>2
    <3>2. QED
      BY <1>2, <3>1, UnitsFinite
  <2>7. QED
    BY <1>3, <1>4, <2>3, <2>4, <2>5, <2>6
<1>7. QED
  BY <1>5, <1>6

\* A ledger within its ceilings is one the overlay can carry.
LEMMA LedgerFits ==
  SchedulerInv => OverlayNotOverbooked
<1>1. SUFFICES ASSUME SchedulerInv, NEW h \in Hosts
               PROVE  Reserved(h, "bandwidth") * MTU <= Total[h].bandwidth * (MTU - Overhead)
  BY DEF OverlayNotOverbooked
<1> DEFINE r == Reserved(h, "bandwidth")
           n == Total[h].bandwidth * (MTU - Overhead)
<1>2. Total[h] \in [cpu : Nat, bandwidth : Nat] /\ MTU \in Nat \ {0} /\ MTU - Overhead \in Nat
  BY SchedulerAssumption
<1>3. n \in Nat
  BY <1>2
<1>4. Ceiling(h)["bandwidth"] = n \div MTU
  BY CeilingIs DEF WireGuardEffectiveMbps
<1>5. r <= n \div MTU /\ r \in Nat
  <2>1. "bandwidth" \in Dimensions /\ Open(h) \subseteq Jobs
    BY DEF Dimensions, Open
  <2>2. r <= Ceiling(h)["bandwidth"]
    BY <1>1, <2>1 DEF SchedulerInv, LedgerHolds
  <2>3. r \in Nat
    BY <2>1, UnitsFinite DEF Reserved
  <2>4. QED
    BY <1>4, <2>2, <2>3
<1> HIDE DEF r, n
<1>6. (n \div MTU) * MTU <= n /\ n \div MTU \in Nat
  BY <1>2, <1>3
<1>7. r * MTU <= (n \div MTU) * MTU
  BY <1>2, <1>5, <1>6
<1>8. r * MTU <= n
  BY <1>2, <1>3, <1>5, <1>6, <1>7
<1>9. QED
  BY <1>8 DEF r, n
-----------------------------------------------------------------------------
(* Placement: the ranking.                                                 *)

\* Among finitely many numbered hosts with scores, one comes first: the one
\* that has the fewest before it.
LEMMA FirstExists ==
  ASSUME NEW E \in SUBSET Nat, IsFiniteSet(E), E # {}, NEW s \in [E -> Nat]
  PROVE  \E g \in E : \A h \in E : s[g] > s[h] \/ (s[g] = s[h] /\ g <= h)
<1> DEFINE Ahead(g) == {h \in E : s[h] > s[g] \/ (s[h] = s[g] /\ h < g)}
           R == {ss \in Nat \X Nat : ss[1] < ss[2]}
           D == {Cardinality(Ahead(g)) : g \in E}
<1>1. ASSUME NEW g \in E PROVE IsFiniteSet(Ahead(g)) /\ Cardinality(Ahead(g)) \in Nat
  <2>1. Ahead(g) \subseteq E
    OBVIOUS
  <2> HIDE DEF Ahead
  <2>2. QED
    BY <2>1, FS_Subset, FS_CardinalityType
<1>2. ASSUME NEW g \in E, NEW h \in Ahead(g) PROVE Cardinality(Ahead(h)) < Cardinality(Ahead(g))
  <2>1. h \in E /\ h \in Ahead(g) /\ h \notin Ahead(h)
    OBVIOUS
  <2>2. Ahead(h) \subseteq Ahead(g)
    <3>1. ASSUME NEW x \in E, s[x] > s[h] \/ (s[x] = s[h] /\ x < h) PROVE s[x] > s[g] \/ (s[x] = s[g] /\ x < g)
      <4>1. s[x] \in Nat /\ s[h] \in Nat /\ s[g] \in Nat /\ x \in Nat /\ h \in Nat /\ g \in Nat
        BY <2>1
      <4>2. s[h] > s[g] \/ (s[h] = s[g] /\ h < g)
        OBVIOUS
      <4>3. QED
        BY <3>1, <4>1, <4>2
    <3>2. QED
      BY <3>1
  <2>3. Ahead(h) # Ahead(g) /\ IsFiniteSet(Ahead(g)) /\ IsFiniteSet(Ahead(h))
    BY <1>1, <2>1
  <2>4. Cardinality(Ahead(h)) \in Nat /\ Cardinality(Ahead(g)) \in Nat
    BY <1>1, <2>1
  <2> HIDE DEF Ahead
  <2>5. QED
    BY <2>2, <2>3, <2>4, FS_Subset
<1>3. D \subseteq Nat /\ D # {}
  BY <1>1
<1>4. PICK m \in D : \A y \in D : ~(<<y, m>> \in R)
  <2>1. IsWellFoundedOn(R, Nat)
    BY NatLessThanWellFounded DEF OpToRel
  <2> HIDE DEF R, D
  <2>2. QED
    BY <1>3, <2>1, WFMin
<1>5. PICK g \in E : m = Cardinality(Ahead(g))
  BY <1>4
<1>6. ASSUME NEW h \in E PROVE h \notin Ahead(g)
  <2>1. Cardinality(Ahead(h)) \in D /\ Cardinality(Ahead(h)) \in Nat /\ m \in Nat
    BY <1>1, <1>4
  <2>2. ~(Cardinality(Ahead(h)) < m)
    BY <1>4, <2>1
  <2>3. QED
    BY <1>2, <1>5, <2>1, <2>2
<1>7. ASSUME NEW h \in E PROVE s[g] > s[h] \/ (s[g] = s[h] /\ g <= h)
  <2>1. ~(s[h] > s[g] \/ (s[h] = s[g] /\ h < g))
    BY <1>6
  <2>2. s[h] \in Nat /\ s[g] \in Nat /\ h \in Nat /\ g \in Nat
    OBVIOUS
  <2>3. QED
    BY <2>1, <2>2
<1>8. QED
  BY <1>7

\* What a conversion to uint32 leaves is a number, and a small one is left alone.
LEMMA Uint32Is ==
  ASSUME NEW n \in Int
  PROVE  Uint32(n) \in Nat /\ (0 <= n /\ n < Word => Uint32(n) = n)
<1>1. Word \in Nat \ {0}
  BY SchedulerAssumption
<1> QED  BY <1>1 DEF Uint32

\* What suffices fits in full, whatever is left over, as long as the product
\* with Bps is within int64.
LEMMA FitIsFull ==
  ASSUME NEW available \in Nat, NEW required \in Nat, Fits(available, required),
         available * Bps < SignBit
  PROVE  fitBps(available, required) = Bps
<1>1. Bps \in Nat \ {0} /\ SignBit \in Nat /\ Word \in Nat /\ Bps < Word
  BY SchedulerAssumption
<1>2. CASE required = 0
  BY <1>2 DEF fitBps
<1>3. CASE required # 0
  <2> DEFINE p == available * Bps
             q == p \div required
  <2>1. p >= required * Bps /\ p \in Nat
    BY <1>1 DEF Fits
  <2>2. q >= Bps /\ q \in Nat
    BY <1>1, <1>3, <2>1
  <2>3. p < SignBit
    OBVIOUS
  <2>4. fitBps(available, required) = Uint32(Min({Quotient(Int64(p), required), Bps}))
    BY <1>3 DEF fitBps
  <2> HIDE DEF p
  <2>5. p % (2 * SignBit) = p
    BY <1>1, <2>1, <2>3
  <2>6. Int64(p) = p
    BY <2>3, <2>5 DEF Int64
  <2>7. Quotient(p, required) = q
    BY <2>1 DEF Quotient
  <2> HIDE DEF q
  <2>8. Min({q, Bps}) = Bps
    BY <1>1, <2>2 DEF Min
  <2>9. Uint32(Bps) = Bps
    BY <1>1, Uint32Is
  <2>10. QED
    BY <2>4, <2>6, <2>7, <2>8, <2>9
<1>4. QED
  BY <1>2, <1>3

\* Whatever is reported, a ratio is a uint32.
LEMMA FitIsNumber ==
  ASSUME NEW available \in Nat, NEW required \in Nat
  PROVE  fitBps(available, required) \in Nat
<1>1. Bps \in Nat \ {0} /\ SignBit \in Nat \ {0}
  BY SchedulerAssumption
<1>2. CASE required = 0
  BY <1>1, <1>2 DEF fitBps
<1>3. CASE required # 0
  <2> DEFINE n == Int64(available * Bps)
             q == Quotient(n, required)
  <2>1. available * Bps \in Int
    BY <1>1
  <2>2. n \in Int
    <3> DEFINE low == (available * Bps) % (2 * SignBit)
    <3>1. low \in Int
      BY <1>1, <2>1
    <3>2. n = IF low < SignBit THEN low ELSE low - 2 * SignBit
      BY DEF Int64
    <3> HIDE DEF low, n
    <3> QED  BY <1>1, <3>1, <3>2
  <2>3. fitBps(available, required) = Uint32(Min({q, Bps}))
    BY <1>3 DEF fitBps
  <2> HIDE DEF n
  <2>4. q \in Int
    BY <1>3, <2>2 DEF Quotient
  <2> HIDE DEF q
  <2>5. Min({q, Bps}) \in Int
    <3>1. \E x \in {q, Bps} : \A y \in {q, Bps} : x <= y
      BY <1>1, <2>4
    <3>2. Min({q, Bps}) \in {q, Bps}
      BY <3>1 DEF Min
    <3> QED  BY <1>1, <2>4, <3>2
  <2> QED  BY <2>3, <2>5, Uint32Is
<1> QED  BY <1>2, <1>3

\* Induction, as a statement about a set of numbers.
LEMMA SetInduction ==
  ASSUME NEW S, 0 \in S, \A n \in Nat : n \in S => n + 1 \in S
  PROVE  Nat \subseteq S
<1> DEFINE R == {ss \in Nat \X Nat : ss[1] < ss[2]}
<1>1. IsWellFoundedOn(R, Nat)
  BY NatLessThanWellFounded DEF OpToRel
<1>2. \A x, y \in Nat : <<y, x>> \in R <=> y < x
  OBVIOUS
<1> HIDE DEF R
<1> SUFFICES ASSUME NEW m \in Nat, m \notin S PROVE FALSE
  OBVIOUS
<1>3. PICK x \in Nat \ S : \A y \in Nat \ S : ~(<<y, x>> \in R)
  BY <1>1, WFMin
<1>4. x # 0 /\ x - 1 \in Nat /\ x - 1 < x /\ (x - 1) + 1 = x
  BY <1>3
<1>5. x - 1 \in S
  BY <1>2, <1>3, <1>4
<1> QED  BY <1>3, <1>4, <1>5

\* One round of the loop over the aspects: what is left after one of them.
SomeOf(s) == CHOOSE x \in s : TRUE
SumAt(w, f, s) == IF s = {} THEN 0 ELSE w[SomeOf(s)] + f[s \ {SomeOf(s)}]

\* Without one of its elements a set is smaller.
LEMMA SmallerSet ==
  ASSUME NEW A, IsFiniteSet(A), NEW m \in Nat,
         NEW s \in SUBSET A, s # {}, Cardinality(s) <= m + 1
  PROVE  SomeOf(s) \in A /\ s \ {SomeOf(s)} \in SUBSET A /\ Cardinality(s \ {SomeOf(s)}) <= m
<1>1. SomeOf(s) \in s
  BY DEF SomeOf
<1> HIDE DEF SomeOf
<1>2. IsFiniteSet(s)
  BY FS_Subset
<1>3. Cardinality(s \ {SomeOf(s)}) = Cardinality(s) - 1 /\ Cardinality(s) \in Nat
  BY <1>1, <1>2, FS_RemoveElement, FS_CardinalityType
<1> QED  BY <1>1, <1>3

\* The loop has a result.
LEMMA SumLoop ==
  ASSUME NEW A, IsFiniteSet(A), NEW w \in [A -> Nat]
  PROVE  \E f : f = [s \in SUBSET A |-> SumAt(w, f, s)]
<1> DEFINE P(m) == {s \in SUBSET A : Cardinality(s) <= m}
           IsSum(f, m) == f = [s \in P(m) |-> SumAt(w, f, s)]
           S == {m \in Nat : \E f : IsSum(f, m)}
<1>0. \A s \in SUBSET A : IsFiniteSet(s) /\ Cardinality(s) \in Nat /\ (Cardinality(s) = 0 => s = {})
  BY FS_Subset, FS_CardinalityType, FS_EmptySet
<1>1. 0 \in S
  <2> DEFINE g == [s \in P(0) |-> 0]
  <2>1. \A s \in P(0) : s = {}
    BY <1>0
  <2>2. \A s \in P(0) : g[s] = SumAt(w, g, s)
    BY <2>1 DEF SumAt
  <2>3. IsSum(g, 0)
    BY <2>2
  <2> HIDE DEF IsSum, g
  <2> QED  BY <2>3
<1>2. ASSUME NEW m \in Nat, m \in S PROVE m + 1 \in S
  <2>1. PICK f : IsSum(f, m)
    BY <1>2
  <2> DEFINE g == [s \in P(m + 1) |-> SumAt(w, f, s)]
  <2>2. \A s \in P(m) : s \in P(m + 1) /\ g[s] = f[s]
    <3>1. \A s \in P(m) : s \in P(m + 1)
      BY <1>0
    <3> QED  BY <2>1, <3>1
  <2>3. ASSUME NEW s \in P(m + 1) PROVE g[s] = SumAt(w, g, s)
    <3>1. CASE s = {}
      BY <3>1 DEF SumAt
    <3>2. CASE s # {}
      <4>1. s \ {SomeOf(s)} \in P(m)
        BY <3>2, SmallerSet
      <4>2. g[s \ {SomeOf(s)}] = f[s \ {SomeOf(s)}]
        BY <2>2, <4>1
      <4>3. g[s] = SumAt(w, f, s)
        OBVIOUS
      <4> HIDE DEF g
      <4> QED  BY <4>2, <4>3 DEF SumAt
    <3> QED  BY <3>1, <3>2
  <2>4. g = [s \in P(m + 1) |-> SumAt(w, g, s)]
    BY <2>3
  <2>5. IsSum(g, m + 1) /\ m + 1 \in Nat
    BY <2>4
  <2> HIDE DEF IsSum, g
  <2> QED  BY <2>5
<1>3. Cardinality(A) \in S
  <2> HIDE DEF S
  <2> QED  BY <1>1, <1>2, SetInduction, FS_CardinalityType
<1>4. P(Cardinality(A)) = SUBSET A
  BY FS_Subset, FS_CardinalityType
<1>5. PICK f : f = [s \in P(Cardinality(A)) |-> SumAt(w, f, s)]
  BY <1>3
<1> HIDE DEF P
<1> QED  BY <1>4, <1>5

\* What the loop computes is its result.
SumOf(A, w) == CHOOSE f : f = [s \in SUBSET A |-> SumAt(w, f, s)]

\* It is the sum of every part of A.
LEMMA SumIsLoop ==
  ASSUME NEW A, IsFiniteSet(A), NEW w \in [A -> Nat]
  PROVE  \A s \in SUBSET A : SumOf(A, w)[s] = SumAt(w, SumOf(A, w), s)
<1> DEFINE f == SumOf(A, w)
<1>1. f = [s \in SUBSET A |-> SumAt(w, f, s)]
  BY SumLoop DEF SumOf
<1> HIDE DEF f
<1>2. \A s \in SUBSET A : f[s] = SumAt(w, f, s)
  BY <1>1
<1> QED  BY <1>2 DEF f

\* A sum of naturals is one.
LEMMA SumIsNatural ==
  ASSUME NEW A, IsFiniteSet(A), NEW w \in [A -> Nat],
         NEW f, \A s \in SUBSET A : f[s] = SumAt(w, f, s)
  PROVE  f[A] \in Nat
<1> DEFINE S == {m \in Nat : \A s \in SUBSET A : Cardinality(s) <= m => f[s] \in Nat}
<1>0. \A s \in SUBSET A : IsFiniteSet(s) /\ Cardinality(s) \in Nat /\ (Cardinality(s) = 0 => s = {})
  BY FS_Subset, FS_CardinalityType, FS_EmptySet
<1>2. 0 \in S
  <2>1. f[{}] = 0
    BY DEF SumAt
  <2>2. \A s \in SUBSET A : Cardinality(s) <= 0 => s = {}
    BY <1>0
  <2> QED  BY <2>1, <2>2
<1>3. ASSUME NEW m \in Nat, m \in S PROVE m + 1 \in S
  <2> SUFFICES ASSUME NEW s \in SUBSET A, Cardinality(s) <= m + 1 PROVE f[s] \in Nat
    OBVIOUS
  <2>1. CASE s = {}
    BY <2>1 DEF SumAt
  <2>2. CASE s # {}
    <3>1. f[s \ {SomeOf(s)}] \in Nat /\ w[SomeOf(s)] \in Nat
      BY <1>3, <2>2, SmallerSet
    <3>2. f[s] = w[SomeOf(s)] + f[s \ {SomeOf(s)}]
      BY <2>2 DEF SumAt
    <3> QED  BY <3>1, <3>2
  <2> QED  BY <2>1, <2>2
<1>4. Cardinality(A) \in S
  <2> HIDE DEF S
  <2> QED  BY <1>2, <1>3, SetInduction, FS_CardinalityType
<1> QED  BY <1>4, FS_CardinalityType

\* A sum weighted with numbers up to M is at most M times the sum of the weights.
LEMMA SumIsBounded ==
  ASSUME NEW A, IsFiniteSet(A), NEW w \in [A -> Nat], NEW M \in Nat, NEW u \in [A -> Nat],
         \A x \in A : u[x] <= w[x] * M,
         NEW f, \A s \in SUBSET A : f[s] = SumAt(u, f, s),
         NEW g, \A s \in SUBSET A : g[s] = SumAt(w, g, s)
  PROVE  f[A] <= g[A] * M
<1> DEFINE Bound(s) == f[s] \in Nat /\ g[s] \in Nat /\ f[s] <= g[s] * M
           S == {m \in Nat : \A s \in SUBSET A : Cardinality(s) <= m => Bound(s)}
<1>1. \A s \in SUBSET A : IsFiniteSet(s) /\ Cardinality(s) \in Nat /\ (Cardinality(s) = 0 => s = {})
  BY FS_Subset, FS_CardinalityType, FS_EmptySet
<1>2. Bound({})
  <2>1. f[{}] = 0 /\ g[{}] = 0
    BY DEF SumAt
  <2>2. 0 <= 0 * M
    OBVIOUS
  <2> QED  BY <2>1, <2>2
<1>5. 0 \in S
  <2>1. \A s \in SUBSET A : Cardinality(s) <= 0 => s = {}
    BY <1>1
  <2> HIDE DEF Bound
  <2> QED  BY <1>2, <2>1
<1>3. ASSUME NEW m \in Nat, m \in S PROVE m + 1 \in S
  <2> SUFFICES ASSUME NEW s \in SUBSET A, Cardinality(s) <= m + 1
               PROVE  Bound(s)
    OBVIOUS
  <2>1. CASE s = {}
    BY <1>2, <2>1
  <2>2. CASE s # {}
    <3> DEFINE x == SomeOf(s)
               t == s \ {x}
    <3>1. x \in A /\ t \in SUBSET A /\ Cardinality(t) <= m
      BY <2>2, SmallerSet
    <3>2. f[s] = u[x] + f[t] /\ g[s] = w[x] + g[t]
      BY <2>2 DEF SumAt
    <3> HIDE DEF x, t
    <3>3. f[t] \in Nat /\ g[t] \in Nat /\ f[t] <= g[t] * M
      BY <1>3, <3>1
    <3>4. u[x] \in Nat /\ w[x] \in Nat /\ u[x] <= w[x] * M
      BY <3>1
    <3>5. (w[x] + g[t]) * M = w[x] * M + g[t] * M
      BY <3>3, <3>4
    <3> QED  BY <3>2, <3>3, <3>4, <3>5
  <2> QED  BY <2>1, <2>2
<1>4. Cardinality(A) \in S
  <2> HIDE DEF S
  <2> QED  BY <1>3, <1>5, SetInduction, FS_CardinalityType
<1> QED  BY <1>4, FS_CardinalityType

\* The weighted sum is what the loop computes.
LEMMA WeightedSumIs ==
  ASSUME NEW v
  PROVE  weightedSum(v) = SumOf(Aspects, [x \in Aspects |-> Weights.aspect[x] * v[x]])[Aspects]
BY DEF SumOf, weightedSum, MapThenSumSet, MapThenFoldSet, SumAt, SomeOf

\* The weights of the aspects sum up to Bps, in the same loop.
LEMMA WeightsSumUp ==
  SumOf(Aspects, [x \in Aspects |-> Weights.aspect[x]])[Aspects] = Bps
<1> DEFINE sum == MapThenSumSet(LAMBDA x : Weights.aspect[x], Aspects)
<1>1. sum = Bps
  BY SchedulerAssumption
<1>2. sum = SumOf(Aspects, [x \in Aspects |-> Weights.aspect[x]])[Aspects]
  BY DEF SumOf, MapThenSumSet, MapThenFoldSet, SumAt, SomeOf
<1> QED  BY <1>1, <1>2

\* Weights that sum up to Bps keep a weighted sum of marks below full marks.
LEMMA SumsAreBounded ==
  ASSUME NEW c \in Reports
  PROVE  weightedSum(Vector(c)) \in Nat /\ weightedSum(Vector(c)) <= Bps * MaxReputationScore
<1> DEFINE v == Vector(c)
           u == [x \in Aspects |-> Weights.aspect[x] * v[x]]
           w == [x \in Aspects |-> Weights.aspect[x]]
           f == SumOf(Aspects, u)
           g == SumOf(Aspects, w)
<1>1. v \in [Aspects -> 0 .. MaxReputationScore] /\ MaxReputationScore \in Nat
  BY SchedulerAssumption DEF Vector
<1>2. IsFiniteSet(Aspects) /\ Weights.aspect \in [Aspects -> Nat]
  BY SchedulerAssumption
<1>3. weightedSum(v) = f[Aspects]
  BY WeightedSumIs
<1>4. g[Aspects] = Bps
  BY WeightsSumUp
<1> HIDE DEF v
<1>5. u \in [Aspects -> Nat] /\ w \in [Aspects -> Nat]
  BY <1>1, <1>2
<1>6. \A x \in Aspects : u[x] <= w[x] * MaxReputationScore
  BY <1>1, <1>2
<1> HIDE DEF u, w
<1>7. \A s \in SUBSET Aspects : f[s] = SumAt(u, f, s)
  BY <1>2, <1>5, SumIsLoop
<1>8. \A s \in SUBSET Aspects : g[s] = SumAt(w, g, s)
  BY <1>2, <1>5, SumIsLoop
<1> HIDE DEF f, g
<1>10. f[Aspects] \in Nat
  BY <1>2, <1>5, <1>7, SumIsNatural
<1>11. f[Aspects] <= g[Aspects] * MaxReputationScore
  <2>1. MaxReputationScore \in Nat /\ IsFiniteSet(Aspects)
    BY <1>1, <1>2
  <2> QED  BY <1>5, <1>6, <1>7, <1>8, <2>1, SumIsBounded, ZenonT(60)
<1> QED  BY <1>3, <1>4, <1>10, <1>11 DEF v

\* What the chain says of a host, weighted.
Reputation(c) == weightedSum(Vector(c))

\* The score of a host that could take the workload is a number, whatever it
\* reports.
LEMMA ScoreIsNumber ==
  ASSUME NEW j \in Jobs, NEW all \in Candidates, NEW h \in Eligible(j, all)
  PROVE  scoreOne(j, h, all[h]) \in Nat
<1> DEFINE c == all[h]
           w == WireGuardEffectiveMbps(Total[h].bandwidth)
           n == Need[j]
           fit == fitBps(c.available, n.cpu)
           wide == fitBps(w, n.bandwidth)
           a == weightedReputationBps(Vector(c))
           resource == IF n.bandwidth = 0 THEN Uint32(3 * fit) \div 3 ELSE Uint32(3 * fit + wide) \div 4
<1>1. h \in Hosts /\ c \in Reports /\ c.available \in Nat
  BY SchedulerAssumption DEF Eligible, Candidates
<1>2. n.cpu \in Nat /\ n.bandwidth \in Nat /\ w \in Nat
  BY <1>1, NeedsAreNumbers, CeilingIs, SchedulerAssumption DEF Dimensions
<1>3. Bps \in Nat \ {0} /\ Weights.resource \in Nat /\ Weights.reputation \in Nat /\ MaxReputationScore \in Nat \ {0}
  BY SchedulerAssumption
<1>4. a \in Nat
  <2>1. weightedSum(Vector(c)) \in Nat
    BY <1>1, SumsAreBounded
  <2> HIDE DEF c
  <2> QED  BY <1>3, <2>1 DEF weightedReputationBps
<1>5. fit \in Nat /\ wide \in Nat
  BY <1>1, <1>2, FitIsNumber
<1>6. scoreOne(j, h, c) = Uint32(resource * Weights.resource + a * Weights.reputation) \div Bps
  BY Zenon DEF scoreOne
<1> HIDE DEF fit, wide, a, c, w, n
<1>7. Uint32(3 * fit) \in Nat /\ Uint32(3 * fit + wide) \in Nat
  BY <1>5, Uint32Is
<1>8. resource \in Nat
  BY <1>7
<1> HIDE DEF resource
<1>9. resource * Weights.resource + a * Weights.reputation \in Int
  BY <1>3, <1>4, <1>8
<1>10. Uint32(resource * Weights.resource + a * Weights.reputation) \in Nat
  BY <1>9, Uint32Is
<1>11. scoreOne(j, h, c) \in Nat
  BY <1>3, <1>6, <1>10
<1> QED  BY <1>11 DEF c

\* The score of a host that could take the workload and whose figure int64 can
\* multiply: its room is full marks, and nothing wraps.
LEMMA ScoreIs ==
  ASSUME NEW j \in Jobs, NEW all \in Candidates, NEW h \in Eligible(j, all), InWidth(all[h])
  PROVE  /\ scoreOne(j, h, all[h]) = (Bps * Weights.resource
              + (Reputation(all[h]) \div MaxReputationScore) * Weights.reputation) \div Bps
         /\ Reputation(all[h]) \in Nat
<1> DEFINE c == all[h]
           w == WireGuardEffectiveMbps(Total[h].bandwidth)
           n == Need[j]
           fit == fitBps(c.available, n.cpu)
           wide == fitBps(w, n.bandwidth)
           a == Reputation(c) \div MaxReputationScore
           resource == IF n.bandwidth = 0 THEN Uint32(3 * fit) \div 3 ELSE Uint32(3 * fit + wide) \div 4
<1>1. h \in Hosts /\ c \in Reports /\ c.available \in Nat
      /\ Fits(c.available, n.cpu) /\ Fits(w, n.bandwidth) /\ c.available * Bps < SignBit
  BY SchedulerAssumption DEF Eligible, Excluded, Candidates, InWidth
<1>2. n.cpu \in Nat /\ n.bandwidth \in Nat /\ w \in Nat
  BY <1>1, NeedsAreNumbers, CeilingIs, SchedulerAssumption DEF Dimensions
<1>3. /\ Bps \in Nat \ {0} /\ Weights.resource \in Nat /\ Weights.reputation \in Nat
      /\ MaxReputationScore \in Nat \ {0} /\ Bps * Bps < Word /\ 4 * Bps < Word /\ Word \in Nat
      /\ Weights.resource + Weights.reputation = Bps
  BY SchedulerAssumption
<1>4. Reputation(c) \in Nat /\ Reputation(c) <= Bps * MaxReputationScore
  BY <1>1, SumsAreBounded DEF Reputation
<1>5. w * Bps < SignBit
  <2> DEFINE b == Total[h].bandwidth
  <2>1. b \in Nat /\ MTU \in Nat \ {0} /\ Overhead \in 0 .. MTU /\ b * Bps < SignBit /\ SignBit \in Nat
    BY <1>1, SchedulerAssumption
  <2>2. w = (b * (MTU - Overhead)) \div MTU
    BY DEF WireGuardEffectiveMbps
  <2> HIDE DEF b, w
  <2>3. b * (MTU - Overhead) <= b * MTU /\ b * (MTU - Overhead) \in Nat
    BY <2>1
  <2>4. w <= b
    <3> DEFINE e == b * (MTU - Overhead)
    <3>1. e \in Nat /\ e <= b * MTU /\ w = e \div MTU
      BY <2>2, <2>3
    <3> HIDE DEF e
    <3>2. w * MTU <= e /\ w \in Nat
      BY <2>1, <3>1
    <3>3. w * MTU <= b * MTU
      BY <2>1, <3>1, <3>2
    <3> QED  BY <2>1, <3>2, <3>3
  <2>5. w * Bps <= b * Bps /\ w * Bps \in Nat /\ b * Bps \in Nat
    BY <1>2, <1>3, <2>1, <2>4
  <2> QED  BY <2>1, <2>5
<1>6. fit = Bps /\ wide = Bps
  BY <1>1, <1>2, <1>5, FitIsFull
<1>7. weightedReputationBps(Vector(c)) = a
  BY DEF weightedReputationBps, Reputation
<1>8. scoreOne(j, h, c) =
        Uint32(resource * Weights.resource + weightedReputationBps(Vector(c)) * Weights.reputation) \div Bps
  BY Zenon DEF scoreOne
<1>9. a \in Nat /\ a <= Bps
  <2> DEFINE x == Reputation(c)
  <2>1. x \in Nat /\ x <= Bps * MaxReputationScore
    BY <1>4
  <2> HIDE DEF x
  <2>2. (x \div MaxReputationScore) \in Nat /\ (x \div MaxReputationScore) * MaxReputationScore <= x
    BY <1>3, <2>1
  <2>3. (x \div MaxReputationScore) * MaxReputationScore <= Bps * MaxReputationScore
    BY <1>3, <2>1, <2>2
  <2> DEFINE q == x \div MaxReputationScore
  <2> HIDE DEF q
  <2>4. q \in Nat /\ q * MaxReputationScore <= Bps * MaxReputationScore
    BY <2>2, <2>3 DEF q
  <2>5. q <= Bps
    BY <1>3, <2>4
  <2> QED  BY <2>4, <2>5 DEF q, x
<1>10. resource = Bps
  <2> HIDE DEF fit, wide
  <2>1. Uint32(3 * Bps) = 3 * Bps /\ Uint32(4 * Bps) = 4 * Bps
    BY <1>3, Uint32Is
  <2>2. 3 * Bps + Bps = 4 * Bps /\ (3 * Bps) \div 3 = Bps /\ (4 * Bps) \div 4 = Bps
    BY <1>3
  <2> QED  BY <1>6, <2>1, <2>2
<1> HIDE DEF a, c, w, n, resource, fit, wide
<1>11. /\ Bps * Weights.resource + a * Weights.reputation \in Nat
       /\ Bps * Weights.resource + a * Weights.reputation < Word
  <2>1. a * Weights.reputation <= Bps * Weights.reputation
    BY <1>3, <1>9
  <2>2. Bps * Weights.resource + Bps * Weights.reputation = Bps * Bps
    BY <1>3
  <2>3. /\ Bps * Weights.resource \in Nat /\ a * Weights.reputation \in Nat
        /\ Bps * Weights.reputation \in Nat /\ Bps * Bps \in Nat
    BY <1>3, <1>9
  <2> QED  BY <1>3, <2>1, <2>2, <2>3
<1>12. scoreOne(j, h, c) = (Bps * Weights.resource + a * Weights.reputation) \div Bps
  BY <1>7, <1>8, <1>10, <1>11, Uint32Is
<1>13. QED
  BY <1>4, <1>12 DEF a, c

\* The choice is among the eligible and before all of them.
LEMMA SelectedIsFirst ==
  ASSUME NEW j \in Jobs, NEW all \in Candidates, Eligible(j, all) # {}
  PROVE  /\ Selected(j, all) \in Eligible(j, all)
         /\ \A h \in Eligible(j, all) : Before(j, all, Selected(j, all), h)
<1> DEFINE E == Eligible(j, all)
           s == [h \in E |-> scoreOne(j, h, all[h])]
<1>1. E \subseteq Hosts /\ IsFiniteSet(E) /\ E \subseteq Nat
  <2>1. E \subseteq Hosts
    BY DEF Eligible
  <2> HIDE DEF E
  <2>2. QED
    BY <2>1, SchedulerAssumption, FS_Subset
<1>2. s \in [E -> Nat]
  BY ScoreIsNumber
<1>3. PICK g \in E : \A h \in E : s[g] > s[h] \/ (s[g] = s[h] /\ g <= h)
  <2> HIDE DEF s, E
  <2>1. E # {}
    BY DEF E
  <2>2. QED
    BY <1>1, <1>2, <2>1, FirstExists, Zenon
<1>4. \A h \in E : Before(j, all, g, h)
  BY <1>3 DEF Before
<1>5. QED
  BY <1>4, Zenon DEF Selected

\* Two roundings: scores in order are within one mark of the reputation, by its
\* weight, and one of the total of being exactly so.
LEMMA RoundingError ==
  ASSUME NEW m \in Nat \ {0}, NEW b \in Nat \ {0}, NEW k \in Nat, NEW w \in Nat, NEW x \in Nat, NEW y \in Nat,
         (k + (x \div m) * w) \div b <= (k + (y \div m) * w) \div b
  PROVE  w * x < w * y + (b + w) * m
<1> DEFINE p == x \div m
           q == y \div m
           t == k + p * w
           u == k + q * w
<1>1. p \in Nat /\ q \in Nat /\ x < (p + 1) * m /\ q * m <= y
  BY Z3
<1>2. t \div b <= u \div b
  OBVIOUS
<1> HIDE DEF p, q
<1>3. t \in Nat /\ u \in Nat
  BY <1>1
<1>4. t < u + b
  <2> HIDE DEF t, u
  <2> DEFINE e == t \div b
             f == u \div b
  <2>1. e \in Nat /\ f \in Nat /\ t < (e + 1) * b /\ f * b <= u
    BY <1>3
  <2>2. e <= f
    BY <1>2
  <2> HIDE DEF e, f
  <2>3. (e + 1) * b <= (f + 1) * b
    BY <2>1, <2>2
  <2>4. (f + 1) * b = f * b + b
    BY <2>1
  <2>5. QED
    BY <1>3, <2>1, <2>3, <2>4
<1>5. p * w < q * w + b
  <2>1. p * w \in Nat /\ q * w \in Nat
    BY <1>1
  <2>2. QED
    BY <1>4, <2>1
<1>6. w * x <= w * ((p + 1) * m)
  BY <1>1
<1>7. w * ((p + 1) * m) = (p * w) * m + w * m
  BY <1>1
<1>8. (p * w) * m < (q * w) * m + b * m
  <2> DEFINE i == p * w
             l == q * w
  <2>1. i \in Nat /\ l \in Nat /\ i < l + b
    BY <1>1, <1>5
  <2> HIDE DEF i, l
  <2>2. i * m < (l + b) * m
    BY <2>1
  <2>3. (l + b) * m = l * m + b * m
    BY <2>1
  <2>4. QED
    BY <2>2, <2>3 DEF i, l
<1>9. (q * w) * m <= w * y
  <2>1. w * (q * m) <= w * y
    BY <1>1
  <2>2. (q * w) * m = w * (q * m)
    BY <1>1
  <2>3. QED
    BY <2>1, <2>2
<1>10. (b + w) * m = b * m + w * m
  OBVIOUS
<1>11. /\ w * x \in Nat /\ (p * w) * m \in Nat /\ w * m \in Nat /\ (q * w) * m \in Nat /\ b * m \in Nat /\ w * y \in Nat
       /\ w * ((p + 1) * m) \in Nat
  BY <1>1
<1>12. QED
  BY <1>6, <1>7, <1>8, <1>9, <1>10, <1>11

\* The selected host is the best up to the rounding.
LEMMA SelectedFollows ==
  SchedulerInv => SelectedIsBest
<1>1. SUFFICES ASSUME SchedulerInv, NEW r \in seen, NEW h \in Eligible(r.job, r.all),
                      InWidth(r.all[h]), InWidth(r.all[Selected(r.job, r.all)])
               PROVE  Exact(r.all[h]) <
                        Exact(r.all[Selected(r.job, r.all)]) + (Bps + Weights.reputation) * MaxReputationScore
  BY Zenon DEF SelectedIsBest
<1> DEFINE j == r.job
           all == r.all
           g == Selected(j, all)
           k == Bps * Weights.resource
           w == Weights.reputation
           m == MaxReputationScore
           x == Reputation(all[h])
           y == Reputation(all[g])
<1>2. j \in Jobs /\ all \in Candidates
  BY <1>1 DEF SchedulerInv, SchedulerTyped
<1>3. g \in Eligible(j, all) /\ Before(j, all, g, h)
  BY <1>2, SelectedIsFirst, Zenon
<1>4. m \in Nat \ {0} /\ Bps \in Nat \ {0} /\ k \in Nat /\ w \in Nat
  BY SchedulerAssumption
<1>5. x \in Nat /\ y \in Nat
  BY <1>1, <1>2, <1>3, ScoreIs, Zenon
<1>6. scoreOne(j, h, all[h]) <= scoreOne(j, g, all[g])
  <2>1. scoreOne(j, h, all[h]) \in Nat /\ scoreOne(j, g, all[g]) \in Nat
    BY <1>2, <1>3, ScoreIsNumber, Zenon
  <2> HIDE DEF g, j, all
  <2>2. QED
    BY <1>3, <2>1 DEF Before
<1>7. scoreOne(j, h, all[h]) = (k + (x \div m) * w) \div Bps /\ scoreOne(j, g, all[g]) = (k + (y \div m) * w) \div Bps
  BY <1>1, <1>2, <1>3, ScoreIs, Zenon
<1>8. Exact(all[h]) = k * m + w * x /\ Exact(all[g]) = k * m + w * y
  BY Zenon DEF Exact, Reputation
<1> HIDE DEF x, y, k, w, m, g, j, all
<1>9. w * x < w * y + (Bps + w) * m
  BY <1>4, <1>5, <1>6, <1>7, RoundingError, Zenon
<1>10. w * x \in Nat /\ w * y \in Nat /\ (Bps + w) * m \in Nat /\ k * m \in Nat
  BY <1>4, <1>5
<1>11. Exact(all[h]) < Exact(all[g]) + (Bps + w) * m
  BY <1>8, <1>9, <1>10
<1>12. QED
  BY <1>11 DEF g, j, all, w, m

\* Every step of the scheduling of workloads.
LEMMA SchedulerStep ==
  ASSUME SchedulerInv, SchedulerNext
  PROVE  SchedulerInv'
<1>1. PICK j \in Jobs : Rank(j) \/ CommitAssignment(j) \/ ForgetRanking(j) \/ Close(j) \/ BeginScheduling(j)
  BY DEF SchedulerNext
<1>2. /\ job \in [Jobs -> JobRow] /\ pending \in [Jobs -> Hosts \cup {0}]
      /\ \A i \in Jobs : pending[i] # 0 => job[i].state = "SCHEDULING"
  BY DEF SchedulerInv, SchedulerTyped, RankedArePending
<1>3. ASSUME Retry(j) PROVE /\ job' \in [Jobs -> JobRow] /\ \A i \in Jobs : i # j => job'[i] = job[i]
                            /\ job'[j].state = job[j].state \/ job'[j].state = "FAILED"
  <2> DEFINE s == IF job[j].tries + 1 >= MaxTries THEN "FAILED" ELSE job[j].state
  <2>1. job' = [job EXCEPT ![j] = [job[j] EXCEPT !.tries = job[j].tries + 1, !.state = s]]
    BY <1>2, <1>3 DEF Retry
  <2>2. s \in {"SCHEDULING", "OPEN", "CLOSED", "FAILED"} /\ (s = job[j].state \/ s = "FAILED") /\ job[j].tries + 1 \in Nat
    BY <1>2 DEF JobRow
  <2> HIDE DEF s
  <2>3. QED
    BY <1>2, <2>1, <2>2 DEF JobRow
<1>4. ASSUME job' \in [Jobs -> JobRow], pending' \in [Jobs -> Hosts \cup {0}],
             seen' \subseteq [job : Jobs, all : Candidates],
             \A i \in Jobs : i # j => job'[i] = job[i] /\ pending'[i] = pending[i],
             pending'[j] # 0 => job'[j].state = "SCHEDULING",
             job'[j].state # "OPEN" \/ (job'[j].host \in Hosts /\ HasRoom(j, job'[j].host))
      PROVE  SchedulerInv'
  <2>1. LedgerHolds'
    BY <1>4, LedgerKeeps
  <2>2. RankedArePending'
    BY <1>2, <1>4 DEF RankedArePending
  <2>3. QED
    BY <1>4, <2>1, <2>2 DEF SchedulerInv, SchedulerTyped
<1>5. CASE Rank(j)
  <2>1. PICK all \in Candidates :
          /\ seen' = {[job |-> j, all |-> all]}
          /\ IF Eligible(j, all) = {} THEN Retry(j) /\ UNCHANGED pending
             ELSE pending' = [pending EXCEPT ![j] = Selected(j, all)] /\ UNCHANGED job
    BY <1>5 DEF Rank
  <2>2. job[j].state = "SCHEDULING" /\ pending[j] = 0
    BY <1>5 DEF Rank
  <2>3. seen' \subseteq [job : Jobs, all : Candidates]
    BY <2>1
  <2>4. CASE Eligible(j, all) = {}
    BY <1>2, <1>3, <1>4, <2>1, <2>2, <2>3, <2>4
  <2>5. CASE Eligible(j, all) # {}
    <3>1. Selected(j, all) \in Hosts
      BY <2>5, SelectedIsFirst, Zenon DEF Eligible
    <3>2. QED
      BY <1>2, <1>4, <2>1, <2>2, <2>3, <2>5, <3>1
  <2>6. QED
    BY <2>4, <2>5
<1>6. CASE CommitAssignment(j)
  <2>1. pending[j] \in Hosts /\ job[j].state = "SCHEDULING" /\ seen' = {} /\ pending' = [pending EXCEPT ![j] = 0]
    BY <1>2, <1>6 DEF CommitAssignment
  <2>2. CASE HasRoom(j, pending[j])
    <3>1. job' = [job EXCEPT ![j].state = "OPEN", ![j].host = pending[j]]
      BY <1>6, <2>2 DEF CommitAssignment
    <3>2. job' \in [Jobs -> JobRow] /\ job'[j].host = pending[j] /\ \A i \in Jobs : i # j => job'[i] = job[i]
      BY <1>2, <2>1, <3>1 DEF JobRow
    <3>3. QED
      BY <1>2, <1>4, <2>1, <2>2, <3>2
  <2>3. CASE ~HasRoom(j, pending[j])
    <3>1. Retry(j)
      BY <1>6, <2>3 DEF CommitAssignment
    <3>2. QED
      BY <1>2, <1>3, <1>4, <2>1, <3>1
  <2>4. QED
    BY <2>2, <2>3
<1>7. CASE ForgetRanking(j)
  <2>1. pending[j] # 0 /\ job' = job /\ seen' = {} /\ pending' = [pending EXCEPT ![j] = 0]
    BY <1>7 DEF ForgetRanking
  <2>2. job'[j].state # "OPEN" /\ pending'[j] = 0
    BY <1>2, <2>1
  <2>3. QED
    BY <1>2, <1>4, <2>1, <2>2
<1>8. CASE Close(j)
  <2>1. job[j].state = "OPEN" /\ job' = [job EXCEPT ![j].state = "CLOSED"] /\ seen' = {} /\ pending' = pending
    BY <1>8 DEF Close
  <2>2. job' \in [Jobs -> JobRow] /\ job'[j].state = "CLOSED" /\ \A i \in Jobs : i # j => job'[i] = job[i]
    BY <1>2, <2>1 DEF JobRow
  <2>3. QED
    BY <1>2, <1>4, <2>1, <2>2
<1>9. CASE BeginScheduling(j)
  <2>1. /\ job' = [job EXCEPT ![j] = [state |-> "SCHEDULING", host |-> 0, tries |-> 0]]
        /\ seen' = {} /\ pending' = pending
    BY <1>9 DEF BeginScheduling
  <2>2. job' \in [Jobs -> JobRow] /\ job'[j].state = "SCHEDULING" /\ \A i \in Jobs : i # j => job'[i] = job[i]
    BY <1>2, <2>1 DEF JobRow
  <2>3. QED
    BY <1>2, <1>4, <2>1, <2>2
<1>10. QED
  BY <1>1, <1>5, <1>6, <1>7, <1>8, <1>9

\* Nothing is reserved to begin with.
LEMMA SchedulerStart ==
  SchedulerInit => SchedulerInv
<1>1. SUFFICES ASSUME SchedulerInit PROVE SchedulerInv
  OBVIOUS
<1>2. /\ job = [j \in Jobs |-> [state |-> "SCHEDULING", host |-> 0, tries |-> 0]]
      /\ pending = [j \in Jobs |-> 0] /\ seen = {}
  BY <1>1 DEF SchedulerInit
<1>3. SchedulerTyped /\ RankedArePending
  BY <1>2 DEF SchedulerTyped, RankedArePending, JobRow
<1>4. ASSUME NEW h \in Hosts, NEW d \in Dimensions PROVE Reserved(h, d) <= Ceiling(h)[d]
  <2>1. Open(h) = {}
    BY <1>2 DEF Open
  <2>2. Units({}, d) = {}
    BY DEF Units
  <2>3. Reserved(h, d) = 0
    BY <2>1, <2>2, FS_EmptySet DEF Reserved
  <2>4. QED
    BY <2>3, NeedsAreNumbers
<1>5. QED
  BY <1>3, <1>4 DEF SchedulerInv, LedgerHolds
-----------------------------------------------------------------------------
(* The services together.                                                  *)

\* The tables as they begin.
LEMMA ControlInit ==
  Init => ControlInv
<1>1. SUFFICES ASSUME Init PROVE ControlInv
  OBVIOUS
<1>2. request = [r \in Requests |-> Idle]
  BY <1>1 DEF Init, ApiInit
<1>3. IdentityInv /\ MeteringInv
  BY <1>1, <1>2, IdentityStart, MeteringStart DEF Init
<1>4. LimitInv /\ ReleaseInv /\ SchedulerInv
  BY <1>1, LimitStart, ReleaseStart, SchedulerStart DEF Init
<1>5. QED
  BY <1>1, <1>2, <1>3, <1>4 DEF Init, ControlInv

\* What a table says while nothing writes it.
LEMMA IdentityStays ==
  ASSUME UNCHANGED identityVars
  PROVE  /\ IdentityInit => IdentityInit'
         /\ IdentityInv /\ UNCHANGED request => IdentityInv'
<1>1. user' = user /\ wallet' = wallet /\ key' = key /\ challenge' = challenge /\ member' = member
  BY DEF identityVars
<1>2. IdentityInit => IdentityInit'
  BY <1>1 DEF IdentityInit
<1>3. ASSUME IdentityInv, request' = request PROVE IdentityInv'
  BY <1>1, <1>3, Zenon DEF IdentityInv, IdentityTyped, GrantsAreEntitled, SessionsAreLinked, ChallengesAreSpentOnce,
                           FirstLoginsAreLocked, FirstLoginIsAlone, Entitled, Linked, Spends, Spent
<1>4. QED
  BY <1>2, <1>3

\* The same of the ledgers of usage.
LEMMA MeteringStays ==
  ASSUME UNCHANGED meteringVars
  PROVE  /\ MeteringInit => MeteringInit'
         /\ MeteringInv /\ UNCHANGED request => MeteringInv'
         /\ AddedInOrder
<1>1. placed' = placed /\ cursor' = cursor /\ evidence' = evidence /\ rejection' = rejection /\ disputed' = disputed
  BY DEF meteringVars
<1>2. MeteringInit => MeteringInit'
  BY <1>1 DEF MeteringInit
<1>3. ASSUME MeteringInv, request' = request PROVE MeteringInv'
  BY <1>1, <1>3, Zenon DEF MeteringInv, MeteringTyped, EvidenceIsSound, ChecksHold, CursorsAreLocked,
                           RejectedIsPassed, RejectedIsNeverBilled, Stale
<1>4. QED
  BY <1>1, <1>2, <1>3 DEF AddedInOrder

\* The same of the other three services.
LEMMA OthersStay ==
  /\ LimitInv /\ UNCHANGED limitVars => LimitInv'
  /\ ReleaseInv /\ UNCHANGED releaseVars => ReleaseInv' /\ answer' = answer
  /\ SchedulerInv /\ UNCHANGED schedulerVars => SchedulerInv'
<1>1. ASSUME LimitInv, UNCHANGED limitVars PROVE LimitInv'
  BY <1>1 DEF limitVars, LimitInv, LimitTyped, AdmittedAreCounted
<1>2. ASSUME ReleaseInv, UNCHANGED releaseVars PROVE ReleaseInv' /\ answer' = answer
  BY <1>2 DEF releaseVars, ReleaseInv, ReleaseTyped, RevokedAge, CachedIsTrusted, Ids
<1>3. ASSUME SchedulerInv, UNCHANGED schedulerVars PROVE SchedulerInv'
  <2>1. job' = job /\ pending' = pending /\ seen' = seen
    BY <1>3 DEF schedulerVars
  <2>2. ASSUME NEW h \in Hosts, NEW d \in Dimensions PROVE Reserved(h, d)' = Reserved(h, d)
    BY <2>1 DEF Reserved, Open
  <2>3. LedgerHolds'
    BY <1>3, <2>2 DEF SchedulerInv, LedgerHolds
  <2>4. QED
    BY <1>3, <2>1, <2>3 DEF SchedulerInv, SchedulerTyped, RankedArePending
<1>4. QED
  BY <1>1, <1>2, <1>3

\* An answer is under a key that is trusted.
TrustedAnswer == answer' # answer => Trusted(answer'.by, answer'.of)

\* A step of any of the services keeps the invariants of all.
LEMMA ControlStep ==
  ASSUME ControlInv, [Next]_vars
  PROVE  ControlInv' /\ AddedInOrder /\ TrustedAnswer
<1> DEFINE Goal == ControlInv' /\ AddedInOrder /\ TrustedAnswer
<1>1. /\ service \in {"identity", "billing", "limits", "scheduling", "releases"} /\ service' = service
      /\ LimitInv /\ ReleaseInv /\ SchedulerInv
  BY DEF ControlInv, Next, vars
<1>2. ASSUME service = "identity", IdentityNext, UNCHANGED <<meteringVars, limitVars, schedulerVars, releaseVars>>
      PROVE  Goal
  <2>1. UNCHANGED meteringVars /\ UNCHANGED limitVars /\ UNCHANGED schedulerVars /\ UNCHANGED releaseVars
    BY <1>2
  <2>2. IdentityInv' /\ MeteringInit' /\ AddedInOrder
    BY <1>2, <2>1, IdentityStep, MeteringStays DEF ControlInv
  <2>3. QED
    BY <1>1, <1>2, <2>1, <2>2, OthersStay DEF ControlInv, TrustedAnswer
<1>3. ASSUME service = "billing", MeteringNext, UNCHANGED <<identityVars, limitVars, schedulerVars, releaseVars>>
      PROVE  Goal
  <2>1. UNCHANGED identityVars /\ UNCHANGED limitVars /\ UNCHANGED schedulerVars /\ UNCHANGED releaseVars
    BY <1>3
  <2>2. MeteringInv' /\ IdentityInit' /\ AddedInOrder
    BY <1>3, <2>1, MeteringStep, IdentityStays DEF ControlInv
  <2>3. QED
    BY <1>1, <1>3, <2>1, <2>2, OthersStay DEF ControlInv, TrustedAnswer
<1>4. ASSUME UNCHANGED accountVars
      PROVE  /\ IF service = "identity" THEN IdentityInv' ELSE IdentityInit'
             /\ IF service = "billing" THEN MeteringInv' ELSE MeteringInit'
             /\ request' = request /\ AddedInOrder
  <2>1. UNCHANGED identityVars /\ UNCHANGED meteringVars /\ request' = request
    BY <1>4 DEF accountVars, apiVars
  <2>2. QED
    BY <2>1, IdentityStays, MeteringStays DEF ControlInv
<1>5. ASSUME UNCHANGED accountVars, LimitInv', ReleaseInv', SchedulerInv', TrustedAnswer PROVE Goal
  BY <1>1, <1>4, <1>5 DEF ControlInv
<1>6. ASSUME LimitNext, UNCHANGED <<accountVars, schedulerVars, releaseVars>> PROVE Goal
  <2>1. UNCHANGED accountVars /\ UNCHANGED schedulerVars /\ UNCHANGED releaseVars
    BY <1>6
  <2>2. QED
    BY <1>1, <1>5, <1>6, <2>1, LimitStep, OthersStay DEF TrustedAnswer
<1>7. ASSUME SchedulerNext, UNCHANGED <<accountVars, limitVars, releaseVars>> PROVE Goal
  <2>1. UNCHANGED accountVars /\ UNCHANGED limitVars /\ UNCHANGED releaseVars
    BY <1>7
  <2>2. QED
    BY <1>1, <1>5, <1>7, <2>1, SchedulerStep, OthersStay DEF TrustedAnswer
<1>8. ASSUME ReleaseNext, UNCHANGED <<accountVars, limitVars, schedulerVars>> PROVE Goal
  <2>1. UNCHANGED accountVars /\ UNCHANGED limitVars /\ UNCHANGED schedulerVars
    BY <1>8
  <2>2. QED
    BY <1>1, <1>5, <1>8, <2>1, ReleaseStep, OthersStay DEF TrustedAnswer
<1>9. ASSUME UNCHANGED vars PROVE Goal
  <2>1. UNCHANGED accountVars /\ UNCHANGED limitVars /\ UNCHANGED schedulerVars /\ UNCHANGED releaseVars
    BY <1>9 DEF vars
  <2>2. QED
    BY <1>1, <1>5, <2>1, OthersStay DEF TrustedAnswer
<1> HIDE DEF Goal
<1>10. Goal
  BY <1>2, <1>3, <1>6, <1>7, <1>8, <1>9, Zenon DEF Next
<1>11. QED
  BY <1>10 DEF Goal

\* What the invariant gives of the tables that nothing has written.
LEMMA ControlFollows ==
  ControlInv => AccessIsSound /\ BillingIsSound /\ PlacementIsSound
<1>1. SUFFICES ASSUME ControlInv PROVE AccessIsSound /\ BillingIsSound /\ PlacementIsSound
  OBVIOUS
<1>2. IdentityTypeOK /\ OneSessionPerChallenge /\ FirstLoginIsAlone /\ ScopedKeysAreMembers
  <2>1. CASE service = "identity"
    BY <1>1, <2>1, IdentityFollows DEF ControlInv
  <2>2. CASE service # "identity"
    <3>1. IdentityInit
      BY <1>1, <2>2 DEF ControlInv
    <3>2. \A k \in Keys : ~key[k].born
      <4>1. \A k \in Keys : key[k] = UnbornKey
        BY <3>1 DEF IdentityInit, UnbornKey
      <4>2. UnbornKey.born = FALSE
        BY Zenon DEF UnbornKey
      <4>3. QED
        BY <4>1, <4>2, Zenon
    <3>3. \A r \in Requests : request[r].op # "create"
      <4>1. CASE service = "billing"
        <5>1. request \in [Requests -> {Idle} \cup UsageRequest]
          BY <1>1, <4>1 DEF ControlInv, MeteringInv, MeteringTyped
        <5>2. QED
          BY <5>1 DEF UsageRequest, Idle
      <4>2. CASE service # "billing"
        BY <1>1, <2>2, <4>2 DEF ControlInv, Idle
      <4>3. QED
        BY <4>1, <4>2
    <3>4. IdentityTypeOK
      BY <3>1, <3>2 DEF IdentityInit, IdentityTypeOK
    <3>5. QED
      BY <3>2, <3>3, <3>4, Zenon DEF OneSessionPerChallenge, FirstLoginIsAlone, ScopedKeysAreMembers
  <2>3. QED
    BY <2>1, <2>2
<1>3. WindowsEnd /\ PlacementIsSound
  BY <1>1, LimitFollows, LedgerFits, SelectedFollows DEF ControlInv, PlacementIsSound
<1>4. BillingIsSound
  <2>1. CASE service = "billing"
    BY <1>1, <2>1, MeteringFollows DEF ControlInv
  <2>2. CASE service # "billing"
    <3>1. MeteringInit
      BY <1>1, <2>2 DEF ControlInv
    <3>2. QED
      BY <3>1, MeteringAssumption DEF MeteringInit, BillingIsSound, MeteringTypeOK, InvoiceIsExact, RejectedIsNeverBilled
  <2>3. QED
    BY <2>1, <2>2
<1>5. QED
  BY <1>2, <1>3, <1>4 DEF AccessIsSound
-----------------------------------------------------------------------------
(* Theorems.                                                               *)

\* The invariants of the five services hold in every behaviour.
THEOREM ControlInvariant == Spec => []ControlInv
<1>1. Init => ControlInv
  BY ControlInit
<1>2. ControlInv /\ [Next]_vars => ControlInv'
  BY ControlStep
<1>3. QED
  BY <1>1, <1>2, PTL DEF Spec

\* Nobody has more access than was earned: a challenge is worth one session of
\* the account that signed it, a scoped token is a member's, a first login is
\* alone under its lock, and the limiter's counters end and bound what they
\* let through (ConsumeChallenge, issueToken, windowScript).
THEOREM AccessStaysSound == Spec => []AccessIsSound
<1>1. ControlInv => AccessIsSound
  BY ControlFollows
<1>2. QED
  BY <1>1, ControlInvariant, PTL

\* What is billed is its provider's usage at the exact price, whatever
\* overflows on the way, and never what was refused (ComputeCharge,
\* AcceptEvidence).
THEOREM BillsAreSound == Spec => []BillingIsSound
<1>1. ControlInv => BillingIsSound
  BY ControlFollows
<1>2. QED
  BY <1>1, ControlInvariant, PTL

\* The ledger never overbooks a provider's overlay, and the host selected is
\* the best up to two roundings (AssignLease, Rank, scoreOne).
THEOREM PlacementStaysSound == Spec => []PlacementIsSound
<1>1. ControlInv => PlacementIsSound
  BY ControlFollows
<1>2. QED
  BY <1>1, ControlInvariant, PTL

\* Evidence is never removed, and what is added of a workload is newer than all
\* there is of it (LockCursor, AcceptEvidence).
THEOREM BillsAreOrdered == Spec => BilledInOrder
<1>1. ControlInv /\ [Next]_vars => [AddedInOrder]_<<evidence>>
  BY ControlStep
<1>2. QED
  BY <1>1, ControlInvariant, PTL DEF Spec, BilledInOrder, AddedInOrder

\* The front end the server answers with is one its key signed, and a revoked
\* one comes from the origin's cache for less than its TTL (fetch, Verify).
THEOREM OnlyTrustedReleases == Spec => ReleasesAreTrusted
<1> DEFINE Sound == LET i == answer'.of IN i # Unknown =>
             /\ release[i].key = TrustedKey
             /\ release[i].revoked => answer'.by = "origin" /\ release[i].age < TTL
<1>1. ControlInv /\ [Next]_vars => [Sound]_answer
  BY ControlStep, Zenon DEF TrustedAnswer, Trusted
<1>2. QED
  BY <1>1, ControlInvariant, PTL DEF Spec, ReleasesAreTrusted
=============================================================================
