--------------------------- MODULE FrontendRelease --------------------------
(***************************************************************************)
(* internal/frontendrelease with the dashboard that answers for it: signed *)
(* releases are published, rolled back to and revoked from a command line, *)
(* and the server trusts the login origins of the latest one, read at most *)
(* once per originAllowlistTTL.  Hashes and signatures are perfect: a      *)
(* manifest verifies under the key that signed it.                         *)
(***************************************************************************)
EXTENDS Naturals, FiniteSetsExt

CONSTANTS
  MaxRelease,    \* bound: releases are numbered in the order of released_at
  TrustedKey, OtherKey,
  Unknown,       \* no release
  TTL            \* originAllowlistTTL, in ticks of the clock

ASSUME ReleaseAssumption == TTL \in Nat \ {0} /\ MaxRelease \in Nat

VARIABLES
  release,       \* frontend_releases, a function on the numbers taken
  cache,         \* releaseOriginsCache: the release it was read from, and its age
  answer         \* what the last request was answered on the word of

releaseVars == <<release, cache, answer>>

Ids == DOMAIN release

\* Ages are told apart up to TTL; an age of TTL stands for all beyond it.
Older(n) == IF n < TTL THEN n + 1 ELSE n

Add(n, cid, k) ==
  release' = [i \in Ids \cup {n} |-> IF i = n THEN [cid |-> cid, key |-> k, revoked |-> FALSE, age |-> 0] ELSE release[i]]

\* A tree built, signed and verified under the operator's own -pubkey, perhaps
\* before others that are published by now.
Publish(n, k) ==
  /\ n \notin Ids
  /\ Add(n, n, k)
  /\ UNCHANGED <<cache, answer>>

\* A manifest made now for an older release's content, revoked or not.
runRollback(i, n, k) ==
  /\ \A j \in Ids : j < n
  /\ Add(n, release[i].cid, k)
  /\ UNCHANGED <<cache, answer>>

Revoke(i) ==
  /\ ~release[i].revoked
  /\ release' = [release EXCEPT ![i].revoked = TRUE]
  /\ UNCHANGED <<cache, answer>>

\* The clock of the server and of the ages of revocations.
Tick ==
  /\ cache' = [cache EXCEPT !.age = Older(@)]
  /\ release' = [i \in Ids |-> [release[i] EXCEPT !.age = IF release[i].revoked THEN Older(@) ELSE @]]
  /\ UNCHANGED answer

LiveReleases == {i \in Ids : ~release[i].revoked}

Latest == IF LiveReleases = {} THEN Unknown ELSE Max(LiveReleases)

Verifies(i) == i # Unknown /\ release[i].key = TrustedKey

\* The signed manifest itself, read at every request.
wellKnownFrontend ==
  /\ answer' = [by |-> "manifest", of |-> IF Verifies(Latest) THEN Latest ELSE Unknown]
  /\ UNCHANGED <<release, cache>>

\* Mutant: every look-up prolongs the cached answer.
FreshlyReadSliding == IF cache.age < TTL THEN [cache EXCEPT !.age = 0] ELSE [of |-> IF Verifies(Latest) THEN Latest ELSE Unknown, age |-> 0]
\* The cached origins if they are young enough, else those of the latest
\* release that verifies.
FreshlyRead == IF cache.age < TTL THEN cache ELSE [of |-> IF Verifies(Latest) THEN Latest ELSE Unknown, age |-> 0]

\* A credentialed request of a foreign origin is let through on the word of a
\* release or refused.
originAllowed ==
  /\ cache' = FreshlyRead
  /\ answer' = [by |-> "origin", of |-> cache'.of]
  /\ UNCHANGED release

\* The database or the caller's own context fails the read: nobody is trusted
\* until the next one.
ReadFails ==
  /\ cache.age >= TTL
  /\ cache' = [of |-> Unknown, age |-> 0]
  /\ answer' = [by |-> "origin", of |-> Unknown]
  /\ UNCHANGED release

ReleaseInit ==
  /\ release = [i \in {} |-> 0]
  /\ cache = [of |-> Unknown, age |-> TTL]
  /\ answer = [by |-> "origin", of |-> Unknown]

ReleaseNext ==
  \/ \E n \in 1 .. MaxRelease, k \in {TrustedKey, OtherKey} : Publish(n, k) \/ \E i \in Ids : runRollback(i, n, k)
  \/ \E i \in Ids : Revoke(i)
  \/ Tick \/ wellKnownFrontend \/ originAllowed \/ ReadFails
-----------------------------------------------------------------------------
\* No request is answered on the word of a release signed by another key than
\* the server's, however it came into the table and whichever is latest (the
\* Verify of wellKnownFrontend and activeReleaseOrigins); and a release that is
\* revoked is trusted for at most originAllowlistTTL more, whatever the rate of
\* requests, and its manifest not served at all.
ReleasesAreTrusted == [][
  LET i == answer'.of IN i # Unknown =>
    /\ release[i].key = TrustedKey
    /\ release[i].revoked => answer'.by = "origin" /\ release[i].age < TTL]_answer
=============================================================================
