----------------------------- MODULE RateLimit ------------------------------
(***************************************************************************)
(* internal/ratelimit: the fixed-window counters in Redis in front of the  *)
(* handlers.  An endpoint that needs no key (auth-challenge, auth-login,   *)
(* openstack-token-issue) counts its callers by address, the workload RPCs *)
(* count theirs by user.  A refused call does nothing else, a window ends  *)
(* and Redis may be flushed at any time, so what the handlers do is        *)
(* specified without their limits.                                         *)
(***************************************************************************)
EXTENDS Naturals

CONSTANTS
  Addresses,    \* of callers that have no key yet
  Tenants,      \* users that call the workload RPCs
  Limit         \* calls a window allows

ASSUME LimitAssumption == Limit \in Nat \ {0}

VARIABLES
  window,       \* the Redis keys
  admitted      \* the calls let through since the window was last absent

limitVars == <<window, admitted>>

\* Redis keys: ratelimit:<endpoint>:<address> and ratelimit:<user id>.
Windows == ({"auth-challenge", "auth-login", "openstack-token-issue"} \X Addresses) \cup Tenants

Absent == [count |-> 0, expires |-> FALSE]

\* The count is read only against Limit: Limit + 1 stands for all beyond it.
Counted(n) == IF n > Limit THEN n ELSE n + 1

\* INCR, and EXPIRE with the first INCR of a window.
windowScript(x) == window' =
  [window EXCEPT ![x] = [count |-> Counted(@.count), expires |-> @.expires \/ @.count = 0]]

WithinLimit(count) == count <= Limit

\* A call is counted, and let through to its handler or refused (429).
Allow(x) ==
  /\ windowScript(x)
  /\ admitted' = [admitted EXCEPT ![x] = IF WithinLimit(window'[x].count) THEN @ + 1 ELSE @]

\* The three places that ask.
allowRate(x) == \E endpoint \in {"auth-challenge", "auth-login"} : Allow(<<endpoint, x>>)
rateLimitTokenIssuance(x) == Allow(<<"openstack-token-issue", x>>)
NewUnaryInterceptor(u) == Allow(u)

WindowEnds(x) ==
  /\ window[x].expires
  /\ window' = [window EXCEPT ![x] = Absent]
  /\ admitted' = [admitted EXCEPT ![x] = 0]

\* Redis loses its data: every caller starts anew.
Flush ==
  /\ \E x \in Windows : window[x] # Absent
  /\ window' = [x \in Windows |-> Absent]
  /\ admitted' = [x \in Windows |-> 0]

LimitInit == window = [x \in Windows |-> Absent] /\ admitted = [x \in Windows |-> 0]

LimitNext ==
  \/ \E x \in Addresses : allowRate(x) \/ rateLimitTokenIssuance(x)
  \/ \E u \in Tenants : NewUnaryInterceptor(u)
  \/ \E x \in Windows : WindowEnds(x)
  \/ Flush
-----------------------------------------------------------------------------
\* A counter in Redis always has an expiry, whatever the rate of calls and
\* wherever the process dies, so nobody is locked out for good (the reason
\* windowScript is one script); and between two ends of it no more than limit
\* calls are let through (Allow).
WindowsEnd == \A x \in Windows :
  /\ window[x].count > 0 => window[x].expires
  /\ admitted[x] <= Limit
=============================================================================
