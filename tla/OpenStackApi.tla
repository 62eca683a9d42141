---------------------------- MODULE OpenStackApi ----------------------------
(***************************************************************************)
(* What the OpenStack services share: HTTP handlers of several projects    *)
(* that run concurrently on one PostgreSQL database (READ COMMITTED).  A   *)
(* handler that reads in one statement and writes in a later one takes     *)
(* several steps and waits in `request' in between.  A row is minted once  *)
(* and, when deleted, keeps its columns (deleted_at).                      *)
(***************************************************************************)
EXTENDS Naturals, FiniteSetsExt

CONSTANTS
  Projects,    \* the projects tokens may be scoped to
  Workloads,   \* workload ids
  ProjectOf,   \* [Workloads -> Projects], workloads.project_id
  Requests,    \* requests in flight
  None         \* SQL NULL, and the scope of an unscoped token

ASSUME ApiAssumption ==
  /\ ProjectOf \in [Workloads -> Projects]
  /\ None \notin Projects \cup Workloads

VARIABLES
  request,     \* what each request in flight has read
  foreign      \* the other projects whose rows were in the last answer

apiVars == <<request, foreign>>

Scopes == Projects \cup {None}
Unborn == [born |-> FALSE, live |-> FALSE]
Row(fields) == {Unborn} \cup fields
Live(table) == {id \in DOMAIN table : table[id].live}
Mintable(table) == {id \in DOMAIN table : ~table[id].born}

Idle == [op |-> "idle"]
Begin(r, what) == /\ request[r] = Idle
                  /\ request' = [request EXCEPT ![r] = what]
Finish(r) == request' = [request EXCEPT ![r] = Idle]

\* What a token scoped to t is shown: rows of these owners.
Shown(t, owners) == /\ foreign' = owners \ {t}
                    /\ UNCHANGED request

\* Neutron and Glance act on the token's own project.
requireProjectID(t) == t # None

\* Nova and Cinder name the project in the path; it must be the token's.
requireProjectScope(t, c) == t # None /\ t = c

ApiInit == request = [r \in Requests |-> Idle] /\ foreign = {}

\* No answer of a list or show handler carries a row of another project that
\* was not shared with the caller: not by a project in the path that is not
\* the token's, nor through the groups in a port's body or an image's
\* visibility (the query itself is the ownership check, ADR-016 and ADR-031).
RepliesAreOwn == foreign = {}
=============================================================================
