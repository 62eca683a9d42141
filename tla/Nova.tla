-------------------------------- MODULE Nova --------------------------------
(***************************************************************************)
(* internal/openstackapi/nova over internal/projects: a server is a row of *)
(* the workloads table, admitted by the project's quota.  The states a     *)
(* workload goes through and the workers that drive it are WorkloadStore;  *)
(* here they are the environment, reduced to the states quota, volumes and *)
(* reads tell apart.                                                       *)
(***************************************************************************)
EXTENDS Glance

CONSTANTS
  Providers,
  Dimensions,     \* what a quota bounds: cpu_millicores, ram_mb, storage_gb, workloads
  Flavor,         \* [Dimensions -> Nat], what a server reserves
  Quotas,         \* the quotas an operator may set, each in [Dimensions -> Nat]
  Volumes, Sizes  \* cinder_volumes and their size_gb

ASSUME NovaAssumption ==
  /\ "storage_gb" \in Dimensions
  /\ Flavor \in [Dimensions -> Nat]
  /\ Quotas \subseteq [Dimensions -> Nat]
  /\ Sizes \subseteq Nat \ {0}
  /\ IsFiniteSet(Volumes) /\ IsFiniteSet(Workloads)
  /\ None \notin Providers \cup Images \cup Quotas

VARIABLES
  quota,      \* project_quotas, None: no row
  server,     \* workloads
  volume,     \* cinder_volumes
  erased      \* the volumes whose Agent has confirmed secure deletion

computeVars == <<image, quota, server, volume, erased>>

\* REQUESTED and SCHEDULING; LEASE_PENDING to RUNNING; STOPPING and the rest.
States == {"WAITING", "OPEN", "CLOSED"}
OpenWorkloadStates == {"OPEN"}

OpenServers(c) == {w \in Live(server) : ProjectOf[w] = c /\ server[w].state \in OpenWorkloadStates}
\* The gigabytes of a set of volumes, one by one: SUM(size_gb) counts them.
Gigabytes(ids) == UNION {{v} \X (1 .. volume[v].size) : v \in ids}
VolumeStorage(c) == Cardinality(Gigabytes({v \in Live(volume) : volume[v].owner = c}))

CommittedUsage(c) == [d \in Dimensions |->
  Cardinality(OpenServers(c)) * Flavor[d] + (IF d = "storage_gb" THEN VolumeStorage(c) ELSE 0)]

\* No row: no ceiling.
CheckQuota(c, additional) ==
  quota[c] # None =>
    LET committed == CommittedUsage(c) IN
    \A d \in Dimensions : committed[d] + additional[d] <= quota[c][d]

\* The row lock of a CreateVolume transaction in flight holds the upsert off.
RowLocked(c) == \E r \in Requests : request[r].op = "volume" /\ request[r].owner = c /\ request[r].max # None

SetQuota(c, q) ==
  /\ ~RowLocked(c)
  /\ quota' = [quota EXCEPT ![c] = q]
  /\ UNCHANGED <<image, server, volume, erased, request>>
-----------------------------------------------------------------------------
(* Servers.                                                                *)

\* POST servers: the quota is checked first ...
createServer(r, t, c, i) ==
  /\ requireProjectScope(t, c)
  /\ CheckQuota(c, Flavor)
  /\ Begin(r, [op |-> "server", owner |-> c, image |-> i])
  /\ UNCHANGED computeVars

\* ... then the image is resolved and the workload submitted, which checks
\* the quota no more.  An image that cannot be resolved ends the request.
resolveImageRef(r) ==
  /\ request[r].op = "server"
  /\ IF GetImage(request[r].image, request[r].owner)
     THEN \E w \in Mintable(server) :
            /\ ProjectOf[w] = request[r].owner
            /\ server' = [server EXCEPT ![w] = [born |-> TRUE, live |-> TRUE, state |-> "WAITING",
                                                provider |-> None, image |-> request[r].image]]
     ELSE UNCHANGED server
  /\ Finish(r)
  /\ UNCHANGED <<image, quota, volume, erased>>

\* Mutant: the workload is looked up by its id alone.
GetByProjectAny(w, c) == w \in Live(server)
GetByProject(w, c) == w \in Live(server) /\ ProjectOf[w] = c

\* A second stop with a new request id is a conflict.
deleteServer(t, c, w) ==
  /\ requireProjectScope(t, c)
  /\ GetByProject(w, c)
  /\ server[w].state # "CLOSED"
  /\ server' = [server EXCEPT ![w].state = "CLOSED"]
  /\ UNCHANGED <<image, quota, volume, erased, request>>

\* The environment: a worker assigns a provider once; the workload may fail.
AssignLease(w, p) ==
  /\ w \in Live(server) /\ server[w].state = "WAITING"
  /\ server' = [server EXCEPT ![w].state = "OPEN", ![w].provider = p]
  /\ UNCHANGED <<image, quota, volume, erased, request>>

MarkFailed(w) ==
  /\ w \in Live(server) /\ server[w].state # "CLOSED"
  /\ server' = [server EXCEPT ![w].state = "CLOSED"]
  /\ UNCHANGED <<image, quota, volume, erased, request>>
-----------------------------------------------------------------------------
(* Reads.                                                                  *)

ShownServers(t, ids) == Shown(t, {ProjectOf[w] : w \in ids}) /\ UNCHANGED computeVars

listServers(t, c) ==
  requireProjectScope(t, c) /\ ShownServers(t, {w \in Workloads : GetByProject(w, c)})
showServer(t, c, w) ==
  requireProjectScope(t, c) /\ GetByProject(w, c) /\ ShownServers(t, {w})
serverMetadata(t, c, w) == showServer(t, c, w)

\* The path names no project: the row's own is compared.
allocationsForConsumer(t, w) ==
  /\ w \in Live(server) /\ t = ProjectOf[w]
  /\ ShownServers(t, {w})

\* Neutron's QoS policies: the open workloads of the token's project.
listPolicies(t) == requireProjectID(t) /\ ShownServers(t, OpenServers(t))
showPolicy(t, w) == requireProjectID(t) /\ w \in OpenServers(t) /\ ShownServers(t, {w})
=============================================================================
