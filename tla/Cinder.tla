------------------------------- MODULE Cinder -------------------------------
(***************************************************************************)
(* internal/openstackapi/cinder: volumes, bound to the provider of the     *)
(* first workload they are attached to.  Every transition of a row is one  *)
(* conditional UPDATE; what is not atomic is what the handlers do around   *)
(* it: the quota check, the lookup of the workload before an attach and of *)
(* the attachment before a detach, and the Agent call inside a delete.     *)
(***************************************************************************)
EXTENDS Nova

GetVolume(v, c) == v \in Live(volume) /\ volume[v].owner = c

\* Mutant: the quota row is read without FOR UPDATE.
LockFreeAlways(c) == TRUE
\* SELECT ... FOR UPDATE: no other transaction holds the project's quota row.
LockFree(c) == ~RowLocked(c)

\* Under the lock the ceiling and the committed storage are read and compared.
\* A project without a row has no lock to take and nothing to compare with.
CheckVolumeQuota(r, t, c, size) ==
  /\ requireProjectScope(t, c)
  /\ quota[c] # None =>
       /\ LockFree(c)
       /\ CommittedUsage(c)["storage_gb"] + size <= quota[c]["storage_gb"]
  /\ Begin(r, [op |-> "volume", owner |-> c, size |-> size,
               max |-> IF quota[c] = None THEN None ELSE quota[c]["storage_gb"]])
  /\ UNCHANGED computeVars

\* The insert, and the commit that releases the lock.  ceiling is not a column:
\* it remembers the quota the volume was admitted under.
CreateVolume(r) ==
  /\ request[r].op = "volume"
  /\ \E v \in Mintable(volume) : volume' =
       [volume EXCEPT ![v] = [born |-> TRUE, live |-> TRUE, owner |-> request[r].owner,
                              size |-> request[r].size, state |-> "available",
                              provider |-> None, workload |-> None, ceiling |-> request[r].max]]
  /\ Finish(r)
  /\ UNCHANGED <<image, quota, server, erased>>

\* os-attach: the workload is looked up in the caller's project ...
attachVolume(r, t, c, v, w) ==
  /\ requireProjectScope(t, c)
  /\ GetByProject(w, c)
  /\ server[w].provider # None
  /\ volume[v].born
  /\ Begin(r, [op |-> "attach", owner |-> c, volume |-> v, workload |-> w, provider |-> server[w].provider])
  /\ UNCHANGED computeVars

Bindable(v, p) == volume[v].provider \in {None, p}

\* ... and the row updated if it still is available, on that provider or on
\* none, and no other volume is attached to the workload (the unique index).
AttachVolume(r) ==
  /\ request[r].op = "attach"
  /\ LET q == request[r] IN
     IF /\ GetVolume(q.volume, q.owner)
        /\ volume[q.volume].state = "available"
        /\ Bindable(q.volume, q.provider)
        /\ \A u \in Live(volume) : volume[u].workload # q.workload
     THEN /\ volume' = [volume EXCEPT ![q.volume].state = "in-use", ![q.volume].provider = q.provider,
                                      ![q.volume].workload = q.workload]
          /\ erased' = erased \ {q.volume}
     ELSE UNCHANGED <<volume, erased>>
  /\ Finish(r)
  /\ UNCHANGED <<image, quota, server>>

\* os-detach reads which workload holds the volume ...
detachVolume(r, t, c, v) ==
  /\ requireProjectScope(t, c)
  /\ GetVolume(v, c)
  /\ volume[v].workload # None
  /\ Begin(r, [op |-> "detach", volume |-> v, workload |-> volume[v].workload])
  /\ UNCHANGED computeVars

StillHeld(v, w) == v \in Live(volume) /\ volume[v].state = "in-use" /\ volume[v].workload = w

\* ... and releases it if that workload still does.  The provider stays.
DetachVolume(r) ==
  /\ request[r].op = "detach"
  /\ volume' = IF StillHeld(request[r].volume, request[r].workload)
               THEN [volume EXCEPT ![request[r].volume].state = "available",
                                   ![request[r].volume].workload = None]
               ELSE volume
  /\ Finish(r)
  /\ UNCHANGED <<image, quota, server, erased>>
-----------------------------------------------------------------------------
(* DELETE: available -> deleting, the Agent, then the row.                 *)

Deletable(v) == volume[v].state = "available"

BeginDelete(r, t, c, v) ==
  /\ requireProjectScope(t, c)
  /\ GetVolume(v, c)
  /\ Deletable(v)
  /\ volume' = [volume EXCEPT ![v].state = "deleting"]
  /\ Begin(r, [op |-> IF volume[v].provider = None THEN "finish" ELSE "dispatch",
               volume |-> v, expired |-> FALSE])
  /\ UNCHANGED <<image, quota, server, erased>>

\* The Agent's answer, within its own 30 seconds; erasing is idempotent. The
\* request's 5 seconds may be over by then: every later statement fails.
DispatchDelete(r) ==
  /\ request[r].op = "dispatch"
  /\ \E expired \in BOOLEAN :
       \/ /\ erased' = erased \cup {request[r].volume}
          /\ request' = [request EXCEPT ![r].op = "finish", ![r].expired = expired]
       \/ /\ UNCHANGED erased
          /\ request' = [request EXCEPT ![r].op = "abort", ![r].expired = expired]
  /\ UNCHANGED <<image, quota, server, volume>>

InDeleting(v) == v \in Live(volume) /\ volume[v].state = "deleting"

FinishDelete(r) ==
  /\ request[r].op = "finish"
  /\ volume' = IF ~request[r].expired /\ InDeleting(request[r].volume)
               THEN [volume EXCEPT ![request[r].volume].live = FALSE] ELSE volume
  /\ Finish(r)
  /\ UNCHANGED <<image, quota, server, erased>>

\* Mutant: a failed dispatch still removes the row.
AbortDeleteDrops(r) ==
  /\ request[r].op = "abort"
  /\ volume' = IF ~request[r].expired /\ InDeleting(request[r].volume)
               THEN [volume EXCEPT ![request[r].volume].live = FALSE] ELSE volume
  /\ Finish(r)
  /\ UNCHANGED <<image, quota, server, erased>>
AbortDelete(r) ==
  /\ request[r].op = "abort"
  /\ volume' = IF ~request[r].expired /\ InDeleting(request[r].volume)
               THEN [volume EXCEPT ![request[r].volume].state = "available"] ELSE volume
  /\ Finish(r)
  /\ UNCHANGED <<image, quota, server, erased>>

\* The process ends: its requests are gone, a transaction in flight rolled back.
Crash ==
  /\ \E r \in Requests : request[r] # Idle
  /\ request' = [r \in Requests |-> Idle]
  /\ UNCHANGED computeVars

listVolumes(t, c) ==
  /\ requireProjectScope(t, c)
  /\ Shown(t, {volume[v].owner : v \in {u \in Volumes : GetVolume(u, c)}})
  /\ UNCHANGED computeVars
getVolume(t, c, v) ==
  /\ requireProjectScope(t, c)
  /\ GetVolume(v, c)
  /\ Shown(t, {volume[v].owner})
  /\ UNCHANGED computeVars
-----------------------------------------------------------------------------
ImageNext == \E t \in Scopes :
  /\ \/ \E public \in BOOLEAN : createImage(t, public) /\ foreign' = {}
     \/ \E i \in Images : \/ deleteImage(t, i) /\ foreign' = {}
                          \/ getImage(t, i)
     \/ listImages(t)
  /\ UNCHANGED <<quota, server, volume, erased>>

ServerRead == \E t \in Scopes :
  \/ listPolicies(t)
  \/ \E w \in Workloads : showPolicy(t, w) \/ allocationsForConsumer(t, w)
  \/ \E c \in Projects :
       \/ listServers(t, c)
       \/ \E w \in Workloads : showServer(t, c, w) \/ serverMetadata(t, c, w)

ServerWrite ==
  \/ \E w \in Workloads :
       \/ \E t \in Scopes, c \in Projects : deleteServer(t, c, w)
       \/ \E p \in Providers : AssignLease(w, p)
       \/ MarkFailed(w)
  \/ \E c \in Projects, q \in Quotas : SetQuota(c, q)
  \/ Crash

ServerCreate ==
  \/ \E r \in Requests, t \in Scopes, c \in Projects, i \in Images : createServer(r, t, c, i)
  \/ \E r \in Requests : resolveImageRef(r)

VolumeRead == \E t \in Scopes, c \in Projects :
  listVolumes(t, c) \/ \E v \in Volumes : getVolume(t, c, v)

VolumeStep(r) ==
  \/ CreateVolume(r) \/ AttachVolume(r) \/ DetachVolume(r)
  \/ DispatchDelete(r) \/ FinishDelete(r) \/ AbortDelete(r)

VolumeWrite ==
  \/ \E r \in Requests, t \in Scopes, c \in Projects :
       \/ \E size \in Sizes : CheckVolumeQuota(r, t, c, size)
       \/ \E v \in Volumes :
            \/ \E w \in Workloads : attachVolume(r, t, c, v, w)
            \/ detachVolume(r, t, c, v)
            \/ BeginDelete(r, t, c, v)
  \/ \E r \in Requests : VolumeStep(r)

ComputeNext == ImageNext \/ ((ServerWrite \/ ServerCreate) /\ foreign' = {}) \/ ServerRead
VolumeNext == ((ServerWrite \/ VolumeWrite) /\ foreign' = {}) \/ VolumeRead
-----------------------------------------------------------------------------
\* Every row is unborn or has the columns its table declares, with the CHECK
\* constraints of migration 000021.
ComputeTypeOK ==
  /\ image \in [Images -> Row([born : {TRUE}, live : BOOLEAN, owner : Projects, public : BOOLEAN])]
  /\ quota \in [Projects -> Quotas \cup {None}]
  /\ server \in [Workloads -> Row([born : {TRUE}, live : {TRUE}, state : States,
                                   provider : Providers \cup {None}, image : Images \cup {None}])]
  /\ volume \in [Volumes -> Row([born : {TRUE}, live : BOOLEAN, owner : Projects, size : Sizes,
                                 state : {"available", "in-use", "deleting"},
                                 provider : Providers \cup {None}, workload : Workloads \cup {None},
                                 ceiling : {q["storage_gb"] : q \in Quotas} \cup {None}])]
  /\ erased \subseteq Volumes
  /\ \A v \in Live(volume) : (volume[v].state = "in-use") = (volume[v].workload # None)

\* A volume in use is attached to a workload of its own project that runs on
\* the provider the volume is bound to, and to no other workload's volume:
\* what ListAttachedForWorkload puts into a deploy exists where it is sent.
AttachmentIsLocal == \A v \in Live(volume) : volume[v].workload # None =>
  /\ ProjectOf[volume[v].workload] = volume[v].owner
  /\ server[volume[v].workload].provider = volume[v].provider
  /\ \A u \in Live(volume) \ {v} : volume[u].workload # volume[v].workload

\* A volume that ever was bound to a provider is only marked deleted once its
\* Agent has confirmed the erasure, whichever requests fail, time out, retry
\* or lose a race in between (deleteVolume: never without confirmation).
DeletedIsErased == \A v \in Volumes :
  volume[v].born /\ ~volume[v].live /\ volume[v].provider # None => v \in erased

\* A server created through Nova runs an image that its own project registered or another made
\* public, however image deletions race the request (resolveImageRef).
ServersUseVisibleImages == \A w \in Live(server) : server[w].image # None =>
  LET i == image[server[w].image] IN i.owner = ProjectOf[w] \/ i.public

\* The volumes of c that were admitted under a quota.
Admitted(c) == {v \in Live(volume) : volume[v].owner = c /\ volume[v].ceiling # None}
AdmittedStorage(c) == Cardinality(Gigabytes(Admitted(c)))

\* However concurrent requests interleave with SetQuota, a volume admitted
\* under a quota leaves what was admitted within it: no two requests spend
\* the same room (the FOR UPDATE of CreateVolume).  Volumes created while the
\* project had no quota row, or by a request that still saw none, come on top.
AdmittedStep ==
  \A v \in Volumes : volume'[v].live /\ ~volume[v].live /\ volume'[v].ceiling # None =>
    \A c \in Projects : c = volume'[v].owner => AdmittedStorage(c)' <= volume'[v].ceiling

\* A detach takes a volume only from the workload its request read: it never
\* undoes an attachment made since (DetachVolume's WHERE clause).
DetachStep ==
  \A v \in Live(volume) :
    volume[v].workload # None /\ v \in Live(volume)' /\ volume'[v].workload # volume[v].workload =>
      \E r \in Requests : request[r].op = "detach" /\ request[r].volume = v
                          /\ request[r].workload = volume[v].workload

\* A volume's data stays on the provider that first held it: through detaches,
\* failed deletions and attachments to other workloads, provider_id never
\* changes once set (ADR-034, no portability between providers).
BoundStep ==
  \A v \in Live(volume) : volume[v].provider # None => volume'[v].provider = volume[v].provider
=============================================================================
