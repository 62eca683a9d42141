------------------------------- MODULE Cloud --------------------------------
(***************************************************************************)
(* The OpenStack services behind one listener.  The tables they share are  *)
(* few, so a specification follows one group of services at a time:        *)
(* networks (which read nothing of a workload but its project), images     *)
(* with the servers created from them, and volumes with the servers that   *)
(* a project has already.                                                  *)
(***************************************************************************)
EXTENDS Neutron, Cinder

VARIABLE service

vars == <<apiVars, neutronVars, computeVars, service>>

\* A workload submitted over gRPC names its image itself.
Submitted == [born |-> TRUE, live |-> TRUE, state |-> "WAITING", provider |-> None, image |-> None]

Init ==
  /\ ApiInit /\ NeutronInit
  /\ image = [i \in Images |-> Unborn]
  /\ quota = [c \in Projects |-> None]
  /\ volume = [v \in Volumes |-> Unborn]
  /\ erased = {}
  /\ \/ service \in {"network", "compute"} /\ server = [w \in Workloads |-> Unborn]
     \/ /\ service = "volume"
        /\ \E c \in Projects : server = [w \in Workloads |-> IF ProjectOf[w] = c THEN Submitted ELSE Unborn]

Next ==
  /\ \/ service = "network" /\ NeutronNext /\ UNCHANGED computeVars
     \/ service = "compute" /\ ComputeNext /\ UNCHANGED neutronVars
     \/ service = "volume" /\ VolumeNext /\ UNCHANGED neutronVars
  /\ UNCHANGED service

Spec == Init /\ [][Next]_vars

\* Addresses and subnets: well formed, never handed out twice or claimed under
\* another request, on networks whose owner made them (CreatePort, createSubnet).
NetworkIsSound == NeutronTypeOK /\ AddressesUsable /\ ClaimedAddressIsFree /\ SubnetsBelongToNetwork

\* No project reads, runs, mounts or enforces what belongs to another and was
\* not shared with it, through any handler or any two of them in a row.
TenantsAreIsolated == RepliesAreOwn /\ ResolvedRulesAreOwned /\ ServersUseVisibleImages /\ AttachmentIsLocal

\* Rows of servers and volumes are well formed, and a volume's row goes only
\* after its data has (deleteVolume).
VolumesAreSound == ComputeTypeOK /\ DeletedIsErased

\* What a step may never do to a volume: admit it beyond its project's quota,
\* take it from a workload the request did not name, move it to another
\* provider (CreateVolume, DetachVolume, AttachVolume).
VolumesAreKept == [][AdmittedStep /\ DetachStep /\ BoundStep]_vars
=============================================================================
