------------------------------ MODULE Neutron ------------------------------
(***************************************************************************)
(* internal/openstackapi/neutron: networks, subnets, ports and security    *)
(* groups.  An address is a number and a CIDR the set of its addresses.    *)
(***************************************************************************)
EXTENDS OpenStackApi

CONSTANTS
  Networks, Subnets, Ports, Groups,     \* the uuids the server can mint
  Rules,          \* security-group rules, by what they permit
  CIDRs,          \* the CIDRs a tenant may ask for
  Gateways,       \* the gateway addresses it may name, None: none
  LegacyRange     \* 10.254.0.0/16, the addresses of ADR-010's overlay

ASSUME NeutronAssumption ==
  \A cidr \in CIDRs \cup {LegacyRange} :
    /\ cidr \subseteq Nat
    /\ \E first, last \in cidr : cidr = first .. last

VARIABLES
  network,    \* neutron_networks
  subnet,     \* neutron_subnets
  port,       \* neutron_ports
  group,      \* neutron_security_groups and their rules
  attached    \* neutron_port_security_groups

neutronVars == <<network, subnet, port, group, attached>>
-----------------------------------------------------------------------------
(* Lookups: the project filter is part of the query.                       *)

GetNetwork(n, c) == n \in Live(network) /\ (network[n].owner = c \/ network[n].shared)

GetSubnet(s, c) == s \in Live(subnet) /\ subnet[s].owner = c

GetPort(p, c) == p \in Live(port) /\ port[p].owner = c

GetSecurityGroup(g, c) == g \in Live(group) /\ group[g].owner = c

ListNetworks(c) == {n \in Networks : GetNetwork(n, c)}
ListSubnets(c) == {s \in Subnets : GetSubnet(s, c)}
ListPorts(c) == {p \in Ports : GetPort(p, c)}
ListSecurityGroups(c) == {g \in Groups : GetSecurityGroup(g, c)}

Answer(c, owners) == Shown(c, owners) /\ UNCHANGED neutronVars

\* A shared network is anyone's to read: it is not counted as foreign.
listNetworks(c) == Answer(c, {network[n].owner : n \in {m \in ListNetworks(c) : ~network[m].shared}})
showNetwork(c) == \E n \in Networks :
  /\ GetNetwork(n, c)
  /\ Answer(c, IF network[n].shared THEN {} ELSE {network[n].owner})
listSubnets(c) == Answer(c, {subnet[s].owner : s \in ListSubnets(c)})
showSubnet(c) == \E s \in Subnets : GetSubnet(s, c) /\ Answer(c, {subnet[s].owner})
\* A port's answer carries the groups attached to it.
PortBody(p) == {port[p].owner} \cup {group[g].owner : g \in attached[p]}
listPorts(c) == Answer(c, UNION {PortBody(p) : p \in ListPorts(c)})
showPort(c) == \E p \in Ports : GetPort(p, c) /\ Answer(c, PortBody(p))
listSecurityGroups(c) == Answer(c, {group[g].owner : g \in ListSecurityGroups(c)})
showSecurityGroup(c) == \E g \in Groups : GetSecurityGroup(g, c) /\ Answer(c, {group[g].owner})
\* Rules are found by their own project_id, also those of a deleted group.
ListRules(g, c) == IF group[g].born /\ group[g].owner = c THEN group[g].rules ELSE {}
listSecurityGroupRules(c) == \E g \in Groups :
  ListRules(g, c) # {} /\ Answer(c, {group[g].owner})
showSecurityGroupRule(c) == \E g \in Groups : \E rule \in ListRules(g, c) : Answer(c, {group[g].owner})
-----------------------------------------------------------------------------
(* Networks and subnets.                                                   *)

createNetwork(c, shared) == \E n \in Mintable(network) :
  /\ network' = [network EXCEPT ![n] = [born |-> TRUE, live |-> TRUE, owner |-> c, shared |-> shared]]
  /\ UNCHANGED <<subnet, port, group, attached, request>>

deleteNetwork(c, n) ==
  /\ n \in Live(network) /\ network[n].owner = c
  /\ \A s \in Live(subnet) : subnet[s].network # n
  /\ network' = [network EXCEPT ![n].live = FALSE]
  /\ UNCHANGED <<subnet, port, group, attached, request>>

cidrsOverlap(a, b) == Min(b) \in a \/ Min(a) \in b

\* The gateway may be absent; it lies anywhere in the CIDR.
validateSubnetCIDR(cidr, gateway) ==
  /\ ~cidrsOverlap(cidr, LegacyRange)
  /\ gateway \in cidr \cup {None}

MayExtend(c, n) == GetNetwork(n, c) /\ network[n].owner = c

\* The network, the CIDR and the live CIDRs of every project are checked ...
createSubnet(r, c, n, cidr, gateway) ==
  /\ MayExtend(c, n)
  /\ validateSubnetCIDR(cidr, gateway)
  /\ \A s \in Live(subnet) : ~cidrsOverlap(cidr, subnet[s].cidr)
  /\ Begin(r, [op |-> "subnet", network |-> n, owner |-> c, cidr |-> cidr, gateway |-> gateway])
  /\ UNCHANGED <<network, subnet, port, group, attached>>

\* ... and the row inserted in a later statement; the unique index refuses
\* only the very same CIDR.
CreateSubnet(r) ==
  /\ request[r].op = "subnet"
  /\ LET q == request[r] IN
     \/ /\ \A s \in Live(subnet) : subnet[s].cidr # q.cidr
        /\ \E s \in Mintable(subnet) :
             subnet' = [subnet EXCEPT ![s] = [born |-> TRUE, live |-> TRUE, owner |-> q.owner,
                          network |-> q.network, cidr |-> q.cidr, gateway |-> q.gateway]]
     \/ /\ \E s \in Live(subnet) : subnet[s].cidr = q.cidr
        /\ UNCHANGED subnet
  /\ Finish(r)
  /\ UNCHANGED <<network, port, group, attached>>

deleteSubnet(c, s) ==
  /\ GetSubnet(s, c)
  /\ \A p \in Live(port) : port[p].subnet # s
  /\ subnet' = [subnet EXCEPT ![s].live = FALSE]
  /\ UNCHANGED <<network, port, group, attached, request>>
-----------------------------------------------------------------------------
(* Ports.                                                                  *)

Taken(s) == {port[p].ip : p \in {q \in Live(port) : port[q].subnet = s}}

\* The lowest address that is neither the network's, the broadcast's, the
\* gateway's nor taken; None: the pool is exhausted.
allocateFromPool(cidr, gateway, taken) ==
  LET free == ((Min(cidr) + 1) .. (Max(cidr) - 1)) \ ({gateway} \cup taken)
  IN IF free = {} THEN None ELSE Min(free)

\* The network is the caller's or shared, the subnet one of its owner's on it.
createPort(c, s) ==
  /\ s \in Live(subnet)
  /\ GetNetwork(subnet[s].network, c)
  /\ GetSubnet(s, network[subnet[s].network].owner)

\* Mutant: no advisory lock.
UnlockedAlways(s) == TRUE
\* pg_advisory_xact_lock: no other transaction is allocating in s.
Unlocked(s) == \A r \in Requests : request[r].op = "port" => request[r].subnet # s

\* Under the lock the subnet is read and the address chosen ...
AllocatePort(r, c, s) ==
  /\ createPort(c, s)
  /\ Unlocked(s)
  /\ LET ip == allocateFromPool(subnet[s].cidr, subnet[s].gateway, Taken(s)) IN
     /\ ip # None
     /\ Begin(r, [op |-> "port", subnet |-> s, owner |-> c, ip |-> ip])
  /\ UNCHANGED <<network, subnet, port, group, attached>>

\* ... then the row is inserted and the lock released with the commit.  The
\* index (subnet_id, fixed_ip) would refuse a taken address.
CreatePort(r) ==
  /\ request[r].op = "port"
  /\ LET q == request[r] IN
     \E p \in Mintable(port) : port' =
        IF q.ip \in Taken(q.subnet) THEN port
        ELSE [port EXCEPT ![p] = [born |-> TRUE, live |-> TRUE, owner |-> q.owner,
                                  subnet |-> q.subnet, ip |-> q.ip, workload |-> None]]
  /\ Finish(r)
  /\ UNCHANGED <<network, subnet, group, attached>>

WorkloadOwned(w, c) == ProjectOf[w] = c

\* The index on workload_id admits one live port per workload.
BindPort(p, w) ==
  /\ port[p].workload \in {None, w}
  /\ \A q \in Live(port) \ {p} : port[q].workload # w
  /\ port' = [port EXCEPT ![p].workload = w]

UnbindPort(p) == port' = [port EXCEPT ![p].workload = None]

\* PUT with a device_id; an update of the groups is ReplacePortGroups.
updatePort(c, p, device) ==
  /\ GetPort(p, c)
  /\ \/ device = None /\ UnbindPort(p)
     \/ device # None /\ WorkloadOwned(device, c) /\ BindPort(p, device)
  /\ UNCHANGED <<network, subnet, group, attached, request>>

deletePort(c, p) ==
  /\ GetPort(p, c)
  /\ port[p].workload = None
  /\ port' = [port EXCEPT ![p].live = FALSE]
  /\ UNCHANGED <<network, subnet, group, attached, request>>
-----------------------------------------------------------------------------
(* Security groups.                                                        *)

createSecurityGroup(c) == \E g \in Mintable(group) :
  /\ group' = [group EXCEPT ![g] = [born |-> TRUE, live |-> TRUE, owner |-> c, rules |-> {}]]
  /\ UNCHANGED <<network, subnet, port, attached, request>>

deleteSecurityGroup(c, g) ==
  /\ GetSecurityGroup(g, c)
  /\ \A p \in Live(port) : g \notin attached[p]
  /\ group' = [group EXCEPT ![g].live = FALSE]
  /\ UNCHANGED <<network, subnet, port, attached, request>>

createSecurityGroupRule(r, c, g, rule) ==
  /\ GetSecurityGroup(g, c)
  /\ Begin(r, [op |-> "rule", group |-> g, rule |-> rule])
  /\ UNCHANGED <<network, subnet, port, group, attached>>

\* The unique index makes a second identical rule a conflict.
CreateRule(r) ==
  /\ request[r].op = "rule"
  /\ group' = [group EXCEPT ![request[r].group].rules = @ \cup {request[r].rule}]
  /\ Finish(r)
  /\ UNCHANGED <<network, subnet, port, attached>>

deleteSecurityGroupRule(c, g, rule) ==
  /\ rule \in ListRules(g, c)
  /\ group' = [group EXCEPT ![g].rules = @ \ {rule}]
  /\ UNCHANGED <<network, subnet, port, attached, request>>

GroupUsable(g, c) == GetSecurityGroup(g, c)

\* The transaction checks the port and every group, without locking them ...
CheckPortGroups(r, c, p, groups) ==
  /\ GetPort(p, c)
  /\ \A g \in groups : GroupUsable(g, c)
  /\ Begin(r, [op |-> "groups", port |-> p, groups |-> groups])
  /\ UNCHANGED <<network, subnet, port, group, attached>>

\* ... and replaces the whole set.
ReplacePortGroups(r) ==
  /\ request[r].op = "groups"
  /\ attached' = [attached EXCEPT ![request[r].port] = request[r].groups]
  /\ Finish(r)
  /\ UNCHANGED <<network, subnet, port, group>>

\* What a deploy of w sends to the Agent: the groups whose rules are joined.
PortForWorkload(w) == {p \in Live(port) : port[p].workload = w}
ListForPort(p) == attached[p]
ResolveForWorkload(w) == UNION {ListForPort(p) : p \in PortForWorkload(w)}
-----------------------------------------------------------------------------
NeutronInit ==
  /\ network = [n \in Networks |-> Unborn]
  /\ subnet = [s \in Subnets |-> Unborn]
  /\ port = [p \in Ports |-> Unborn]
  /\ group = [g \in Groups |-> Unborn]
  /\ attached = [p \in Ports |-> {}]

NeutronRead == \E c \in {t \in Scopes : requireProjectID(t)} :
  \/ listNetworks(c) \/ showNetwork(c) \/ listSubnets(c) \/ showSubnet(c)
  \/ listPorts(c) \/ showPort(c) \/ listSecurityGroups(c) \/ showSecurityGroup(c)
  \/ listSecurityGroupRules(c) \/ showSecurityGroupRule(c)

NeutronHandler(c, r) ==
  \/ \E shared \in BOOLEAN : createNetwork(c, shared)
  \/ \E n \in Networks : deleteNetwork(c, n)
  \/ \E n \in Networks, cidr \in CIDRs, gateway \in Gateways : createSubnet(r, c, n, cidr, gateway)
  \/ CreateSubnet(r)
  \/ \E s \in Subnets : deleteSubnet(c, s) \/ AllocatePort(r, c, s)
  \/ CreatePort(r)
  \/ \E p \in Ports :
       \/ \E device \in Workloads \cup {None} : updatePort(c, p, device)
       \/ deletePort(c, p)
       \/ \E groups \in SUBSET Groups : CheckPortGroups(r, c, p, groups)
  \/ ReplacePortGroups(r)
  \/ createSecurityGroup(c)
  \/ \E g \in Groups :
       \/ deleteSecurityGroup(c, g)
       \/ \E rule \in Rules : createSecurityGroupRule(r, c, g, rule) \/ deleteSecurityGroupRule(c, g, rule)
  \/ CreateRule(r)
NeutronWrite == \E c \in {t \in Scopes : requireProjectID(t)}, r \in Requests : NeutronHandler(c, r)

NeutronNext ==
  \/ NeutronWrite /\ foreign' = {}
  \/ NeutronRead
-----------------------------------------------------------------------------
\* Every row is unborn, or has the columns its table declares, and the port of
\* a request in flight and the rows it names exist.
NeutronTypeOK ==
  /\ network \in [Networks -> Row([born : {TRUE}, live : BOOLEAN, owner : Projects, shared : BOOLEAN])]
  /\ subnet \in [Subnets -> Row([born : {TRUE}, live : BOOLEAN, owner : Projects, network : Networks,
                                 cidr : CIDRs, gateway : Gateways])]
  /\ port \in [Ports -> Row([born : {TRUE}, live : BOOLEAN, owner : Projects, subnet : Subnets,
                             ip : UNION CIDRs, workload : Workloads \cup {None}])]
  /\ group \in [Groups -> Row([born : {TRUE}, live : BOOLEAN, owner : Projects, rules : SUBSET Rules])]
  /\ attached \in [Ports -> SUBSET Groups]
  /\ \A p \in Live(port) : subnet[port[p].subnet].born
  /\ \A p \in Ports : \A g \in attached[p] : port[p].born /\ group[g].born

\* The rules a deploy of a workload enforces come from security groups of the
\* workload's own project, through a port of that project: neither a binding
\* nor an attachment nor a shared network lets one tenant shape the traffic of
\* another (ResolveForWorkload after updatePort and ReplacePortGroups).
ResolvedRulesAreOwned == \A w \in Workloads :
  /\ \A p \in PortForWorkload(w) : port[p].owner = ProjectOf[w]
  /\ \A g \in ResolveForWorkload(w) : group[g].owner = ProjectOf[w]

\* However port creations, deletions and changes of the subnets interleave,
\* a live port's fixed_ip is a host address of its subnet, not the gateway's,
\* and no other live port of that subnet has it (allocateFromPool).
AddressesUsable == \A p \in Live(port) :
  LET s == subnet[port[p].subnet] IN
  /\ port[p].ip \in s.cidr \ {Min(s.cidr), Max(s.cidr), s.gateway}
  /\ \A q \in Live(port) \ {p} : port[q].subnet = port[p].subnet => port[q].ip # port[p].ip

\* The address a transaction chose is still free when it inserts the row: the
\* advisory lock makes the scan and the claim one step, and CreatePort never
\* fails on the index (the purpose its comment states).
ClaimedAddressIsFree == \A r \in Requests :
  request[r].op = "port" => request[r].ip \notin Taken(request[r].subnet)

\* A shared network is read-attach, not co-write: every subnet on it, whenever
\* it was added, belongs to the network's own project (createSubnet).
SubnetsBelongToNetwork == \A s \in Subnets :
  subnet[s].born => subnet[s].owner = network[subnet[s].network].owner
=============================================================================
