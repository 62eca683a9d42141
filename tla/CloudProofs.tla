---------------------------- MODULE CloudProofs -----------------------------
(***************************************************************************)
(* Theorems about the OpenStack services: what a request in flight has     *)
(* read still holds when it writes.  Each group of services keeps its own  *)
(* invariant and leaves the tables of the others as they began.            *)
(***************************************************************************)
EXTENDS Cloud, FiniteSetTheorems, WellFoundedInduction, TLAPS

-----------------------------------------------------------------------------
(* Addresses.                                                              *)

\* A nonempty set of numbers has a least one, and Min is it.
LEMMA MinIsLeast ==
  ASSUME NEW T \in SUBSET Nat, T # {}
  PROVE  Min(T) \in T
<1> DEFINE R == {ss \in Nat \X Nat : ss[1] < ss[2]}
<1>1. PICK x \in T : \A y \in T : ~(<<y, x>> \in R)
  <2>1. IsWellFoundedOn(R, Nat)
    BY NatLessThanWellFounded DEF OpToRel
  <2> HIDE DEF R
  <2>2. QED
    BY <2>1, WFMin
<1>2. ASSUME NEW y \in T PROVE x <= y
  <2>1. x \in Nat /\ y \in Nat /\ <<y, x>> \in Nat \X Nat /\ <<y, x>> \notin R
    BY <1>1
  <2>2. ~(y < x)
    BY <2>1
  <2>3. QED
    BY <2>1, <2>2
<1>3. QED
  BY <1>2 DEF Min

\* The first and the last address of a CIDR.
LEMMA CidrEnds ==
  ASSUME NEW cidr \in CIDRs
  PROVE  /\ cidr \subseteq Nat /\ Min(cidr) \in cidr /\ Max(cidr) \in cidr
         /\ cidr = Min(cidr) .. Max(cidr)
<1>1. cidr \subseteq Nat /\ \E first, last \in cidr : cidr = first .. last
  BY NeutronAssumption
<1>2. PICK first \in cidr, last \in cidr : cidr = first .. last
  BY <1>1
<1>3. first \in Nat /\ last \in Nat /\ \A x \in cidr : x \in Nat /\ first <= x /\ x <= last
  BY <1>1, <1>2
<1>4. Min(cidr) \in cidr /\ \A y \in cidr : Min(cidr) <= y
  BY <1>3 DEF Min
<1>5. Max(cidr) \in cidr /\ \A y \in cidr : Max(cidr) >= y
  BY <1>3 DEF Max
<1>6. Min(cidr) = first /\ Max(cidr) = last
  BY <1>1, <1>3, <1>4, <1>5
<1>7. QED
  BY <1>1, <1>2, <1>4, <1>5, <1>6

\* The addresses a port of a subnet with this CIDR and gateway may have.
Hosts(cidr, gateway) == cidr \ {Min(cidr), Max(cidr), gateway}

\* What allocateFromPool returns is a host address that was not taken.
LEMMA AllocateIsUsable ==
  ASSUME NEW cidr \in CIDRs, NEW gateway, NEW taken,
         allocateFromPool(cidr, gateway, taken) # None
  PROVE  /\ allocateFromPool(cidr, gateway, taken) \in Hosts(cidr, gateway)
         /\ allocateFromPool(cidr, gateway, taken) \notin taken
<1> DEFINE free == ((Min(cidr) + 1) .. (Max(cidr) - 1)) \ ({gateway} \cup taken)
<1>1. cidr \subseteq Nat /\ Min(cidr) \in Nat /\ Max(cidr) \in Nat /\ cidr = Min(cidr) .. Max(cidr)
  BY CidrEnds
<1>2. free \in SUBSET Nat
  BY <1>1
<1>3. free # {} /\ allocateFromPool(cidr, gateway, taken) = Min(free)
  BY DEF allocateFromPool
<1>4. Min(free) \in free
  <2> HIDE DEF free
  <2>1. QED
    BY <1>2, <1>3, MinIsLeast
<1>5. \A x \in free : x \in Hosts(cidr, gateway) /\ x \notin taken
  BY <1>1 DEF Hosts
<1>6. QED
  BY <1>3, <1>4, <1>5, Zenon
-----------------------------------------------------------------------------
(* Networks.                                                               *)

NetworkRow == [born : {TRUE}, live : BOOLEAN, owner : Projects, shared : BOOLEAN]
SubnetRow == [born : {TRUE}, live : BOOLEAN, owner : Projects, network : Networks,
              cidr : CIDRs, gateway : Gateways]
PortRow == [born : {TRUE}, live : BOOLEAN, owner : Projects, subnet : Subnets,
            ip : UNION CIDRs, workload : Workloads \cup {None}]
GroupRow == [born : {TRUE}, live : BOOLEAN, owner : Projects, rules : SUBSET Rules]

SubnetRequest == [op : {"subnet"}, network : Networks, owner : Projects, cidr : CIDRs, gateway : Gateways]
PortRequest == [op : {"port"}, subnet : Subnets, owner : Projects, ip : UNION CIDRs]
RuleRequest == [op : {"rule"}, group : Groups, rule : Rules]
GroupsRequest == [op : {"groups"}, port : Ports, groups : SUBSET Groups]
NetworkRequest == {Idle} \cup SubnetRequest \cup PortRequest \cup RuleRequest \cup GroupsRequest

NetworkTyped ==
  /\ network \in [Networks -> Row(NetworkRow)]
  /\ subnet \in [Subnets -> Row(SubnetRow)]
  /\ port \in [Ports -> Row(PortRow)]
  /\ group \in [Groups -> Row(GroupRow)]
  /\ attached \in [Ports -> SUBSET Groups]
  /\ request \in [Requests -> NetworkRequest]

\* A subnet, and a request that will insert one, is on a network of its owner.
SubnetsHaveNetworks ==
  /\ \A s \in Subnets : subnet[s].born =>
       network[subnet[s].network].born /\ network[subnet[s].network].owner = subnet[s].owner
  /\ \A r \in Requests : request[r].op = "subnet" =>
       network[request[r].network].born /\ network[request[r].network].owner = request[r].owner

\* A port, and a request that will insert one, has a host address of its subnet.
PortsHaveSubnets ==
  /\ \A p \in Ports : port[p].born =>
       /\ subnet[port[p].subnet].born
       /\ port[p].ip \in Hosts(subnet[port[p].subnet].cidr, subnet[port[p].subnet].gateway)
  /\ \A r \in Requests : request[r].op = "port" =>
       /\ subnet[request[r].subnet].born
       /\ request[r].ip \in Hosts(subnet[request[r].subnet].cidr, subnet[request[r].subnet].gateway)

\* No two live ports have one address, no claim is of a taken one, and the
\* lock admits one claim on a subnet.
AddressesAreDistinct ==
  /\ \A p, q \in Live(port) : p # q /\ port[p].subnet = port[q].subnet => port[p].ip # port[q].ip
  /\ \A r \in Requests, p \in Live(port) :
       request[r].op = "port" /\ request[r].subnet = port[p].subnet => request[r].ip # port[p].ip
  /\ \A r, x \in Requests :
       r # x /\ request[r].op = "port" /\ request[x].op = "port" => request[r].subnet # request[x].subnet

\* Groups are attached, or about to be, to ports of their own project.
GroupsAreOwn ==
  /\ \A p \in Ports : \A g \in attached[p] :
       port[p].born /\ group[g].born /\ group[g].owner = port[p].owner
  /\ \A r \in Requests : request[r].op = "groups" =>
       /\ port[request[r].port].born
       /\ \A g \in request[r].groups : group[g].born /\ group[g].owner = port[request[r].port].owner
  /\ \A r \in Requests : request[r].op = "rule" => group[request[r].group].born

\* A port is bound to a workload of its own project.
BindingsAreOwn == \A p \in Ports :
  port[p].born /\ port[p].workload # None => port[p].owner = ProjectOf[port[p].workload]

NetworkInv == /\ NetworkTyped /\ SubnetsHaveNetworks /\ PortsHaveSubnets
              /\ AddressesAreDistinct /\ GroupsAreOwn /\ BindingsAreOwn

\* What a request holds is told by its op.
LEMMA NetworkRequestKinds ==
  ASSUME NEW q \in NetworkRequest
  PROVE  /\ q.op = "subnet" => q \in SubnetRequest
         /\ q.op = "port" => q \in PortRequest
         /\ q.op = "rule" => q \in RuleRequest
         /\ q.op = "groups" => q \in GroupsRequest
BY DEF NetworkRequest, SubnetRequest, PortRequest, RuleRequest, GroupsRequest, Idle

\* A row that was minted has its columns, and only such a row is live.
LEMMA RowKinds ==
  ASSUME NetworkTyped
  PROVE  /\ \A n \in Networks : (network[n].born => network[n] \in NetworkRow)
                                /\ (network[n].live => network[n].born)
         /\ \A s \in Subnets : (subnet[s].born => subnet[s] \in SubnetRow)
                                /\ (subnet[s].live => subnet[s].born)
         /\ \A p \in Ports : (port[p].born => port[p] \in PortRow)
                                /\ (port[p].live => port[p].born)
         /\ \A g \in Groups : (group[g].born => group[g] \in GroupRow)
                                /\ (group[g].live => group[g].born)
<1>1. \A x \in Row(NetworkRow) : (x.born => x \in NetworkRow) /\ (x.live => x.born)
  <2>1. Unborn.born = FALSE /\ Unborn.live = FALSE
    BY Zenon DEF Unborn
  <2>2. \A x \in NetworkRow : x.born = TRUE
    BY Zenon DEF NetworkRow
  <2>3. QED
    BY <2>1, <2>2, Zenon DEF Row
<1>2. \A x \in Row(SubnetRow) : (x.born => x \in SubnetRow) /\ (x.live => x.born)
  <2>1. Unborn.born = FALSE /\ Unborn.live = FALSE
    BY Zenon DEF Unborn
  <2>2. \A x \in SubnetRow : x.born = TRUE
    BY Zenon DEF SubnetRow
  <2>3. QED
    BY <2>1, <2>2, Zenon DEF Row
<1>3. \A x \in Row(PortRow) : (x.born => x \in PortRow) /\ (x.live => x.born)
  <2>1. Unborn.born = FALSE /\ Unborn.live = FALSE
    BY Zenon DEF Unborn
  <2>2. \A x \in PortRow : x.born = TRUE
    BY Zenon DEF PortRow
  <2>3. QED
    BY <2>1, <2>2, Zenon DEF Row
<1>4. \A x \in Row(GroupRow) : (x.born => x \in GroupRow) /\ (x.live => x.born)
  <2>1. Unborn.born = FALSE /\ Unborn.live = FALSE
    BY Zenon DEF Unborn
  <2>2. \A x \in GroupRow : x.born = TRUE
    BY Zenon DEF GroupRow
  <2>3. QED
    BY <2>1, <2>2, Zenon DEF Row
<1>5. QED
  BY <1>1, <1>2, <1>3, <1>4 DEF NetworkTyped

\* Deleting a row of network changes nothing but deleted_at.
LEMMA NetworkRetired ==
  ASSUME NEW x \in NetworkRow, NEW y, y = [x EXCEPT !.live = FALSE]
  PROVE  y \in NetworkRow /\ y.born /\ y.live = FALSE /\ y.owner = x.owner /\ y.shared = x.shared
<1> DEFINE no == FALSE
<1>1. no \in BOOLEAN
  BY Zenon
<1>2. y = [x EXCEPT !.live = no]
  BY Zenon
<1> HIDE DEF no
<1>3. y \in NetworkRow /\ y.owner = x.owner /\ y.shared = x.shared
  BY <1>1, <1>2 DEF NetworkRow
<1>4. y.live = no /\ y.born = TRUE
  BY <1>2, <1>3 DEF NetworkRow
<1>5. QED
  BY <1>3, <1>4, Zenon DEF no

\* Deleting a row of subnet changes nothing but deleted_at.
LEMMA SubnetRetired ==
  ASSUME NEW x \in SubnetRow, NEW y, y = [x EXCEPT !.live = FALSE]
  PROVE  y \in SubnetRow /\ y.born /\ y.live = FALSE /\ y.owner = x.owner /\ y.network = x.network /\ y.cidr = x.cidr /\ y.gateway = x.gateway
<1> DEFINE no == FALSE
<1>1. no \in BOOLEAN
  BY Zenon
<1>2. y = [x EXCEPT !.live = no]
  BY Zenon
<1> HIDE DEF no
<1>3. y \in SubnetRow /\ y.owner = x.owner /\ y.network = x.network /\ y.cidr = x.cidr /\ y.gateway = x.gateway
  BY <1>1, <1>2 DEF SubnetRow
<1>4. y.live = no /\ y.born = TRUE
  BY <1>2, <1>3 DEF SubnetRow
<1>5. QED
  BY <1>3, <1>4, Zenon DEF no

\* Deleting a row of port changes nothing but deleted_at.
LEMMA PortRetired ==
  ASSUME NEW x \in PortRow, NEW y, y = [x EXCEPT !.live = FALSE]
  PROVE  y \in PortRow /\ y.born /\ y.live = FALSE /\ y.owner = x.owner /\ y.subnet = x.subnet /\ y.ip = x.ip /\ y.workload = x.workload
<1> DEFINE no == FALSE
<1>1. no \in BOOLEAN
  BY Zenon
<1>2. y = [x EXCEPT !.live = no]
  BY Zenon
<1> HIDE DEF no
<1>3. y \in PortRow /\ y.owner = x.owner /\ y.subnet = x.subnet /\ y.ip = x.ip /\ y.workload = x.workload
  BY <1>1, <1>2 DEF PortRow
<1>4. y.live = no /\ y.born = TRUE
  BY <1>2, <1>3 DEF PortRow
<1>5. QED
  BY <1>3, <1>4, Zenon DEF no

\* Deleting a row of group changes nothing but deleted_at.
LEMMA GroupRetired ==
  ASSUME NEW x \in GroupRow, NEW y, y = [x EXCEPT !.live = FALSE]
  PROVE  y \in GroupRow /\ y.born /\ y.live = FALSE /\ y.owner = x.owner /\ y.rules = x.rules
<1> DEFINE no == FALSE
<1>1. no \in BOOLEAN
  BY Zenon
<1>2. y = [x EXCEPT !.live = no]
  BY Zenon
<1> HIDE DEF no
<1>3. y \in GroupRow /\ y.owner = x.owner /\ y.rules = x.rules
  BY <1>1, <1>2 DEF GroupRow
<1>4. y.live = no /\ y.born = TRUE
  BY <1>2, <1>3 DEF GroupRow
<1>5. QED
  BY <1>3, <1>4, Zenon DEF no
\* How a step may change each table: mint a row, retire one, or write the one
\* column that is not fixed.
NetworkMove ==
  \/ network' = network
  \/ \E n \in Networks, c \in Projects, shared \in BOOLEAN :
       /\ ~network[n].born
       /\ network' = [network EXCEPT ![n] = [born |-> TRUE, live |-> TRUE, owner |-> c, shared |-> shared]]
  \/ \E n \in Live(network) : network' = [network EXCEPT ![n].live = FALSE]
SubnetMove ==
  \/ subnet' = subnet
  \/ \E s \in Subnets, q \in SubnetRequest :
       /\ ~subnet[s].born
       /\ subnet' = [subnet EXCEPT ![s] = [born |-> TRUE, live |-> TRUE, owner |-> q.owner,
                       network |-> q.network, cidr |-> q.cidr, gateway |-> q.gateway]]
  \/ \E s \in Live(subnet) : subnet' = [subnet EXCEPT ![s].live = FALSE]
PortMove ==
  \/ port' = port
  \/ \E p \in Ports, q \in PortRequest :
       /\ ~port[p].born
       /\ port' = [port EXCEPT ![p] = [born |-> TRUE, live |-> TRUE, owner |-> q.owner,
                                       subnet |-> q.subnet, ip |-> q.ip, workload |-> None]]
  \/ \E p \in Live(port), w \in Workloads \cup {None} : port' = [port EXCEPT ![p].workload = w]
  \/ \E p \in Live(port) : port' = [port EXCEPT ![p].live = FALSE]
GroupMove ==
  \/ group' = group
  \/ \E g \in Groups, c \in Projects :
       /\ ~group[g].born
       /\ group' = [group EXCEPT ![g] = [born |-> TRUE, live |-> TRUE, owner |-> c, rules |-> {}]]
  \/ \E g \in Live(group) : group' = [group EXCEPT ![g].live = FALSE]
  \/ \E g \in Groups, rules \in SUBSET Rules : group[g].born /\ group' = [group EXCEPT ![g].rules = rules]

\* What was minted keeps its columns, and no row is brought back to life.
NetworksKept == \A n \in Networks : network[n].born =>
  network'[n].born /\ network'[n].owner = network[n].owner
SubnetsKept == \A s \in Subnets : subnet[s].born =>
  /\ subnet'[s].born /\ subnet'[s].owner = subnet[s].owner /\ subnet'[s].network = subnet[s].network
  /\ subnet'[s].cidr = subnet[s].cidr /\ subnet'[s].gateway = subnet[s].gateway
PortsKept == \A p \in Ports : port[p].born =>
  /\ port'[p].born /\ port'[p].owner = port[p].owner /\ port'[p].subnet = port[p].subnet
  /\ port'[p].ip = port[p].ip /\ (port'[p].live => port[p].live)
GroupsKept == \A g \in Groups : group[g].born => group'[g].born /\ group'[g].owner = group[g].owner

\* Networks stay typed and keep their owner.
LEMMA NetworkMoveKeeps ==
  ASSUME NetworkTyped, NetworkMove
  PROVE  network' \in [Networks -> Row(NetworkRow)] /\ NetworksKept
<1>1. network \in [Networks -> Row(NetworkRow)]
  BY DEF NetworkTyped
<1>2. CASE network' = network
  BY <1>1, <1>2, Zenon DEF NetworksKept
<1>3. ASSUME NEW n \in Networks, NEW x \in NetworkRow, network' = [network EXCEPT ![n] = x],
             network[n].born => x.owner = network[n].owner
      PROVE  network' \in [Networks -> Row(NetworkRow)] /\ NetworksKept
  <2>1. x \in Row(NetworkRow)
    BY DEF Row
  <2>2. network' \in [Networks -> Row(NetworkRow)]
    BY <1>1, <1>3, <2>1
  <2>3. x.born
    BY Zenon DEF NetworkRow
  <2>4. QED
    BY <1>1, <1>3, <2>2, <2>3 DEF NetworksKept
<1>4. ASSUME NEW n \in Networks, NEW c \in Projects, NEW shared \in BOOLEAN, ~network[n].born,
             network' = [network EXCEPT ![n] = [born |-> TRUE, live |-> TRUE, owner |-> c, shared |-> shared]]
      PROVE  network' \in [Networks -> Row(NetworkRow)] /\ NetworksKept
  <2> DEFINE x == [born |-> TRUE, live |-> TRUE, owner |-> c, shared |-> shared]
  <2>1. x \in NetworkRow
    BY Zenon DEF NetworkRow
  <2> HIDE DEF x
  <2>2. QED
    BY <1>3, <1>4, <2>1, Zenon DEF x
<1>5. ASSUME NEW n \in Live(network), network' = [network EXCEPT ![n].live = FALSE]
      PROVE  network' \in [Networks -> Row(NetworkRow)] /\ NetworksKept
  <2> DEFINE x == [network[n] EXCEPT !.live = FALSE]
  <2>1. n \in Networks /\ network[n].live
    BY <1>1 DEF Live
  <2>2. network[n] \in NetworkRow
    BY <2>1, RowKinds
  <2>3. x \in NetworkRow /\ x.owner = network[n].owner
    BY <2>2, NetworkRetired
  <2>4. network' = [network EXCEPT ![n] = x]
    BY <1>5, Zenon
  <2> HIDE DEF x
  <2>5. QED
    BY <1>3, <2>1, <2>3, <2>4
<1>6. QED
  BY <1>2, <1>4, <1>5 DEF NetworkMove

\* Subnets stay typed and keep their network and addresses.
LEMMA SubnetMoveKeeps ==
  ASSUME NetworkTyped, SubnetMove
  PROVE  subnet' \in [Subnets -> Row(SubnetRow)] /\ SubnetsKept
<1>1. subnet \in [Subnets -> Row(SubnetRow)]
  BY DEF NetworkTyped
<1>2. CASE subnet' = subnet
  BY <1>1, <1>2, Zenon DEF SubnetsKept
<1>3. ASSUME NEW s \in Subnets, NEW x \in SubnetRow, subnet' = [subnet EXCEPT ![s] = x],
             subnet[s].born => x.owner = subnet[s].owner /\ x.network = subnet[s].network
             /\ x.cidr = subnet[s].cidr /\ x.gateway = subnet[s].gateway
      PROVE  subnet' \in [Subnets -> Row(SubnetRow)] /\ SubnetsKept
  <2>1. x \in Row(SubnetRow)
    BY DEF Row
  <2>2. subnet' \in [Subnets -> Row(SubnetRow)]
    BY <1>1, <1>3, <2>1
  <2>3. x.born
    BY Zenon DEF SubnetRow
  <2>4. QED
    BY <1>1, <1>3, <2>2, <2>3 DEF SubnetsKept
<1>4. ASSUME NEW s \in Subnets, NEW q \in SubnetRequest, ~subnet[s].born,
             subnet' = [subnet EXCEPT ![s] = [born |-> TRUE, live |-> TRUE, owner |-> q.owner,
                       network |-> q.network, cidr |-> q.cidr, gateway |-> q.gateway]]
      PROVE  subnet' \in [Subnets -> Row(SubnetRow)] /\ SubnetsKept
  <2> DEFINE x == [born |-> TRUE, live |-> TRUE, owner |-> q.owner,
                       network |-> q.network, cidr |-> q.cidr, gateway |-> q.gateway]
  <2>1. x \in SubnetRow
    <3>1. q.owner \in Projects /\ q.network \in Networks /\ q.cidr \in CIDRs /\ q.gateway \in Gateways
      BY DEF SubnetRequest
    <3>2. QED
      BY <3>1, Zenon DEF SubnetRow
  <2> HIDE DEF x
  <2>2. QED
    BY <1>3, <1>4, <2>1, Zenon DEF x
<1>5. ASSUME NEW s \in Live(subnet), subnet' = [subnet EXCEPT ![s].live = FALSE]
      PROVE  subnet' \in [Subnets -> Row(SubnetRow)] /\ SubnetsKept
  <2> DEFINE x == [subnet[s] EXCEPT !.live = FALSE]
  <2>1. s \in Subnets /\ subnet[s].live
    BY <1>1 DEF Live
  <2>2. subnet[s] \in SubnetRow
    BY <2>1, RowKinds
  <2>3. x \in SubnetRow /\ x.owner = subnet[s].owner /\ x.network = subnet[s].network
             /\ x.cidr = subnet[s].cidr /\ x.gateway = subnet[s].gateway
    BY <2>2, SubnetRetired
  <2>4. subnet' = [subnet EXCEPT ![s] = x]
    BY <1>5, Zenon
  <2> HIDE DEF x
  <2>5. QED
    BY <1>3, <2>1, <2>3, <2>4
<1>6. QED
  BY <1>2, <1>4, <1>5 DEF SubnetMove

\* Ports stay typed and keep their subnet and address.
LEMMA PortMoveKeeps ==
  ASSUME NetworkTyped, PortMove
  PROVE  port' \in [Ports -> Row(PortRow)] /\ PortsKept
<1>1. port \in [Ports -> Row(PortRow)]
  BY DEF NetworkTyped
<1>2. CASE port' = port
  BY <1>1, <1>2, Zenon DEF PortsKept
<1>3. ASSUME NEW p \in Ports, NEW x \in PortRow, port' = [port EXCEPT ![p] = x],
             port[p].born => x.owner = port[p].owner /\ x.subnet = port[p].subnet
             /\ x.ip = port[p].ip /\ (x.live => port[p].live)
      PROVE  port' \in [Ports -> Row(PortRow)] /\ PortsKept
  <2>1. x \in Row(PortRow)
    BY DEF Row
  <2>2. port' \in [Ports -> Row(PortRow)]
    BY <1>1, <1>3, <2>1
  <2>3. x.born
    BY Zenon DEF PortRow
  <2>4. QED
    BY <1>1, <1>3, <2>2, <2>3 DEF PortsKept
<1>4. ASSUME NEW p \in Ports, NEW q \in PortRequest, ~port[p].born,
             port' = [port EXCEPT ![p] = [born |-> TRUE, live |-> TRUE, owner |-> q.owner,
                       subnet |-> q.subnet, ip |-> q.ip, workload |-> None]]
      PROVE  port' \in [Ports -> Row(PortRow)] /\ PortsKept
  <2> DEFINE x == [born |-> TRUE, live |-> TRUE, owner |-> q.owner,
                       subnet |-> q.subnet, ip |-> q.ip, workload |-> None]
  <2>1. x \in PortRow
    <3>1. q.owner \in Projects /\ q.subnet \in Subnets /\ q.ip \in UNION CIDRs /\ None \in Workloads \cup {None}
      BY DEF PortRequest
    <3>2. QED
      BY <3>1, Zenon DEF PortRow
  <2> HIDE DEF x
  <2>2. QED
    BY <1>3, <1>4, <2>1, Zenon DEF x
<1>5. ASSUME NEW p \in Live(port), NEW w \in Workloads \cup {None}, port' = [port EXCEPT ![p].workload = w]
      PROVE  port' \in [Ports -> Row(PortRow)] /\ PortsKept
  <2> DEFINE x == [port[p] EXCEPT !.workload = w]
  <2>1. p \in Ports /\ port[p].live
    BY <1>1 DEF Live
  <2>2. port[p] \in PortRow
    BY <2>1, RowKinds
  <2>3. x \in PortRow /\ x.owner = port[p].owner /\ x.subnet = port[p].subnet /\ x.ip = port[p].ip
    BY <2>2 DEF PortRow
  <2>4. port' = [port EXCEPT ![p] = x]
    BY <1>5, Zenon
  <2> HIDE DEF x
  <2>5. QED
    BY <1>3, <2>1, <2>3, <2>4
<1>6. ASSUME NEW p \in Live(port), port' = [port EXCEPT ![p].live = FALSE]
      PROVE  port' \in [Ports -> Row(PortRow)] /\ PortsKept
  <2> DEFINE x == [port[p] EXCEPT !.live = FALSE]
  <2>1. p \in Ports /\ port[p].live
    BY <1>1 DEF Live
  <2>2. port[p] \in PortRow
    BY <2>1, RowKinds
  <2>3. x \in PortRow /\ x.owner = port[p].owner /\ x.subnet = port[p].subnet
             /\ x.ip = port[p].ip /\ x.live = FALSE
    BY <2>2, PortRetired
  <2>4. port' = [port EXCEPT ![p] = x]
    BY <1>6, Zenon
  <2> HIDE DEF x
  <2>5. QED
    BY <1>3, <2>1, <2>3, <2>4
<1>7. QED
  BY <1>2, <1>4, <1>5, <1>6 DEF PortMove

\* Security groups stay typed and keep their owner.
LEMMA GroupMoveKeeps ==
  ASSUME NetworkTyped, GroupMove
  PROVE  group' \in [Groups -> Row(GroupRow)] /\ GroupsKept
<1>1. group \in [Groups -> Row(GroupRow)]
  BY DEF NetworkTyped
<1>2. CASE group' = group
  BY <1>1, <1>2, Zenon DEF GroupsKept
<1>3. ASSUME NEW g \in Groups, NEW x \in GroupRow, group' = [group EXCEPT ![g] = x],
             group[g].born => x.owner = group[g].owner
      PROVE  group' \in [Groups -> Row(GroupRow)] /\ GroupsKept
  <2>1. x \in Row(GroupRow)
    BY DEF Row
  <2>2. group' \in [Groups -> Row(GroupRow)]
    BY <1>1, <1>3, <2>1
  <2>3. x.born
    BY Zenon DEF GroupRow
  <2>4. QED
    BY <1>1, <1>3, <2>2, <2>3 DEF GroupsKept
<1>4. ASSUME NEW g \in Groups, NEW c \in Projects, ~group[g].born,
             group' = [group EXCEPT ![g] = [born |-> TRUE, live |-> TRUE, owner |-> c, rules |-> {}]]
      PROVE  group' \in [Groups -> Row(GroupRow)] /\ GroupsKept
  <2> DEFINE x == [born |-> TRUE, live |-> TRUE, owner |-> c, rules |-> {}]
  <2>1. x \in GroupRow
    BY Zenon DEF GroupRow
  <2> HIDE DEF x
  <2>2. QED
    BY <1>3, <1>4, <2>1, Zenon DEF x
<1>5. ASSUME NEW g \in Live(group), group' = [group EXCEPT ![g].live = FALSE]
      PROVE  group' \in [Groups -> Row(GroupRow)] /\ GroupsKept
  <2> DEFINE x == [group[g] EXCEPT !.live = FALSE]
  <2>1. g \in Groups /\ group[g].live
    BY <1>1 DEF Live
  <2>2. group[g] \in GroupRow
    BY <2>1, RowKinds
  <2>3. x \in GroupRow /\ x.owner = group[g].owner
    BY <2>2, GroupRetired
  <2>4. group' = [group EXCEPT ![g] = x]
    BY <1>5, Zenon
  <2> HIDE DEF x
  <2>5. QED
    BY <1>3, <2>1, <2>3, <2>4
<1>6. ASSUME NEW g \in Groups, NEW rules \in SUBSET Rules, group[g].born,
             group' = [group EXCEPT ![g].rules = rules]
      PROVE  group' \in [Groups -> Row(GroupRow)] /\ GroupsKept
  <2> DEFINE x == [group[g] EXCEPT !.rules = rules]
  <2>1. group[g] \in GroupRow
    BY <1>6, RowKinds
  <2>2. x \in GroupRow /\ x.owner = group[g].owner
    BY <2>1 DEF GroupRow
  <2>3. group' = [group EXCEPT ![g] = x]
    BY <1>6, Zenon
  <2> HIDE DEF x
  <2>4. QED
    BY <1>3, <2>2, <2>3
<1>7. QED
  BY <1>2, <1>4, <1>5, <1>6 DEF GroupMove

\* A read changes no table and no request.
LEMMA NeutronReads ==
  ASSUME NeutronRead
  PROVE  UNCHANGED <<network, subnet, port, group, attached, request>>
BY DEF NeutronRead, listNetworks, showNetwork, listSubnets, showSubnet, listPorts, showPort,
       listSecurityGroups, showSecurityGroup, listSecurityGroupRules, showSecurityGroupRule,
       Answer, Shown, neutronVars

\* The tokens a handler acts for name a project.
LEMMA TokensAreScoped == {t \in Scopes : requireProjectID(t)} = Projects
BY ApiAssumption DEF Scopes, requireProjectID

\* Every write changes each table in one of the ways above.
LEMMA NeutronMoves ==
  ASSUME NetworkInv, NeutronNext
  PROVE  NetworkMove /\ SubnetMove /\ PortMove /\ GroupMove
<1> DEFINE Goal == NetworkMove /\ SubnetMove /\ PortMove /\ GroupMove
<1> USE DEF neutronVars
<1>1. CASE NeutronRead
  BY <1>1, NeutronReads, Zenon DEF NetworkMove, SubnetMove, PortMove, GroupMove
<1>2. ASSUME NEW c \in Projects, NEW r \in Requests,
             \/ \E shared \in BOOLEAN : createNetwork(c, shared)
             \/ \E n \in Networks : deleteNetwork(c, n)
      PROVE  Goal
  <2>1. NetworkMove
    BY <1>2 DEF createNetwork, deleteNetwork, NetworkMove, Mintable, NetworkInv, NetworkTyped
  <2>2. QED
    BY <1>2, <2>1 DEF createNetwork, deleteNetwork, SubnetMove, PortMove, GroupMove
<1>3. ASSUME NEW c \in Projects, NEW r \in Requests,
             CreateSubnet(r) \/ \E s \in Subnets : deleteSubnet(c, s)
      PROVE  Goal
  <2>1. SubnetMove
    <3>1. CASE CreateSubnet(r)
      <4>1. request[r] \in SubnetRequest
        BY <3>1, NetworkRequestKinds DEF CreateSubnet, NetworkInv, NetworkTyped
      <4>2. QED
        BY <3>1, <4>1 DEF CreateSubnet, SubnetMove, Mintable, NetworkInv, NetworkTyped
    <3>2. QED
      BY <1>3, <3>1 DEF deleteSubnet, SubnetMove, GetSubnet
  <2>2. QED
    BY <1>3, <2>1 DEF CreateSubnet, deleteSubnet, NetworkMove, PortMove, GroupMove
<1>4. ASSUME NEW c \in Projects, NEW r \in Requests,
             \/ CreatePort(r)
             \/ \E p \in Ports, device \in Workloads \cup {None} : updatePort(c, p, device)
             \/ \E p \in Ports : deletePort(c, p)
      PROVE  Goal
  <2>1. PortMove
    <3>1. CASE CreatePort(r)
      <4>1. request[r] \in PortRequest
        BY <3>1, NetworkRequestKinds DEF CreatePort, NetworkInv, NetworkTyped
      <4>2. QED
        BY <3>1, <4>1 DEF CreatePort, PortMove, Mintable, NetworkInv, NetworkTyped
    <3>2. CASE \E p \in Ports : deletePort(c, p)
      BY <3>2 DEF deletePort, PortMove, GetPort
    <3>3. ASSUME NEW p \in Ports, NEW device \in Workloads \cup {None}, updatePort(c, p, device)
          PROVE  PortMove
      <4>1. p \in Live(port) /\ None \in Workloads \cup {None}
        BY <3>3 DEF updatePort, GetPort
      <4>2. QED
        BY <3>3, <4>1 DEF updatePort, UnbindPort, BindPort, PortMove
    <3>4. QED
      BY <1>4, <3>1, <3>2, <3>3
  <2>2. QED
    BY <1>4, <2>1 DEF CreatePort, deletePort, updatePort, NetworkMove, SubnetMove, GroupMove
<1>5. ASSUME NEW c \in Projects, NEW r \in Requests,
             \/ createSecurityGroup(c) \/ CreateRule(r)
             \/ \E g \in Groups : deleteSecurityGroup(c, g)
             \/ \E g \in Groups, rule \in Rules : deleteSecurityGroupRule(c, g, rule)
      PROVE  Goal
  <2>1. GroupMove
    <3>1. CASE createSecurityGroup(c)
      BY <3>1 DEF createSecurityGroup, GroupMove, Mintable, NetworkInv, NetworkTyped
    <3>2. CASE \E g \in Groups : deleteSecurityGroup(c, g)
      BY <3>2 DEF deleteSecurityGroup, GroupMove, GetSecurityGroup
    <3>3. CASE CreateRule(r)
      <4>1. request[r] \in RuleRequest /\ request[r].op = "rule"
        BY <3>3, NetworkRequestKinds DEF CreateRule, NetworkInv, NetworkTyped
      <4>2. request[r].group \in Groups /\ request[r].rule \in Rules /\ group[request[r].group].born
        BY <4>1 DEF RuleRequest, NetworkInv, GroupsAreOwn
      <4>3. group[request[r].group] \in GroupRow
        BY <4>2, RowKinds DEF NetworkInv
      <4>4. group[request[r].group].rules \cup {request[r].rule} \in SUBSET Rules
        BY <4>2, <4>3 DEF GroupRow
      <4>5. group' = [group EXCEPT ![request[r].group].rules =
                        group[request[r].group].rules \cup {request[r].rule}]
        BY <3>3, Zenon DEF CreateRule
      <4>6. QED
        BY <4>2, <4>4, <4>5 DEF GroupMove
    <3>4. ASSUME NEW g \in Groups, NEW rule \in Rules, deleteSecurityGroupRule(c, g, rule)
          PROVE  GroupMove
      <4>1. group[g].born
        BY <3>4 DEF deleteSecurityGroupRule, ListRules
      <4>2. group[g] \in GroupRow
        BY <4>1, RowKinds DEF NetworkInv
      <4>3. group[g].rules \ {rule} \in SUBSET Rules
        BY <4>2 DEF GroupRow
      <4>4. group' = [group EXCEPT ![g].rules = group[g].rules \ {rule}]
        BY <3>4, Zenon DEF deleteSecurityGroupRule
      <4>5. QED
        BY <4>1, <4>3, <4>4 DEF GroupMove
    <3>5. QED
      BY <1>5, <3>1, <3>2, <3>3, <3>4
  <2>2. QED
    BY <1>5, <2>1 DEF createSecurityGroup, deleteSecurityGroup, CreateRule, deleteSecurityGroupRule,
                      NetworkMove, SubnetMove, PortMove
<1>6. ASSUME NEW c \in Projects, NEW r \in Requests,
             \/ \E n \in Networks, cidr \in CIDRs, gateway \in Gateways : createSubnet(r, c, n, cidr, gateway)
             \/ \E s \in Subnets : AllocatePort(r, c, s)
             \/ \E p \in Ports, groups \in SUBSET Groups : CheckPortGroups(r, c, p, groups)
             \/ ReplacePortGroups(r)
             \/ \E g \in Groups, rule \in Rules : createSecurityGroupRule(r, c, g, rule)
      PROVE  Goal
  <2>1. UNCHANGED <<network, subnet, port, group>>
    BY <1>6 DEF createSubnet, AllocatePort, CheckPortGroups, ReplacePortGroups, createSecurityGroupRule
  <2>2. QED
    BY <2>1 DEF NetworkMove, SubnetMove, PortMove, GroupMove
<1>7. CASE NeutronWrite
  <2>1. PICK c \in Projects, r \in Requests : NeutronHandler(c, r)
    BY <1>7, TokensAreScoped DEF NeutronWrite
  <2> HIDE DEF Goal
  <2>2. Goal
    BY <1>2, <1>3, <1>4, <1>5, <1>6, <2>1, Zenon DEF NeutronHandler
  <2>3. QED
    BY <2>2, Zenon DEF Goal
<1>8. QED
  BY <1>1, <1>7 DEF NeutronNext

\* What a handler has established when it begins to wait.
NewRequest(q) ==
  \/ q \in SubnetRequest /\ network[q.network].born /\ network[q.network].owner = q.owner
  \/ /\ q \in PortRequest /\ subnet[q.subnet].born
     /\ q.ip \in Hosts(subnet[q.subnet].cidr, subnet[q.subnet].gateway)
     /\ q.ip \notin Taken(q.subnet) /\ Unlocked(q.subnet)
  \/ q \in RuleRequest /\ group[q.group].born
  \/ /\ q \in GroupsRequest /\ port[q.port].born
     /\ \A g \in q.groups : group[g].born /\ group[g].owner = port[q.port].owner

RequestMove ==
  \/ request' = request
  \/ \E r \in Requests : request' = [request EXCEPT ![r] = Idle]
  \/ \E r \in Requests, q \in NetworkRequest :
       /\ NewRequest(q) /\ request' = [request EXCEPT ![r] = q]
       /\ UNCHANGED <<network, subnet, port, group, attached>>

\* The reads of each handler that waits.
LEMMA BeginMoves ==
  ASSUME NetworkInv, NEW c \in Projects, NEW r \in Requests,
         \/ \E n \in Networks, cidr \in CIDRs, gateway \in Gateways : createSubnet(r, c, n, cidr, gateway)
         \/ \E s \in Subnets : AllocatePort(r, c, s)
         \/ \E p \in Ports, groups \in SUBSET Groups : CheckPortGroups(r, c, p, groups)
         \/ \E g \in Groups, rule \in Rules : createSecurityGroupRule(r, c, g, rule)
  PROVE  RequestMove
<1>1. ASSUME NEW q \in NetworkRequest, NewRequest(q), Begin(r, q),
             UNCHANGED <<network, subnet, port, group, attached>>
      PROVE  RequestMove
  BY <1>1, Zenon DEF RequestMove, Begin
<1>2. ASSUME NEW n \in Networks, NEW cidr \in CIDRs, NEW gateway \in Gateways,
             createSubnet(r, c, n, cidr, gateway)
      PROVE  RequestMove
  <2> DEFINE q == [op |-> "subnet", network |-> n, owner |-> c, cidr |-> cidr, gateway |-> gateway]
  <2>1. q \in SubnetRequest /\ q.network = n /\ q.owner = c
    BY DEF SubnetRequest
  <2>2. n \in Live(network) /\ network[n].owner = c
    BY <1>2 DEF createSubnet, MayExtend, GetNetwork
  <2>3. network[n].born
    BY <2>2, RowKinds DEF Live, NetworkInv
  <2>4. Begin(r, q) /\ UNCHANGED <<network, subnet, port, group, attached>>
    BY <1>2, Zenon DEF createSubnet
  <2> HIDE DEF q
  <2>5. NewRequest(q) /\ q \in NetworkRequest
    BY <2>1, <2>2, <2>3 DEF NewRequest, NetworkRequest
  <2>6. QED
    BY <1>1, <2>4, <2>5
<1>3. ASSUME NEW s \in Subnets, AllocatePort(r, c, s) PROVE RequestMove
  <2> DEFINE ip == allocateFromPool(subnet[s].cidr, subnet[s].gateway, Taken(s))
             q == [op |-> "port", subnet |-> s, owner |-> c, ip |-> ip]
  <2>1. subnet[s].live /\ Unlocked(s) /\ ip # None
    BY <1>3 DEF AllocatePort, createPort, Live
  <2>2. subnet[s].born /\ subnet[s] \in SubnetRow
    BY <2>1, RowKinds DEF NetworkInv
  <2>3. subnet[s].cidr \in CIDRs
    BY <2>2 DEF SubnetRow
  <2>4. ip \in Hosts(subnet[s].cidr, subnet[s].gateway) /\ ip \notin Taken(s)
    BY <2>1, <2>3, AllocateIsUsable
  <2>5. Begin(r, q) /\ UNCHANGED <<network, subnet, port, group, attached>>
    BY <1>3, Zenon DEF AllocatePort
  <2> HIDE DEF ip
  <2>6. ip \in UNION CIDRs
    BY <2>3, <2>4 DEF Hosts
  <2>7. q \in PortRequest /\ q.subnet = s /\ q.ip = ip
    BY <2>6 DEF PortRequest
  <2> HIDE DEF q
  <2>8. NewRequest(q) /\ q \in NetworkRequest
    BY <2>1, <2>2, <2>4, <2>7 DEF NewRequest, NetworkRequest
  <2>9. QED
    BY <1>1, <2>5, <2>8
<1>4. ASSUME NEW p \in Ports, NEW groups \in SUBSET Groups, CheckPortGroups(r, c, p, groups)
      PROVE  RequestMove
  <2> DEFINE q == [op |-> "groups", port |-> p, groups |-> groups]
  <2>1. q \in GroupsRequest /\ q.port = p /\ q.groups = groups
    BY DEF GroupsRequest
  <2>2. port[p].live /\ port[p].owner = c /\ \A g \in groups : group[g].live /\ group[g].owner = c
    BY <1>4 DEF CheckPortGroups, GetPort, GroupUsable, GetSecurityGroup, Live
  <2>3. port[p].born /\ \A g \in groups : group[g].born
    BY <2>2, RowKinds DEF NetworkInv
  <2>4. Begin(r, q) /\ UNCHANGED <<network, subnet, port, group, attached>>
    BY <1>4, Zenon DEF CheckPortGroups
  <2> HIDE DEF q
  <2>5. NewRequest(q) /\ q \in NetworkRequest
    BY <2>1, <2>2, <2>3 DEF NewRequest, NetworkRequest
  <2>6. QED
    BY <1>1, <2>4, <2>5
<1>5. ASSUME NEW g \in Groups, NEW rule \in Rules, createSecurityGroupRule(r, c, g, rule) PROVE RequestMove
  <2> DEFINE q == [op |-> "rule", group |-> g, rule |-> rule]
  <2>1. q \in RuleRequest /\ q.group = g
    BY DEF RuleRequest
  <2>2. group[g].live
    BY <1>5 DEF createSecurityGroupRule, GetSecurityGroup, Live
  <2>3. group[g].born
    BY <2>2, RowKinds DEF NetworkInv
  <2>4. Begin(r, q) /\ UNCHANGED <<network, subnet, port, group, attached>>
    BY <1>5, Zenon DEF createSecurityGroupRule
  <2> HIDE DEF q
  <2>5. NewRequest(q) /\ q \in NetworkRequest
    BY <2>1, <2>3 DEF NewRequest, NetworkRequest
  <2>6. QED
    BY <1>1, <2>4, <2>5
<1>6. QED
  BY <1>2, <1>3, <1>4, <1>5

\* A subnet, a port, a binding or a set of groups appears only through the
\* step that ends its request.
Details ==
  /\ RequestMove
  /\ \A s \in Subnets : subnet'[s].born /\ ~subnet[s].born =>
       \E r \in Requests : /\ request[r].op = "subnet" /\ subnet'[s].owner = request[r].owner
                           /\ subnet'[s].network = request[r].network
  /\ \/ \A p \in Ports : port'[p].born => port[p].born
     \/ \E r \in Requests, p \in Ports :
          /\ request[r].op = "port" /\ request[r].ip \notin Taken(request[r].subnet)
          /\ request' = [request EXCEPT ![r] = Idle]
          /\ ~port[p].born
          /\ port' = [port EXCEPT ![p] =
                        [born |-> TRUE, live |-> TRUE, owner |-> request[r].owner,
                         subnet |-> request[r].subnet, ip |-> request[r].ip, workload |-> None]]
  /\ \A p \in Ports : port'[p].born /\ port'[p].workload # None =>
       /\ port[p].born
       /\ \/ port'[p].workload = port[p].workload
          \/ ProjectOf[port'[p].workload] = port[p].owner
  /\ \/ attached' = attached
     \/ \E r \in Requests : /\ request[r].op = "groups"
                            /\ attached' = [attached EXCEPT ![request[r].port] = request[r].groups]

\* What each Neutron step writes, as one formula about tables and requests.
LEMMA NeutronDetails ==
  ASSUME NetworkInv, NeutronNext
  PROVE  Details
<1> USE DEF NetworkInv, NetworkTyped
<1>1. ASSUME UNCHANGED <<subnet, port, attached>>, RequestMove
      PROVE  Details
  BY <1>1, Zenon DEF Details
<1>2. CASE NeutronRead
  <2>1. RequestMove
    BY <1>2, NeutronReads, Zenon DEF RequestMove
  <2>2. QED
    BY <1>1, <1>2, <2>1, NeutronReads
<1>3. ASSUME NEW c \in Projects, NEW r \in Requests,
             \/ \E shared \in BOOLEAN : createNetwork(c, shared)
             \/ \E n \in Networks : deleteNetwork(c, n)
             \/ createSecurityGroup(c) \/ CreateRule(r)
             \/ \E g \in Groups : deleteSecurityGroup(c, g)
             \/ \E g \in Groups, rule \in Rules : deleteSecurityGroupRule(c, g, rule)
      PROVE  Details
  <2>1. UNCHANGED <<subnet, port, attached>>
    BY <1>3 DEF createNetwork, deleteNetwork, createSecurityGroup, CreateRule, deleteSecurityGroup,
                deleteSecurityGroupRule
  <2>2. request' = request \/ request' = [request EXCEPT ![r] = Idle]
    BY <1>3 DEF createNetwork, deleteNetwork, createSecurityGroup, CreateRule, deleteSecurityGroup,
                deleteSecurityGroupRule, Finish
  <2>3. QED
    BY <1>1, <2>1, <2>2 DEF RequestMove
<1>4. ASSUME NEW c \in Projects, NEW r \in Requests, CreateSubnet(r) PROVE Details
  <2>1. UNCHANGED <<port, attached>> /\ request' = [request EXCEPT ![r] = Idle] /\ request[r].op = "subnet"
    BY <1>4 DEF CreateSubnet, Finish
  <2>2. ASSUME NEW s \in Subnets, subnet'[s].born, ~subnet[s].born
        PROVE  subnet'[s].owner = request[r].owner /\ subnet'[s].network = request[r].network
    BY <1>4, <2>2 DEF CreateSubnet, Mintable
  <2>3. RequestMove
    BY <2>1 DEF RequestMove
  <2>4. QED
    BY <2>1, <2>2, <2>3, Zenon DEF Details
<1>5. ASSUME NEW c \in Projects, NEW r \in Requests, NEW s \in Subnets, deleteSubnet(c, s) PROVE Details
  <2>1. UNCHANGED <<port, attached, request>>
    BY <1>5 DEF deleteSubnet
  <2>2. subnet[s].live
    BY <1>5 DEF deleteSubnet, GetSubnet, Live
  <2>3. subnet[s].born
    BY <2>2, RowKinds
  <2>4. ASSUME NEW u \in Subnets, ~subnet[u].born PROVE subnet'[u] = subnet[u]
    BY <1>5, <2>3, <2>4 DEF deleteSubnet
  <2>5. RequestMove
    BY <2>1, Zenon DEF RequestMove
  <2>6. QED
    BY <2>1, <2>4, <2>5, Zenon DEF Details
<1>6. ASSUME NEW c \in Projects, NEW r \in Requests, CreatePort(r) PROVE Details
  <2> DEFINE x == [born |-> TRUE, live |-> TRUE, owner |-> request[r].owner,
                   subnet |-> request[r].subnet, ip |-> request[r].ip, workload |-> None]
  <2>1. /\ UNCHANGED <<subnet, attached>> /\ request' = [request EXCEPT ![r] = Idle]
        /\ request[r].op = "port"
    BY <1>6 DEF CreatePort, Finish
  <2>2. RequestMove
    BY <2>1 DEF RequestMove
  <2>3. CASE port' = port
    BY <2>1, <2>2, <2>3, Zenon DEF Details
  <2>4. ASSUME NEW p \in Ports, ~port[p].born, request[r].ip \notin Taken(request[r].subnet),
               port' = [port EXCEPT ![p] = x]
        PROVE  Details
    <3>1. x.workload = None
      BY Zenon
    <3> HIDE DEF x
    <3>2. \A u \in Ports : u # p => port'[u] = port[u]
      BY <2>4
    <3>3. port'[p] = x
      BY <2>4
    <3>4. \A u \in Ports : port'[u].born /\ port'[u].workload # None =>
            port[u].born /\ port'[u].workload = port[u].workload
      BY <3>1, <3>2, <3>3, Zenon
    <3>5. QED
      BY <2>1, <2>2, <2>4, <3>4, Zenon DEF Details, x
  <2>5. QED
    BY <1>6, <2>3, <2>4 DEF CreatePort, Mintable
<1>7. ASSUME NEW c \in Projects, NEW r \in Requests, NEW p \in Ports, NEW w \in Workloads \cup {None},
             GetPort(p, c), w # None => WorkloadOwned(w, c), port' = [port EXCEPT ![p].workload = w],
             UNCHANGED <<subnet, attached, request>>
      PROVE  Details
  <2>1. port[p].live /\ port[p].owner = c
    BY <1>7 DEF GetPort, Live
  <2>2. port[p].born /\ port[p] \in PortRow
    BY <2>1, RowKinds
  <2> DEFINE x == [port[p] EXCEPT !.workload = w]
  <2>3. x.workload = w
    BY <2>2 DEF PortRow
  <2>4. port' = [port EXCEPT ![p] = x]
    BY <1>7, Zenon
  <2> HIDE DEF x
  <2>5. port'[p] = x /\ \A u \in Ports : u # p => port'[u] = port[u]
    BY <2>4
  <2>6. RequestMove
    BY <1>7, Zenon DEF RequestMove
  <2>7. \A u \in Ports : port'[u].born => port[u].born
    BY <2>2, <2>5
  <2>8. \A u \in Ports : port'[u].born /\ port'[u].workload # None =>
          port[u].born /\ (port'[u].workload = port[u].workload \/ ProjectOf[port'[u].workload] = port[u].owner)
    BY <1>7, <2>1, <2>3, <2>5, <2>7 DEF WorkloadOwned
  <2>9. QED
    BY <1>7, <2>6, <2>7, <2>8, Zenon DEF Details
<1>8. ASSUME NEW c \in Projects, NEW r \in Requests, NEW p \in Ports, NEW w \in Workloads \cup {None},
             updatePort(c, p, w)
      PROVE  Details
  <2>1. None \in Workloads \cup {None} /\ GetPort(p, c) /\ UNCHANGED <<subnet, attached, request>>
    BY <1>8 DEF updatePort
  <2>2. CASE port' = [port EXCEPT ![p].workload = None]
    BY <1>7, <2>1, <2>2
  <2>3. CASE WorkloadOwned(w, c) /\ port' = [port EXCEPT ![p].workload = w]
    BY <1>7, <2>1, <2>3
  <2>4. QED
    BY <1>8, <2>2, <2>3 DEF updatePort, UnbindPort, BindPort
<1>9. ASSUME NEW c \in Projects, NEW r \in Requests, NEW p \in Ports, deletePort(c, p) PROVE Details
  <2>1. UNCHANGED <<subnet, attached, request>> /\ port[p].live /\ port' = [port EXCEPT ![p].live = FALSE]
    BY <1>9 DEF deletePort, GetPort, Live
  <2>2. port[p].born /\ port[p] \in PortRow
    BY <2>1, RowKinds
  <2> DEFINE x == [port[p] EXCEPT !.live = FALSE]
  <2>3. x.workload = port[p].workload
    BY <2>2, PortRetired
  <2>4. port' = [port EXCEPT ![p] = x]
    BY <2>1, Zenon
  <2> HIDE DEF x
  <2>5. port'[p] = x /\ \A u \in Ports : u # p => port'[u] = port[u]
    BY <2>4
  <2>6. RequestMove
    BY <2>1, Zenon DEF RequestMove
  <2>7. \A u \in Ports : port'[u].born => port[u].born /\ port'[u].workload = port[u].workload
    BY <2>2, <2>3, <2>5
  <2>8. QED
    BY <2>1, <2>6, <2>7, Zenon DEF Details
<1>10. ASSUME NEW c \in Projects, NEW r \in Requests,
             \/ \E n \in Networks, cidr \in CIDRs, gateway \in Gateways : createSubnet(r, c, n, cidr, gateway)
             \/ \E s \in Subnets : AllocatePort(r, c, s)
             \/ \E p \in Ports, groups \in SUBSET Groups : CheckPortGroups(r, c, p, groups)
             \/ \E g \in Groups, rule \in Rules : createSecurityGroupRule(r, c, g, rule)
      PROVE  Details
  <2>1. UNCHANGED <<subnet, port, attached>>
    BY <1>10 DEF createSubnet, AllocatePort, CheckPortGroups, createSecurityGroupRule
  <2>2. QED
    BY <1>1, <1>10, <2>1, BeginMoves, Zenon
<1>11. ASSUME NEW r \in Requests, ReplacePortGroups(r) PROVE Details
  <2>1. RequestMove
    BY <1>11 DEF RequestMove, ReplacePortGroups, Finish
  <2>2. QED
    BY <1>11, <2>1, Zenon DEF Details, ReplacePortGroups
<1>12. CASE NeutronWrite
  <2>1. PICK c \in Projects, r \in Requests : NeutronHandler(c, r)
    BY <1>12, TokensAreScoped DEF NeutronWrite
  <2>2. QED
    BY <1>3, <1>4, <1>5, <1>6, <1>8, <1>9, <1>10, <1>11, <2>1, Zenon DEF NeutronHandler
<1>13. QED
  BY <1>2, <1>12 DEF NeutronNext

\* Requests of a kind the handlers know.
LEMMA RequestMoveTyped ==
  ASSUME NetworkTyped, RequestMove
  PROVE  /\ request' \in [Requests -> NetworkRequest]
         /\ \A r \in Requests :
              request'[r].op = "idle" \/ request'[r] = request[r] \/ NewRequest(request'[r])
<1>1. request \in [Requests -> NetworkRequest] /\ Idle \in NetworkRequest /\ Idle.op = "idle"
  BY DEF NetworkTyped, NetworkRequest, Idle
<1>2. QED
  BY <1>1 DEF RequestMove

\* The claim an open request makes on a table still stands after any step.
LEMMA NetworkTypedStep ==
  ASSUME NetworkInv, NeutronNext
  PROVE  NetworkTyped' /\ NetworksKept /\ SubnetsKept /\ PortsKept /\ GroupsKept
<1>1. NetworkTyped /\ NetworkMove /\ SubnetMove /\ PortMove /\ GroupMove /\ Details
  BY NeutronMoves, NeutronDetails DEF NetworkInv
<1>2. request' \in [Requests -> NetworkRequest]
  BY <1>1, RequestMoveTyped DEF Details
<1>3. attached' \in [Ports -> SUBSET Groups]
  <2>1. attached \in [Ports -> SUBSET Groups] /\ request \in [Requests -> NetworkRequest]
    BY <1>1 DEF NetworkTyped
  <2>2. ASSUME NEW r \in Requests, request[r].op = "groups",
               attached' = [attached EXCEPT ![request[r].port] = request[r].groups]
        PROVE  attached' \in [Ports -> SUBSET Groups]
    <3>1. request[r] \in GroupsRequest
      BY <2>1, <2>2, NetworkRequestKinds
    <3>2. request[r].groups \in SUBSET Groups
      BY <3>1 DEF GroupsRequest
    <3>3. QED
      BY <2>1, <2>2, <3>2
  <2>3. QED
    BY <1>1, <2>1, <2>2 DEF Details
<1>4. QED
  BY <1>1, <1>2, <1>3, NetworkMoveKeeps, SubnetMoveKeeps, PortMoveKeeps, GroupMoveKeeps DEF NetworkTyped

\* Rows are born once and keep their owner, so what a request looked up stays true.
LEMMA SubnetsHaveNetworksStep ==
  ASSUME NetworkInv, NeutronNext
  PROVE  SubnetsHaveNetworks'
<1>1. /\ NetworkTyped /\ NetworkTyped' /\ NetworksKept /\ SubnetsKept /\ Details /\ SubnetsHaveNetworks
  BY NetworkTypedStep, NeutronDetails DEF NetworkInv
<1>2. \A s \in Subnets : subnet[s].born => subnet[s].network \in Networks
  BY <1>1, RowKinds DEF SubnetRow
<1>3. \A r \in Requests : request[r].op = "subnet" => request[r].network \in Networks
  BY <1>1, NetworkRequestKinds DEF NetworkTyped, SubnetRequest
<1>4. ASSUME NEW s \in Subnets, subnet'[s].born
      PROVE  network'[subnet'[s].network].born /\ network'[subnet'[s].network].owner = subnet'[s].owner
  <2>1. CASE subnet[s].born
    BY <1>1, <1>2, <2>1 DEF NetworksKept, SubnetsKept, SubnetsHaveNetworks
  <2>2. CASE ~subnet[s].born
    BY <1>1, <1>3, <1>4, <2>2 DEF NetworksKept, SubnetsHaveNetworks, Details
  <2>3. QED
    BY <2>1, <2>2
<1>5. ASSUME NEW r \in Requests, request'[r].op = "subnet"
      PROVE  network'[request'[r].network].born /\ network'[request'[r].network].owner = request'[r].owner
  <2>1. request'[r] = request[r] \/ NewRequest(request'[r])
    BY <1>1, <1>5, RequestMoveTyped DEF Details
  <2>2. CASE request'[r] = request[r]
    BY <1>1, <1>3, <1>5, <2>2 DEF NetworksKept, SubnetsHaveNetworks
  <2>3. CASE NewRequest(request'[r])
    <3> DEFINE q == request'[r]
    <3>1. q.op = "subnet" /\ NewRequest(q)
      BY <1>5, <2>3
    <3> HIDE DEF q
    <3>2. q \in SubnetRequest /\ network[q.network].born /\ network[q.network].owner = q.owner
      BY <3>1 DEF NewRequest, SubnetRequest, PortRequest, RuleRequest, GroupsRequest
    <3>3. q.network \in Networks
      BY <3>2 DEF SubnetRequest
    <3>4. QED
      BY <1>1, <3>2, <3>3 DEF NetworksKept, q
  <2>4. QED
    BY <2>1, <2>2, <2>3
<1>6. QED
  BY <1>4, <1>5, Zenon DEF SubnetsHaveNetworks

\* A subnet keeps its addresses, so the one a request has claimed stays one of them.
LEMMA PortsHaveSubnetsStep ==
  ASSUME NetworkInv, NeutronNext
  PROVE  PortsHaveSubnets'
<1>1. /\ NetworkTyped /\ NetworkTyped' /\ SubnetsKept /\ PortsKept /\ Details /\ PortsHaveSubnets
  BY NetworkTypedStep, NeutronDetails DEF NetworkInv
<1>2. \A p \in Ports : port[p].born => port[p].subnet \in Subnets
  BY <1>1, RowKinds DEF PortRow
<1>3. \A r \in Requests : request[r].op = "port" => request[r].subnet \in Subnets
  BY <1>1, NetworkRequestKinds DEF NetworkTyped, PortRequest
<1>4. ASSUME NEW p \in Ports, port'[p].born
      PROVE  /\ subnet'[port'[p].subnet].born
             /\ port'[p].ip \in Hosts(subnet'[port'[p].subnet].cidr, subnet'[port'[p].subnet].gateway)
  <2>1. CASE port[p].born
    BY <1>1, <1>2, <2>1 DEF SubnetsKept, PortsKept, PortsHaveSubnets
  <2>2. CASE ~port[p].born
    <3>1. PICK r \in Requests, u \in Ports :
            /\ request[r].op = "port" /\ port' = [port EXCEPT ![u] =
                        [born |-> TRUE, live |-> TRUE, owner |-> request[r].owner,
                         subnet |-> request[r].subnet, ip |-> request[r].ip, workload |-> None]]
      BY <1>1, <1>4, <2>2, Zenon DEF Details
    <3> DEFINE x == [born |-> TRUE, live |-> TRUE, owner |-> request[r].owner,
                     subnet |-> request[r].subnet, ip |-> request[r].ip, workload |-> None]
    <3>2. x.subnet = request[r].subnet /\ x.ip = request[r].ip
      BY Zenon
    <3>3. port' = [port EXCEPT ![u] = x]
      BY <3>1, Zenon
    <3> HIDE DEF x
    <3>4. port \in [Ports -> Row(PortRow)]
      BY <1>1 DEF NetworkTyped
    <3>5. port'[p] = x
      BY <1>4, <2>2, <3>3, <3>4
    <3>6. QED
      BY <1>1, <1>3, <3>1, <3>2, <3>5 DEF SubnetsKept, PortsHaveSubnets
  <2>3. QED
    BY <2>1, <2>2
<1>5. ASSUME NEW r \in Requests, request'[r].op = "port"
      PROVE  /\ subnet'[request'[r].subnet].born
             /\ request'[r].ip \in Hosts(subnet'[request'[r].subnet].cidr, subnet'[request'[r].subnet].gateway)
  <2>1. request'[r] = request[r] \/ NewRequest(request'[r])
    BY <1>1, <1>5, RequestMoveTyped DEF Details
  <2>2. CASE request'[r] = request[r]
    BY <1>1, <1>3, <1>5, <2>2 DEF SubnetsKept, PortsHaveSubnets
  <2>3. CASE NewRequest(request'[r])
    <3> DEFINE q == request'[r]
    <3>1. q.op = "port" /\ NewRequest(q)
      BY <1>5, <2>3
    <3> HIDE DEF q
    <3>2. /\ q \in PortRequest /\ subnet[q.subnet].born
          /\ q.ip \in Hosts(subnet[q.subnet].cidr, subnet[q.subnet].gateway)
      BY <3>1 DEF NewRequest, SubnetRequest, PortRequest, RuleRequest, GroupsRequest
    <3>3. q.subnet \in Subnets
      BY <3>2 DEF PortRequest
    <3>4. QED
      BY <1>1, <3>2, <3>3 DEF SubnetsKept, q
  <2>4. QED
    BY <2>1, <2>2, <2>3
<1>6. QED
  BY <1>4, <1>5, Zenon DEF PortsHaveSubnets

\* The one request with the advisory lock claims an address no port has.
LEMMA AddressesAreDistinctStep ==
  ASSUME NetworkInv, NeutronNext
  PROVE  AddressesAreDistinct'
<1>1. /\ NetworkTyped /\ NetworkTyped' /\ PortsKept /\ Details /\ AddressesAreDistinct
  BY NetworkTypedStep, NeutronDetails DEF NetworkInv
<1>2. /\ Live(port) = {p \in Ports : port[p].live} /\ Live(port)' = {p \in Ports : port'[p].live}
      /\ \A p \in Ports : port[p].live => port[p].born
      /\ \A p \in Ports : port'[p].live => port'[p].born
  <2>1. \A p \in Ports : port[p].live => port[p].born
    BY <1>1, RowKinds, Zenon
  <2>2. \A p \in Ports : port'[p].live => port'[p].born
    <3>1. \A x \in Row(PortRow) : x.live => x.born
      <4>1. Unborn.live = FALSE
        BY Zenon DEF Unborn
      <4>2. \A x \in PortRow : x.born
        BY Zenon DEF PortRow
      <4>3. QED
        BY <4>1, <4>2, Zenon DEF Row
    <3>2. QED
      BY <1>1, <3>1 DEF NetworkTyped
  <2>3. DOMAIN port = Ports /\ DOMAIN port' = Ports
    BY <1>1 DEF NetworkTyped
  <2>4. QED
    BY <2>1, <2>2, <2>3 DEF Live
<1>3. request \in [Requests -> NetworkRequest] /\ Idle.op # "port"
  BY <1>1 DEF NetworkTyped, Idle
<1>4. CASE \A p \in Ports : port'[p].born => port[p].born
  <2>1. \A p \in Ports : port'[p].live =>
          port[p].live /\ port'[p].subnet = port[p].subnet /\ port'[p].ip = port[p].ip
    BY <1>1, <1>2, <1>4, Zenon DEF PortsKept
  <2>2. \A p, q \in Live(port)' : p # q /\ port'[p].subnet = port'[q].subnet => port'[p].ip # port'[q].ip
    BY <1>1, <1>2, <2>1 DEF AddressesAreDistinct
  <2>3. ASSUME NEW r \in Requests, NEW p \in Live(port)', request'[r].op = "port",
               request'[r].subnet = port'[p].subnet
        PROVE  request'[r].ip # port'[p].ip
    <3>1. request'[r] = request[r] \/ NewRequest(request'[r])
      BY <1>1, <2>3, RequestMoveTyped DEF Details
    <3>2. p \in Live(port) /\ port'[p].subnet = port[p].subnet /\ port'[p].ip = port[p].ip
      BY <1>2, <2>1, <2>3
    <3>3. CASE request'[r] = request[r]
      BY <1>1, <2>3, <3>2, <3>3 DEF AddressesAreDistinct
    <3>4. CASE NewRequest(request'[r])
      <4> DEFINE q == request'[r]
      <4>1. q.op = "port" /\ NewRequest(q)
        BY <2>3, <3>4
      <4> HIDE DEF q
      <4>2. q.ip \notin Taken(q.subnet)
        BY <4>1 DEF NewRequest, SubnetRequest, PortRequest, RuleRequest, GroupsRequest
      <4>3. QED
        BY <2>3, <3>2, <4>2 DEF Taken, q
    <3>5. QED
      BY <3>1, <3>3, <3>4
  <2>4. \A r, x \in Requests :
          r # x /\ request'[r].op = "port" /\ request'[x].op = "port" => request'[r].subnet # request'[x].subnet
    <3>1. CASE request' = request
      BY <1>1, <3>1 DEF AddressesAreDistinct
    <3>2. CASE \E r \in Requests : request' = [request EXCEPT ![r] = Idle]
      BY <1>1, <1>3, <3>2 DEF AddressesAreDistinct
    <3>3. ASSUME NEW r \in Requests, NEW q \in NetworkRequest, NewRequest(q),
                 request' = [request EXCEPT ![r] = q]
          PROVE  \A x, y \in Requests : x # y /\ request'[x].op = "port" /\ request'[y].op = "port" =>
                   request'[x].subnet # request'[y].subnet
      <4>1. q.op = "port" => \A x \in Requests : request[x].op = "port" => request[x].subnet # q.subnet
        BY <3>3 DEF NewRequest, SubnetRequest, PortRequest, RuleRequest, GroupsRequest, Unlocked
      <4>2. QED
        BY <1>1, <1>3, <3>3, <4>1 DEF AddressesAreDistinct
    <3>4. QED
      BY <1>1, <3>1, <3>2, <3>3 DEF Details, RequestMove
  <2>5. QED
    BY <2>2, <2>3, <2>4, Zenon DEF AddressesAreDistinct
<1>5. ASSUME NEW r \in Requests, NEW p \in Ports, NEW x,
             request[r].op = "port", request[r].ip \notin Taken(request[r].subnet),
             request' = [request EXCEPT ![r] = Idle], ~port[p].born,
             x.subnet = request[r].subnet, x.ip = request[r].ip,
             port' = [port EXCEPT ![p] = x]
      PROVE  AddressesAreDistinct'
  <2>1. port'[p] = x /\ \A q \in Ports : q # p => port'[q] = port[q]
    BY <1>1, <1>5 DEF NetworkTyped
  <2>2. \A q \in Live(port)' : q # p => q \in Live(port)
    BY <1>2, <2>1
  <2>3. \A q \in Live(port) : q \in Ports /\ (port[q].subnet = request[r].subnet => port[q].ip # request[r].ip)
    BY <1>2, <1>5 DEF Taken
  <2>4. \A q \in Requests : request'[q].op = "port" => q # r /\ request'[q] = request[q]
    BY <1>3, <1>5
  <2>5. \A q, u \in Live(port)' : q # u /\ port'[q].subnet = port'[u].subnet => port'[q].ip # port'[u].ip
    BY <1>1, <1>5, <2>1, <2>2, <2>3 DEF AddressesAreDistinct
  <2>6. \A q \in Requests, u \in Live(port)' :
          request'[q].op = "port" /\ request'[q].subnet = port'[u].subnet => request'[q].ip # port'[u].ip
    BY <1>1, <1>5, <2>1, <2>2, <2>3, <2>4 DEF AddressesAreDistinct
  <2>7. \A q, u \in Requests :
          q # u /\ request'[q].op = "port" /\ request'[u].op = "port" => request'[q].subnet # request'[u].subnet
    BY <1>1, <2>4 DEF AddressesAreDistinct
  <2>8. QED
    BY <2>5, <2>6, <2>7, Zenon DEF AddressesAreDistinct
<1>6. CASE \E p \in Ports : port'[p].born /\ ~port[p].born
  <2>1. PICK r \in Requests, p \in Ports :
          /\ request[r].op = "port" /\ request[r].ip \notin Taken(request[r].subnet)
          /\ request' = [request EXCEPT ![r] = Idle]
          /\ ~port[p].born
          /\ port' = [port EXCEPT ![p] =
                        [born |-> TRUE, live |-> TRUE, owner |-> request[r].owner,
                         subnet |-> request[r].subnet, ip |-> request[r].ip, workload |-> None]]
    BY <1>1, <1>6, Zenon DEF Details
  <2> DEFINE x == [born |-> TRUE, live |-> TRUE, owner |-> request[r].owner,
                   subnet |-> request[r].subnet, ip |-> request[r].ip, workload |-> None]
  <2>2. x.subnet = request[r].subnet /\ x.ip = request[r].ip
    BY Zenon
  <2>3. port' = [port EXCEPT ![p] = x]
    BY <2>1, Zenon
  <2> HIDE DEF x
  <2>4. QED
    BY <1>5, <2>1, <2>2, <2>3
<1>7. QED
  BY <1>4, <1>6

\* Groups are looked up in the project before they are bound or answered.
LEMMA GroupsAreOwnStep ==
  ASSUME NetworkInv, NeutronNext
  PROVE  GroupsAreOwn' /\ BindingsAreOwn'
<1>1. /\ NetworkTyped /\ NetworkTyped' /\ PortsKept /\ GroupsKept /\ Details /\ GroupsAreOwn /\ BindingsAreOwn
  BY NetworkTypedStep, NeutronDetails DEF NetworkInv
<1>2. \A r \in Requests : /\ request[r].op = "groups" => request[r].port \in Ports /\ request[r].groups \subseteq Groups
                          /\ request[r].op = "rule" => request[r].group \in Groups
  BY <1>1, NetworkRequestKinds DEF NetworkTyped, GroupsRequest, RuleRequest
<1>3. ASSUME NEW p \in Ports, NEW g \in attached'[p]
      PROVE  port'[p].born /\ group'[g].born /\ group'[g].owner = port'[p].owner
  <2>1. attached \in [Ports -> SUBSET Groups] /\ attached' \in [Ports -> SUBSET Groups]
    BY <1>1 DEF NetworkTyped
  <2>2. g \in Groups
    BY <1>3, <2>1
  <2>3. port[p].born /\ group[g].born /\ group[g].owner = port[p].owner
    <3>1. CASE g \in attached[p]
      BY <1>1, <3>1 DEF GroupsAreOwn
    <3>2. CASE g \notin attached[p]
      <4>1. PICK r \in Requests : /\ request[r].op = "groups"
                                  /\ attached' = [attached EXCEPT ![request[r].port] = request[r].groups]
        BY <1>1, <1>3, <3>2 DEF Details
      <4>2. p = request[r].port /\ g \in request[r].groups
        BY <1>3, <2>1, <3>2, <4>1
      <4>3. QED
        BY <1>1, <4>1, <4>2 DEF GroupsAreOwn
    <3>3. QED
      BY <3>1, <3>2
  <2>4. QED
    BY <1>1, <2>2, <2>3 DEF PortsKept, GroupsKept
<1>4. ASSUME NEW r \in Requests, request'[r].op = "groups"
      PROVE  /\ port'[request'[r].port].born
             /\ \A g \in request'[r].groups : group'[g].born /\ group'[g].owner = port'[request'[r].port].owner
  <2> DEFINE q == request'[r]
  <2>1. q = request[r] \/ NewRequest(q)
    BY <1>1, <1>4, RequestMoveTyped DEF Details
  <2>2. q.op = "groups" /\ q.port \in Ports /\ q.groups \subseteq Groups
    BY <1>1, <1>4, NetworkRequestKinds DEF NetworkTyped, GroupsRequest
  <2>3. q = request[r] => /\ port[q.port].born
                          /\ \A g \in q.groups : group[g].born /\ group[g].owner = port[q.port].owner
    BY <1>1, <1>4 DEF GroupsAreOwn
  <2> HIDE DEF q
  <2>4. port[q.port].born /\ \A g \in q.groups : group[g].born /\ group[g].owner = port[q.port].owner
    BY <2>1, <2>2, <2>3 DEF NewRequest, SubnetRequest, PortRequest, RuleRequest, GroupsRequest
  <2>5. port'[q.port].born /\ \A g \in q.groups : group'[g].born /\ group'[g].owner = port'[q.port].owner
    BY <1>1, <2>2, <2>4 DEF PortsKept, GroupsKept
  <2>6. QED
    BY <2>5 DEF q
<1>5. ASSUME NEW r \in Requests, request'[r].op = "rule" PROVE group'[request'[r].group].born
  <2> DEFINE q == request'[r]
  <2>1. q = request[r] \/ NewRequest(q)
    BY <1>1, <1>5, RequestMoveTyped DEF Details
  <2>2. q.op = "rule" /\ q.group \in Groups
    BY <1>1, <1>5, NetworkRequestKinds DEF NetworkTyped, RuleRequest
  <2>3. q = request[r] => group[q.group].born
    BY <1>1, <1>5 DEF GroupsAreOwn
  <2> HIDE DEF q
  <2>4. group[q.group].born
    BY <2>1, <2>2, <2>3 DEF NewRequest, SubnetRequest, PortRequest, RuleRequest, GroupsRequest
  <2>5. group'[q.group].born
    BY <1>1, <2>2, <2>4 DEF GroupsKept
  <2>6. QED
    BY <2>5 DEF q
<1>6. BindingsAreOwn'
  <2>1. ASSUME NEW p \in Ports, port'[p].born, port'[p].workload # None
        PROVE  port'[p].owner = ProjectOf[port'[p].workload]
    <3>1. port[p].born /\ (port'[p].workload = port[p].workload \/ ProjectOf[port'[p].workload] = port[p].owner)
      BY <1>1, <2>1, Zenon DEF Details
    <3>2. QED
      BY <1>1, <2>1, <3>1 DEF BindingsAreOwn, PortsKept
  <2>2. QED
    BY <2>1, Zenon DEF BindingsAreOwn
<1>7. QED
  BY <1>3, <1>4, <1>5, <1>6, Zenon DEF GroupsAreOwn

\* The parts together.
LEMMA NetworkInvStep ==
  ASSUME NetworkInv, NeutronNext
  PROVE  NetworkInv'
BY NetworkTypedStep, SubnetsHaveNetworksStep, PortsHaveSubnetsStep, AddressesAreDistinctStep,
   GroupsAreOwnStep DEF NetworkInv

\* What a Neutron handler answers is its caller's or shared.
LEMMA NeutronRepliesAreOwn ==
  ASSUME NetworkInv, NeutronNext
  PROVE  foreign' = {}
<1>1. CASE NeutronWrite /\ foreign' = {}
  BY <1>1
<1>2. CASE NeutronRead
  <2>1. PICK c \in Projects :
          \/ listNetworks(c) \/ showNetwork(c) \/ listSubnets(c) \/ showSubnet(c)
          \/ listPorts(c) \/ showPort(c) \/ listSecurityGroups(c) \/ showSecurityGroup(c)
          \/ listSecurityGroupRules(c) \/ showSecurityGroupRule(c)
    BY <1>2, TokensAreScoped DEF NeutronRead
  <2>2. ASSUME NEW owners, owners \subseteq {c}, Answer(c, owners) PROVE foreign' = {}
    BY <2>2 DEF Answer, Shown
  <2>3. CASE listNetworks(c)
    <3>1. {network[n].owner : n \in {m \in ListNetworks(c) : ~network[m].shared}} \subseteq {c}
      BY DEF ListNetworks, GetNetwork
    <3>2. QED
      BY <2>2, <2>3, <3>1 DEF listNetworks
  <2>4. ASSUME NEW n \in Networks, GetNetwork(n, c),
               Answer(c, IF network[n].shared THEN {} ELSE {network[n].owner})
        PROVE  foreign' = {}
    <3>1. (IF network[n].shared THEN {} ELSE {network[n].owner}) \subseteq {c}
      BY <2>4 DEF GetNetwork
    <3>2. QED
      BY <2>2, <2>4, <3>1
  <2>5. CASE listSubnets(c)
    <3>1. {subnet[s].owner : s \in ListSubnets(c)} \subseteq {c}
      BY DEF ListSubnets, GetSubnet
    <3>2. QED
      BY <2>2, <2>5, <3>1 DEF listSubnets
  <2>6. CASE showSubnet(c)
    BY <2>2, <2>6 DEF showSubnet, GetSubnet
  <2>7. ASSUME NEW p \in Ports, GetPort(p, c) PROVE PortBody(p) \subseteq {c}
    BY <2>7 DEF PortBody, GetPort, NetworkInv, GroupsAreOwn
  <2>8. CASE listPorts(c)
    <3>1. UNION {PortBody(p) : p \in ListPorts(c)} \subseteq {c}
      BY <2>7 DEF ListPorts
    <3>2. QED
      BY <2>2, <2>8, <3>1 DEF listPorts
  <2>9. CASE showPort(c)
    BY <2>2, <2>7, <2>9 DEF showPort
  <2>10. CASE listSecurityGroups(c)
    <3>1. {group[g].owner : g \in ListSecurityGroups(c)} \subseteq {c}
      BY DEF ListSecurityGroups, GetSecurityGroup
    <3>2. QED
      BY <2>2, <2>10, <3>1 DEF listSecurityGroups
  <2>11. CASE showSecurityGroup(c)
    BY <2>2, <2>11 DEF showSecurityGroup, GetSecurityGroup
  <2>12. CASE listSecurityGroupRules(c) \/ showSecurityGroupRule(c)
    <3>1. PICK g \in Groups : ListRules(g, c) # {} /\ Answer(c, {group[g].owner})
      BY <2>12 DEF listSecurityGroupRules, showSecurityGroupRule
    <3>2. group[g].owner = c
      BY <3>1 DEF ListRules
    <3>3. QED
      BY <2>2, <3>1, <3>2
  <2>13. CASE showNetwork(c)
    BY <2>4, <2>13 DEF showNetwork
  <2>14. QED
    BY <2>1, <2>3, <2>5, <2>6, <2>8, <2>9, <2>10, <2>11, <2>12, <2>13
<1>3. QED
  BY <1>1, <1>2 DEF NeutronNext

\* The parts of the invariant give the properties of the networks.
LEMMA NetworkFollows ==
  ASSUME NetworkInv
  PROVE  NetworkIsSound /\ ResolvedRulesAreOwned
<1>1. NetworkTyped /\ SubnetsHaveNetworks /\ PortsHaveSubnets /\ AddressesAreDistinct /\ GroupsAreOwn /\ BindingsAreOwn
  BY DEF NetworkInv
<1>2. \A p \in Live(port) : p \in Ports /\ port[p].born
  BY <1>1, RowKinds DEF Live, NetworkTyped
<1>3. NeutronTypeOK
  BY <1>1, <1>2 DEF NeutronTypeOK, NetworkTyped, NetworkRow, SubnetRow, PortRow, GroupRow, PortsHaveSubnets, GroupsAreOwn
<1>4. AddressesUsable
  BY <1>1, <1>2 DEF AddressesUsable, Hosts, PortsHaveSubnets, AddressesAreDistinct
<1>5. ClaimedAddressIsFree
  BY <1>1 DEF ClaimedAddressIsFree, Taken, AddressesAreDistinct
<1>6. SubnetsBelongToNetwork
  BY <1>1 DEF SubnetsBelongToNetwork, SubnetsHaveNetworks
<1>7. ASSUME NEW w \in Workloads, NEW p \in PortForWorkload(w)
      PROVE  port[p].owner = ProjectOf[w] /\ \A g \in ListForPort(p) : group[g].owner = ProjectOf[w]
  <2>1. p \in Live(port) /\ port[p].workload = w /\ w # None
    BY <1>7, ApiAssumption DEF PortForWorkload
  <2>2. QED
    BY <1>1, <1>2, <2>1 DEF BindingsAreOwn, GroupsAreOwn, ListForPort
<1>8. ResolvedRulesAreOwned
  BY <1>7 DEF ResolvedRulesAreOwned, ResolveForWorkload
<1>9. QED
  BY <1>3, <1>4, <1>5, <1>6, <1>8 DEF NetworkIsSound
-----------------------------------------------------------------------------
(* Images, servers and volumes.                                            *)

ImageRow == [born : {TRUE}, live : BOOLEAN, owner : Projects, public : BOOLEAN]
ServerRow == [born : {TRUE}, live : {TRUE}, state : States, provider : Providers \cup {None},
              image : Images \cup {None}]
Ceilings == {q["storage_gb"] : q \in Quotas} \cup {None}
VolumeRow == [born : {TRUE}, live : BOOLEAN, owner : Projects, size : Sizes,
              state : {"available", "in-use", "deleting"},
              provider : Providers \cup {None}, workload : Workloads \cup {None}, ceiling : Ceilings]

ServerRequest == [op : {"server"}, owner : Projects, image : Images]
VolumeRequest == [op : {"volume"}, owner : Projects, size : Sizes, max : Ceilings]
AttachRequest == [op : {"attach"}, owner : Projects, volume : Volumes, workload : Workloads, provider : Providers]
DetachRequest == [op : {"detach"}, volume : Volumes, workload : Workloads]
Deleting == {"dispatch", "finish", "abort"}
DeleteRequest == [op : Deleting, volume : Volumes, expired : BOOLEAN]
ComputeRequest == {Idle} \cup ServerRequest \cup VolumeRequest \cup AttachRequest
                  \cup DetachRequest \cup DeleteRequest

ComputeTyped ==
  /\ image \in [Images -> Row(ImageRow)]
  /\ quota \in [Projects -> Quotas \cup {None}]
  /\ server \in [Workloads -> Row(ServerRow)]
  /\ volume \in [Volumes -> Row(VolumeRow)]
  /\ erased \subseteq Volumes
  /\ request \in [Requests -> ComputeRequest]

\* A server's image was visible to its project, and rows keep their columns.
ImagesAreVisible == \A w \in Workloads : server[w].born /\ server[w].image # None =>
  LET i == server[w].image IN image[i].born /\ (image[i].owner = ProjectOf[w] \/ image[i].public)

\* A provider is assigned once: a server that waits for one has none.
PlacedOnce == \A w \in Workloads : server[w].born /\ server[w].state = "WAITING" => server[w].provider = None

HeldInUse == \A v \in Volumes : volume[v].live => (volume[v].state = "in-use" <=> volume[v].workload # None)

\* A volume is held, or about to be, by a placed server of its own project,
\* on the provider of that server.
AttachmentsHold ==
  /\ \A v \in Volumes : volume[v].live /\ volume[v].workload # None =>
       LET w == volume[v].workload IN
       /\ server[w].born /\ ProjectOf[w] = volume[v].owner
       /\ volume[v].provider # None /\ server[w].provider = volume[v].provider
  /\ \A u, v \in Volumes : u # v /\ volume[u].live /\ volume[v].live /\ volume[v].workload # None =>
       volume[u].workload # volume[v].workload
  /\ \A r \in Requests : request[r].op = "attach" =>
       LET w == request[r].workload IN
       server[w].born /\ ProjectOf[w] = request[r].owner /\ server[w].provider = request[r].provider

\* A volume is being deleted by one request at most, which finds it as it left
\* it; what is gone, or goes next, is erased.
DeletionsHold ==
  /\ \A r \in Requests : request[r].op \in Deleting =>
       /\ volume[request[r].volume].live /\ volume[request[r].volume].state = "deleting"
       /\ request[r].op = "finish" =>
            volume[request[r].volume].provider = None \/ request[r].volume \in erased
  /\ \A r, x \in Requests :
       r # x /\ request[r].op \in Deleting /\ request[x].op \in Deleting => request[r].volume # request[x].volume
  /\ DeletedIsErased

\* The room a request has claimed under the lock is still there, and no other
\* request claims room of that project.
Claims(r) == request[r].op = "volume" /\ request[r].max # None
AdmissionsHold ==
  /\ \A r \in Requests, c \in Projects : Claims(r) /\ request[r].owner = c =>
       AdmittedStorage(c) + request[r].size <= request[r].max
  /\ \A r, x \in Requests : r # x /\ Claims(r) /\ Claims(x) => request[r].owner # request[x].owner

ComputeInv == /\ ComputeTyped /\ ImagesAreVisible /\ PlacedOnce /\ HeldInUse
              /\ AttachmentsHold /\ DeletionsHold /\ AdmissionsHold

\* What a request holds is told by its op.
LEMMA ComputeRequestKinds ==
  ASSUME NEW q \in ComputeRequest
  PROVE  /\ q.op = "server" => q \in ServerRequest
         /\ q.op = "volume" => q \in VolumeRequest
         /\ q.op = "attach" => q \in AttachRequest
         /\ q.op = "detach" => q \in DetachRequest
         /\ q.op \in Deleting => q \in DeleteRequest
BY DEF ComputeRequest, ServerRequest, VolumeRequest, AttachRequest, DetachRequest, DeleteRequest, Deleting, Idle

\* A row that was minted has its columns, and only such a row is live.
LEMMA ComputeRowKinds ==
  ASSUME ComputeTyped
  PROVE  /\ \A i \in Images : (image[i].born => image[i] \in ImageRow) /\ (image[i].live => image[i].born)
         /\ \A w \in Workloads : (server[w].born => server[w] \in ServerRow) /\ (server[w].live => server[w].born)
         /\ \A v \in Volumes : (volume[v].born => volume[v] \in VolumeRow) /\ (volume[v].live => volume[v].born)
<1>1. \A x \in Row(ImageRow) : (x.born => x \in ImageRow) /\ (x.live => x.born)
  <2>1. Unborn.born = FALSE /\ Unborn.live = FALSE
    BY Zenon DEF Unborn
  <2>2. \A x \in ImageRow : x.born = TRUE
    BY Zenon DEF ImageRow
  <2>3. QED
    BY <2>1, <2>2, Zenon DEF Row
<1>2. \A x \in Row(ServerRow) : (x.born => x \in ServerRow) /\ (x.live => x.born)
  <2>1. Unborn.born = FALSE /\ Unborn.live = FALSE
    BY Zenon DEF Unborn
  <2>2. \A x \in ServerRow : x.born = TRUE
    BY Zenon DEF ServerRow
  <2>3. QED
    BY <2>1, <2>2, Zenon DEF Row
<1>3. \A x \in Row(VolumeRow) : (x.born => x \in VolumeRow) /\ (x.live => x.born)
  <2>1. Unborn.born = FALSE /\ Unborn.live = FALSE
    BY Zenon DEF Unborn
  <2>2. \A x \in VolumeRow : x.born = TRUE
    BY Zenon DEF VolumeRow
  <2>3. QED
    BY <2>1, <2>2, Zenon DEF Row
<1>4. QED
  BY <1>1, <1>2, <1>3 DEF ComputeTyped

\* Deleting a row of image changes nothing but deleted_at.
LEMMA ImageRetired ==
  ASSUME NEW x \in ImageRow, NEW y, y = [x EXCEPT !.live = FALSE]
  PROVE  /\ y \in ImageRow /\ y.born /\ y.live = FALSE
         /\ y.owner = x.owner /\ y.public = x.public
<1> DEFINE no == FALSE
<1>1. no \in BOOLEAN
  BY Zenon
<1>2. y = [x EXCEPT !.live = no]
  BY Zenon
<1> HIDE DEF no
<1>3. y \in ImageRow /\ y.owner = x.owner /\ y.public = x.public
  BY <1>1, <1>2 DEF ImageRow
<1>4. y.live = no /\ y.born = TRUE
  BY <1>2, <1>3 DEF ImageRow
<1>5. QED
  BY <1>3, <1>4, Zenon DEF no

\* Deleting a row of volume changes nothing but deleted_at.
LEMMA VolumeRetired ==
  ASSUME NEW x \in VolumeRow, NEW y, y = [x EXCEPT !.live = FALSE]
  PROVE  /\ y \in VolumeRow /\ y.born /\ y.live = FALSE
         /\ y.owner = x.owner /\ y.size = x.size /\ y.state = x.state /\ y.provider = x.provider /\ y.workload = x.workload /\ y.ceiling = x.ceiling
<1> DEFINE no == FALSE
<1>1. no \in BOOLEAN
  BY Zenon
<1>2. y = [x EXCEPT !.live = no]
  BY Zenon
<1> HIDE DEF no
<1>3. y \in VolumeRow /\ y.owner = x.owner /\ y.size = x.size /\ y.state = x.state /\ y.provider = x.provider /\ y.workload = x.workload /\ y.ceiling = x.ceiling
  BY <1>1, <1>2 DEF VolumeRow
<1>4. y.live = no /\ y.born = TRUE
  BY <1>2, <1>3 DEF VolumeRow
<1>5. QED
  BY <1>3, <1>4, Zenon DEF no


\* What was minted keeps the columns that later steps rely on.
ImagesKept == \A i \in Images : image[i].born =>
  image'[i].born /\ image'[i].owner = image[i].owner /\ image'[i].public = image[i].public
ServersKept == \A w \in Workloads : server[w].born =>
  /\ server'[w].born /\ server'[w].image = server[w].image
  /\ server[w].provider # None => server'[w].provider = server[w].provider

\* Images stay typed and keep owner and visibility.
LEMMA ImageMintKeeps ==
  ASSUME ComputeTyped, NEW i \in Images, NEW x \in ImageRow, image' = [image EXCEPT ![i] = x],
         image[i].born => x.owner = image[i].owner /\ x.public = image[i].public
  PROVE  image' \in [Images -> Row(ImageRow)] /\ ImagesKept
<1>1. image \in [Images -> Row(ImageRow)]
  BY DEF ComputeTyped
<1>2. x \in Row(ImageRow)
  BY DEF Row
<1>3. image' \in [Images -> Row(ImageRow)]
  BY <1>1, <1>2
<1>4. x.born
  BY Zenon DEF ImageRow
<1>5. QED
  BY <1>1, <1>3, <1>4 DEF ImagesKept

\* So do servers, their image and, once they have one, their provider.
LEMMA ServerWriteKeeps ==
  ASSUME ComputeTyped, NEW w \in Workloads, NEW x \in ServerRow, server' = [server EXCEPT ![w] = x],
         server[w].born => /\ x.image = server[w].image
                           /\ server[w].provider # None => x.provider = server[w].provider
  PROVE  server' \in [Workloads -> Row(ServerRow)] /\ ServersKept
<1>1. server \in [Workloads -> Row(ServerRow)]
  BY DEF ComputeTyped
<1>2. x \in Row(ServerRow)
  BY DEF Row
<1>3. server' \in [Workloads -> Row(ServerRow)]
  BY <1>1, <1>2
<1>4. x.born
  BY Zenon DEF ServerRow
<1>5. QED
  BY <1>1, <1>3, <1>4 DEF ServersKept

\* The clauses of the invariant about volumes, and what they read.
VolumeClauses == HeldInUse /\ AttachmentsHold /\ DeletionsHold /\ AdmissionsHold

\* A step that leaves the volumes alone and at most ends requests.
LEMMA VolumesUntouched ==
  ASSUME ComputeInv, volume' = volume, erased' = erased, ServersKept,
         \A r \in Requests : request'[r] = request[r] \/ request'[r] = Idle
  PROVE  VolumeClauses'
<1>1. ComputeTyped /\ HeldInUse /\ AttachmentsHold /\ DeletionsHold /\ AdmissionsHold
  BY DEF ComputeInv
<1>2. /\ \A v \in Volumes : volume[v].live => volume[v].workload \in Workloads \cup {None}
      /\ \A r \in Requests : request[r].op = "attach" =>
           request[r].workload \in Workloads /\ request[r].provider # None
  <2>1. \A v \in Volumes : volume[v].live => volume[v] \in VolumeRow
    BY <1>1, ComputeRowKinds, Zenon
  <2>2. \A r \in Requests : request[r].op = "attach" => request[r] \in AttachRequest
    BY <1>1, ComputeRequestKinds DEF ComputeTyped
  <2>3. QED
    BY <2>1, <2>2, NovaAssumption DEF VolumeRow, AttachRequest
<1>3. Idle.op \notin Deleting /\ Idle.op # "attach" /\ Idle.op # "volume"
  BY DEF Idle, Deleting
<1>4. HeldInUse'
  BY <1>1 DEF HeldInUse
<1>5. AttachmentsHold'
  <2>1. \A r \in Requests : request'[r].op = "attach" => request'[r] = request[r]
    BY <1>3
  <2>2. QED
    BY <1>1, <1>2, <2>1 DEF AttachmentsHold, ServersKept
<1>6. DeletionsHold'
  <2>1. \A r \in Requests : request'[r].op \in Deleting => request'[r] = request[r]
    BY <1>3
  <2>2. DeletedIsErased'
    BY <1>1 DEF DeletionsHold, DeletedIsErased
  <2>3. QED
    BY <1>1, <2>1, <2>2 DEF DeletionsHold
<1>7. AdmissionsHold'
  <2>1. \A r \in Requests : Claims(r)' => Claims(r) /\ request'[r] = request[r]
    BY <1>3 DEF Claims
  <2>2. \A c : AdmittedStorage(c)' = AdmittedStorage(c)
    BY DEF AdmittedStorage, Gigabytes, Admitted, Live
  <2>3. ASSUME NEW r \in Requests, NEW c \in Projects, Claims(r)', request'[r].owner = c
        PROVE  AdmittedStorage(c)' + request'[r].size <= request'[r].max
    BY <1>1, <2>1, <2>2, <2>3 DEF AdmissionsHold
  <2>4. ASSUME NEW r \in Requests, NEW x \in Requests, r # x, Claims(r)', Claims(x)'
        PROVE  request'[r].owner # request'[x].owner
    BY <1>1, <2>1, <2>4 DEF AdmissionsHold
  <2>5. QED
    BY <2>3, <2>4 DEF AdmissionsHold
<1>8. QED
  BY <1>4, <1>5, <1>6, <1>7 DEF VolumeClauses

\* What a handler has established when it begins to wait.
NewComputeRequest(q) ==
  \/ q \in ServerRequest
  \/ q \in VolumeRequest /\ (q.max # None =>
       /\ ~RowLocked(q.owner)
       /\ AdmittedStorage(q.owner) + q.size <= q.max)
  \/ /\ q \in AttachRequest /\ server[q.workload].born /\ ProjectOf[q.workload] = q.owner
     /\ server[q.workload].provider = q.provider
  \/ q \in DetachRequest

\* A step that only begins a request.
LEMMA ComputeBegins ==
  ASSUME ComputeInv, UNCHANGED computeVars, NEW r \in Requests, NEW q, NewComputeRequest(q),
         request' = [request EXCEPT ![r] = q]
  PROVE  ComputeInv'
<1>1. ComputeTyped /\ ImagesAreVisible /\ PlacedOnce /\ HeldInUse /\ AttachmentsHold /\ DeletionsHold /\ AdmissionsHold
  BY DEF ComputeInv
<1>2. /\ image' = image /\ quota' = quota /\ server' = server /\ volume' = volume /\ erased' = erased
  BY DEF computeVars
<1>3. q \in ComputeRequest /\ q.op \notin Deleting
  BY DEF NewComputeRequest, ComputeRequest, ServerRequest, VolumeRequest, AttachRequest, DetachRequest, Deleting
<1>4. request'[r] = q /\ \A x \in Requests : x # r => request'[x] = request[x]
  BY <1>1 DEF ComputeTyped
<1>5. ComputeTyped'
  BY <1>1, <1>2, <1>3 DEF ComputeTyped
<1>6. ImagesAreVisible' /\ PlacedOnce' /\ HeldInUse'
  BY <1>1, <1>2 DEF ImagesAreVisible, PlacedOnce, HeldInUse
<1>7. AttachmentsHold'
  <2>1. q.op = "attach" => /\ server[q.workload].born /\ ProjectOf[q.workload] = q.owner
                           /\ server[q.workload].provider = q.provider
    BY DEF NewComputeRequest, ServerRequest, VolumeRequest, AttachRequest, DetachRequest
  <2>2. QED
    BY <1>1, <1>2, <1>4, <2>1 DEF AttachmentsHold
<1>8. DeletionsHold'
  <2>1. \A x \in Requests : request'[x].op \in Deleting => request'[x] = request[x]
    BY <1>3, <1>4
  <2>2. DeletedIsErased'
    BY <1>1, <1>2 DEF DeletionsHold, DeletedIsErased
  <2>3. QED
    BY <1>1, <1>2, <2>1, <2>2 DEF DeletionsHold
<1>9. AdmissionsHold'
  <2>1. \A c : AdmittedStorage(c)' = AdmittedStorage(c)
    BY <1>2 DEF AdmittedStorage, Gigabytes, Admitted, Live
  <2>2. q.op = "volume" /\ q.max # None => ~RowLocked(q.owner) /\ AdmittedStorage(q.owner) + q.size <= q.max
    BY DEF NewComputeRequest, ServerRequest, VolumeRequest, AttachRequest, DetachRequest
  <2>3. q.op = "volume" /\ q.max # None => \A x \in Requests : Claims(x) => request[x].owner # q.owner
    BY <2>2 DEF RowLocked, Claims
  <2>4. ASSUME NEW x \in Requests, NEW c \in Projects, Claims(x)', request'[x].owner = c
        PROVE  AdmittedStorage(c)' + request'[x].size <= request'[x].max
    <3>1. CASE x = r
      BY <1>4, <2>1, <2>2, <2>4, <3>1 DEF Claims
    <3>2. CASE x # r
      BY <1>1, <1>4, <2>1, <2>4, <3>2 DEF Claims, AdmissionsHold
    <3>3. QED
      BY <3>1, <3>2
  <2>5. ASSUME NEW x \in Requests, NEW y \in Requests, x # y, Claims(x)', Claims(y)'
        PROVE  request'[x].owner # request'[y].owner
    BY <1>1, <1>4, <2>3, <2>5 DEF Claims, AdmissionsHold
  <2>6. QED
    BY <2>4, <2>5 DEF AdmissionsHold
<1>10. QED
  BY <1>5, <1>6, <1>7, <1>8, <1>9 DEF ComputeInv
-----------------------------------------------------------------------------
(* Storage: the gigabytes of a set of volumes.                             *)

Units(f, ids) == UNION {{v} \X (1 .. f[v].size) : v \in ids}

\* Finitely many volumes take up finitely many gigabytes.
LEMMA UnitsFinite ==
  ASSUME NEW f, NEW ids \in SUBSET Volumes, \A v \in ids : f[v].size \in Nat
  PROVE  IsFiniteSet(Units(f, ids)) /\ Cardinality(Units(f, ids)) \in Nat
<1> DEFINE C == {{v} \X (1 .. f[v].size) : v \in ids}
           h == [v \in ids |-> {v} \X (1 .. f[v].size)]
<1>1. IsFiniteSet(ids)
  BY NovaAssumption, FS_Subset
<1>2. h \in Surjection(ids, C)
  BY DEF Surjection
<1>3. IsFiniteSet(C)
  BY <1>1, <1>2, FS_Surjection
<1>4. ASSUME NEW X \in C PROVE IsFiniteSet(X)
  <2>1. PICK v \in ids : X = {v} \X (1 .. f[v].size)
    OBVIOUS
  <2>2. 1 \in Int /\ f[v].size \in Int
    OBVIOUS
  <2>3. IsFiniteSet({v}) /\ IsFiniteSet(1 .. f[v].size)
    BY <2>2, FS_Singleton, FS_Interval
  <2>4. QED
    BY <2>1, <2>3, FS_Product
<1>5. IsFiniteSet(Units(f, ids))
  BY <1>3, <1>4, FS_UNION DEF Units
<1>6. QED
  BY <1>5, FS_CardinalityType

\* Fewer volumes of the same sizes take up no more.
LEMMA UnitsMonotone ==
  ASSUME NEW f, NEW g, NEW ids \in SUBSET Volumes, NEW fewer \in SUBSET ids,
         \A v \in ids : f[v].size \in Nat, \A v \in fewer : g[v].size = f[v].size
  PROVE  Cardinality(Units(g, fewer)) <= Cardinality(Units(f, ids))
<1>1. Units(g, fewer) \subseteq Units(f, ids)
  BY DEF Units
<1>2. QED
  BY <1>1, UnitsFinite, FS_Subset

\* One more volume takes up its size more.
LEMMA UnitsAdd ==
  ASSUME NEW f, NEW g, NEW ids \in SUBSET Volumes, NEW v \in Volumes, v \notin ids,
         \A u \in ids : f[u].size \in Nat /\ g[u].size = f[u].size, g[v].size \in Nat
  PROVE  Cardinality(Units(g, ids \cup {v})) <= Cardinality(Units(f, ids)) + g[v].size
<1> DEFINE U == {v} \X (1 .. g[v].size)
<1>1. Units(g, ids \cup {v}) = Units(f, ids) \cup U
  <2>1. \A u \in ids : {u} \X (1 .. g[u].size) = {u} \X (1 .. f[u].size)
    OBVIOUS
  <2>2. Units(g, ids) = Units(f, ids)
    BY <2>1 DEF Units
  <2>3. Units(g, ids \cup {v}) = Units(g, ids) \cup U
    BY DEF Units
  <2>4. QED
    BY <2>2, <2>3
<1>2. IsFiniteSet({v}) /\ Cardinality({v}) = 1
  BY FS_Singleton
<1>3. IsFiniteSet(1 .. g[v].size) /\ Cardinality(1 .. g[v].size) = g[v].size
  <2> DEFINE k == g[v].size
  <2>1. k \in Nat /\ 1 \in Int /\ k \in Int
    OBVIOUS
  <2> HIDE DEF k
  <2>2. IsFiniteSet(1 .. k) /\ Cardinality(1 .. k) = k
    BY <2>1, FS_Interval
  <2>3. QED
    BY <2>2 DEF k
<1>4. IsFiniteSet(U) /\ Cardinality(U) = g[v].size
  <2>1. IsFiniteSet(U) /\ Cardinality(U) = Cardinality({v}) * Cardinality(1 .. g[v].size)
    BY <1>2, <1>3, FS_Product
  <2>2. QED
    BY <1>2, <1>3, <2>1
<1>5. IsFiniteSet(Units(f, ids)) /\ Cardinality(Units(f, ids)) \in Nat
  BY UnitsFinite
<1> HIDE DEF U
<1>6. /\ Cardinality(Units(f, ids) \cup U) =
           Cardinality(Units(f, ids)) + Cardinality(U) - Cardinality(Units(f, ids) \cap U)
      /\ IsFiniteSet(Units(f, ids) \cap U)
  BY <1>4, <1>5, FS_Union, FS_Intersection
<1>7. Cardinality(Units(f, ids) \cap U) \in Nat
  BY <1>6, FS_CardinalityType
<1>8. Cardinality(Units(g, ids \cup {v})) = Cardinality(Units(f, ids) \cup U)
  BY <1>1, Zenon
<1>9. QED
  BY <1>4, <1>5, <1>6, <1>7, <1>8

\* The sizes of live volumes are numbers.
LEMMA SizesAreNumbers ==
  ASSUME ComputeTyped
  PROVE  \A v \in Live(volume) : v \in Volumes /\ volume[v].born /\ volume[v].size \in Nat
<1>1. \A v \in Live(volume) : v \in Volumes /\ volume[v].live
  BY DEF Live, ComputeTyped
<1>2. \A v \in Live(volume) : v \in Volumes /\ volume[v].born /\ volume[v] \in VolumeRow
  BY <1>1, ComputeRowKinds, Zenon
<1>3. QED
  BY <1>2, NovaAssumption DEF VolumeRow

\* What was admitted under quotas is part of what CommittedUsage counts.
LEMMA AdmittedIsCommitted ==
  ASSUME ComputeTyped, NEW c \in Projects
  PROVE  /\ AdmittedStorage(c) \in Nat /\ CommittedUsage(c)["storage_gb"] \in Nat
         /\ AdmittedStorage(c) <= CommittedUsage(c)["storage_gb"]
<1> DEFINE ids == {v \in Live(volume) : volume[v].owner = c}
           n == Cardinality(OpenServers(c)) * Flavor["storage_gb"]
<1>1. ids \in SUBSET Volumes /\ Admitted(c) \in SUBSET ids /\ \A v \in ids : volume[v].size \in Nat
  BY SizesAreNumbers DEF Admitted
<1>2. VolumeStorage(c) = Cardinality(Units(volume, ids)) /\ AdmittedStorage(c) = Cardinality(Units(volume, Admitted(c)))
  BY Zenon DEF VolumeStorage, AdmittedStorage, Gigabytes, Units
<1> HIDE DEF ids
<1>3. VolumeStorage(c) \in Nat
  BY <1>1, <1>2, UnitsFinite
<1>4. AdmittedStorage(c) \in Nat
  <2>1. Admitted(c) \in SUBSET Volumes /\ \A v \in Admitted(c) : volume[v].size \in Nat
    BY <1>1
  <2>2. QED
    BY <1>2, <2>1, UnitsFinite
<1>5. AdmittedStorage(c) <= VolumeStorage(c)
  BY <1>1, <1>2, UnitsMonotone
<1>6. n \in Nat
  <2>1. OpenServers(c) \in SUBSET Workloads
    BY DEF OpenServers, Live, ComputeTyped
  <2>2. IsFiniteSet(OpenServers(c))
    BY <2>1, NovaAssumption, FS_Subset
  <2>3. Cardinality(OpenServers(c)) \in Nat /\ Flavor["storage_gb"] \in Nat
    BY <2>2, FS_CardinalityType, NovaAssumption
  <2>4. QED
    BY <2>3
<1>7. CommittedUsage(c)["storage_gb"] = n + VolumeStorage(c)
  BY NovaAssumption DEF CommittedUsage
<1> HIDE DEF n
<1>8. QED
  BY <1>3, <1>4, <1>5, <1>6, <1>7
\* A write of one row of the volumes.
LEMMA RewriteFacts ==
  ASSUME ComputeTyped, NEW v \in Volumes, NEW x \in VolumeRow, volume' = [volume EXCEPT ![v] = x]
  PROVE  /\ volume' \in [Volumes -> Row(VolumeRow)] /\ volume'[v] = x /\ x.born
         /\ \A u \in Volumes : u # v => volume'[u] = volume[u]
<1>1. volume \in [Volumes -> Row(VolumeRow)]
  BY DEF ComputeTyped
<1>2. x \in Row(VolumeRow)
  BY DEF Row
<1>3. x.born
  BY Zenon DEF VolumeRow
<1>4. QED
  BY <1>1, <1>2, <1>3

\* A row that keeps its owner, size and ceiling admits nothing more.
LEMMA RewriteAdmits ==
  ASSUME ComputeTyped, NEW v \in Volumes, NEW x \in VolumeRow, volume' = [volume EXCEPT ![v] = x],
         volume[v].live, x.owner = volume[v].owner, x.size = volume[v].size, x.ceiling = volume[v].ceiling,
         NEW c \in Projects
  PROVE  AdmittedStorage(c)' \in Nat /\ AdmittedStorage(c)' <= AdmittedStorage(c)
<1>1. volume'[v] = x /\ \A u \in Volumes : u # v => volume'[u] = volume[u]
  BY RewriteFacts
<1>2. DOMAIN volume = Volumes /\ DOMAIN volume' = Volumes
  BY DEF ComputeTyped
<1>3. /\ Admitted(c) \in SUBSET Volumes /\ \A u \in Admitted(c) : volume[u].size \in Nat
  BY SizesAreNumbers DEF Admitted
<1>4. Admitted(c)' \in SUBSET Admitted(c)
  BY <1>1, <1>2 DEF Admitted, Live
<1>5. \A u \in Admitted(c)' : volume'[u].size = volume[u].size
  BY <1>1, <1>2 DEF Admitted, Live
<1>6. /\ AdmittedStorage(c) = Cardinality(Units(volume, Admitted(c)))
      /\ AdmittedStorage(c)' = Cardinality(Units(volume', Admitted(c)'))
  BY Zenon DEF AdmittedStorage, Gigabytes, Units
<1> DEFINE A == Admitted(c) 
           B == Admitted(c)'
<1>7. /\ B \in SUBSET A /\ A \in SUBSET Volumes /\ \A u \in A : volume[u].size \in Nat
      /\ \A u \in B : volume'[u].size = volume[u].size
  BY <1>3, <1>4, <1>5
<1> HIDE DEF A, B
<1>8. Cardinality(Units(volume', B)) <= Cardinality(Units(volume, A))
  BY <1>7, UnitsMonotone
<1>9. Cardinality(Units(volume', B)) \in Nat
  <2>1. B \in SUBSET Volumes /\ \A u \in B : volume'[u].size \in Nat
    BY <1>7
  <2>2. QED
    BY <2>1, UnitsFinite
<1>10. QED
  BY <1>6, <1>8, <1>9 DEF A, B

\* A new row admits its size, under its owner's quota, and no other.
LEMMA MintAdmits ==
  ASSUME ComputeTyped, NEW v \in Volumes, NEW x \in VolumeRow, volume' = [volume EXCEPT ![v] = x],
         ~volume[v].born, NEW c \in Projects
  PROVE  /\ AdmittedStorage(c)' \in Nat
         /\ x.owner # c \/ x.ceiling = None => AdmittedStorage(c)' <= AdmittedStorage(c)
         /\ AdmittedStorage(c)' <= AdmittedStorage(c) + x.size
<1>1. volume'[v] = x /\ \A u \in Volumes : u # v => volume'[u] = volume[u]
  BY RewriteFacts
<1>2. DOMAIN volume = Volumes /\ DOMAIN volume' = Volumes
  BY DEF ComputeTyped
<1>3. /\ Admitted(c) \in SUBSET Volumes /\ \A u \in Admitted(c) : volume[u].size \in Nat
  BY SizesAreNumbers DEF Admitted
<1>4. v \notin Admitted(c)
  BY ComputeRowKinds DEF Admitted, Live
<1>5. x.size \in Nat
  BY NovaAssumption DEF VolumeRow
<1>6. \A u \in Admitted(c) : volume'[u].size = volume[u].size
  BY <1>1, <1>3, <1>4
<1>7. /\ AdmittedStorage(c) = Cardinality(Units(volume, Admitted(c)))
      /\ AdmittedStorage(c)' = Cardinality(Units(volume', Admitted(c)'))
  BY Zenon DEF AdmittedStorage, Gigabytes, Units
<1>8. Admitted(c)' \in SUBSET (Admitted(c) \cup {v})
  BY <1>1, <1>2 DEF Admitted, Live
<1>9. x.owner # c \/ x.ceiling = None => Admitted(c)' \in SUBSET Admitted(c)
  BY <1>1, <1>2 DEF Admitted, Live
<1> DEFINE A == Admitted(c)
           B == Admitted(c)'
<1>10. /\ A \in SUBSET Volumes /\ \A u \in A : volume[u].size \in Nat /\ volume'[u].size = volume[u].size
       /\ v \notin A /\ B \in SUBSET (A \cup {v}) /\ volume'[v].size \in Nat /\ volume'[v].size = x.size
       /\ A \cup {v} \in SUBSET Volumes
       /\ x.owner # c \/ x.ceiling = None => B \in SUBSET A
  BY <1>1, <1>3, <1>4, <1>5, <1>6, <1>8, <1>9
<1> HIDE DEF A, B
<1>11. /\ Cardinality(Units(volume', B)) \in Nat /\ Cardinality(Units(volume, A)) \in Nat
       /\ Cardinality(Units(volume', A \cup {v})) \in Nat
  <2>1. B \in SUBSET Volumes /\ \A u \in B : volume'[u].size \in Nat
    BY <1>10
  <2>2. \A u \in A \cup {v} : volume'[u].size \in Nat
    BY <1>10
  <2>3. QED
    BY <1>10, <2>1, <2>2, UnitsFinite
<1>12. Cardinality(Units(volume', A \cup {v})) <= Cardinality(Units(volume, A)) + x.size
  <2>1. Cardinality(Units(volume', A \cup {v})) <= Cardinality(Units(volume, A)) + volume'[v].size
    BY <1>10, UnitsAdd
  <2>2. QED
    BY <1>10, <2>1
<1>13. Cardinality(Units(volume', B)) <= Cardinality(Units(volume', A \cup {v}))
  <2>1. \A u \in A \cup {v} : volume'[u].size \in Nat
    BY <1>10
  <2>2. QED
    BY <1>10, <2>1, UnitsMonotone
<1>14. x.owner # c \/ x.ceiling = None => Cardinality(Units(volume', B)) <= Cardinality(Units(volume, A))
  <2>1. SUFFICES ASSUME x.owner # c \/ x.ceiling = None
                 PROVE  Cardinality(Units(volume', B)) <= Cardinality(Units(volume, A))
    OBVIOUS
  <2>2. B \in SUBSET A /\ \A u \in B : volume'[u].size = volume[u].size
    BY <1>10, <2>1
  <2>3. QED
    BY <1>10, <2>2, UnitsMonotone
<1>15. AdmittedStorage(c) = Cardinality(Units(volume, A)) /\ AdmittedStorage(c)' = Cardinality(Units(volume', B))
  BY <1>7, Zenon DEF A, B
<1>16. AdmittedStorage(c)' \in Nat /\ AdmittedStorage(c)' <= AdmittedStorage(c) + x.size
  BY <1>5, <1>11, <1>12, <1>13, <1>15
<1>17. QED
  BY <1>14, <1>15, <1>16

\* No step that admits nothing and begins no claim disturbs the claims.
LEMMA AdmissionsKept ==
  ASSUME ComputeInv, \A c \in Projects : AdmittedStorage(c)' \in Nat /\ AdmittedStorage(c)' <= AdmittedStorage(c),
         \A r \in Requests : request'[r] = request[r] \/ request'[r].op # "volume"
  PROVE  AdmissionsHold'
<1>1. ComputeTyped /\ AdmissionsHold
  BY DEF ComputeInv
<1>2. \A r \in Requests : Claims(r)' => Claims(r) /\ request'[r] = request[r]
  BY DEF Claims
<1>3. \A r \in Requests : Claims(r) => request[r].size \in Nat /\ request[r].max \in Nat
  <2>1. \A r \in Requests : request[r].op = "volume" => request[r] \in VolumeRequest
    BY <1>1, ComputeRequestKinds DEF ComputeTyped
  <2>2. \A x \in Ceilings : x # None => x \in Nat
    BY NovaAssumption DEF Ceilings
  <2>3. QED
    BY <2>1, <2>2, NovaAssumption DEF Claims, VolumeRequest
<1>4. ASSUME NEW r \in Requests, NEW c \in Projects, Claims(r)', request'[r].owner = c
      PROVE  AdmittedStorage(c)' + request'[r].size <= request'[r].max
  <2>1. AdmittedStorage(c) + request[r].size <= request[r].max /\ request'[r] = request[r]
    BY <1>1, <1>2, <1>4 DEF AdmissionsHold
  <2>2. AdmittedStorage(c) \in Nat /\ request[r].size \in Nat /\ request[r].max \in Nat
    BY <1>1, <1>2, <1>3, <1>4, AdmittedIsCommitted
  <2>3. QED
    BY <2>1, <2>2
<1>5. ASSUME NEW r \in Requests, NEW x \in Requests, r # x, Claims(r)', Claims(x)'
      PROVE  request'[r].owner # request'[x].owner
  BY <1>1, <1>2, <1>5 DEF AdmissionsHold
<1>6. QED
  BY <1>4, <1>5 DEF AdmissionsHold
-----------------------------------------------------------------------------
(* The life of a volume: each write of a row, and the clauses it disturbs. *)

\* What a write of the volumes leaves alone.
LEMMA VolumeWriteKeeps ==
  ASSUME ComputeInv, UNCHANGED <<image, quota, server>>, erased' \subseteq Volumes,
         volume' \in [Volumes -> Row(VolumeRow)], request' \in [Requests -> ComputeRequest]
  PROVE  ComputeTyped' /\ ImagesAreVisible' /\ PlacedOnce'
BY DEF ComputeInv, ComputeTyped, ImagesAreVisible, PlacedOnce

\* A request that ends.
LEMMA RequestEnds ==
  ASSUME ComputeInv, NEW r \in Requests, request' = [request EXCEPT ![r] = Idle]
  PROVE  /\ request' \in [Requests -> ComputeRequest]
         /\ request'[r].op \notin Deleting /\ request'[r].op # "attach" /\ request'[r].op # "volume"
         /\ \A x \in Requests : x # r => request'[x] = request[x]
<1>1. request \in [Requests -> ComputeRequest] /\ Idle \in ComputeRequest
  BY DEF ComputeInv, ComputeTyped, ComputeRequest
<1>2. Idle.op \notin Deleting /\ Idle.op # "attach" /\ Idle.op # "volume"
  BY DEF Idle, Deleting
<1>3. QED
  BY <1>1, <1>2

\* CreateVolume: the row of a request that claimed its room.
LEMMA MintStep ==
  ASSUME ComputeInv, UNCHANGED <<image, quota, server, erased>>,
         NEW r \in Requests, request[r].op = "volume", request' = [request EXCEPT ![r] = Idle],
         NEW v \in Volumes, ~volume[v].born, NEW x \in VolumeRow, volume' = [volume EXCEPT ![v] = x],
         x.live, x.owner = request[r].owner, x.size = request[r].size, x.ceiling = request[r].max,
         x.state = "available", x.provider = None, x.workload = None
  PROVE  ComputeInv' /\ AdmittedStep /\ DetachStep /\ BoundStep
<1>1. ComputeTyped /\ HeldInUse /\ AttachmentsHold /\ DeletionsHold /\ AdmissionsHold
  BY DEF ComputeInv
<1>2. /\ volume' \in [Volumes -> Row(VolumeRow)] /\ volume'[v] = x /\ x.born
      /\ \A u \in Volumes : u # v => volume'[u] = volume[u]
  BY <1>1, RewriteFacts
<1>3. /\ request' \in [Requests -> ComputeRequest]
      /\ request'[r].op \notin Deleting /\ request'[r].op # "attach" /\ request'[r].op # "volume"
      /\ \A y \in Requests : y # r => request'[y] = request[y]
  BY RequestEnds
<1>4. ~volume[v].live
  BY <1>1, ComputeRowKinds
<1>5. ComputeTyped' /\ ImagesAreVisible' /\ PlacedOnce'
  BY <1>1, <1>2, <1>3, VolumeWriteKeeps DEF ComputeTyped
<1>6. HeldInUse'
  BY <1>1, <1>2 DEF HeldInUse
<1>7. AttachmentsHold'
  BY <1>1, <1>2, <1>3 DEF AttachmentsHold
<1>8. DeletionsHold'
  <2>1. \A y \in Requests : request'[y].op \in Deleting => y # r /\ request'[y] = request[y] /\ request[y].volume # v
    BY <1>1, <1>3, <1>4 DEF DeletionsHold
  <2>2. \A y \in Requests : request[y].op \in Deleting => request[y].volume \in Volumes
    BY <1>1, ComputeRequestKinds DEF ComputeTyped, DeleteRequest
  <2>3. DeletedIsErased'
    BY <1>1, <1>2 DEF DeletionsHold, DeletedIsErased
  <2>4. QED
    BY <1>1, <1>2, <2>1, <2>2, <2>3 DEF DeletionsHold
<1>9. /\ request[r].owner \in Projects /\ request[r].size \in Nat
      /\ request[r].max # None => request[r].max \in Nat
  <2>1. request[r] \in VolumeRequest
    BY <1>1, ComputeRequestKinds DEF ComputeTyped
  <2>2. \A y \in Ceilings : y # None => y \in Nat
    BY NovaAssumption DEF Ceilings
  <2>3. QED
    BY <2>1, <2>2, NovaAssumption DEF VolumeRequest
<1>10. ASSUME NEW c \in Projects, c = request[r].owner, request[r].max # None
       PROVE  AdmittedStorage(c)' <= request[r].max
  <2>1. AdmittedStorage(c) + request[r].size <= request[r].max
    BY <1>1, <1>10 DEF AdmissionsHold, Claims
  <2>2. AdmittedStorage(c)' \in Nat /\ AdmittedStorage(c)' <= AdmittedStorage(c) + request[r].size
    BY <1>1, MintAdmits
  <2>3. AdmittedStorage(c) \in Nat
    BY <1>1, AdmittedIsCommitted
  <2>4. QED
    BY <1>9, <1>10, <2>1, <2>2, <2>3
<1>11. AdmissionsHold'
  <2>1. \A y \in Requests : Claims(y)' => y # r /\ Claims(y) /\ request'[y] = request[y]
    BY <1>3 DEF Claims
  <2>2. ASSUME NEW y \in Requests, NEW c \in Projects, Claims(y)', request'[y].owner = c
        PROVE  AdmittedStorage(c)' + request'[y].size <= request'[y].max
    <3>1. y # r /\ Claims(y) /\ request'[y] = request[y] /\ request[y].owner = c
      BY <2>1, <2>2
    <3>2. AdmittedStorage(c) + request[y].size <= request[y].max
      BY <1>1, <3>1 DEF AdmissionsHold
    <3>3. request[r].max # None => request[r].owner # c
      BY <1>1, <3>1 DEF AdmissionsHold, Claims
    <3>4. AdmittedStorage(c)' \in Nat /\ AdmittedStorage(c)' <= AdmittedStorage(c)
      BY <1>1, <3>3, MintAdmits
    <3>5. request[y].size \in Nat /\ request[y].max \in Nat
      <4>1. request[y] \in VolumeRequest /\ request[y].max # None
        BY <1>1, <3>1, ComputeRequestKinds DEF ComputeTyped, Claims
      <4>2. \A z \in Ceilings : z # None => z \in Nat
        BY NovaAssumption DEF Ceilings
      <4>3. QED
        BY <4>1, <4>2, NovaAssumption DEF VolumeRequest
    <3>6. AdmittedStorage(c) \in Nat
      BY <1>1, AdmittedIsCommitted
    <3>7. QED
      BY <3>1, <3>2, <3>4, <3>5, <3>6
  <2>3. ASSUME NEW y \in Requests, NEW z \in Requests, y # z, Claims(y)', Claims(z)'
        PROVE  request'[y].owner # request'[z].owner
    BY <1>1, <2>1, <2>3 DEF AdmissionsHold
  <2>4. QED
    BY <2>2, <2>3 DEF AdmissionsHold
<1>12. AdmittedStep
  <2>1. ASSUME NEW u \in Volumes, volume'[u].live, ~volume[u].live, volume'[u].ceiling # None,
               NEW c \in Projects, c = volume'[u].owner
        PROVE  AdmittedStorage(c)' <= volume'[u].ceiling
    <3>1. u = v
      BY <1>2, <2>1
    <3>2. QED
      BY <1>2, <1>10, <2>1, <3>1
  <2>2. QED
    BY <2>1, Zenon DEF AdmittedStep
<1>13. DetachStep /\ BoundStep
  <2>1. \A u \in Live(volume) : u \in Volumes /\ volume'[u] = volume[u]
    BY <1>1, <1>2, <1>4 DEF Live, ComputeTyped
  <2>2. QED
    BY <2>1 DEF DetachStep, BoundStep
<1>14. QED
  BY <1>5, <1>6, <1>7, <1>8, <1>11, <1>12, <1>13 DEF ComputeInv
\* A write of a live row that keeps what it was admitted with.
LEMMA LiveWriteAdmits ==
  ASSUME ComputeInv, NEW v \in Volumes, NEW x \in VolumeRow, volume' = [volume EXCEPT ![v] = x],
         volume[v].live, x.owner = volume[v].owner, x.size = volume[v].size, x.ceiling = volume[v].ceiling,
         \A r \in Requests : request'[r] = request[r] \/ request'[r].op # "volume"
  PROVE  AdmissionsHold' /\ AdmittedStep
<1>1. ComputeTyped
  BY DEF ComputeInv
<1>2. \A c \in Projects : AdmittedStorage(c)' \in Nat /\ AdmittedStorage(c)' <= AdmittedStorage(c)
  BY <1>1, RewriteAdmits
<1>3. AdmissionsHold'
  BY <1>2, AdmissionsKept
<1>4. \A u \in Volumes : ~volume[u].live => volume'[u] = volume[u]
  BY <1>1, RewriteFacts
<1>5. AdmittedStep
  BY <1>4, Zenon DEF AdmittedStep
<1>6. QED
  BY <1>3, <1>5

\* AttachVolume on a volume that is available where the workload runs.
LEMMA AttachStep ==
  ASSUME ComputeInv, UNCHANGED <<image, quota, server>>,
         NEW r \in Requests, request[r].op = "attach", request' = [request EXCEPT ![r] = Idle],
         NEW v \in Volumes, volume[v].live, volume[v].owner = request[r].owner, volume[v].state = "available",
         volume[v].provider \in {None, request[r].provider},
         \A u \in Live(volume) : volume[u].workload # request[r].workload, erased' = erased \ {v},
         NEW x \in VolumeRow, volume' = [volume EXCEPT ![v] = x],
         x.live, x.owner = volume[v].owner, x.size = volume[v].size, x.ceiling = volume[v].ceiling,
         x.state = "in-use", x.provider = request[r].provider, x.workload = request[r].workload
  PROVE  ComputeInv' /\ AdmittedStep /\ DetachStep /\ BoundStep
<1>1. ComputeTyped /\ HeldInUse /\ AttachmentsHold /\ DeletionsHold
  BY DEF ComputeInv
<1>2. /\ volume' \in [Volumes -> Row(VolumeRow)] /\ volume'[v] = x
      /\ \A u \in Volumes : u # v => volume'[u] = volume[u]
  BY <1>1, RewriteFacts
<1>3. /\ request' \in [Requests -> ComputeRequest]
      /\ request'[r].op \notin Deleting /\ request'[r].op # "attach" /\ request'[r].op # "volume"
      /\ \A y \in Requests : y # r => request'[y] = request[y]
  BY RequestEnds
<1>4. request[r].workload # None /\ request[r].provider # None
  <2>1. request[r] \in AttachRequest
    BY <1>1, ComputeRequestKinds DEF ComputeTyped
  <2>2. QED
    BY <2>1, ApiAssumption, NovaAssumption DEF AttachRequest
<1>5. ComputeTyped' /\ ImagesAreVisible' /\ PlacedOnce'
  BY <1>1, <1>2, <1>3, VolumeWriteKeeps DEF ComputeTyped
<1>6. HeldInUse'
  BY <1>1, <1>2, <1>4 DEF HeldInUse
<1>7. \A u \in Volumes : volume[u].live => u \in Live(volume)
  BY <1>1 DEF Live, ComputeTyped
<1>8. AttachmentsHold'
  BY <1>1, <1>2, <1>3, <1>4, <1>7 DEF AttachmentsHold
<1>9. DeletionsHold'
  <2>1. \A y \in Requests : request'[y].op \in Deleting => y # r /\ request'[y] = request[y] /\ request[y].volume # v
    BY <1>1, <1>3 DEF DeletionsHold
  <2>2. \A y \in Requests : request[y].op \in Deleting => request[y].volume \in Volumes
    BY <1>1, ComputeRequestKinds DEF ComputeTyped, DeleteRequest
  <2>3. DeletedIsErased'
    BY <1>1, <1>2 DEF DeletionsHold, DeletedIsErased
  <2>4. QED
    BY <1>1, <1>2, <2>1, <2>2, <2>3 DEF DeletionsHold
<1>10. AdmissionsHold' /\ AdmittedStep
  BY <1>3, LiveWriteAdmits
<1>11. DetachStep /\ BoundStep
  <2>1. \A u \in Live(volume) : u \in Volumes
    BY <1>1 DEF Live, ComputeTyped
  <2>2. volume[v].workload = None
    BY <1>1 DEF HeldInUse
  <2>3. QED
    BY <1>2, <1>4, <2>1, <2>2 DEF DetachStep, BoundStep
<1>12. QED
  BY <1>5, <1>6, <1>8, <1>9, <1>10, <1>11 DEF ComputeInv

\* DetachVolume from the workload the request read.
LEMMA ReleaseStep ==
  ASSUME ComputeInv, UNCHANGED <<image, quota, server, erased>>,
         NEW r \in Requests, request[r].op = "detach", request' = [request EXCEPT ![r] = Idle],
         NEW v \in Volumes, v = request[r].volume, volume[v].live, volume[v].state = "in-use",
         volume[v].workload = request[r].workload,
         NEW x \in VolumeRow, volume' = [volume EXCEPT ![v] = x],
         x.live, x.owner = volume[v].owner, x.size = volume[v].size, x.ceiling = volume[v].ceiling,
         x.state = "available", x.provider = volume[v].provider, x.workload = None
  PROVE  ComputeInv' /\ AdmittedStep /\ DetachStep /\ BoundStep
<1>1. ComputeTyped /\ HeldInUse /\ AttachmentsHold /\ DeletionsHold
  BY DEF ComputeInv
<1>2. /\ volume' \in [Volumes -> Row(VolumeRow)] /\ volume'[v] = x
      /\ \A u \in Volumes : u # v => volume'[u] = volume[u]
  BY <1>1, RewriteFacts
<1>3. /\ request' \in [Requests -> ComputeRequest]
      /\ request'[r].op \notin Deleting /\ request'[r].op # "attach" /\ request'[r].op # "volume"
      /\ \A y \in Requests : y # r => request'[y] = request[y]
  BY RequestEnds
<1>4. ComputeTyped' /\ ImagesAreVisible' /\ PlacedOnce'
  BY <1>1, <1>2, <1>3, VolumeWriteKeeps DEF ComputeTyped
<1>5. HeldInUse'
  BY <1>1, <1>2 DEF HeldInUse
<1>6. AttachmentsHold'
  BY <1>1, <1>2, <1>3 DEF AttachmentsHold
<1>7. DeletionsHold'
  <2>1. \A y \in Requests : request'[y].op \in Deleting => y # r /\ request'[y] = request[y] /\ request[y].volume # v
    BY <1>1, <1>3 DEF DeletionsHold
  <2>2. \A y \in Requests : request[y].op \in Deleting => request[y].volume \in Volumes
    BY <1>1, ComputeRequestKinds DEF ComputeTyped, DeleteRequest
  <2>3. DeletedIsErased'
    BY <1>1, <1>2 DEF DeletionsHold, DeletedIsErased
  <2>4. QED
    BY <1>1, <1>2, <2>1, <2>2, <2>3 DEF DeletionsHold
<1>8. AdmissionsHold' /\ AdmittedStep
  BY <1>3, LiveWriteAdmits
<1>9. DetachStep /\ BoundStep
  <2>1. \A u \in Live(volume) : u \in Volumes
    BY <1>1 DEF Live, ComputeTyped
  <2>2. QED
    BY <1>2, <2>1 DEF DetachStep, BoundStep
<1>10. QED
  BY <1>4, <1>5, <1>6, <1>7, <1>8, <1>9 DEF ComputeInv

\* BeginDelete, which no other deletion of the volume can precede.
LEMMA MarkStep ==
  ASSUME ComputeInv, UNCHANGED <<image, quota, server, erased>>,
         NEW r \in Requests, NEW q \in DeleteRequest, request' = [request EXCEPT ![r] = q],
         NEW v \in Volumes, q.volume = v, volume[v].live, volume[v].state = "available",
         q.op = "finish" => volume[v].provider = None,
         NEW x \in VolumeRow, volume' = [volume EXCEPT ![v] = x],
         x.live, x.owner = volume[v].owner, x.size = volume[v].size, x.ceiling = volume[v].ceiling,
         x.state = "deleting", x.provider = volume[v].provider, x.workload = volume[v].workload
  PROVE  ComputeInv' /\ AdmittedStep /\ DetachStep /\ BoundStep
<1>1. ComputeTyped /\ HeldInUse /\ AttachmentsHold /\ DeletionsHold
  BY DEF ComputeInv
<1>2. /\ volume' \in [Volumes -> Row(VolumeRow)] /\ volume'[v] = x
      /\ \A u \in Volumes : u # v => volume'[u] = volume[u]
  BY <1>1, RewriteFacts
<1>3. /\ request' \in [Requests -> ComputeRequest] /\ request'[r] = q
      /\ q.op \in Deleting /\ q.op # "attach" /\ q.op # "volume"
      /\ \A y \in Requests : y # r => request'[y] = request[y]
  BY <1>1 DEF ComputeTyped, ComputeRequest, DeleteRequest, Deleting
<1>4. ComputeTyped' /\ ImagesAreVisible' /\ PlacedOnce'
  BY <1>1, <1>2, <1>3, VolumeWriteKeeps DEF ComputeTyped
<1>5. HeldInUse'
  BY <1>1, <1>2 DEF HeldInUse
<1>6. AttachmentsHold'
  BY <1>1, <1>2, <1>3 DEF AttachmentsHold
<1>7. DeletionsHold'
  <2>1. \A y \in Requests : request[y].op \in Deleting => request[y].volume # v /\ request[y].volume \in Volumes
    BY <1>1, ComputeRequestKinds DEF DeletionsHold, ComputeTyped, DeleteRequest
  <2>2. DeletedIsErased'
    BY <1>1, <1>2 DEF DeletionsHold, DeletedIsErased
  <2>3. QED
    BY <1>1, <1>2, <1>3, <2>1, <2>2 DEF DeletionsHold
<1>8. AdmissionsHold' /\ AdmittedStep
  BY <1>3, LiveWriteAdmits
<1>9. DetachStep /\ BoundStep
  <2>1. \A u \in Live(volume) : u \in Volumes
    BY <1>1 DEF Live, ComputeTyped
  <2>2. QED
    BY <1>2, <2>1 DEF DetachStep, BoundStep
<1>10. QED
  BY <1>4, <1>5, <1>6, <1>7, <1>8, <1>9 DEF ComputeInv

\* FinishDelete and AbortDelete: the row goes once it is erased, or comes back.
LEMMA EndDeleteStep ==
  ASSUME ComputeInv, UNCHANGED <<image, quota, server, erased>>,
         NEW r \in Requests, request[r].op \in Deleting, request' = [request EXCEPT ![r] = Idle],
         NEW v \in Volumes, v = request[r].volume,
         NEW x \in VolumeRow, volume' = [volume EXCEPT ![v] = x],
         x.owner = volume[v].owner, x.size = volume[v].size, x.ceiling = volume[v].ceiling,
         x.provider = volume[v].provider, x.workload = volume[v].workload,
         (x.live = FALSE /\ request[r].op = "finish") \/ (x.live /\ x.state = "available")
  PROVE  ComputeInv' /\ AdmittedStep /\ DetachStep /\ BoundStep
<1>1. ComputeTyped /\ HeldInUse /\ AttachmentsHold /\ DeletionsHold
  BY DEF ComputeInv
<1>2. /\ volume' \in [Volumes -> Row(VolumeRow)] /\ volume'[v] = x
      /\ \A u \in Volumes : u # v => volume'[u] = volume[u]
  BY <1>1, RewriteFacts
<1>3. /\ request' \in [Requests -> ComputeRequest]
      /\ request'[r].op \notin Deleting /\ request'[r].op # "attach" /\ request'[r].op # "volume"
      /\ \A y \in Requests : y # r => request'[y] = request[y]
  BY RequestEnds
<1>4. /\ volume[v].live /\ volume[v].state = "deleting" /\ volume[v].workload = None
      /\ request[r].op = "finish" => volume[v].provider = None \/ v \in erased
  BY <1>1 DEF DeletionsHold, HeldInUse
<1>5. ComputeTyped' /\ ImagesAreVisible' /\ PlacedOnce'
  BY <1>1, <1>2, <1>3, VolumeWriteKeeps DEF ComputeTyped
<1>6. HeldInUse'
  BY <1>1, <1>2, <1>4 DEF HeldInUse
<1>7. AttachmentsHold'
  BY <1>1, <1>2, <1>3, <1>4 DEF AttachmentsHold
<1>8. DeletionsHold'
  <2>1. \A y \in Requests : request'[y].op \in Deleting => y # r /\ request'[y] = request[y] /\ request[y].volume # v
    BY <1>1, <1>3 DEF DeletionsHold
  <2>2. \A y \in Requests : request[y].op \in Deleting => request[y].volume \in Volumes
    BY <1>1, ComputeRequestKinds DEF ComputeTyped, DeleteRequest
  <2>3. DeletedIsErased'
    BY <1>1, <1>2, <1>4 DEF DeletionsHold, DeletedIsErased
  <2>4. QED
    BY <1>1, <1>2, <2>1, <2>2, <2>3 DEF DeletionsHold
<1>9. AdmissionsHold' /\ AdmittedStep
  BY <1>3, <1>4, LiveWriteAdmits
<1>10. DetachStep /\ BoundStep
  <2>1. \A u \in Live(volume) : u \in Volumes
    BY <1>1 DEF Live, ComputeTyped
  <2>2. QED
    BY <1>2, <2>1 DEF DetachStep, BoundStep
<1>11. QED
  BY <1>5, <1>6, <1>7, <1>8, <1>9, <1>10 DEF ComputeInv
\* The volumes as they were.
LEMMA SameVolumes ==
  ASSUME volume' = volume
  PROVE  AdmittedStep /\ DetachStep /\ BoundStep
BY DEF AdmittedStep, DetachStep, BoundStep

\* DispatchDelete: the Agent confirms the erasure, or the request gives up.
LEMMA DispatchStep ==
  ASSUME ComputeInv, NEW r \in Requests, DispatchDelete(r)
  PROVE  ComputeInv'
<1>1. ComputeTyped /\ HeldInUse /\ AttachmentsHold /\ DeletionsHold
  BY DEF ComputeInv
<1>2. volume' = volume /\ UNCHANGED <<image, quota, server>> /\ request[r].op = "dispatch"
  BY DEF DispatchDelete
<1>3. request \in [Requests -> ComputeRequest] /\ request[r] \in DeleteRequest
  BY <1>1, <1>2, ComputeRequestKinds DEF ComputeTyped, Deleting
<1>4. ASSUME NEW q \in DeleteRequest, q.volume = request[r].volume, request' = [request EXCEPT ![r] = q],
             erased' = erased \cup {q.volume} \/ (erased' = erased /\ q.op # "finish")
      PROVE  ComputeInv'
  <2>1. /\ request' \in [Requests -> ComputeRequest] /\ request'[r] = q
        /\ q.op \in Deleting /\ q.op # "attach" /\ q.op # "volume" /\ q.volume \in Volumes
        /\ \A y \in Requests : y # r => request'[y] = request[y]
    BY <1>3, <1>4 DEF ComputeRequest, DeleteRequest, Deleting
  <2>2. erased' \subseteq Volumes /\ erased \subseteq erased'
    BY <1>1, <1>4, <2>1 DEF ComputeTyped
  <2>3. ComputeTyped' /\ ImagesAreVisible' /\ PlacedOnce'
    BY <1>1, <1>2, <2>1, <2>2, VolumeWriteKeeps DEF ComputeTyped
  <2>4. HeldInUse'
    BY <1>1, <1>2 DEF HeldInUse
  <2>5. AttachmentsHold'
    BY <1>1, <1>2, <2>1 DEF AttachmentsHold
  <2>6. DeletionsHold'
    <3>1. DeletedIsErased'
      BY <1>1, <1>2, <2>2 DEF DeletionsHold, DeletedIsErased
    <3>2. request[r].op \in Deleting
      BY <1>2 DEF Deleting
    <3>3. QED
      BY <1>1, <1>2, <1>4, <2>1, <2>2, <3>1, <3>2 DEF DeletionsHold
  <2>7. AdmissionsHold'
    <3>1. \A c \in Projects : AdmittedStorage(c)' = AdmittedStorage(c)
      BY <1>2 DEF AdmittedStorage, Gigabytes, Admitted, Live
    <3>2. \A c \in Projects : AdmittedStorage(c)' \in Nat /\ AdmittedStorage(c)' <= AdmittedStorage(c)
      BY <1>1, <3>1, AdmittedIsCommitted
    <3>3. QED
      BY <2>1, <3>2, AdmissionsKept
  <2>8. QED
    BY <2>3, <2>4, <2>5, <2>6, <2>7 DEF ComputeInv
<1>5. ASSUME NEW op \in {"finish", "abort"}, NEW expired \in BOOLEAN,
             request' = [request EXCEPT ![r].op = op, ![r].expired = expired],
             (op = "finish" /\ erased' = erased \cup {request[r].volume}) \/ (op = "abort" /\ erased' = erased)
      PROVE  ComputeInv'
  <2> DEFINE q == [request[r] EXCEPT !.op = op, !.expired = expired]
  <2>1. q \in DeleteRequest /\ q.volume = request[r].volume /\ q.op = op
    BY <1>3 DEF DeleteRequest, Deleting
  <2>2. request' = [request EXCEPT ![r] = q]
    BY <1>3, <1>5
  <2> HIDE DEF q
  <2>3. QED
    BY <1>4, <1>5, <2>1, <2>2
<1>6. QED
  BY <1>5 DEF DispatchDelete

\* Every write of Cinder.
LEMMA VolumeStepHolds ==
  ASSUME ComputeInv, NEW r \in Requests, VolumeStep(r)
  PROVE  ComputeInv' /\ AdmittedStep /\ DetachStep /\ BoundStep
<1> DEFINE Goal == ComputeInv' /\ AdmittedStep /\ DetachStep /\ BoundStep
<1>1. /\ ComputeTyped /\ request \in [Requests -> ComputeRequest] /\ ImagesAreVisible /\ PlacedOnce
      /\ image' = image => ImagesKept
      /\ server' = server => ServersKept
  BY DEF ComputeInv, ComputeTyped, ImagesKept, ServersKept
<1>2. ASSUME UNCHANGED <<image, quota, server, volume, erased>>, request' = [request EXCEPT ![r] = Idle]
      PROVE  Goal
  <2>1. request' \in [Requests -> ComputeRequest] /\ \A y \in Requests : request'[y] = request[y] \/ request'[y] = Idle
    BY <1>1, <1>2, RequestEnds
  <2>2. VolumeClauses'
    BY <1>1, <1>2, <2>1, VolumesUntouched
  <2>3. ComputeTyped' /\ ImagesAreVisible' /\ PlacedOnce'
    BY <1>1, <1>2, <2>1, VolumeWriteKeeps DEF ComputeTyped
  <2>4. QED
    BY <1>2, <2>2, <2>3, SameVolumes DEF ComputeInv, VolumeClauses
<1>3. CASE CreateVolume(r)
  <2>1. PICK v \in Mintable(volume) : volume' =
          [volume EXCEPT ![v] = [born |-> TRUE, live |-> TRUE, owner |-> request[r].owner,
                              size |-> request[r].size, state |-> "available",
                              provider |-> None, workload |-> None, ceiling |-> request[r].max]]
    BY <1>3 DEF CreateVolume
  <2>2. v \in Volumes /\ ~volume[v].born
    BY <1>1 DEF Mintable, ComputeTyped
  <2>3. /\ UNCHANGED <<image, quota, server, erased>> /\ request[r].op = "volume"
        /\ request' = [request EXCEPT ![r] = Idle]
    BY <1>3 DEF CreateVolume, Finish
  <2>4. /\ request[r].owner \in Projects /\ request[r].size \in Sizes /\ request[r].max \in Ceilings
    BY <1>1, <2>3, ComputeRequestKinds DEF VolumeRequest
  <2> DEFINE x == [born |-> TRUE, live |-> TRUE, owner |-> request[r].owner,
                   size |-> request[r].size, state |-> "available",
                   provider |-> None, workload |-> None, ceiling |-> request[r].max]
  <2>5. None \in Providers \cup {None} /\ None \in Workloads \cup {None} /\ "available" \in {"available", "in-use", "deleting"}
    OBVIOUS
  <2>6. x \in VolumeRow
    BY <2>4, <2>5, Zenon DEF VolumeRow
  <2>7. /\ x.live /\ x.owner = request[r].owner /\ x.size = request[r].size /\ x.ceiling = request[r].max
        /\ x.state = "available" /\ x.provider = None /\ x.workload = None
    BY Zenon
  <2>8. volume' = [volume EXCEPT ![v] = x]
    BY <2>1, Zenon
  <2> HIDE DEF x
  <2>9. QED
    BY <2>2, <2>3, <2>6, <2>7, <2>8, MintStep
<1>4. CASE AttachVolume(r)
  <2> DEFINE v == request[r].volume
  <2>1. UNCHANGED <<image, quota, server>> /\ request[r].op = "attach" /\ request' = [request EXCEPT ![r] = Idle]
    BY <1>4 DEF AttachVolume, Finish
  <2>2. v \in Volumes /\ request[r].provider \in Providers /\ request[r].workload \in Workloads
    BY <1>1, <2>1, ComputeRequestKinds DEF AttachRequest
  <2>3. CASE UNCHANGED <<volume, erased>>
    BY <1>2, <2>1, <2>3
  <2>4. CASE ~UNCHANGED <<volume, erased>>
    <3>1. /\ GetVolume(v, request[r].owner) /\ volume[v].state = "available" /\ Bindable(v, request[r].provider)
          /\ \A u \in Live(volume) : volume[u].workload # request[r].workload
          /\ volume' = [volume EXCEPT ![v].state = "in-use", ![v].provider = request[r].provider,
                                      ![v].workload = request[r].workload]
          /\ erased' = erased \ {v}
      BY <1>4, <2>4 DEF AttachVolume
    <3>2. volume[v].live /\ volume[v].owner = request[r].owner /\ volume[v].provider \in {None, request[r].provider}
      BY <3>1 DEF GetVolume, Live, Bindable
    <3>3. volume[v] \in VolumeRow
      BY <1>1, <2>2, <3>2, ComputeRowKinds
    <3> DEFINE x == [volume[v] EXCEPT !.state = "in-use", !.provider = request[r].provider,
                                      !.workload = request[r].workload]
    <3>4. /\ x \in VolumeRow /\ x.live = volume[v].live /\ x.owner = volume[v].owner /\ x.size = volume[v].size
          /\ x.ceiling = volume[v].ceiling /\ x.state = "in-use" /\ x.provider = request[r].provider
          /\ x.workload = request[r].workload
      BY <2>2, <3>3 DEF VolumeRow
    <3>5. volume' = [volume EXCEPT ![v] = x]
      BY <1>1, <2>2, <3>1 DEF ComputeTyped
    <3>6. x.live
      BY <3>2, <3>4
    <3> HIDE DEF x, v
    <3>7. QED
      BY <2>1, <2>2, <3>1, <3>2, <3>4, <3>5, <3>6, AttachStep
  <2>5. QED
    BY <2>3, <2>4
<1>5. CASE DetachVolume(r)
  <2> DEFINE v == request[r].volume
  <2>1. UNCHANGED <<image, quota, server, erased>> /\ request[r].op = "detach" /\ request' = [request EXCEPT ![r] = Idle]
    BY <1>5 DEF DetachVolume, Finish
  <2>2. v \in Volumes
    BY <1>1, <2>1, ComputeRequestKinds DEF DetachRequest
  <2>3. CASE volume' = volume
    BY <1>2, <2>1, <2>3
  <2>4. CASE volume' # volume
    <3>1. /\ StillHeld(v, request[r].workload)
          /\ volume' = [volume EXCEPT ![v].state = "available", ![v].workload = None]
      BY <1>5, <2>4 DEF DetachVolume
    <3>2. volume[v].live /\ volume[v].state = "in-use" /\ volume[v].workload = request[r].workload
      BY <3>1 DEF StillHeld, Live
    <3>3. volume[v] \in VolumeRow
      BY <1>1, <2>2, <3>2, ComputeRowKinds
    <3> DEFINE x == [volume[v] EXCEPT !.state = "available", !.workload = None]
    <3>4. /\ x \in VolumeRow /\ x.live = volume[v].live /\ x.owner = volume[v].owner /\ x.size = volume[v].size
          /\ x.ceiling = volume[v].ceiling /\ x.state = "available" /\ x.provider = volume[v].provider
          /\ x.workload = None
      BY <3>3 DEF VolumeRow
    <3>5. volume' = [volume EXCEPT ![v] = x]
      BY <1>1, <2>2, <3>1 DEF ComputeTyped
    <3>6. x.live
      BY <3>2, <3>4
    <3> HIDE DEF x
    <3>7. QED
      BY <2>1, <2>2, <3>2, <3>4, <3>5, <3>6, ReleaseStep
  <2>5. QED
    BY <2>3, <2>4
<1>6. CASE DispatchDelete(r)
  <2>1. volume' = volume
    BY <1>6 DEF DispatchDelete
  <2>2. QED
    BY <1>6, <2>1, DispatchStep, SameVolumes
<1>7. CASE FinishDelete(r)
  <2> DEFINE v == request[r].volume
  <2>1. UNCHANGED <<image, quota, server, erased>> /\ request[r].op = "finish" /\ request' = [request EXCEPT ![r] = Idle]
    BY <1>7 DEF FinishDelete, Finish
  <2>2. request[r].op \in Deleting /\ v \in Volumes
    BY <1>1, <2>1, ComputeRequestKinds DEF DeleteRequest, Deleting
  <2>3. CASE volume' = volume
    BY <1>2, <2>1, <2>3
  <2>4. CASE volume' # volume
    <3>1. InDeleting(v) /\ volume' = [volume EXCEPT ![v].live = FALSE]
      BY <1>7, <2>4 DEF FinishDelete
    <3>2. volume[v] \in VolumeRow
      BY <1>1, <2>2, <3>1, ComputeRowKinds DEF InDeleting, Live
    <3> DEFINE x == [volume[v] EXCEPT !.live = FALSE]
    <3>3. /\ x \in VolumeRow /\ x.live = FALSE /\ x.owner = volume[v].owner /\ x.size = volume[v].size
          /\ x.ceiling = volume[v].ceiling /\ x.provider = volume[v].provider /\ x.workload = volume[v].workload
      BY <3>2, VolumeRetired
    <3>4. volume' = [volume EXCEPT ![v] = x]
      BY <3>1, Zenon
    <3> HIDE DEF x
    <3>5. QED
      BY <2>1, <2>2, <3>3, <3>4, EndDeleteStep
  <2>5. QED
    BY <2>3, <2>4
<1>8. CASE AbortDelete(r)
  <2> DEFINE v == request[r].volume
  <2>1. UNCHANGED <<image, quota, server, erased>> /\ request[r].op = "abort" /\ request' = [request EXCEPT ![r] = Idle]
    BY <1>8 DEF AbortDelete, Finish
  <2>2. request[r].op \in Deleting /\ v \in Volumes
    BY <1>1, <2>1, ComputeRequestKinds DEF DeleteRequest, Deleting
  <2>3. CASE volume' = volume
    BY <1>2, <2>1, <2>3
  <2>4. CASE volume' # volume
    <3>1. volume[v].live /\ volume' = [volume EXCEPT ![v].state = "available"]
      BY <1>8, <2>4 DEF AbortDelete, InDeleting, Live
    <3>2. volume[v] \in VolumeRow
      BY <1>1, <2>2, <3>1, ComputeRowKinds
    <3> DEFINE x == [volume[v] EXCEPT !.state = "available"]
    <3>3. /\ x \in VolumeRow /\ x.live = volume[v].live /\ x.owner = volume[v].owner /\ x.size = volume[v].size
          /\ x.ceiling = volume[v].ceiling /\ x.state = "available" /\ x.provider = volume[v].provider
          /\ x.workload = volume[v].workload
      BY <3>2 DEF VolumeRow
    <3>4. volume' = [volume EXCEPT ![v] = x]
      BY <1>1, <2>2, <3>1 DEF ComputeTyped
    <3>5. x.live
      BY <3>1, <3>3
    <3> HIDE DEF x
    <3>6. QED
      BY <2>1, <2>2, <3>3, <3>4, <3>5, EndDeleteStep
  <2>5. QED
    BY <2>3, <2>4
<1>9. QED
  BY <1>3, <1>4, <1>5, <1>6, <1>7, <1>8 DEF VolumeStep
\* The requests that begin on volumes.
LEMMA VolumeBegins ==
  ASSUME ComputeInv, NEW r \in Requests, NEW t \in Scopes, NEW c \in Projects,
         \/ \E size \in Sizes : CheckVolumeQuota(r, t, c, size)
         \/ \E v \in Volumes :
              \/ \E w \in Workloads : attachVolume(r, t, c, v, w)
              \/ detachVolume(r, t, c, v)
              \/ BeginDelete(r, t, c, v)
  PROVE  ComputeInv' /\ AdmittedStep /\ DetachStep /\ BoundStep
<1>1. ComputeTyped
  BY DEF ComputeInv
<1>2. ASSUME NEW q, NewComputeRequest(q), Begin(r, q), UNCHANGED computeVars
      PROVE  ComputeInv' /\ AdmittedStep /\ DetachStep /\ BoundStep
  <2>1. request' = [request EXCEPT ![r] = q] /\ volume' = volume
    BY <1>2 DEF Begin, computeVars
  <2>2. QED
    BY <1>2, <2>1, ComputeBegins, SameVolumes
<1>3. ASSUME NEW size \in Sizes, CheckVolumeQuota(r, t, c, size)
      PROVE  ComputeInv' /\ AdmittedStep /\ DetachStep /\ BoundStep
  <2> DEFINE max == IF quota[c] = None THEN None ELSE quota[c]["storage_gb"]
             q == [op |-> "volume", owner |-> c, size |-> size, max |-> max]
  <2>1. Begin(r, q) /\ UNCHANGED computeVars
    BY <1>3, Zenon DEF CheckVolumeQuota
  <2>2. max \in Ceilings
    <3>1. quota[c] \in Quotas \cup {None}
      BY <1>1 DEF ComputeTyped
    <3>2. QED
      BY <3>1 DEF Ceilings
  <2>3. max # None => /\ ~RowLocked(c) /\ max \in Nat
                      /\ CommittedUsage(c)["storage_gb"] + size <= max
    <3>1. max # None => quota[c] # None /\ max = quota[c]["storage_gb"]
      OBVIOUS
    <3>2. quota[c] # None => ~RowLocked(c) /\ CommittedUsage(c)["storage_gb"] + size <= quota[c]["storage_gb"]
      BY <1>3 DEF CheckVolumeQuota, LockFree
    <3>3. \A x \in Ceilings : x # None => x \in Nat
      BY NovaAssumption DEF Ceilings
    <3>4. QED
      BY <2>2, <3>1, <3>2, <3>3
  <2> HIDE DEF max
  <2>4. max # None => AdmittedStorage(c) + size <= max
    <3>1. /\ AdmittedStorage(c) \in Nat /\ CommittedUsage(c)["storage_gb"] \in Nat /\ size \in Nat
          /\ AdmittedStorage(c) <= CommittedUsage(c)["storage_gb"]
      BY <1>1, AdmittedIsCommitted, NovaAssumption
    <3>2. QED
      BY <2>3, <3>1
  <2>5. q \in VolumeRequest /\ q.owner = c /\ q.size = size /\ q.max = max
    BY <2>2 DEF VolumeRequest
  <2> HIDE DEF q
  <2>6. NewComputeRequest(q)
    BY <2>3, <2>4, <2>5 DEF NewComputeRequest
  <2>7. QED
    BY <1>2, <2>1, <2>6
<1>4. ASSUME NEW v \in Volumes, NEW w \in Workloads, attachVolume(r, t, c, v, w)
      PROVE  ComputeInv' /\ AdmittedStep /\ DetachStep /\ BoundStep
  <2> DEFINE q == [op |-> "attach", owner |-> c, volume |-> v, workload |-> w, provider |-> server[w].provider]
  <2>1. Begin(r, q) /\ UNCHANGED computeVars
    BY <1>4, Zenon DEF attachVolume
  <2>2. server[w].live /\ ProjectOf[w] = c /\ server[w].provider # None
    BY <1>4 DEF attachVolume, GetByProject, Live
  <2>3. server[w].born /\ server[w] \in ServerRow
    BY <1>1, <2>2, ComputeRowKinds
  <2>4. server[w].provider \in Providers
    BY <2>2, <2>3 DEF ServerRow
  <2>5. q \in AttachRequest /\ q.workload = w /\ q.owner = c /\ q.provider = server[w].provider
    BY <2>4 DEF AttachRequest
  <2> HIDE DEF q
  <2>6. NewComputeRequest(q)
    BY <2>2, <2>3, <2>5 DEF NewComputeRequest
  <2>7. QED
    BY <1>2, <2>1, <2>6
<1>5. ASSUME NEW v \in Volumes, detachVolume(r, t, c, v)
      PROVE  ComputeInv' /\ AdmittedStep /\ DetachStep /\ BoundStep
  <2> DEFINE q == [op |-> "detach", volume |-> v, workload |-> volume[v].workload]
  <2>1. Begin(r, q) /\ UNCHANGED computeVars
    BY <1>5, Zenon DEF detachVolume
  <2>2. volume[v].live /\ volume[v].workload # None
    BY <1>5 DEF detachVolume, GetVolume, Live
  <2>3. volume[v] \in VolumeRow
    BY <1>1, <2>2, ComputeRowKinds
  <2>4. volume[v].workload \in Workloads
    BY <2>2, <2>3 DEF VolumeRow
  <2>5. q \in DetachRequest
    BY <2>4 DEF DetachRequest
  <2> HIDE DEF q
  <2>6. NewComputeRequest(q)
    BY <2>5 DEF NewComputeRequest
  <2>7. QED
    BY <1>2, <2>1, <2>6
<1>6. ASSUME NEW v \in Volumes, BeginDelete(r, t, c, v)
      PROVE  ComputeInv' /\ AdmittedStep /\ DetachStep /\ BoundStep
  <2> DEFINE op == IF volume[v].provider = None THEN "finish" ELSE "dispatch"
             q == [op |-> op, volume |-> v, expired |-> FALSE]
             x == [volume[v] EXCEPT !.state = "deleting"]
  <2>1. /\ UNCHANGED <<image, quota, server, erased>> /\ request' = [request EXCEPT ![r] = q]
    BY <1>6, Zenon DEF BeginDelete, Begin
  <2>2. /\ volume[v].live /\ volume[v].state = "available" /\ volume' = [volume EXCEPT ![v].state = "deleting"]
    BY <1>6 DEF BeginDelete, GetVolume, Live, Deletable
  <2>3. volume[v] \in VolumeRow
    BY <1>1, <2>2, ComputeRowKinds
  <2>4. /\ x \in VolumeRow /\ x.live = volume[v].live /\ x.owner = volume[v].owner /\ x.size = volume[v].size
        /\ x.ceiling = volume[v].ceiling /\ x.state = "deleting" /\ x.provider = volume[v].provider
        /\ x.workload = volume[v].workload
    BY <2>3 DEF VolumeRow
  <2>5. volume' = [volume EXCEPT ![v] = x]
    BY <1>1, <2>2 DEF ComputeTyped
  <2>6. x.live
    BY <2>2, <2>4
  <2>7. op \in Deleting /\ (op = "finish" => volume[v].provider = None)
    BY DEF Deleting
  <2> HIDE DEF op, x
  <2>8. q \in DeleteRequest /\ q.volume = v /\ q.op = op
    BY <2>7, Zenon DEF DeleteRequest
  <2> HIDE DEF q
  <2>9. QED
    BY <2>1, <2>2, <2>4, <2>5, <2>6, <2>7, <2>8, MarkStep
<1>7. QED
  BY <1>3, <1>4, <1>5, <1>6

\* Steps that leave the volumes alone: images, servers, quotas, a crash.
LEMMA AroundVolumes ==
  ASSUME ComputeInv, volume' = volume, erased' = erased, ServersKept, ImagesKept,
         image' \in [Images -> Row(ImageRow)], quota' \in [Projects -> Quotas \cup {None}],
         server' \in [Workloads -> Row(ServerRow)], request' \in [Requests -> ComputeRequest],
         \A r \in Requests : request'[r] = request[r] \/ request'[r] = Idle,
         PlacedOnce',
         \A w \in Workloads : server'[w].born /\ ~server[w].born /\ server'[w].image # None =>
           GetImage(server'[w].image, ProjectOf[w])
  PROVE  ComputeInv' /\ AdmittedStep /\ DetachStep /\ BoundStep
<1>1. ComputeTyped /\ ImagesAreVisible
  BY DEF ComputeInv
<1>2. VolumeClauses'
  BY VolumesUntouched
<1>3. ComputeTyped'
  BY <1>1 DEF ComputeTyped
<1>4. ASSUME NEW w \in Workloads, server'[w].born, server'[w].image # None
      PROVE  /\ image'[server'[w].image].born
             /\ image'[server'[w].image].owner = ProjectOf[w] \/ image'[server'[w].image].public
  <2>1. \A i \in Images : image[i].live => image[i].born
    BY <1>1, ComputeRowKinds, Zenon
  <2>2. CASE server[w].born
    <3>1. server[w] \in ServerRow /\ server'[w].image = server[w].image
      BY <1>1, <2>2, ComputeRowKinds DEF ServersKept
    <3>2. server[w].image \in Images
      BY <1>4, <3>1 DEF ServerRow
    <3>3. QED
      BY <1>1, <1>4, <2>2, <3>1, <3>2 DEF ImagesAreVisible, ImagesKept
  <2>3. CASE ~server[w].born
    <3>1. GetImage(server'[w].image, ProjectOf[w])
      BY <1>4, <2>3
    <3> DEFINE i == server'[w].image
    <3>2. i \in Images /\ image[i].live /\ (image[i].owner = ProjectOf[w] \/ image[i].public)
      BY <1>1, <3>1 DEF GetImage, Live, ComputeTyped
    <3> HIDE DEF i
    <3>3. image'[i].born /\ (image'[i].owner = ProjectOf[w] \/ image'[i].public)
      BY <2>1, <3>2 DEF ImagesKept
    <3>4. QED
      BY <3>3 DEF i
  <2>4. QED
    BY <2>2, <2>3
<1>5. ImagesAreVisible'
  BY <1>4, Zenon DEF ImagesAreVisible
<1>6. QED
  BY <1>2, <1>3, <1>5, SameVolumes DEF ComputeInv, VolumeClauses
\* A server's row is written: it closes, is placed, or is new.
LEMMA ServerRowStep ==
  ASSUME ComputeInv, UNCHANGED <<image, quota, volume, erased>>,
         request' \in [Requests -> ComputeRequest],
         \A r \in Requests : request'[r] = request[r] \/ request'[r] = Idle,
         NEW w \in Workloads, NEW x \in ServerRow, server' = [server EXCEPT ![w] = x],
         server[w].born => /\ x.image = server[w].image
                           /\ server[w].provider # None => x.provider = server[w].provider,
         ~server[w].born /\ x.image # None => GetImage(x.image, ProjectOf[w]),
         x.state = "WAITING" => x.provider = None
  PROVE  ComputeInv' /\ AdmittedStep /\ DetachStep /\ BoundStep
<1>1. ComputeTyped /\ PlacedOnce
  BY DEF ComputeInv
<1>2. server' \in [Workloads -> Row(ServerRow)] /\ ServersKept
  BY <1>1, ServerWriteKeeps
<1>3. server'[w] = x /\ \A u \in Workloads : u # w => server'[u] = server[u]
  BY <1>1 DEF ComputeTyped
<1>4. PlacedOnce'
  BY <1>1, <1>3 DEF PlacedOnce
<1>5. image' \in [Images -> Row(ImageRow)] /\ quota' \in [Projects -> Quotas \cup {None}] /\ ImagesKept
  BY <1>1 DEF ComputeTyped, ImagesKept
<1>6. \A u \in Workloads : server'[u].born /\ ~server[u].born /\ server'[u].image # None =>
        GetImage(server'[u].image, ProjectOf[u])
  BY <1>3
<1>7. QED
  BY <1>2, <1>4, <1>5, <1>6, AroundVolumes

\* A step that changes no server, image or volume.
LEMMA RequestsOnly ==
  ASSUME ComputeInv, UNCHANGED <<image, server, volume, erased>>, quota' \in [Projects -> Quotas \cup {None}],
         request' \in [Requests -> ComputeRequest],
         \A r \in Requests : request'[r] = request[r] \/ request'[r] = Idle
  PROVE  ComputeInv' /\ AdmittedStep /\ DetachStep /\ BoundStep
<1>1. ComputeTyped /\ PlacedOnce
  BY DEF ComputeInv
<1>2. /\ image' \in [Images -> Row(ImageRow)] /\ server' \in [Workloads -> Row(ServerRow)]
      /\ ImagesKept /\ ServersKept
  BY <1>1 DEF ComputeTyped, ImagesKept, ServersKept
<1>3. PlacedOnce'
  BY <1>1 DEF PlacedOnce
<1>4. \A u \in Workloads : server'[u].born /\ ~server[u].born /\ server'[u].image # None =>
        GetImage(server'[u].image, ProjectOf[u])
  OBVIOUS
<1>5. QED
  BY <1>2, <1>3, <1>4, AroundVolumes

\* Nova's writes and the environment of the servers.
LEMMA ServerStepHolds ==
  ASSUME ComputeInv, ServerWrite \/ ServerCreate
  PROVE  ComputeInv' /\ AdmittedStep /\ DetachStep /\ BoundStep
<1> DEFINE Goal == ComputeInv' /\ AdmittedStep /\ DetachStep /\ BoundStep
<1>1. ComputeTyped /\ PlacedOnce /\ request \in [Requests -> ComputeRequest] /\ Idle \in ComputeRequest
  BY DEF ComputeInv, ComputeTyped, ComputeRequest
<1>2. ASSUME NEW w \in Workloads, server[w].live, server' = [server EXCEPT ![w].state = "CLOSED"],
             UNCHANGED <<image, quota, volume, erased, request>>
      PROVE  Goal
  <2> DEFINE x == [server[w] EXCEPT !.state = "CLOSED"]
  <2>1. server[w].born /\ server[w] \in ServerRow
    BY <1>1, <1>2, ComputeRowKinds
  <2>2. x \in ServerRow /\ x.image = server[w].image /\ x.provider = server[w].provider /\ x.state = "CLOSED"
    BY <2>1 DEF ServerRow, States
  <2>3. server' = [server EXCEPT ![w] = x]
    BY <1>1, <1>2 DEF ComputeTyped
  <2> HIDE DEF x
  <2>4. QED
    BY <1>1, <1>2, <2>1, <2>2, <2>3, ServerRowStep
<1>3. ASSUME NEW w \in Workloads, NEW p \in Providers, AssignLease(w, p) PROVE Goal
  <2> DEFINE x == [server[w] EXCEPT !.state = "OPEN", !.provider = p]
  <2>1. /\ server[w].live /\ server[w].state = "WAITING"
        /\ server' = [server EXCEPT ![w].state = "OPEN", ![w].provider = p]
        /\ UNCHANGED <<image, quota, volume, erased, request>>
    BY <1>3 DEF AssignLease, Live
  <2>2. server[w].born /\ server[w] \in ServerRow /\ server[w].provider = None
    BY <1>1, <2>1, ComputeRowKinds DEF PlacedOnce
  <2>3. x \in ServerRow /\ x.image = server[w].image /\ x.state = "OPEN"
    BY <2>2 DEF ServerRow, States
  <2>4. server' = [server EXCEPT ![w] = x]
    BY <1>1, <2>1 DEF ComputeTyped
  <2> HIDE DEF x
  <2>5. QED
    BY <1>1, <2>1, <2>2, <2>3, <2>4, ServerRowStep
<1>4. ASSUME NEW c \in Projects, NEW q \in Quotas, SetQuota(c, q) PROVE Goal
  <2>1. UNCHANGED <<image, server, volume, erased, request>> /\ quota' \in [Projects -> Quotas \cup {None}]
    BY <1>1, <1>4 DEF SetQuota, ComputeTyped
  <2>2. QED
    BY <1>1, <2>1, RequestsOnly
<1>5. ASSUME Crash PROVE Goal
  <2>1. UNCHANGED <<image, quota, server, volume, erased>> /\ request' = [r \in Requests |-> Idle]
    BY <1>5 DEF Crash, computeVars
  <2>2. quota' \in [Projects -> Quotas \cup {None}]
    BY <1>1, <2>1 DEF ComputeTyped
  <2>3. QED
    BY <1>1, <2>1, <2>2, RequestsOnly
<1>6. ASSUME NEW r \in Requests, NEW t \in Scopes, NEW c \in Projects, NEW i \in Images, createServer(r, t, c, i)
      PROVE  Goal
  <2> DEFINE q == [op |-> "server", owner |-> c, image |-> i]
  <2>1. request' = [request EXCEPT ![r] = q] /\ UNCHANGED computeVars
    BY <1>6, Zenon DEF createServer, Begin
  <2>2. q \in ServerRequest
    BY DEF ServerRequest
  <2> HIDE DEF q
  <2>3. NewComputeRequest(q) /\ volume' = volume
    BY <2>1, <2>2 DEF NewComputeRequest, computeVars
  <2>4. QED
    BY <2>1, <2>3, ComputeBegins, SameVolumes
<1>7. ASSUME NEW r \in Requests, resolveImageRef(r) PROVE Goal
  <2>1. /\ UNCHANGED <<image, quota, volume, erased>> /\ request[r].op = "server"
        /\ request' = [request EXCEPT ![r] = Idle]
    BY <1>7 DEF resolveImageRef, Finish
  <2>2. /\ request' \in [Requests -> ComputeRequest]
        /\ \A y \in Requests : request'[y] = request[y] \/ request'[y] = Idle
    BY <1>1, <2>1
  <2>3. request[r].image \in Images
    BY <1>1, <2>1, ComputeRequestKinds DEF ServerRequest
  <2>4. CASE UNCHANGED server
    <3>1. quota' \in [Projects -> Quotas \cup {None}]
      BY <1>1, <2>1 DEF ComputeTyped
    <3>2. QED
      BY <2>1, <2>2, <2>4, <3>1, RequestsOnly
  <2>5. CASE ~UNCHANGED server
    <3>1. PICK w \in Mintable(server) :
            /\ GetImage(request[r].image, request[r].owner) /\ ProjectOf[w] = request[r].owner
            /\ server' = [server EXCEPT ![w] = [born |-> TRUE, live |-> TRUE, state |-> "WAITING",
                                                provider |-> None, image |-> request[r].image]]
      BY <1>7, <2>5 DEF resolveImageRef
    <3>2. w \in Workloads /\ ~server[w].born
      BY <1>1 DEF Mintable, ComputeTyped
    <3> DEFINE x == [born |-> TRUE, live |-> TRUE, state |-> "WAITING",
                     provider |-> None, image |-> request[r].image]
    <3>3. "WAITING" \in States /\ None \in Providers \cup {None} /\ request[r].image \in Images \cup {None}
      BY <2>3 DEF States
    <3>4. x \in ServerRow
      BY <3>3, Zenon DEF ServerRow
    <3>5. x.image = request[r].image /\ x.provider = None
      BY Zenon
    <3>6. server' = [server EXCEPT ![w] = x]
      BY <3>1, Zenon
    <3> HIDE DEF x
    <3>7. GetImage(x.image, ProjectOf[w])
      BY <3>1, <3>5, Zenon
    <3>8. QED
      BY <2>1, <2>2, <3>2, <3>4, <3>5, <3>6, <3>7, ServerRowStep
  <2>6. QED
    BY <2>4, <2>5
<1>8. ASSUME NEW w \in Workloads, NEW t \in Scopes, NEW c \in Projects, deleteServer(t, c, w) PROVE Goal
  BY <1>2, <1>8 DEF deleteServer, GetByProject, Live
<1>9. ASSUME NEW w \in Workloads, MarkFailed(w) PROVE Goal
  BY <1>2, <1>9 DEF MarkFailed, Live
<1> HIDE DEF Goal
<1>10. Goal
  <2>1. ServerWrite => Goal
    <3>1. ASSUME NEW w \in Workloads,
                 \/ \E t \in Scopes, c \in Projects : deleteServer(t, c, w)
                 \/ \E p \in Providers : AssignLease(w, p)
                 \/ MarkFailed(w)
          PROVE  Goal
      BY <1>3, <1>8, <1>9, <3>1, Zenon
    <3>2. QED
      BY <1>4, <1>5, <3>1, Zenon DEF ServerWrite
  <2>2. ServerCreate => Goal
    BY <1>6, <1>7, Zenon DEF ServerCreate
  <2>3. QED
    BY <2>1, <2>2
<1>11. QED
  BY <1>10 DEF Goal

\* Glance: what is shown is the caller's or public, and a row keeps both.
LEMMA ImageStepHolds ==
  ASSUME ComputeInv, ImageNext
  PROVE  ComputeInv' /\ AdmittedStep /\ DetachStep /\ BoundStep /\ foreign' = {}
<1>1. ComputeTyped /\ PlacedOnce /\ request \in [Requests -> ComputeRequest]
  BY DEF ComputeInv, ComputeTyped
<1>2. UNCHANGED <<quota, server, volume, erased, request>>
  BY DEF ImageNext, createImage, deleteImage, getImage, listImages, ShownImages, Shown
<1>3. ASSUME image' \in [Images -> Row(ImageRow)], ImagesKept
      PROVE  ComputeInv' /\ AdmittedStep /\ DetachStep /\ BoundStep
  <2>1. /\ server' \in [Workloads -> Row(ServerRow)] /\ quota' \in [Projects -> Quotas \cup {None}]
        /\ ServersKept /\ PlacedOnce'
    BY <1>1, <1>2 DEF ComputeTyped, ServersKept, PlacedOnce
  <2>2. QED
    BY <1>1, <1>2, <1>3, <2>1, AroundVolumes
<1>4. ASSUME NEW t \in Scopes, NEW public \in BOOLEAN, createImage(t, public), foreign' = {}
      PROVE  image' \in [Images -> Row(ImageRow)] /\ ImagesKept
  <2>1. t \in Projects
    BY <1>4 DEF createImage, requireProjectID, Scopes
  <2>2. PICK i \in Mintable(image) : image' =
          [image EXCEPT ![i] = [born |-> TRUE, live |-> TRUE, owner |-> t, public |-> public]]
    BY <1>4 DEF createImage
  <2>3. i \in Images /\ ~image[i].born
    BY <1>1 DEF Mintable, ComputeTyped
  <2> DEFINE x == [born |-> TRUE, live |-> TRUE, owner |-> t, public |-> public]
  <2>4. x \in ImageRow
    BY <2>1, Zenon DEF ImageRow
  <2>5. image' = [image EXCEPT ![i] = x]
    BY <2>2, Zenon
  <2> HIDE DEF x
  <2>6. QED
    BY <1>1, <2>3, <2>4, <2>5, ImageMintKeeps
<1>5. ASSUME NEW t \in Scopes, NEW i \in Images, deleteImage(t, i), foreign' = {}
      PROVE  image' \in [Images -> Row(ImageRow)] /\ ImagesKept
  <2>1. image[i].live /\ image' = [image EXCEPT ![i].live = FALSE]
    BY <1>5 DEF deleteImage, Live
  <2>2. image[i] \in ImageRow
    BY <1>1, <2>1, ComputeRowKinds
  <2> DEFINE x == [image[i] EXCEPT !.live = FALSE]
  <2>3. x \in ImageRow /\ x.owner = image[i].owner /\ x.public = image[i].public
    BY <2>2, ImageRetired
  <2>4. image' = [image EXCEPT ![i] = x]
    BY <2>1, Zenon
  <2> HIDE DEF x
  <2>5. QED
    BY <1>1, <2>3, <2>4, ImageMintKeeps
<1>6. ASSUME NEW t \in Scopes, listImages(t) \/ \E i \in Images : getImage(t, i)
      PROVE  image' \in [Images -> Row(ImageRow)] /\ ImagesKept /\ foreign' = {}
  <2>1. image' = image
    BY <1>6 DEF listImages, getImage
  <2>2. PICK ids : (\A i \in ids : GetImage(i, t)) /\ ShownImages(t, ids)
    <3>1. CASE listImages(t)
      <4>1. ShownImages(t, {i \in Images : GetImage(i, t)})
        BY <3>1 DEF listImages
      <4>2. QED
        BY <4>1
    <3>2. ASSUME NEW i \in Images, getImage(t, i)
          PROVE  \E ids : (\A j \in ids : GetImage(j, t)) /\ ShownImages(t, ids)
      <4>1. ShownImages(t, {i}) /\ GetImage(i, t)
        BY <3>2 DEF getImage
      <4>2. \A j \in {i} : GetImage(j, t)
        BY <4>1
      <4>3. QED
        BY <4>1, <4>2
    <3>3. QED
      BY <1>6, <3>1, <3>2
  <2>3. {image[i].owner : i \in {j \in ids : ~image[j].public}} \subseteq {t}
    BY <2>2 DEF GetImage
  <2>4. foreign' = {}
    BY <2>2, <2>3 DEF ShownImages, Shown
  <2>5. QED
    BY <1>1, <2>1, <2>4 DEF ComputeTyped, ImagesKept
<1>7. image' \in [Images -> Row(ImageRow)] /\ ImagesKept /\ foreign' = {}
  <2>1. PICK t \in Scopes :
          \/ \E public \in BOOLEAN : createImage(t, public) /\ foreign' = {}
          \/ \E i \in Images : \/ deleteImage(t, i) /\ foreign' = {}
                               \/ getImage(t, i)
          \/ listImages(t)
    BY Zenon DEF ImageNext
  <2>2. CASE \E public \in BOOLEAN : createImage(t, public) /\ foreign' = {}
    BY <1>4, <2>2, Zenon
  <2>3. CASE \E i \in Images : deleteImage(t, i) /\ foreign' = {}
    BY <1>5, <2>3, Zenon
  <2>4. CASE listImages(t) \/ \E i \in Images : getImage(t, i)
    BY <1>6, <2>4
  <2>5. QED
    BY <2>1, <2>2, <2>3, <2>4, Zenon
<1>8. QED
  BY <1>3, <1>7
\* Nova's and Cinder's reads show the caller's rows and change nothing.
LEMMA ComputeReads ==
  ASSUME ComputeInv, ServerRead \/ VolumeRead
  PROVE  UNCHANGED <<image, quota, server, volume, erased, request>> /\ foreign' = {}
<1> DEFINE Goal == UNCHANGED <<image, quota, server, volume, erased, request>> /\ foreign' = {}
<1>1. ASSUME NEW t, NEW ids, \A w \in ids : ProjectOf[w] = t, ShownServers(t, ids) PROVE Goal
  <2>1. {ProjectOf[w] : w \in ids} \subseteq {t}
    BY <1>1
  <2>2. QED
    BY <1>1, <2>1 DEF ShownServers, Shown, computeVars
<1>2. ASSUME NEW t \in Scopes, NEW w \in Workloads, showPolicy(t, w) \/ allocationsForConsumer(t, w)
      PROVE  Goal
  <2>1. ShownServers(t, {w}) /\ \A u \in {w} : ProjectOf[u] = t
    BY <1>2 DEF showPolicy, allocationsForConsumer, OpenServers
  <2>2. QED
    BY <1>1, <2>1, Zenon
<1>3. ASSUME NEW t \in Scopes, listPolicies(t) PROVE Goal
  <2>1. ShownServers(t, OpenServers(t)) /\ \A u \in OpenServers(t) : ProjectOf[u] = t
    BY <1>3 DEF listPolicies, OpenServers
  <2>2. QED
    BY <1>1, <2>1, Zenon
<1>4. ASSUME NEW t \in Scopes, NEW c \in Projects, listServers(t, c) PROVE Goal
  <2>1. /\ ShownServers(t, {w \in Workloads : GetByProject(w, c)})
        /\ \A u \in {w \in Workloads : GetByProject(w, c)} : ProjectOf[u] = t
    BY <1>4 DEF listServers, requireProjectScope, GetByProject
  <2>2. QED
    BY <1>1, <2>1, Zenon
<1>5. ASSUME NEW t \in Scopes, NEW c \in Projects, NEW w \in Workloads, showServer(t, c, w) PROVE Goal
  <2>1. ShownServers(t, {w}) /\ \A u \in {w} : ProjectOf[u] = t
    BY <1>5 DEF showServer, requireProjectScope, GetByProject
  <2>2. QED
    BY <1>1, <2>1, Zenon
<1>6. ASSUME NEW t \in Scopes, NEW c \in Projects, listVolumes(t, c) \/ \E v \in Volumes : getVolume(t, c, v)
      PROVE  Goal
  <2>1. PICK owners : owners \subseteq {t} /\ Shown(t, owners)
    <3>1. CASE listVolumes(t, c)
      <4>1. /\ Shown(t, {volume[v].owner : v \in {u \in Volumes : GetVolume(u, c)}}) /\ t = c
        BY <3>1 DEF listVolumes, requireProjectScope
      <4>2. {volume[v].owner : v \in {u \in Volumes : GetVolume(u, c)}} \subseteq {t}
        BY <4>1 DEF GetVolume
      <4>3. QED
        BY <4>1, <4>2
    <3>2. ASSUME NEW v \in Volumes, getVolume(t, c, v)
          PROVE  \E owners : owners \subseteq {t} /\ Shown(t, owners)
      <4>1. Shown(t, {volume[v].owner}) /\ volume[v].owner = t
        BY <3>2 DEF getVolume, GetVolume, requireProjectScope
      <4>2. {volume[v].owner} \subseteq {t}
        BY <4>1
      <4>3. QED
        BY <4>1, <4>2
    <3>3. QED
      BY <1>6, <3>1, <3>2
  <2>2. UNCHANGED <<image, quota, server, volume, erased>>
    BY <1>6 DEF listVolumes, getVolume, computeVars
  <2>3. QED
    BY <2>1, <2>2 DEF Shown
<1>7. Goal
  <2> HIDE DEF Goal
  <2>1. ServerRead => Goal
    BY <1>2, <1>3, <1>4, <1>5, Zenon DEF ServerRead, serverMetadata
  <2>2. VolumeRead => Goal
    BY <1>6, Zenon DEF VolumeRead
  <2>3. QED
    BY <2>1, <2>2
<1>8. QED
  BY <1>7

\* Every step of the compute and of the volume services.
LEMMA ComputeStepHolds ==
  ASSUME ComputeInv, ComputeNext \/ VolumeNext
  PROVE  ComputeInv' /\ AdmittedStep /\ DetachStep /\ BoundStep /\ foreign' = {}
<1> DEFINE Goal == ComputeInv' /\ AdmittedStep /\ DetachStep /\ BoundStep
<1>1. (ServerWrite \/ ServerCreate) => Goal
  BY ServerStepHolds
<1>2. VolumeWrite => Goal
  <2>1. ASSUME NEW r \in Requests, NEW t \in Scopes, NEW c \in Projects,
               \/ \E size \in Sizes : CheckVolumeQuota(r, t, c, size)
               \/ \E v \in Volumes :
                    \/ \E w \in Workloads : attachVolume(r, t, c, v, w)
                    \/ detachVolume(r, t, c, v)
                    \/ BeginDelete(r, t, c, v)
        PROVE  Goal
    BY <2>1, VolumeBegins, Zenon
  <2>2. ASSUME NEW r \in Requests, VolumeStep(r) PROVE Goal
    BY <2>2, VolumeStepHolds, Zenon
  <2> HIDE DEF Goal
  <2>3. QED
    BY <2>1, <2>2, Zenon DEF VolumeWrite
<1>3. (ServerRead \/ VolumeRead) => Goal /\ foreign' = {}
  <2>1. SUFFICES ASSUME ServerRead \/ VolumeRead PROVE Goal /\ foreign' = {}
    BY Zenon
  <2>2. UNCHANGED <<image, quota, server, volume, erased, request>> /\ foreign' = {}
    BY <2>1, ComputeReads
  <2>3. quota' \in [Projects -> Quotas \cup {None}] /\ request' \in [Requests -> ComputeRequest]
    BY <2>2 DEF ComputeInv, ComputeTyped
  <2>4. QED
    BY <2>2, <2>3, RequestsOnly
<1>4. ImageNext => Goal /\ foreign' = {}
  BY ImageStepHolds, Zenon
<1>5. Goal /\ foreign' = {}
  <2> HIDE DEF Goal
  <2>1. QED
    BY <1>1, <1>2, <1>3, <1>4, Zenon DEF ComputeNext, VolumeNext
<1>6. QED
  BY <1>5

\* The parts of the invariant give the properties of servers and volumes.
LEMMA ComputeFollows ==
  ASSUME ComputeInv
  PROVE  VolumesAreSound /\ ServersUseVisibleImages /\ AttachmentIsLocal
<1>1. ComputeTyped /\ ImagesAreVisible /\ HeldInUse /\ AttachmentsHold /\ DeletionsHold
  BY DEF ComputeInv
<1>2. \A w \in Live(server) : w \in Workloads /\ server[w].born
  BY <1>1, ComputeRowKinds DEF Live, ComputeTyped
<1>3. \A v \in Live(volume) : v \in Volumes /\ volume[v].live
  BY <1>1 DEF Live, ComputeTyped
<1>4. ComputeTypeOK
  <2>1. \A v \in Live(volume) : (volume[v].state = "in-use") = (volume[v].workload # None)
    BY <1>1, <1>3 DEF HeldInUse
  <2>2. QED
    BY <1>1, <2>1, Zenon DEF ComputeTyped, ComputeTypeOK, ImageRow, ServerRow, VolumeRow, Ceilings
<1>5. VolumesAreSound
  BY <1>1, <1>4 DEF VolumesAreSound, DeletionsHold
<1>6. ServersUseVisibleImages
  BY <1>1, <1>2 DEF ServersUseVisibleImages, ImagesAreVisible
<1>7. AttachmentIsLocal
  BY <1>1, <1>3 DEF AttachmentIsLocal, AttachmentsHold
<1>8. QED
  BY <1>5, <1>6, <1>7
-----------------------------------------------------------------------------
(* The services together.                                                  *)

\* The tables of images, servers and volumes before any request of theirs.
ComputeBlank ==
  /\ image = [i \in Images |-> Unborn] /\ quota = [c \in Projects |-> None]
  /\ server = [w \in Workloads |-> Unborn] /\ volume = [v \in Volumes |-> Unborn] /\ erased = {}

CloudInv ==
  /\ foreign = {}
  /\ service = "network" => NetworkInv /\ ComputeBlank
  /\ service \in {"compute", "volume"} => NeutronInit /\ ComputeInv
  /\ service \in {"network", "compute", "volume"}

\* An empty table is a typed one.
LEMMA UnbornRows ==
  ASSUME NEW S, NEW fields
  PROVE  [s \in S |-> Unborn] \in [S -> Row(fields)]
<1>1. Unborn \in Row(fields)
  BY DEF Row
<1>2. QED
  BY <1>1

\* A row that was never inserted is not live.
LEMMA UnbornIsDead == Unborn.born = FALSE /\ Unborn.live = FALSE
BY Zenon DEF Unborn

\* The network tables begin empty, with no request in flight.
LEMMA NetworkInit ==
  ASSUME ApiInit, NeutronInit
  PROVE  NetworkInv
<1>1. NetworkTyped
  <2>1. Idle \in NetworkRequest
    BY DEF NetworkRequest
  <2>2. request \in [Requests -> NetworkRequest] /\ attached \in [Ports -> SUBSET Groups]
    BY <2>1 DEF ApiInit, NeutronInit
  <2>3. QED
    BY <2>2, UnbornRows, Zenon DEF NetworkTyped, NeutronInit
<1>2. \A r \in Requests : request[r].op = "idle"
  BY DEF ApiInit, Idle
<1>3. /\ \A s \in Subnets : subnet[s] = Unborn
      /\ \A p \in Ports : port[p] = Unborn /\ attached[p] = {}
  BY DEF NeutronInit
<1>4. /\ \A s \in Subnets : ~subnet[s].born
      /\ \A p \in Ports : ~port[p].born /\ ~port[p].live /\ attached[p] = {}
  BY <1>3, UnbornIsDead, Zenon
<1>5. \A p \in Live(port) : FALSE
  BY <1>1, <1>4 DEF Live, NetworkTyped
<1>6. SubnetsHaveNetworks /\ PortsHaveSubnets
  BY <1>2, <1>4 DEF SubnetsHaveNetworks, PortsHaveSubnets
<1>7. AddressesAreDistinct /\ GroupsAreOwn /\ BindingsAreOwn
  BY <1>2, <1>4, <1>5 DEF AddressesAreDistinct, GroupsAreOwn, BindingsAreOwn
<1>8. QED
  BY <1>1, <1>6, <1>7 DEF NetworkInv

\* What holds of empty tables, whichever service runs.
LEMMA BlankNetwork ==
  ASSUME NeutronInit, \A r \in Requests : request[r].op # "port"
  PROVE  NetworkIsSound /\ ResolvedRulesAreOwned
<1>1. /\ \A s \in Subnets : subnet[s] = Unborn
      /\ \A p \in Ports : port[p] = Unborn /\ attached[p] = {}
      /\ DOMAIN port = Ports
  BY DEF NeutronInit
<1>2. /\ \A s \in Subnets : ~subnet[s].born
      /\ \A p \in Ports : ~port[p].live /\ attached[p] = {}
  BY <1>1, UnbornIsDead, Zenon
<1>3. Live(port) = {}
  BY <1>1, <1>2 DEF Live
<1>4. NeutronTypeOK
  <2>1. attached \in [Ports -> SUBSET Groups]
    BY DEF NeutronInit
  <2>2. /\ \A p \in Live(port) : subnet[port[p].subnet].born
        /\ \A p \in Ports : \A g \in attached[p] : port[p].born /\ group[g].born
    BY <1>2, <1>3
  <2>3. QED
    BY <2>1, <2>2, UnbornRows, Zenon DEF NeutronTypeOK, NeutronInit
<1>5. AddressesUsable /\ ClaimedAddressIsFree /\ SubnetsBelongToNetwork
  BY <1>2, <1>3 DEF AddressesUsable, ClaimedAddressIsFree, SubnetsBelongToNetwork
<1>6. ResolvedRulesAreOwned
  BY <1>3 DEF ResolvedRulesAreOwned, ResolveForWorkload, PortForWorkload
<1>7. QED
  BY <1>4, <1>5, <1>6 DEF NetworkIsSound
\* Without servers and volumes there is nothing to violate.
LEMMA BlankCompute ==
  ASSUME ComputeBlank
  PROVE  VolumesAreSound /\ ServersUseVisibleImages /\ AttachmentIsLocal
<1>1. /\ \A w \in Workloads : server[w] = Unborn
      /\ \A v \in Volumes : volume[v] = Unborn
      /\ DOMAIN server = Workloads /\ DOMAIN volume = Volumes
  BY DEF ComputeBlank
<1>2. /\ \A w \in Workloads : ~server[w].live
      /\ \A v \in Volumes : ~volume[v].live /\ ~volume[v].born
  BY <1>1, UnbornIsDead, Zenon
<1>3. Live(volume) = {} /\ Live(server) = {}
  BY <1>1, <1>2 DEF Live
<1>4. ComputeTypeOK
  <2>1. quota \in [Projects -> Quotas \cup {None}] /\ erased \subseteq Volumes
    BY DEF ComputeBlank
  <2>2. \A v \in Live(volume) : (volume[v].state = "in-use") = (volume[v].workload # None)
    BY <1>3
  <2>3. QED
    BY <2>1, <2>2, UnbornRows, Zenon DEF ComputeTypeOK, ComputeBlank
<1>5. QED
  BY <1>2, <1>3, <1>4 DEF VolumesAreSound, DeletedIsErased, ServersUseVisibleImages, AttachmentIsLocal

\* The other services begin with the workloads a project has already.
LEMMA ComputeInit ==
  ASSUME Init
  PROVE  ComputeInv
<1>1. /\ request = [r \in Requests |-> Idle] /\ quota = [c \in Projects |-> None]
      /\ volume = [v \in Volumes |-> Unborn] /\ image = [i \in Images |-> Unborn] /\ erased = {}
  BY DEF Init, ApiInit
<1>2. /\ server \in [Workloads -> Row(ServerRow)]
      /\ \A w \in Workloads : server[w] \in {Unborn, Submitted}
  <2>1. Submitted \in ServerRow
    <3>1. "WAITING" \in States /\ None \in Providers \cup {None} /\ None \in Images \cup {None}
      BY DEF States
    <3>2. QED
      BY <3>1, Zenon DEF Submitted, ServerRow
  <2>2. Submitted \in Row(ServerRow) /\ Unborn \in Row(ServerRow)
    BY <2>1 DEF Row
  <2>3. \/ server = [w \in Workloads |-> Unborn]
        \/ \E c \in Projects : server = [w \in Workloads |-> IF ProjectOf[w] = c THEN Submitted ELSE Unborn]
    BY DEF Init
  <2>4. QED
    BY <2>2, <2>3
<1>3. Submitted.image = None /\ Submitted.provider = None /\ Unborn.born = FALSE /\ Unborn.live = FALSE
  BY UnbornIsDead, Zenon DEF Submitted
<1>4. ComputeTyped
  <2>1. Idle \in ComputeRequest
    BY DEF ComputeRequest
  <2>2. request \in [Requests -> ComputeRequest] /\ quota \in [Projects -> Quotas \cup {None}] /\ erased \subseteq Volumes
    BY <1>1, <2>1
  <2>3. QED
    BY <1>1, <1>2, <2>2, UnbornRows, Zenon DEF ComputeTyped
<1>5. ImagesAreVisible /\ PlacedOnce
  BY <1>2, <1>3 DEF ImagesAreVisible, PlacedOnce
<1>6. /\ \A r \in Requests : request[r].op = "idle"
      /\ \A v \in Volumes : volume[v] = Unborn
  BY <1>1 DEF Idle
<1>7. \A v \in Volumes : ~volume[v].live /\ ~volume[v].born
  BY <1>3, <1>6, Zenon
<1>8. HeldInUse /\ AttachmentsHold /\ DeletionsHold
  BY <1>6, <1>7 DEF HeldInUse, AttachmentsHold, DeletionsHold, DeletedIsErased, Deleting
<1>9. AdmissionsHold
  BY <1>6 DEF AdmissionsHold, Claims
<1>10. QED
  BY <1>4, <1>5, <1>8, <1>9 DEF ComputeInv

\* The tables begin empty, whichever service a behaviour follows.
LEMMA CloudInit == Init => CloudInv
<1>1. SUFFICES ASSUME Init PROVE CloudInv
  OBVIOUS
<1>2. ApiInit /\ NeutronInit /\ service \in {"network", "compute", "volume"} /\ foreign = {}
  BY <1>1 DEF Init, ApiInit
<1>3. NetworkInv /\ ComputeInv
  BY <1>1, <1>2, NetworkInit, ComputeInit
<1>4. service = "network" => ComputeBlank
  BY <1>1 DEF Init, ComputeBlank
<1>5. QED
  BY <1>2, <1>3, <1>4 DEF CloudInv

\* One step of one service: its own invariant, and the others' tables as they were.
LEMMA CloudStep ==
  ASSUME CloudInv, [Next]_vars
  PROVE  CloudInv' /\ (AdmittedStep /\ DetachStep /\ BoundStep)
<1> DEFINE Kept == AdmittedStep /\ DetachStep /\ BoundStep
<1>1. CASE UNCHANGED vars
  <2>1. UNCHANGED <<request, foreign, network, subnet, port, group, attached, image, quota, server, volume,
                    erased, service>>
    BY <1>1 DEF vars, apiVars, neutronVars, computeVars
  <2>2. NetworkInv => NetworkInv'
    BY <2>1 DEF NetworkInv, NetworkTyped, SubnetsHaveNetworks, PortsHaveSubnets, AddressesAreDistinct,
                GroupsAreOwn, BindingsAreOwn, Live
  <2>3. ComputeInv => ComputeInv'
    <3>1. SUFFICES ASSUME ComputeInv PROVE ComputeInv'
      BY Zenon
    <3>2. quota' \in [Projects -> Quotas \cup {None}] /\ request' \in [Requests -> ComputeRequest]
      BY <2>1, <3>1 DEF ComputeInv, ComputeTyped
    <3>3. QED
      BY <2>1, <3>1, <3>2, RequestsOnly
  <2>4. (NeutronInit => NeutronInit') /\ (ComputeBlank => ComputeBlank')
    BY <2>1 DEF NeutronInit, ComputeBlank
  <2>5. QED
    BY <2>1, <2>2, <2>3, <2>4, SameVolumes DEF CloudInv
<1>2. CASE service = "network" /\ NeutronNext /\ UNCHANGED computeVars /\ UNCHANGED service
  <2>1. NetworkInv /\ ComputeBlank
    BY <1>2 DEF CloudInv
  <2>2. NetworkInv' /\ foreign' = {}
    BY <1>2, <2>1, NetworkInvStep, NeutronRepliesAreOwn
  <2>3. ComputeBlank' /\ volume' = volume /\ service' = "network"
    BY <1>2, <2>1 DEF ComputeBlank, computeVars
  <2>4. QED
    BY <2>2, <2>3, SameVolumes DEF CloudInv
<1>3. CASE service \in {"compute", "volume"} /\ (ComputeNext \/ VolumeNext) /\ UNCHANGED neutronVars /\ UNCHANGED service
  <2>1. NeutronInit /\ ComputeInv
    BY <1>3 DEF CloudInv
  <2>2. ComputeInv' /\ Kept /\ foreign' = {}
    BY <1>3, <2>1, ComputeStepHolds
  <2>3. NeutronInit' /\ service' \in {"compute", "volume"}
    BY <1>3, <2>1 DEF NeutronInit, neutronVars
  <2>4. QED
    BY <2>2, <2>3 DEF CloudInv
<1>4. QED
  BY <1>1, <1>2, <1>3, Zenon DEF Next

\* The properties of every reachable state.
LEMMA CloudFollows == CloudInv => NetworkIsSound /\ TenantsAreIsolated /\ VolumesAreSound
<1>1. SUFFICES ASSUME CloudInv PROVE NetworkIsSound /\ TenantsAreIsolated /\ VolumesAreSound
  OBVIOUS
<1>2. RepliesAreOwn
  BY <1>1 DEF CloudInv, RepliesAreOwn
<1>3. CASE service = "network"
  BY <1>1, <1>2, <1>3, NetworkFollows, BlankCompute DEF CloudInv, TenantsAreIsolated
<1>4. CASE service \in {"compute", "volume"}
  <2>1. NeutronInit /\ ComputeInv
    BY <1>1, <1>4 DEF CloudInv
  <2>2. \A r \in Requests : request[r].op # "port"
    <3>1. \A q \in ComputeRequest : q.op # "port"
      BY DEF ComputeRequest, ServerRequest, VolumeRequest, AttachRequest, DetachRequest, DeleteRequest, Deleting, Idle
    <3>2. QED
      BY <2>1, <3>1 DEF ComputeInv, ComputeTyped
  <2>3. QED
    BY <1>2, <2>1, <2>2, BlankNetwork, ComputeFollows DEF TenantsAreIsolated
<1>5. QED
  BY <1>1, <1>3, <1>4 DEF CloudInv
-----------------------------------------------------------------------------
\* The inductive invariant of the services: what a request in flight read of
\* networks, subnets, groups, servers and quotas is still so when it writes.
THEOREM CloudInvariant == Spec => []CloudInv
<1>1. CloudInv /\ [Next]_vars => CloudInv'
  BY CloudStep
<1>2. QED
  BY <1>1, CloudInit, PTL DEF Spec

\* For any number of projects, requests, subnets and ports: addresses are
\* handed out once, inside the subnet, and free when the row is inserted; a
\* subnet is on a network of its owner (AllocatePort, CreatePort, createSubnet).
THEOREM NetworksAreSound == Spec => []NetworkIsSound
<1>1. CloudInv => NetworkIsSound
  BY CloudFollows
<1>2. QED
  BY <1>1, CloudInvariant, PTL

\* No project reads, runs, mounts or enforces what is another's and was not
\* shared with it, through any handler (the project filter of every query).
THEOREM TenantsStayIsolated == Spec => []TenantsAreIsolated
<1>1. CloudInv => TenantsAreIsolated
  BY CloudFollows
<1>2. QED
  BY <1>1, CloudInvariant, PTL

\* A volume's row goes only after its data has (deleteVolume).
THEOREM VolumesStaySound == Spec => []VolumesAreSound
<1>1. CloudInv => VolumesAreSound
  BY CloudFollows
<1>2. QED
  BY <1>1, CloudInvariant, PTL

\* No step admits a volume beyond its project's quota, takes one from a
\* workload the request did not name, or moves one to another provider
\* (CreateVolume under FOR UPDATE, DetachVolume, AttachVolume).
THEOREM VolumesStayKept == Spec => VolumesAreKept
<1>1. CloudInv /\ [Next]_vars => [AdmittedStep /\ DetachStep /\ BoundStep]_vars
  BY CloudStep
<1>2. QED
  BY <1>1, CloudInvariant, PTL DEF Spec, VolumesAreKept
=============================================================================
