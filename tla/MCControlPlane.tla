--------------------------- MODULE MCControlPlane ---------------------------
EXTENDS ControlPlane, TLC

CONSTANTS p1, w1

MCProjectOf == w1 :> p1
MCRates == [cpu |-> 3, ram |-> 1, storage |-> 1, network |-> 1]

Use(cpu, ram, egress, ingress) ==
  [cpu |-> cpu, ram |-> ram, storage |-> 0, egress |-> egress, ingress |-> ingress]

\* Within four bits (MaxUint) and three (MaxInt): a sum that fits, the largest
\* that fits, one beyond bigint, a product beyond the width, a sum beyond it.
MCUsages == {Use(1, 1, 1, 1), Use(1, 4, 0, 0), Use(2, 2, 0, 0), Use(6, 0, 0, 0), Use(2, 7, 7, 0), Use(0, 0, 9, 8)}

\* Two workloads that each need more than half of what an overlay carries and,
\* together, just what the larger link declares; one asks for a reputation, the
\* other for one beyond the scale, of which uint32 leaves 6 basis points.
MCNeed == 1 :> [cpu |-> 1, bandwidth |-> 5, minimum |-> 4] @@ 2 :> [cpu |-> 1, bandwidth |-> 5, minimum |-> 1639]
MCTotal == 1 :> [cpu |-> 2, bandwidth |-> 10] @@ 2 :> [cpu |-> 1, bandwidth |-> 7]

MCAspects == {"network", "storage", "compute"}
Marks(n, s, c) == [network |-> n, storage |-> s, compute |-> c]
MCWeights == [resource |-> 40, reputation |-> 60, aspect |-> Marks(33, 33, 34)]

\* Out of reach; short of room; unread; two figures whose product with Bps wraps,
\* to a ratio above the cap and to one near zero; and scores just apart.
MCReports ==
  {[suits |-> FALSE, available |-> 2, reputation |-> {}], [suits |-> TRUE, available |-> 0, reputation |-> {}],
   [suits |-> TRUE, available |-> 1, reputation |-> {}],
   [suits |-> TRUE, available |-> 500, reputation |-> {Marks(0, 0, 5)}],
   [suits |-> TRUE, available |-> 656, reputation |-> {Marks(6, 4, 2)}]}
  \cup [suits : {TRUE}, available : {2}, reputation : {{v} : v \in {Marks(0, 0, 5), Marks(1, 3, 2), Marks(4, 4, 4), Marks(6, 4, 2)}}]

Symmetry == Permutations(Requests) \cup Permutations(Keys) \cup Permutations(Users)
=============================================================================
