------------------------------ MODULE MCCloud -------------------------------
EXTENDS Cloud, TLC

CONSTANTS a, b, w1, w2, w3

MCProjectOf == (w1 :> a) @@ (w2 :> a) @@ (w3 :> b)
MCFlavor == ("storage_gb" :> 1) @@ ("workloads" :> 1)
MCQuotas == {("storage_gb" :> 1) @@ ("workloads" :> 1)}
MCDimensions == {"storage_gb", "workloads"}
Blocks == {0 .. 3, 8 .. 11}
Legacy == 8 .. 11

Symmetry == Permutations(Ports) \cup Permutations(Requests) \cup Permutations(Volumes)
            \cup Permutations(Providers) \cup Permutations({w1, w2})
=============================================================================
