-------------------------- MODULE WorkloadLifecycle --------------------------
(***************************************************************************)
(* What the Control Plane promises a tenant about one workload, whatever   *)
(* the workers, the Agents and the tenants do concurrently: the states     *)
(* that GetWorkload may report, in the order in which it may report them.  *)
(* The abstract specification that WorkloadStore implements.               *)
(***************************************************************************)
CONSTANT Workloads

VARIABLES
  state,    \* state[w]: the WorkloadState the API reports, "ABSENT" before
  stopping  \* stopping[w]: a stop request has been accepted

lifecycleVars == <<state, stopping>>

Terminal == {"STOPPED", "COMPLETED", "FAILED"}

\* The states a worker can be asked to advance (ClaimNext's state filter).
Workable == {"REQUESTED", "SCHEDULING", "LEASE_PENDING", "LEASED",
             "DEPLOYING", "STOPPING"}

States == Workable \cup {"ABSENT", "RUNNING"} \cup Terminal

\* The one forward path of a workload nobody stops.
Forward == {<<"ABSENT", "REQUESTED">>, <<"REQUESTED", "SCHEDULING">>,
            <<"SCHEDULING", "LEASE_PENDING">>, <<"LEASE_PENDING", "LEASED">>,
            <<"LEASED", "DEPLOYING">>, <<"DEPLOYING", "RUNNING">>}

\* Where a workload may end: given up by a worker, reported failed or lost
\* by its Agent, or stopped (by request, or by the Agent on its own).
Ending == {<<s, "FAILED">> : s \in Workable \cup {"RUNNING"}}
            \cup {<<s, "STOPPED">> : s \in {"DEPLOYING", "RUNNING", "STOPPING"}}

Init ==
  /\ state = [w \in Workloads |-> "ABSENT"]
  /\ stopping = [w \in Workloads |-> FALSE]

Advance(w) ==
  /\ \E s \in States : /\ <<state[w], s>> \in Forward \cup Ending
                       /\ state' = [state EXCEPT ![w] = s]
  /\ UNCHANGED stopping

\* A stop request is accepted at most once, and takes effect at once.
Stop(w) ==
  /\ state[w] # "ABSENT"
  /\ ~stopping[w]
  /\ stopping' = [stopping EXCEPT ![w] = TRUE]
  /\ state' = [state EXCEPT ![w] = IF @ \in Terminal THEN @ ELSE "STOPPING"]

Next == \E w \in Workloads : Advance(w) \/ Stop(w)

Spec == Init /\ [][Next]_lifecycleVars
=============================================================================
