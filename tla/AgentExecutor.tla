---------------------------- MODULE AgentExecutor ----------------------------
(***************************************************************************)
(* One Provider Agent: the gRPC front (agent-api), the event bus it feeds, *)
(* DockerExecutor with its persistent records (agent-core LocalState), and *)
(* the Docker daemon as the executor sees it (external).                   *)
(*                                                                         *)
(* The event loop runs one command at a time; the lease-expiry task stops  *)
(* workloads on its own; both take operation_lock for a whole deploy or    *)
(* stop. Every call to the engine and every store_workload is a step of    *)
(* its own: the daemon may fail it, the container may exit meanwhile, and  *)
(* the Agent may crash in between and come back through recover().         *)
(*                                                                         *)
(* Left out: the image, limits and volumes of a request (deployment()      *)
(* accepts it and every retry carries the same spec_hash), the tc rate     *)
(* limit (never fatal, never reported), sled write errors and the VM       *)
(* runtime, which has its own executor and its own slots.                  *)
(***************************************************************************)
EXTENDS Integers, Sequences, FiniteSets

CONSTANTS
  Workloads,      \* workload ids the Control Plane may send
  Clients,        \* concurrent callers of Deploy and Stop
  MaxWorkloads,   \* ExecutorSettings::max_workloads
  Guarded,        \* workloads deployed with security-group rules
  MaxQueue,       \* bound: commands waiting in the event bus
  MaxCrashes,     \* bound: Agent crashes
  None

ASSUME AgentAssumption ==
  /\ IsFiniteSet(Workloads)
  /\ MaxWorkloads \in Nat \ {0}
  /\ Guarded \subseteq Workloads
  /\ MaxQueue \in Nat \ {0}
  /\ MaxCrashes \in Nat
  /\ None \notin Workloads \cup Clients \cup {"expiry"}
  /\ "expiry" \notin Clients

VARIABLES
  rec,       \* rec[w]: the WorkloadRecord in sled
  ctr,       \* ctr[w]: the container named openinfra-<w> in Docker
  queue,     \* the event bus
  op,        \* the operation that holds operation_lock
  expiring,  \* the expired workloads that the lease-expiry pass has yet to stop
  over,      \* over[w]: lease_end + CLOCK_SKEW_TOLERANCE has passed
  reply,     \* reply[c]: what the pending call of c has returned
  up,        \* the Agent process runs
  crashes    \* crashes so far

agentVars == <<rec, ctr, queue, op, expiring, over, reply, up, crashes>>

Phases == {"Provisioning", "Starting", "Running", "Stopping", "Stopped",
           "Failed", "Lost"}

\* WorkloadPhase::consumes_capacity
Consuming == Phases \ {"Stopped", "Failed", "Lost"}

Containers == {"absent", "created", "running", "exited"}

Records == [phase : Phases \cup {"Unknown"},
            cid   : BOOLEAN,     \* container_id is Some
            sg    : BOOLEAN]     \* security_groups_applied

NoRecord == [phase |-> "Unknown", cid |-> FALSE, sg |-> FALSE]

Commands == [kind : {"Deploy", "Stop"}, id : Workloads,
             from : Clients \cup {None}]

\* The engine call or store that the operation makes next.
Steps == {"reserve", "inspectExisting", "create", "storeCreated", "start",
          "inspectStarted", "secure", "lookup", "engineStop", "inspectStopped",
          "remove", "storeStopped"}

Expiry == "expiry"   \* the lease-expiry task, as the one who asked for a stop

Ops == [kind : {"Deploy", "Stop"}, id : Workloads,
        from : Clients \cup {None, Expiry}, at : Steps]

NoOp == [kind |-> "None", id |-> None, from |-> None, at |-> "idle"]

-----------------------------------------------------------------------------
(* Callers. A call waits for its own answer (a oneshot channel); when it   *)
(* gives up, the command stays in the bus and its result goes nowhere.     *)

Call(c, kind, w) ==
  /\ reply[c] # "waiting"
  /\ up /\ Len(queue) < MaxQueue
  /\ queue' = Append(queue, [kind |-> kind, id |-> w, from |-> c])
  /\ reply' = [reply EXCEPT ![c] = "waiting"]
  /\ UNCHANGED <<rec, ctr, op, expiring, over, up, crashes>>

\* The Agent cannot be reached, or is disconnected and refuses new work.
CallRefused(c) ==
  /\ reply[c] # "waiting"
  /\ reply' = [reply EXCEPT ![c] = "err"]
  /\ UNCHANGED <<rec, ctr, queue, op, expiring, over, up, crashes>>

Orphaned(c, m) == IF m.from = c THEN [m EXCEPT !.from = None] ELSE m

GiveUp(c) ==
  /\ reply[c] = "waiting"
  /\ reply' = [reply EXCEPT ![c] = "err"]
  /\ queue' = [i \in DOMAIN queue |-> Orphaned(c, queue[i])]
  /\ op' = Orphaned(c, op)
  /\ UNCHANGED <<rec, ctr, expiring, over, up, crashes>>

\* GetWorkloadStatus, answered without the lock. unreachable: inspect fails.
StatusOf(w) ==
  IF rec[w].phase = "Unknown" THEN "NotFound"
  ELSE IF rec[w].phase = "Stopped" THEN "Completed"
  ELSE IF ~rec[w].cid THEN "Deploying"
  ELSE CASE ctr[w] = "running" -> "Running"
         [] ctr[w] = "created" -> "Created"
         [] ctr[w] = "exited" -> "Completed"
         [] OTHER -> "Error"

-----------------------------------------------------------------------------
(* Operations: the step under way, the next step, the end. *)

Doing(kind, step) == op.kind = kind /\ op.at = step
Goto(step) == op' = [op EXCEPT !.at = step] /\ UNCHANGED reply
Finish(result) ==
  /\ op' = NoOp
  /\ reply' = [c \in Clients |-> IF c = op.from THEN result ELSE reply[c]]
Store(r) == rec' = [rec EXCEPT ![op.id] = r]
Docker(s) == ctr' = [ctr EXCEPT ![op.id] = s]
InPhase(phase) == [rec[op.id] EXCEPT !.phase = phase]
Rest == UNCHANGED <<queue, expiring, over, up, crashes>>

\* Mutant: the responder is dropped on an error.
FailsSilently == op' = NoOp /\ UNCHANGED <<reply, rec, ctr>>

\* An engine call fails and the operation returns the error as it is. (A call
\* may also fail after it took effect: its answer is lost.)
Fails == Finish("err") /\ UNCHANGED <<rec, ctr>>

TakeCommand ==
  /\ up /\ op = NoOp /\ queue # <<>>
  /\ LET m == Head(queue)
     IN  op' = [kind |-> m.kind, id |-> m.id, from |-> m.from,
                at |-> IF m.kind = "Deploy" THEN "reserve" ELSE "lookup"]
  /\ queue' = Tail(queue)
  /\ UNCHANGED <<rec, ctr, expiring, over, reply, up, crashes>>

Active == {w \in Workloads : rec[w].phase \in Consuming}

\* reserve_workload: only a workload without a record is counted.
Reserve ==
  /\ Doing("Deploy", "reserve")
  /\ \/ /\ rec[op.id].phase = "Unknown"
        /\ Cardinality(Active) >= MaxWorkloads
        /\ Fails
     \/ /\ rec[op.id].phase = "Unknown"
        /\ Cardinality(Active) < MaxWorkloads
        /\ Store([phase |-> "Provisioning", cid |-> FALSE, sg |-> FALSE])
        /\ Goto("create") /\ UNCHANGED ctr
     \/ /\ rec[op.id].phase # "Unknown"
        /\ Goto(IF rec[op.id].cid THEN "inspectExisting" ELSE "create")
        /\ UNCHANGED <<rec, ctr>>
  /\ Rest

\* Mutant: a container that is gone is created again.
InspectExistingRecreates ==
  /\ Doing("Deploy", "inspectExisting")
  /\ \/ /\ ctr[op.id] = "absent"
        /\ Goto("create") /\ UNCHANGED <<rec, ctr>>
     \/ /\ ctr[op.id] = "running"
        /\ Goto("secure") /\ UNCHANGED <<rec, ctr>>
     \/ /\ ctr[op.id] \in {"created", "exited"}
        /\ rec[op.id].phase # "Stopped"
        /\ Goto("start") /\ UNCHANGED <<rec, ctr>>
  /\ Rest

\* Mutant: a Stopped record is started like any other.
InspectExistingStopped ==
  /\ Doing("Deploy", "inspectExisting")
  /\ \/ Fails
     \/ /\ ctr[op.id] = "running"
        /\ Goto("secure") /\ UNCHANGED <<rec, ctr>>
     \/ /\ ctr[op.id] \in {"created", "exited"}
        /\ Goto("start") /\ UNCHANGED <<rec, ctr>>
  /\ Rest

InspectExisting ==
  /\ Doing("Deploy", "inspectExisting")
  /\ \/ Fails
     \/ /\ ctr[op.id] = "running"
        /\ Goto("secure") /\ UNCHANGED <<rec, ctr>>
     \/ /\ ctr[op.id] \in {"created", "exited"}
        /\ rec[op.id].phase # "Stopped"
        /\ Goto("start") /\ UNCHANGED <<rec, ctr>>
  /\ Rest

\* Mutant: the container is started before its id is persisted.
CreateUnrecorded ==
  /\ Doing("Deploy", "create")
  /\ \/ Fails
     \/ /\ ctr[op.id] = "absent"
        /\ Docker("created")
        /\ Goto("start") /\ UNCHANGED rec
  /\ Rest

\* The daemon refuses a second container of the same name.
Create ==
  /\ Doing("Deploy", "create")
  /\ \/ Fails
     \/ /\ ctr[op.id] = "absent"
        /\ Docker("created")
        /\ Goto("storeCreated") \/ Finish("err")
        /\ UNCHANGED rec
  /\ Rest

StoreCreated ==
  /\ Doing("Deploy", "storeCreated")
  /\ Store([InPhase("Starting") EXCEPT !.cid = TRUE])
  /\ Goto("start") /\ UNCHANGED ctr
  /\ Rest

Start ==
  /\ Doing("Deploy", "start")
  /\ \/ Store(InPhase("Failed")) /\ Finish("err") /\ UNCHANGED ctr
     \/ /\ ctr[op.id] # "absent"
        /\ Docker("running")
        /\ \/ Goto("inspectStarted") /\ UNCHANGED rec
           \/ Finish("err") /\ Store(InPhase("Failed"))
  /\ Rest

InspectStarted ==
  /\ Doing("Deploy", "inspectStarted")
  /\ \/ Fails
     \/ /\ ctr[op.id] = "running"
        /\ Goto("secure") /\ UNCHANGED <<rec, ctr>>
     \/ /\ ctr[op.id] \in {"created", "exited"}
        /\ Store(InPhase("Failed")) /\ Finish("err") /\ UNCHANGED ctr
  /\ Rest

\* apply_security_groups_or_fail: a failure tears the container down as far
\* as the daemon allows (stop, then a forced remove, each may fail).
Secure ==
  /\ Doing("Deploy", "secure")
  /\ \/ /\ Store([InPhase("Running") EXCEPT !.sg = @ \/ op.id \in Guarded])
        /\ Finish("ok") /\ UNCHANGED ctr
     \/ /\ op.id \in Guarded /\ ~rec[op.id].sg
        /\ \/ Docker("absent")
           \/ Docker(IF ctr[op.id] = "running" THEN "exited" ELSE ctr[op.id])
           \/ UNCHANGED ctr
        /\ Store(InPhase("Failed")) /\ Finish("err")
  /\ Rest

Deploy ==
  \/ Reserve
  \/ InspectExisting
  \/ Create
  \/ StoreCreated
  \/ Start
  \/ InspectStarted
  \/ Secure

-----------------------------------------------------------------------------
(* Stop *)

Lookup ==
  /\ Doing("Stop", "lookup")
  /\ \/ /\ rec[op.id].phase \in {"Unknown", "Stopped", "Failed"}
        /\ Finish("ok") /\ UNCHANGED <<rec, ctr>>
     \/ /\ rec[op.id].phase \notin {"Unknown", "Stopped", "Failed"}
        /\ ~rec[op.id].cid
        /\ Fails
     \/ /\ rec[op.id].phase \notin {"Unknown", "Stopped", "Failed"}
        /\ rec[op.id].cid
        /\ Store(InPhase("Stopping"))
        /\ Goto("engineStop") /\ UNCHANGED ctr
  /\ Rest

EngineStop ==
  /\ Doing("Stop", "engineStop")
  /\ \/ Fails
     \/ /\ ctr[op.id] # "absent"
        /\ Docker(IF ctr[op.id] = "running" THEN "exited" ELSE ctr[op.id])
        /\ Goto("inspectStopped") \/ Finish("err")
        /\ UNCHANGED rec
  /\ Rest

InspectStopped ==
  /\ Doing("Stop", "inspectStopped")
  /\ \/ Fails
     \/ /\ ctr[op.id] \in {"created", "exited"}
        /\ Goto("remove") /\ UNCHANGED <<rec, ctr>>
  /\ Rest

Remove ==
  /\ Doing("Stop", "remove")
  /\ \/ Fails
     \/ /\ ctr[op.id] # "absent"
        /\ Docker("absent")
        /\ Goto("storeStopped") \/ Finish("err")
        /\ UNCHANGED rec
  /\ Rest

StoreStopped ==
  /\ Doing("Stop", "storeStopped")
  /\ Store(InPhase("Stopped"))
  /\ Finish("ok") /\ UNCHANGED ctr
  /\ Rest

Stop ==
  \/ Lookup
  \/ EngineStop
  \/ InspectStopped
  \/ Remove
  \/ StoreStopped

-----------------------------------------------------------------------------
(* enforce_lease_expiry: one look at all the records, then a stop() of     *)
(* each expired one, which has to wait for the lock.                       *)

Expired == {w \in Workloads : over[w] /\ rec[w].phase \in {"Starting", "Running"}}

PickExpired ==
  /\ up /\ expiring = {} /\ op.from # Expiry
  /\ Expired # {}
  /\ expiring' = Expired
  /\ UNCHANGED <<rec, ctr, queue, op, over, reply, up, crashes>>

StopExpired(w) ==
  /\ up /\ op = NoOp /\ w \in expiring
  /\ op' = [kind |-> "Stop", id |-> w, from |-> Expiry, at |-> "lookup"]
  /\ expiring' = expiring \ {w}
  /\ UNCHANGED <<rec, ctr, queue, over, reply, up, crashes>>

-----------------------------------------------------------------------------
(* Crash and recovery. The daemon and its containers live on. *)

Crash ==
  /\ up /\ crashes < MaxCrashes
  /\ up' = FALSE
  /\ crashes' = crashes + 1
  /\ op' = NoOp /\ queue' = <<>> /\ expiring' = {}
  /\ reply' = [c \in Clients |-> IF reply[c] = "waiting" THEN "err" ELSE reply[c]]
  /\ UNCHANGED <<rec, ctr, over>>

\* recover() of one record; seen: inspect answers for the container; applied:
\* the security groups could be installed again.
Recovered(w, seen, applied) ==
  CASE ~rec[w].cid -> IF rec[w].phase \in Consuming
                      THEN [rec[w] EXCEPT !.phase = "Failed"] ELSE rec[w]
    [] rec[w].cid /\ (~seen \/ ctr[w] = "absent") ->
         [rec[w] EXCEPT !.phase = "Lost"]
    [] rec[w].cid /\ seen /\ ctr[w] = "running" ->
         [rec[w] EXCEPT !.phase = "Running",
                        !.sg = @ \/ (w \in Guarded /\ applied)]
    [] OTHER ->
         [rec[w] EXCEPT !.phase = IF @ = "Stopping" THEN "Stopped" ELSE "Failed"]

Recover ==
  /\ ~up
  /\ up' = TRUE
  /\ \E seen, applied \in SUBSET Workloads :
       rec' = [w \in Workloads |-> Recovered(w, w \in seen, w \in applied)]
  /\ UNCHANGED <<ctr, queue, op, expiring, over, reply, crashes>>

-----------------------------------------------------------------------------
(* The world. *)

ContainerExits(w) ==
  /\ ctr[w] = "running"
  /\ ctr' = [ctr EXCEPT ![w] = "exited"]
  /\ UNCHANGED <<rec, queue, op, expiring, over, reply, up, crashes>>

LeaseEnds(w) ==
  /\ ~over[w]
  /\ over' = [over EXCEPT ![w] = TRUE]
  /\ UNCHANGED <<rec, ctr, queue, op, expiring, reply, up, crashes>>

Init ==
  /\ rec = [w \in Workloads |-> NoRecord]
  /\ ctr = [w \in Workloads |-> "absent"]
  /\ queue = <<>>
  /\ op = NoOp
  /\ expiring = {}
  /\ over = [w \in Workloads |-> FALSE]
  /\ reply = [c \in Clients |-> "none"]
  /\ up = TRUE
  /\ crashes = 0

\* The Agent's own steps, whoever calls it.
Agent ==
  \/ TakeCommand
  \/ Deploy
  \/ Stop
  \/ PickExpired
  \/ \E w \in Workloads : StopExpired(w)
  \/ Crash
  \/ Recover

World == \E w \in Workloads : ContainerExits(w) \/ LeaseEnds(w)

Client(c) ==
  \/ \E kind \in {"Deploy", "Stop"}, w \in Workloads : Call(c, kind, w)
  \/ CallRefused(c)
  \/ GiveUp(c)

Next == Agent \/ World \/ \E c \in Clients : Client(c)

Spec == Init /\ [][Next]_agentVars

(***************************************************************************)
(* Fairness. The event loop, the lock holder, the expiry task (a 15 s      *)
(* tick) and a restarted Agent keep going; operation_lock is a tokio       *)
(* Mutex, first come first served, so neither the event loop nor the       *)
(* expiry task is starved of it (SF). Callers, crashes and the world owe   *)
(* nothing, and the daemon may fail any call.                              *)
(***************************************************************************)
Fairness ==
  /\ SF_agentVars(TakeCommand)
  /\ WF_agentVars(Deploy)
  /\ WF_agentVars(Stop)
  /\ WF_agentVars(Recover)
  /\ WF_agentVars(PickExpired)
  /\ \A w \in Workloads : SF_agentVars(StopExpired(w))

FairSpec == Spec /\ Fairness

-----------------------------------------------------------------------------
(* Properties. *)

\* The variables' types; the event bus holds at most MaxQueue commands.
TypeOK ==
  /\ rec \in [Workloads -> Records]
  /\ ctr \in [Workloads -> Containers]
  /\ queue \in Seq(Commands) /\ Len(queue) <= MaxQueue
  /\ op \in Ops \cup {NoOp}
  /\ expiring \subseteq Workloads
  /\ over \in [Workloads -> BOOLEAN]
  /\ reply \in [Clients -> {"none", "waiting", "ok", "err"}]
  /\ up \in BOOLEAN
  /\ crashes \in 0 .. MaxCrashes

\* A container runs only under a record that names it, through every crash: a
\* container created but not yet persisted is never started.
NoRunningOrphan ==
  \A w \in Workloads : ctr[w] = "running" => rec[w].cid

\* "A retry can resume a known created container without creating a duplicate":
\* once the container that a record names is gone, no deploy, retry, recovery
\* or late command brings up another one for that workload.
NoSecondContainer ==
  [][\A w \in Workloads :
       rec[w].cid /\ ctr[w] = "absent" => ctr'[w] = "absent"]_agentVars

\* What GetWorkloadStatus answers COMPLETED for on the record alone is true of
\* the daemon: a workload recorded as Stopped does not run, even when the Agent
\* crashed in the middle of the stop.
StoppedNotRunning ==
  \A w \in Workloads : rec[w].phase = "Stopped" => ctr[w] # "running"

\* Every command that reached the event bus is answered, although the expiry
\* task competes for the lock and the Agent may crash.
CallsAnswered ==
  \A c \in Clients : reply[c] = "waiting" ~> reply[c] # "waiting"
=============================================================================
