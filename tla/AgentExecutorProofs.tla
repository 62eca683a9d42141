------------------------ MODULE AgentExecutorProofs -------------------------
(***************************************************************************)
(* Proofs about AgentExecutor, for any finite set of workloads, any        *)
(* callers, capacity and length of the event bus, and any number of        *)
(* crashes within the bound: what may run, how long Stopped lasts, and     *)
(* what the answer to a command says of the commands before it.            *)
(***************************************************************************)
EXTENDS AgentExecutor, SequenceTheorems, TLAPS

(* Types. *)

\* The operation under way is about a workload, and can be told from NoOp.
LEMMA OpFields ==
  ASSUME op \in Ops \cup {NoOp}, op.kind # "None"
  PROVE  op \in Ops /\ op.id \in Workloads /\ op.from \in Clients \cup {None, Expiry}
BY DEF Ops, NoOp

\* The records an operation stores are records.
LEMMA RecordTypes ==
  ASSUME NEW r \in Records, NEW p \in Phases
  PROVE  /\ [r EXCEPT !.phase = p] \in Records
         /\ [[r EXCEPT !.phase = p] EXCEPT !.cid = TRUE] \in Records
         /\ NoRecord \in Records
         /\ [phase |-> p, cid |-> FALSE, sg |-> FALSE] \in Records
BY DEF Records, NoRecord

\* A running record notes whether its security groups are applied.
LEMMA SecuredTypes ==
  ASSUME NEW r \in Records, NEW x, NEW X, NEW Y
  PROVE  /\ [[r EXCEPT !.phase = "Running"] EXCEPT !.sg = @ \/ x \in X] \in Records
         /\ [r EXCEPT !.phase = "Running", !.sg = @ \/ (x \in X /\ x \in Y)] \in Records
BY DEF Records, Phases

\* How an operation goes on or ends, whatever it does to its workload.
LEMMA GotoType ==
  ASSUME TypeOK, op.kind # "None", NEW s \in Steps, Goto(s)
  PROVE  op' \in Ops /\ reply' = reply
BY OpFields DEF TypeOK, Goto, Ops

\* An operation that ends answers its caller, if it still has one.
LEMMA FinishType ==
  ASSUME TypeOK, NEW result \in {"ok", "err"}, Finish(result)
  PROVE  op' = NoOp /\ reply' \in [Clients -> {"none", "waiting", "ok", "err"}]
BY DEF TypeOK, Finish

\* A store writes a record of the workload of op.
LEMMA StoreType ==
  ASSUME TypeOK, op.kind # "None", NEW r \in Records, Store(r)
  PROVE  rec' \in [Workloads -> Records]
BY OpFields DEF TypeOK, Store

\* An engine call writes a container of it.
LEMMA DockerType ==
  ASSUME TypeOK, op.kind # "None", NEW s \in Containers, Docker(s)
  PROVE  ctr' \in [Workloads -> Containers]
BY OpFields DEF TypeOK, Docker

\* A deploy keeps the types.
LEMMA DeployType == ASSUME TypeOK, Deploy PROVE TypeOK'
<1>1. op.kind = "Deploy" /\ op.kind # "None"
  BY DEF Deploy, Reserve, InspectExisting, Create, StoreCreated, Start, InspectStarted,
         Secure, Doing
<1>2. rec[op.id] \in Records /\ ctr[op.id] \in Containers
  BY <1>1, OpFields DEF TypeOK
<1>3. UNCHANGED <<queue, expiring, over, up, crashes>>
  BY DEF Deploy, Reserve, InspectExisting, Create, StoreCreated, Start, InspectStarted,
         Secure, Rest
<1>4. /\ rec' \in [Workloads -> Records]
      /\ ctr' \in [Workloads -> Containers]
      /\ op' \in Ops \cup {NoOp}
      /\ reply' \in [Clients -> {"none", "waiting", "ok", "err"}]
  <2>0. /\ {"create", "inspectExisting", "storeCreated", "start", "inspectStarted", "secure"}
           \subseteq Steps
        /\ {"Provisioning", "Starting", "Running", "Failed"} \subseteq Phases
        /\ {"absent", "created", "running", "exited"} = Containers
    BY DEF Steps, Phases, Containers
  <2>00. [[rec[op.id] EXCEPT !.phase = "Running"] EXCEPT !.sg = @ \/ op.id \in Guarded] \in Records
    BY <1>2, SecuredTypes
  <2> USE <1>1, <1>2, GotoType, FinishType, StoreType, DockerType, RecordTypes
  <2>1. CASE Reserve
    BY <2>0, <2>1 DEF Reserve, Fails, TypeOK
  <2>2. CASE InspectExisting
    BY <2>0, <2>2 DEF InspectExisting, Fails, TypeOK
  <2>3. CASE Create
    BY <2>0, <2>3 DEF Create, Fails, TypeOK
  <2>4. CASE StoreCreated
    BY <2>0, <2>4 DEF StoreCreated, InPhase, TypeOK
  <2>5. CASE Start
    BY <2>0, <2>5 DEF Start, InPhase, TypeOK
  <2>6. CASE InspectStarted
    BY <2>0, <2>6 DEF InspectStarted, Fails, InPhase, TypeOK
  <2>7. CASE Secure
    BY <2>0, <2>00, <2>7 DEF Secure, InPhase, TypeOK
  <2>8. QED
    BY <2>1, <2>2, <2>3, <2>4, <2>5, <2>6, <2>7 DEF Deploy
<1>5. QED
  BY <1>3, <1>4 DEF TypeOK

\* A stop keeps the types.
LEMMA StopType == ASSUME TypeOK, Stop PROVE TypeOK'
<1>1. op.kind = "Stop" /\ op.kind # "None"
  BY DEF Stop, Lookup, EngineStop, InspectStopped, Remove, StoreStopped, Doing
<1>2. rec[op.id] \in Records /\ ctr[op.id] \in Containers
  BY <1>1, OpFields DEF TypeOK
<1>3. UNCHANGED <<queue, expiring, over, up, crashes>>
  BY DEF Stop, Lookup, EngineStop, InspectStopped, Remove, StoreStopped, Rest
<1>4. /\ rec' \in [Workloads -> Records]
      /\ ctr' \in [Workloads -> Containers]
      /\ op' \in Ops \cup {NoOp}
      /\ reply' \in [Clients -> {"none", "waiting", "ok", "err"}]
  <2> USE <1>1, <1>2, GotoType, FinishType, StoreType, DockerType, RecordTypes
  <2>0. /\ {"engineStop", "inspectStopped", "remove", "storeStopped"} \subseteq Steps
        /\ {"Stopping", "Stopped"} \subseteq Phases
        /\ {"absent", "created", "running", "exited"} = Containers
    BY DEF Steps, Phases, Containers
  <2>1. CASE Lookup
    BY <2>0, <2>1 DEF Lookup, Fails, InPhase, TypeOK
  <2>2. CASE EngineStop
    BY <2>0, <2>2 DEF EngineStop, Fails, TypeOK
  <2>3. CASE InspectStopped
    BY <2>0, <2>3 DEF InspectStopped, Fails, TypeOK
  <2>4. CASE Remove
    BY <2>0, <2>4 DEF Remove, Fails, TypeOK
  <2>5. CASE StoreStopped
    BY <2>0, <2>5 DEF StoreStopped, InPhase, TypeOK
  <2>6. QED
    BY <2>1, <2>2, <2>3, <2>4, <2>5 DEF Stop
<1>5. QED
  BY <1>3, <1>4 DEF TypeOK

\* What a caller that gave up leaves behind is still a command, or an operation.
LEMMA OrphanedCommand ==
  ASSUME NEW m \in Commands, NEW c PROVE Orphaned(c, m) \in Commands
BY DEF Orphaned, Commands

\* An operation whose caller has gone is an operation.
LEMMA OrphanedOp ==
  ASSUME NEW m \in Ops \cup {NoOp}, NEW c \in Clients
  PROVE  Orphaned(c, m) \in Ops \cup {NoOp}
BY AgentAssumption DEF Orphaned, Ops, NoOp

\* recover() of one record gives a record.
LEMMA RecoveredType ==
  ASSUME NEW w \in Workloads, rec[w] \in Records, NEW seen, NEW applied
  PROVE  Recovered(w, w \in seen, w \in applied) \in Records
<1>1. {"Failed", "Lost", "Running", "Stopped"} \subseteq Phases
  BY DEF Phases
<1>2. QED
  <2>1. /\ \A p \in {"Failed", "Lost", "Running", "Stopped"} : [rec[w] EXCEPT !.phase = p] \in Records
        /\ [rec[w] EXCEPT !.phase = "Running", !.sg = @ \/ (w \in Guarded /\ w \in applied)] \in Records
    BY <1>1, RecordTypes, SecuredTypes
  <2>2. [rec[w] EXCEPT !.phase = IF @ = "Stopping" THEN "Stopped" ELSE "Failed"] \in Records
    BY <2>1
  <2>3. QED
    BY <2>1, <2>2 DEF Recovered

\* The calls of a client keep the types.
LEMMA ClientType == ASSUME TypeOK, NEW c \in Clients, Client(c) PROVE TypeOK'
<1>1. ASSUME NEW kind \in {"Deploy", "Stop"}, NEW w \in Workloads, Call(c, kind, w) PROVE TypeOK'
  <2>1. [kind |-> kind, id |-> w, from |-> c] \in Commands
    BY DEF Commands
  <2>2. queue' \in Seq(Commands) /\ Len(queue') = Len(queue) + 1
    BY <1>1, <2>1 DEF Call, TypeOK
  <2>3. QED
    BY <1>1, <2>2, AgentAssumption DEF Call, TypeOK
<1>2. CASE CallRefused(c)
  BY <1>2 DEF CallRefused, TypeOK
<1>3. CASE GiveUp(c)
  <2>1. queue' \in Seq(Commands) /\ Len(queue') = Len(queue)
    <3>1. /\ DOMAIN queue = 1 .. Len(queue) /\ Len(queue) \in Nat
          /\ \A i \in 1 .. Len(queue) : queue[i] \in Commands
      BY DEF TypeOK
    <3>2. queue' = [i \in 1 .. Len(queue) |-> Orphaned(c, queue[i])]
      BY <1>3, <3>1 DEF GiveUp
    <3>3. \A i \in 1 .. Len(queue) : Orphaned(c, queue[i]) \in Commands
      BY <3>1, OrphanedCommand
    <3>4. QED
      BY <3>1, <3>2, <3>3
  <2>2. op' \in Ops \cup {NoOp}
    BY <1>3, OrphanedOp DEF GiveUp, TypeOK
  <2>3. QED
    BY <1>3, <2>1, <2>2 DEF GiveUp, TypeOK
<1>4. QED
  BY <1>1, <1>2, <1>3 DEF Client

\* The rest of the Agent, and the world, keep the types.
LEMMA AgentType == ASSUME TypeOK, Agent \/ World PROVE TypeOK'
<1>1. CASE TakeCommand
  <2>1. /\ Head(queue) \in Commands
        /\ Tail(queue) \in Seq(Commands) /\ Len(Tail(queue)) = Len(queue) - 1
        /\ Len(queue) \in Nat
    BY <1>1 DEF TakeCommand, TypeOK
  <2>2. op' \in Ops
    BY <1>1, <2>1 DEF TakeCommand, Ops, Commands, Steps
  <2>3. QED
    BY <1>1, <2>1, <2>2, AgentAssumption DEF TakeCommand, TypeOK
<1>2. CASE PickExpired
  BY <1>2 DEF PickExpired, Expired, TypeOK
<1>3. ASSUME NEW w \in Workloads, StopExpired(w) PROVE TypeOK'
  <2>1. op' \in Ops
    BY <1>3 DEF StopExpired, Ops, Steps
  <2>2. QED
    BY <1>3, <2>1 DEF StopExpired, TypeOK
<1>4. CASE Crash
  <2>1. queue' \in Seq(Commands) /\ Len(queue') <= MaxQueue
    <3>1. <<>> \in Seq(Commands) /\ Len(<<>>) = 0
      OBVIOUS
    <3>2. QED
      BY <1>4, <3>1, AgentAssumption DEF Crash
  <2>2. reply' \in [Clients -> {"none", "waiting", "ok", "err"}]
    BY <1>4 DEF Crash, TypeOK
  <2>3. crashes' \in 0 .. MaxCrashes
    <3>1. crashes \in Nat /\ MaxCrashes \in Nat /\ crashes < MaxCrashes
      BY <1>4, AgentAssumption DEF Crash, TypeOK
    <3>2. QED
      BY <1>4, <3>1 DEF Crash
  <2>4. up' \in BOOLEAN
    BY <1>4 DEF Crash
  <2>5. QED
    BY <1>4, <2>1, <2>2, <2>3, <2>4 DEF Crash, TypeOK
<1>5. CASE Recover
  <2>1. PICK seen \in SUBSET Workloads, applied \in SUBSET Workloads :
          rec' = [w \in Workloads |-> Recovered(w, w \in seen, w \in applied)]
    BY <1>5 DEF Recover
  <2>2. ASSUME NEW w \in Workloads PROVE Recovered(w, w \in seen, w \in applied) \in Records
    BY RecoveredType DEF TypeOK
  <2>3. rec' \in [Workloads -> Records]
    BY <2>1, <2>2
  <2>4. QED
    BY <1>5, <2>3 DEF Recover, TypeOK
<1>6. CASE World
  BY <1>6 DEF World, ContainerExits, LeaseEnds, TypeOK, Containers
<1>7. QED
  BY <1>1, <1>2, <1>3, <1>4, <1>5, <1>6, DeployType, StopType DEF Agent

\* Through any interleaving of callers, event loop, expiry task, crashes and
\* exits, the variables keep their types and the event bus its bound.
THEOREM AgentTypeCorrect == Spec => []TypeOK
<1>1. Init => TypeOK
  <2>1. NoRecord \in Records /\ "absent" \in Containers
    BY DEF NoRecord, Records, Containers
  <2>2. <<>> \in Seq(Commands) /\ Len(<<>>) = 0
    OBVIOUS
  <2>3. QED
    BY <2>1, <2>2, AgentAssumption DEF Init, TypeOK
<1>2. TypeOK /\ [Next]_agentVars => TypeOK'
  <2> SUFFICES ASSUME TypeOK, [Next]_agentVars PROVE TypeOK'
    OBVIOUS
  <2>1. CASE UNCHANGED agentVars
    BY <2>1 DEF agentVars, TypeOK
  <2>2. QED
    BY <2>1, AgentType, ClientType DEF Next
<1>3. QED
  BY <1>1, <1>2, PTL DEF Spec

-----------------------------------------------------------------------------
(***************************************************************************)
(* The inductive invariant. Neither NoRunningOrphan nor StoppedNotRunning  *)
(* is inductive: they hold because the operation that holds the lock only  *)
(* gets to the engine call that could break them through a store or an     *)
(* inspection that made it safe (OpSound), because what it knows stays     *)
(* true until it ends, and because a crash ends it (DownIsIdle).           *)
(***************************************************************************)

\* A container is created for a record without an id, started only once the
\* record has one and is not Stopped, and gone before Stopped is stored.
OpSound ==
  /\ op.kind = "Deploy" =>
       /\ op.at \in {"create", "storeCreated"} => ~rec[op.id].cid
       /\ op.at \in {"inspectExisting", "start", "inspectStarted", "secure"} => rec[op.id].cid
       /\ op.at \in {"start", "inspectStarted", "secure"} => rec[op.id].phase # "Stopped"
  /\ op.kind = "Stop" =>
       /\ op.at = "remove" => ctr[op.id] # "running"
       /\ op.at = "storeStopped" => ctr[op.id] = "absent"

\* Without a record there is no container id.
UnknownIsEmpty == \A w \in Workloads : rec[w].phase = "Unknown" => ~rec[w].cid

\* A crashed Agent does nothing.
DownIsIdle == ~up => op = NoOp

AgentInv ==
  TypeOK /\ NoRunningOrphan /\ StoppedNotRunning /\ OpSound /\ UnknownIsEmpty /\ DownIsIdle

\* What NoSecondContainer says of one step.
KeepsGone ==
  \A w \in Workloads : rec[w].cid /\ ctr[w] = "absent" => ctr'[w] = "absent"

Safe == NoRunningOrphan /\ StoppedNotRunning /\ OpSound /\ UnknownIsEmpty /\ DownIsIdle

\* A deploy: the step decides which case of OpSound applies.
LEMMA DeploySafe == ASSUME AgentInv, Deploy PROVE Safe' /\ KeepsGone
<1>1. op.kind = "Deploy" /\ op \in Ops /\ op.id \in Workloads /\ up
  BY OpFields DEF AgentInv, TypeOK, DownIsIdle, NoOp,
                  Deploy, Reserve, InspectExisting, Create, StoreCreated, Start, InspectStarted,
                  Secure, Doing
<1>2. /\ rec \in [Workloads -> Records] /\ ctr \in [Workloads -> Containers]
      /\ NoRunningOrphan /\ StoppedNotRunning /\ OpSound /\ UnknownIsEmpty
  BY DEF AgentInv, TypeOK
<1>3. up'
  BY <1>1 DEF Deploy, Reserve, InspectExisting, Create, StoreCreated, Start, InspectStarted,
              Secure, Rest
<1> USE <1>1, <1>2, <1>3 DEF Safe, NoRunningOrphan, StoppedNotRunning, OpSound, UnknownIsEmpty,
            DownIsIdle, KeepsGone, Doing, Goto, Finish, Store, Docker, InPhase, NoOp, Ops, Records
<1>4. CASE Reserve
  BY <1>4 DEF Reserve, Fails
<1>5. CASE InspectExisting
  BY <1>5 DEF InspectExisting, Fails
<1>6. CASE Create
  BY <1>6 DEF Create, Fails
<1>7. CASE StoreCreated
  BY <1>7 DEF StoreCreated
<1>8. CASE Start
  <2>1. CASE Store(InPhase("Failed")) /\ Finish("err") /\ UNCHANGED ctr
    BY <1>8, <2>1 DEF Start
  <2>2. CASE Docker("running") /\ Goto("inspectStarted") /\ UNCHANGED rec
    BY <1>8, <2>2 DEF Start
  <2>3. CASE Docker("running") /\ Finish("err") /\ Store(InPhase("Failed")) /\ ctr[op.id] # "absent"
    BY <1>8, <2>3 DEF Start
  <2>4. QED
    BY <1>8, <2>1, <2>2, <2>3 DEF Start
<1>9. CASE InspectStarted
  BY <1>9 DEF InspectStarted, Fails
<1>10. CASE Secure
  <2>1. CASE Store([InPhase("Running") EXCEPT !.sg = @ \/ op.id \in Guarded])
             /\ Finish("ok") /\ UNCHANGED ctr
    BY <1>10, <2>1 DEF Secure
  <2>2. CASE /\ \/ Docker("absent")
                \/ Docker(IF ctr[op.id] = "running" THEN "exited" ELSE ctr[op.id])
                \/ UNCHANGED ctr
             /\ Store(InPhase("Failed")) /\ Finish("err")
    BY <1>10, <2>2 DEF Secure
  <2>3. QED
    BY <1>10, <2>1, <2>2 DEF Secure
<1>11. QED
  BY <1>4, <1>5, <1>6, <1>7, <1>8, <1>9, <1>10 DEF Deploy

\* A stop: Stopped is stored only after the container was seen stopped and then
\* removed, and nothing else starts it in between.
LEMMA StopSafe == ASSUME AgentInv, Stop PROVE Safe' /\ KeepsGone
<1>1. op.kind = "Stop" /\ op \in Ops /\ op.id \in Workloads /\ up
  BY OpFields DEF AgentInv, TypeOK, DownIsIdle, NoOp,
                  Stop, Lookup, EngineStop, InspectStopped, Remove, StoreStopped, Doing
<1>2. /\ rec \in [Workloads -> Records] /\ ctr \in [Workloads -> Containers]
      /\ NoRunningOrphan /\ StoppedNotRunning /\ OpSound /\ UnknownIsEmpty
  BY DEF AgentInv, TypeOK
<1>3. up'
  BY <1>1 DEF Stop, Lookup, EngineStop, InspectStopped, Remove, StoreStopped, Rest
<1> USE <1>1, <1>2, <1>3 DEF Safe, NoRunningOrphan, StoppedNotRunning, OpSound, UnknownIsEmpty,
            DownIsIdle, KeepsGone, Doing, Goto, Finish, Store, Docker, InPhase, NoOp, Ops, Records
<1>4. CASE Lookup
  BY <1>4 DEF Lookup, Fails
<1>5. CASE EngineStop
  BY <1>5 DEF EngineStop, Fails
<1>6. CASE InspectStopped
  BY <1>6 DEF InspectStopped, Fails
<1>7. CASE Remove
  BY <1>7 DEF Remove, Fails
<1>8. CASE StoreStopped
  BY <1>8 DEF StoreStopped
<1>9. QED
  BY <1>4, <1>5, <1>6, <1>7, <1>8 DEF Stop

\* recover() keeps a container's id, calls nothing Stopped that runs and gives
\* no record to a workload that had none.
LEMMA RecoveredSafe ==
  ASSUME AgentInv, NEW w \in Workloads, NEW seen, NEW applied
  PROVE  LET r == Recovered(w, w \in seen, w \in applied)
         IN  /\ r.cid = rec[w].cid
             /\ r.phase = "Stopped" => ctr[w] # "running"
             /\ r.phase = "Unknown" => ~r.cid
<1>1. /\ rec[w] \in Records
      /\ rec[w].phase = "Stopped" => ctr[w] # "running"
      /\ rec[w].phase = "Unknown" => ~rec[w].cid
  BY DEF AgentInv, TypeOK, StoppedNotRunning, UnknownIsEmpty
<1> DEFINE r == Recovered(w, w \in seen, w \in applied)
<1>2. CASE ~rec[w].cid
  <2>1. r = IF rec[w].phase \in Consuming THEN [rec[w] EXCEPT !.phase = "Failed"] ELSE rec[w]
    BY <1>2 DEF Recovered
  <2>2. QED
    BY <1>1, <1>2, <2>1 DEF Records
<1>3. CASE rec[w].cid /\ (w \notin seen \/ ctr[w] = "absent")
  <2>1. r = [rec[w] EXCEPT !.phase = "Lost"]
    BY <1>3 DEF Recovered
  <2>2. QED
    BY <1>1, <1>3, <2>1 DEF Records
<1>4. CASE rec[w].cid /\ w \in seen /\ ctr[w] = "running"
  <2>1. r = [rec[w] EXCEPT !.phase = "Running", !.sg = @ \/ (w \in Guarded /\ w \in applied)]
    BY <1>4 DEF Recovered
  <2>2. QED
    BY <1>1, <1>4, <2>1 DEF Records
<1>5. CASE rec[w].cid /\ w \in seen /\ ctr[w] \notin {"absent", "running"}
  <2>1. r = [rec[w] EXCEPT !.phase = IF @ = "Stopping" THEN "Stopped" ELSE "Failed"]
    BY <1>5 DEF Recovered
  <2>2. QED
    BY <1>1, <1>5, <2>1 DEF Records
<1>6. QED
  BY <1>1, <1>2, <1>3, <1>4, <1>5 DEF Records

\* The rest of the Agent's steps, and the world's.
LEMMA AgentSafe == ASSUME AgentInv, Agent \/ World PROVE Safe' /\ KeepsGone
<1>1. /\ rec \in [Workloads -> Records] /\ ctr \in [Workloads -> Containers]
      /\ op \in Ops \cup {NoOp} /\ Safe
  BY DEF AgentInv, TypeOK, Safe
<1>2. CASE TakeCommand
  <2>1. op'.at \in {"reserve", "lookup"} /\ up'
    BY <1>2 DEF TakeCommand
  <2>2. UNCHANGED <<rec, ctr>>
    BY <1>2 DEF TakeCommand
  <2>3. QED
    BY <1>1, <2>1, <2>2 DEF Safe, NoRunningOrphan, StoppedNotRunning, OpSound, UnknownIsEmpty,
                            DownIsIdle, KeepsGone
<1>3. CASE PickExpired
  BY <1>1, <1>3 DEF PickExpired, Safe, NoRunningOrphan, StoppedNotRunning, OpSound,
                    UnknownIsEmpty, DownIsIdle, KeepsGone
<1>4. ASSUME NEW w \in Workloads, StopExpired(w) PROVE Safe' /\ KeepsGone
  BY <1>1, <1>4 DEF StopExpired, Safe, NoRunningOrphan, StoppedNotRunning, OpSound,
                    UnknownIsEmpty, DownIsIdle, KeepsGone
<1>5. CASE Crash
  BY <1>1, <1>5 DEF Crash, Safe, NoRunningOrphan, StoppedNotRunning, OpSound,
                    UnknownIsEmpty, DownIsIdle, KeepsGone, NoOp
<1>6. CASE Recover
  <2>1. PICK seen \in SUBSET Workloads, applied \in SUBSET Workloads :
          rec' = [w \in Workloads |-> Recovered(w, w \in seen, w \in applied)]
    BY <1>6 DEF Recover
  <2>2. ASSUME NEW w \in Workloads
        PROVE  /\ rec'[w].cid = rec[w].cid
               /\ rec'[w].phase = "Stopped" => ctr[w] # "running"
               /\ rec'[w].phase = "Unknown" => ~rec'[w].cid
    BY <2>1, RecoveredSafe
  <2>3. op' = NoOp /\ up' /\ UNCHANGED ctr
    BY <1>1, <1>6 DEF Recover, Safe, DownIsIdle
  <2>4. QED
    BY <1>1, <2>2, <2>3 DEF Safe, NoRunningOrphan, StoppedNotRunning, OpSound, UnknownIsEmpty,
                            DownIsIdle, KeepsGone, NoOp
<1>7. ASSUME NEW w \in Workloads, ContainerExits(w) PROVE Safe' /\ KeepsGone
  <2>1. \A v \in Workloads : ctr'[v] = ctr[v] \/ (ctr[v] = "running" /\ ctr'[v] = "exited")
    BY <1>1, <1>7 DEF ContainerExits
  <2>2. op.kind = "Stop" => op.id \in Workloads
    BY <1>1 DEF Ops, NoOp
  <2>3. QED
    BY <1>1, <1>7, <2>1, <2>2 DEF ContainerExits, Safe, NoRunningOrphan, StoppedNotRunning,
                                  OpSound, UnknownIsEmpty, DownIsIdle, KeepsGone
<1>8. ASSUME NEW w \in Workloads, LeaseEnds(w) PROVE Safe' /\ KeepsGone
  BY <1>1, <1>8 DEF LeaseEnds, Safe, NoRunningOrphan, StoppedNotRunning, OpSound,
                    UnknownIsEmpty, DownIsIdle, KeepsGone
<1>9. QED
  BY <1>2, <1>3, <1>4, <1>5, <1>6, <1>7, <1>8, DeploySafe, StopSafe DEF Agent, World

\* Callers change neither records nor containers, and GiveUp no step.
LEMMA ClientSafe == ASSUME AgentInv, NEW c \in Clients, Client(c) PROVE Safe' /\ KeepsGone
<1>1. op \in Ops \cup {NoOp} /\ Safe
  BY DEF AgentInv, TypeOK, Safe
<1>2. UNCHANGED <<rec, ctr, up>>
  BY DEF Client, Call, CallRefused, GiveUp
<1>3. /\ op'.kind = op.kind /\ op'.at = op.at /\ op'.id = op.id
      /\ op = NoOp => op' = NoOp
  <2>1. CASE GiveUp(c)
    <3>1. op' = Orphaned(c, op)
      BY <2>1 DEF GiveUp
    <3>2. op = NoOp => op.from # c
      BY AgentAssumption DEF NoOp
    <3>3. QED
      BY <1>1, <3>1, <3>2 DEF Orphaned, Ops, NoOp
  <2>2. CASE UNCHANGED op
    BY <2>2
  <2>3. QED
    BY <2>1, <2>2 DEF Client, Call, CallRefused
<1>4. QED
  BY <1>1, <1>2, <1>3 DEF Safe, NoRunningOrphan, StoppedNotRunning, OpSound, UnknownIsEmpty,
                          DownIsIdle, KeepsGone

\* One step of anybody.
LEMMA AgentStep == ASSUME AgentInv, [Next]_agentVars PROVE AgentInv' /\ KeepsGone
<1>1. CASE Next
  <2>1. TypeOK'
    BY <1>1, AgentType, ClientType DEF Next, AgentInv
  <2>2. Safe' /\ KeepsGone
    BY <1>1, AgentSafe, ClientSafe DEF Next
  <2>3. QED
    BY <2>1, <2>2 DEF AgentInv, Safe
<1>2. CASE UNCHANGED agentVars
  BY <1>2 DEF agentVars, AgentInv, TypeOK, NoRunningOrphan, StoppedNotRunning, OpSound,
              UnknownIsEmpty, DownIsIdle, KeepsGone
<1>3. QED
  BY <1>1, <1>2

\* The Agent begins without records, containers and commands.
LEMMA AgentStart == Init => AgentInv
<1> SUFFICES ASSUME Init PROVE AgentInv
  OBVIOUS
<1>1. TypeOK
  <2>1. NoRecord \in Records /\ "absent" \in Containers
    BY DEF NoRecord, Records, Containers
  <2>2. <<>> \in Seq(Commands) /\ Len(<<>>) = 0
    OBVIOUS
  <2>3. QED
    BY <2>1, <2>2, AgentAssumption DEF Init, TypeOK
<1>2. QED
  BY <1>1 DEF Init, AgentInv, NoRunningOrphan, StoppedNotRunning, OpSound, UnknownIsEmpty,
              DownIsIdle, NoRecord, NoOp

\* The invariant holds throughout.
THEOREM AgentInvariant == Spec => []AgentInv
<1>1. AgentInv /\ [Next]_agentVars => AgentInv'
  BY AgentStep
<1>2. QED
  BY <1>1, AgentStart, PTL DEF Spec

\* A container runs only under a record that names it: whenever the Agent dies,
\* recover() finds everything it has started (deploy, recover).
THEOREM NoOrphans == Spec => []NoRunningOrphan
<1>1. AgentInv => NoRunningOrphan
  BY DEF AgentInv
<1>2. QED
  BY <1>1, AgentInvariant, PTL

\* A workload recorded as Stopped does not run, whatever failed in the middle of
\* its stop (stop, recover, get_status).
THEOREM StoppedIsTrue == Spec => []StoppedNotRunning
<1>1. AgentInv => StoppedNotRunning
  BY DEF AgentInv
<1>2. QED
  BY <1>1, AgentInvariant, PTL

\* No retry and no recovery brings up a second container for a workload whose
\* container, once recorded, is gone (deploy).
THEOREM OneContainer == Spec => NoSecondContainer
<1>1. AgentInv /\ [Next]_agentVars =>
        [\A w \in Workloads : rec[w].cid /\ ctr[w] = "absent" => ctr'[w] = "absent"]_agentVars
  BY AgentStep DEF KeepsGone
<1>2. QED
  BY <1>1, AgentInvariant, PTL DEF Spec, NoSecondContainer

-----------------------------------------------------------------------------
(***************************************************************************)
(* How long Stopped lasts. A record becomes Stopped after its container    *)
(* was removed, which is for good, or in recover(), over a container that  *)
(* is left behind: the next restart forgets that one. So what a caller was *)
(* told of a stopped workload stays true until the second restart, and no  *)
(* longer.                                                                 *)
(***************************************************************************)

\* The workload will not run again, unless two restarts have passed.
Gone(w) ==
  \/ rec[w].cid /\ ctr[w] = "absent"
  \/ rec[w].phase = "Stopped" /\ up /\ crashes = 1
  \/ crashes >= 2

\* A stop gets past its lookup, and to Stopped, only with a container id.
StopIsNamed ==
  /\ \A w \in Workloads : rec[w].phase = "Stopped" => rec[w].cid
  /\ op.kind = "Stop" /\ op.at # "lookup" => rec[op.id].cid

DownHasCrashed == up \/ crashes >= 1

StoppedStays == \A w \in Workloads : rec[w].phase = "Stopped" => Gone(w)

StopInv == AgentInv /\ StopIsNamed /\ DownHasCrashed /\ StoppedStays

\* What a step keeps of the records.
RecordsKept ==
  /\ op'.kind = "Stop" /\ op'.at # "lookup" => rec'[op'.id].cid
  /\ \A w \in Workloads :
       /\ rec[w].cid => rec'[w].cid
       /\ up /\ rec[w].phase = "Stopped" => rec'[w].phase = "Stopped"
       /\ rec'[w].phase = "Stopped" =>
            \/ rec[w].phase = "Stopped"
            \/ rec[w].cid /\ (~up \/ ctr'[w] = "absent")

\* A deploy meets a Stopped record only to fail, and stores no other.
LEMMA DeployKeeps == ASSUME StopInv, Deploy PROVE RecordsKept
<1>1. op.kind = "Deploy" /\ op \in Ops /\ op.id \in Workloads
  BY OpFields DEF StopInv, AgentInv, TypeOK, NoOp,
                  Deploy, Reserve, InspectExisting, Create, StoreCreated, Start, InspectStarted,
                  Secure, Doing
<1>2. /\ rec \in [Workloads -> Records]
      /\ OpSound /\ StopIsNamed
  BY DEF StopInv, AgentInv, TypeOK
<1>3. op'.kind # "Stop"
  <2>1. \A r : Finish(r) => op' = NoOp
    BY DEF Finish
  <2>2. \A at : Goto(at) => op' = [op EXCEPT !.at = at]
    BY DEF Goto
  <2>3. op' = NoOp \/ \E at : op' = [op EXCEPT !.at = at]
    BY <2>1, <2>2 DEF Deploy, Reserve, InspectExisting, Create, StoreCreated, Start,
                      InspectStarted, Secure, Fails
  <2>4. QED
    BY <1>1, <2>3 DEF NoOp, Ops
<1>4. CASE rec' = rec
  BY <1>3, <1>4 DEF RecordsKept
<1>5. ASSUME NEW r \in Records, Store(r), r.phase # "Stopped", rec[op.id].cid => r.cid,
             rec[op.id].phase # "Stopped"
      PROVE  RecordsKept
  BY <1>1, <1>2, <1>3, <1>5 DEF RecordsKept, Store
<1>6. ASSUME NEW p \in Phases PROVE InPhase(p) \in Records /\ InPhase(p).phase = p /\ InPhase(p).cid = rec[op.id].cid
  BY <1>1, <1>2 DEF InPhase, Records
<1>7. {"Provisioning", "Starting", "Running", "Failed"} \subseteq Phases
  BY DEF Phases
<1>8. CASE Reserve
  <2>1. CASE rec[op.id].phase = "Unknown" /\ Store([phase |-> "Provisioning", cid |-> FALSE, sg |-> FALSE])
    <3>1. ~rec[op.id].cid
      BY <1>1, <2>1 DEF StopInv, AgentInv, UnknownIsEmpty
    <3>2. [phase |-> "Provisioning", cid |-> FALSE, sg |-> FALSE] \in Records
      BY <1>7 DEF Records
    <3>3. QED
      BY <1>5, <2>1, <3>1, <3>2
  <2>2. QED
    BY <1>4, <1>8, <2>1 DEF Reserve, Fails
<1>9. CASE InspectExisting \/ Create
  BY <1>4, <1>9 DEF InspectExisting, Create, Fails
<1>10. CASE StoreCreated
  <2> DEFINE r == [InPhase("Starting") EXCEPT !.cid = TRUE]
  <2>1. r \in Records /\ r.phase = "Starting" /\ r.cid
    <3>1. rec[op.id] \in Records
      BY <1>1, <1>2
    <3>2. QED
      BY <1>7, <3>1, RecordTypes DEF InPhase, Records
  <2>2. rec[op.id].phase # "Stopped"
    BY <1>1, <1>2, <1>10 DEF StoreCreated, Doing, OpSound, StopIsNamed
  <2>3. Store(r)
    BY <1>10 DEF StoreCreated
  <2> HIDE DEF r
  <2>4. QED
    BY <1>5, <2>1, <2>2, <2>3
<1>11. CASE Start \/ InspectStarted
  <2>1. rec[op.id].phase # "Stopped"
    BY <1>1, <1>2, <1>11 DEF Start, InspectStarted, Doing, OpSound
  <2>2. rec' = rec \/ Store(InPhase("Failed"))
    BY <1>11 DEF Start, InspectStarted, Fails
  <2>3. QED
    BY <1>4, <1>5, <1>6, <1>7, <2>1, <2>2
<1>12. CASE Secure
  <2>1. rec[op.id].phase # "Stopped"
    BY <1>1, <1>2, <1>12 DEF Secure, Doing, OpSound
  <2> DEFINE r == [InPhase("Running") EXCEPT !.sg = @ \/ op.id \in Guarded]
  <2>2. r \in Records /\ r.phase = "Running" /\ r.cid = rec[op.id].cid
    <3>1. rec[op.id] \in Records
      BY <1>1, <1>2
    <3>2. r \in Records
      BY <3>1, SecuredTypes DEF InPhase
    <3>3. QED
      BY <3>1, <3>2 DEF InPhase, Records
  <2>3. Store(r) \/ Store(InPhase("Failed"))
    BY <1>12 DEF Secure
  <2> HIDE DEF r
  <2>4. QED
    BY <1>5, <1>6, <1>7, <2>1, <2>2, <2>3
<1>13. QED
  BY <1>8, <1>9, <1>10, <1>11, <1>12 DEF Deploy

\* A stop takes a record with a container id to Stopping, and from there to
\* Stopped when the container is absent.
LEMMA StopKeeps == ASSUME StopInv, Stop PROVE RecordsKept
<1>1. op.kind = "Stop" /\ op \in Ops /\ op.id \in Workloads
  BY OpFields DEF StopInv, AgentInv, TypeOK, NoOp,
                  Stop, Lookup, EngineStop, InspectStopped, Remove, StoreStopped, Doing
<1>2. rec \in [Workloads -> Records] /\ OpSound /\ StopIsNamed
  BY DEF StopInv, AgentInv, TypeOK
<1>3. ASSUME NEW p \in Phases
      PROVE  InPhase(p) \in Records /\ InPhase(p).phase = p /\ InPhase(p).cid = rec[op.id].cid
  BY <1>1, <1>2 DEF InPhase, Records
<1>4. {"Stopping", "Stopped"} \subseteq Phases
  BY DEF Phases
<1>5. /\ \A r : Finish(r) => op'.kind = "None"
      /\ \A at : Goto(at) => op'.kind = "Stop" /\ op'.id = op.id /\ op'.at = at
  BY <1>1 DEF Finish, Goto, NoOp, Ops
<1>6. CASE Lookup
  <2>1. CASE rec' = rec /\ op'.kind = "None"
    BY <2>1 DEF RecordsKept
  <2>2. CASE /\ rec[op.id].phase \notin {"Unknown", "Stopped", "Failed"} /\ rec[op.id].cid
             /\ Store(InPhase("Stopping")) /\ Goto("engineStop")
    BY <1>1, <1>2, <1>3, <1>4, <1>5, <2>2 DEF Store, RecordsKept
  <2>3. QED
    BY <1>5, <1>6, <2>1, <2>2 DEF Lookup, Fails
<1>7. CASE EngineStop \/ InspectStopped \/ Remove
  <2>1. rec' = rec /\ rec[op.id].cid
    BY <1>1, <1>2, <1>7 DEF EngineStop, InspectStopped, Remove, Fails, Doing, StopIsNamed
  <2>2. op'.kind = "None" \/ (op'.kind = "Stop" /\ op'.id = op.id)
    BY <1>5, <1>7 DEF EngineStop, InspectStopped, Remove, Fails
  <2>3. QED
    BY <2>1, <2>2 DEF RecordsKept
<1>8. CASE StoreStopped
  <2>1. rec[op.id].cid /\ ctr[op.id] = "absent" /\ ctr' = ctr /\ op'.kind = "None" /\ Store(InPhase("Stopped"))
    BY <1>1, <1>2, <1>5, <1>8 DEF StoreStopped, Doing, StopIsNamed, OpSound
  <2>2. QED
    BY <1>1, <1>2, <1>3, <1>4, <2>1 DEF Store, RecordsKept
<1>9. QED
  BY <1>6, <1>7, <1>8 DEF Stop

\* recover() gives no record a container id and takes none away, and calls
\* Stopped what was being stopped.
LEMMA RecoverKeeps == ASSUME StopInv, Recover PROVE RecordsKept
<1>1. PICK seen \in SUBSET Workloads, applied \in SUBSET Workloads :
        rec' = [w \in Workloads |-> Recovered(w, w \in seen, w \in applied)]
  BY DEF Recover
<1>2. ~up /\ op' = NoOp
  BY DEF StopInv, AgentInv, DownIsIdle, Recover
<1>3. ASSUME NEW w \in Workloads
      PROVE  /\ rec'[w].cid = rec[w].cid
             /\ rec'[w].phase = "Stopped" => rec[w].phase = "Stopped" \/ rec[w].cid
  <2>1. rec'[w] = Recovered(w, w \in seen, w \in applied)
    BY <1>1
  <2>2. rec'[w].cid = rec[w].cid
    BY <2>1, RecoveredSafe DEF StopInv
  <2>3. ASSUME ~rec[w].cid, rec'[w].phase = "Stopped" PROVE rec[w].phase = "Stopped"
    <3>1. rec[w] \in Records
      BY DEF StopInv, AgentInv, TypeOK
    <3>2. rec'[w] = IF rec[w].phase \in Consuming THEN [rec[w] EXCEPT !.phase = "Failed"] ELSE rec[w]
      BY <2>1, <2>3 DEF Recovered
    <3>3. QED
      BY <2>3, <3>1, <3>2 DEF Records
  <2>4. QED
    BY <2>2, <2>3
<1>4. QED
  BY <1>2, <1>3 DEF RecordsKept, NoOp

\* Nor does any other step take away a container id, or Stopped from a record
\* while the Agent runs.
LEMMA RecordsStep == ASSUME StopInv, [Next]_agentVars PROVE RecordsKept
<1>1. op \in Ops \cup {NoOp} /\ StopIsNamed
  BY DEF StopInv, AgentInv, TypeOK
<1>2. ASSUME rec' = rec, op'.kind = "Stop" /\ op'.at # "lookup" =>
                           op.kind = "Stop" /\ op.at # "lookup" /\ op'.id = op.id
      PROVE  RecordsKept
  BY <1>1, <1>2 DEF RecordsKept, StopIsNamed
<1>3. CASE TakeCommand
  <2>1. op'.kind = "Stop" => op'.at = "lookup"
    BY <1>3 DEF TakeCommand
  <2>2. QED
    BY <1>2, <1>3, <2>1 DEF TakeCommand
<1>4. CASE Crash
  BY <1>2, <1>4 DEF Crash, NoOp
<1>5. CASE PickExpired \/ World \/ UNCHANGED agentVars
  BY <1>2, <1>5 DEF PickExpired, World, ContainerExits, LeaseEnds, agentVars
<1>6. CASE \E w \in Workloads : StopExpired(w)
  BY <1>2, <1>6 DEF StopExpired
<1>7. ASSUME NEW c \in Clients, Client(c) PROVE RecordsKept
  <2>1. CASE GiveUp(c)
    <3>1. op' = Orphaned(c, op) /\ rec' = rec
      BY <2>1 DEF GiveUp
    <3>2. op'.kind = op.kind /\ op'.at = op.at /\ op'.id = op.id
      BY <1>1, <3>1 DEF Orphaned, Ops, NoOp
    <3>3. QED
      BY <1>2, <3>1, <3>2
  <2>2. CASE UNCHANGED <<rec, op>>
    BY <1>2, <2>2
  <2>3. QED
    BY <1>7, <2>1, <2>2 DEF Client, Call, CallRefused
<1>8. QED
  BY <1>3, <1>4, <1>5, <1>6, <1>7, DeployKeeps, StopKeeps, RecoverKeeps DEF Next, Agent

\* Going down counts as a crash, and coming up again does not.
LEMMA CrashesStep ==
  ASSUME StopInv, [Next]_agentVars
  PROVE  /\ crashes \in Nat /\ up \in BOOLEAN /\ up' \in BOOLEAN
         /\ IF up /\ ~up' THEN crashes' = crashes + 1 ELSE crashes' = crashes
<1>1. crashes \in Nat /\ up \in BOOLEAN
  BY AgentAssumption DEF StopInv, AgentInv, TypeOK
<1>2. up' \in BOOLEAN
  BY AgentStep DEF StopInv, AgentInv, TypeOK
<1>3. CASE Crash
  BY <1>1, <1>2, <1>3 DEF Crash
<1>4. CASE Recover
  BY <1>1, <1>2, <1>4 DEF Recover
<1>5. CASE UNCHANGED <<up, crashes>>
  BY <1>1, <1>2, <1>5
<1>6. ASSUME ~Crash, ~Recover PROVE UNCHANGED <<up, crashes>>
  BY <1>6
     DEF Next, Agent, World, Client, TakeCommand, PickExpired, StopExpired, ContainerExits, LeaseEnds,
         Call, CallRefused, GiveUp, agentVars, Rest,
         Deploy, Reserve, InspectExisting, Create, StoreCreated, Start, InspectStarted, Secure,
         Stop, Lookup, EngineStop, InspectStopped, Remove, StoreStopped
<1>7. QED
  BY <1>1, <1>2, <1>3, <1>4, <1>5, <1>6

\* What a step keeps of the workloads that are gone.
GoneKept == \A w \in Workloads : Gone(w) => Gone(w)'

\* One step of anybody, and how long Stopped lasts.
LEMMA StopStep ==
  ASSUME StopInv, [Next]_agentVars
  PROVE  StopInv' /\ GoneKept /\ RecordsKept
<1>1. AgentInv' /\ KeepsGone /\ RecordsKept
  BY AgentStep, RecordsStep DEF StopInv
<1>2. /\ crashes \in Nat /\ up \in BOOLEAN /\ up' \in BOOLEAN
      /\ IF up /\ ~up' THEN crashes' = crashes + 1 ELSE crashes' = crashes
  BY CrashesStep
<1>3. ASSUME NEW w \in Workloads, Gone(w) PROVE Gone(w)'
  <2>1. CASE rec[w].cid /\ ctr[w] = "absent"
    BY <1>1, <2>1 DEF KeepsGone, RecordsKept, Gone
  <2>2. CASE rec[w].phase = "Stopped" /\ up /\ crashes = 1
    <3>1. rec'[w].phase = "Stopped"
      BY <1>1, <2>2 DEF RecordsKept
    <3>2. QED
      BY <1>2, <2>2, <3>1 DEF Gone
  <2>3. CASE crashes >= 2
    BY <1>2, <2>3 DEF Gone
  <2>4. QED
    BY <1>3, <2>1, <2>2, <2>3 DEF Gone
<1>4. DownHasCrashed'
  BY <1>2 DEF StopInv, DownHasCrashed
<1>5. ASSUME NEW w \in Workloads, rec'[w].phase = "Stopped" PROVE rec'[w].cid /\ Gone(w)'
  <2>1. rec'[w].cid
    BY <1>1, <1>5 DEF RecordsKept, StopInv, StopIsNamed
  <2>2. CASE rec[w].phase = "Stopped"
    BY <1>3, <2>1, <2>2 DEF StopInv, StoppedStays
  <2>3. CASE ctr'[w] = "absent"
    BY <2>1, <2>3 DEF Gone
  <2>4. CASE ~up /\ up'
    BY <1>2, <1>5, <2>1, <2>4 DEF StopInv, DownHasCrashed, Gone
  <2>5. CASE ~up /\ ~up' /\ rec[w].phase # "Stopped"
    <3>1. op.kind = "None"
      BY <2>5 DEF StopInv, AgentInv, DownIsIdle, NoOp
    <3>2. ~Deploy /\ ~Stop
      BY <3>1 DEF Doing, Deploy, Reserve, InspectExisting, Create, StoreCreated, Start,
                  InspectStarted, Secure, Stop, Lookup, EngineStop, InspectStopped, Remove,
                  StoreStopped
    <3>3. ~Recover
      BY <2>5 DEF Recover
    <3>4. rec' = rec
      BY <3>2, <3>3
         DEF Next, Agent, World, Client, TakeCommand, PickExpired, StopExpired, ContainerExits,
             LeaseEnds, Call, CallRefused, GiveUp, agentVars, Crash
    <3>5. QED
      BY <1>5, <2>5, <3>4
  <2>6. QED
    BY <1>1, <1>2, <1>5, <2>2, <2>3, <2>4, <2>5 DEF RecordsKept
<1>6. StopIsNamed'
  BY <1>1, <1>5 DEF RecordsKept, StopIsNamed
<1>7. QED
  BY <1>1, <1>3, <1>4, <1>5, <1>6 DEF StopInv, StoppedStays, GoneKept

\* Nothing is recorded as Stopped at first.
LEMMA StopStart == Init => StopInv
<1> SUFFICES ASSUME Init PROVE StopInv
  OBVIOUS
<1>1. AgentInv
  BY AgentStart
<1>2. QED
  BY <1>1 DEF Init, StopInv, StopIsNamed, DownHasCrashed, StoppedStays, NoRecord, NoOp

\* What GetWorkloadStatus said of a stopped workload lasts: its container is
\* absent, or the one restart since has left an exited one behind, or the Agent
\* has been restarted twice; and no step of a caller, an expiry pass or a
\* recovery takes that back (stop, recover).
THEOREM StoppedLasts == Spec => [](StoppedStays /\ StopIsNamed) /\ [][GoneKept]_agentVars
<1>1. StopInv /\ [Next]_agentVars => StopInv' /\ [GoneKept]_agentVars
  BY StopStep
<1>2. StopInv => StoppedStays /\ StopIsNamed
  BY DEF StopInv
<1>3. QED
  BY <1>1, <1>2, StopStart, PTL DEF Spec

-----------------------------------------------------------------------------
(***************************************************************************)
(* The event bus is first in, first out, and a caller has one command at   *)
(* most on its way. So a caller that sent a Stop and gets its answer knows *)
(* that no Deploy sent before it is still to come.                         *)
(***************************************************************************)

\* A caller that does not wait has no command on its way, and one that waits
\* has its command in the bus or in the works, and only once.
CallsOwned ==
  \A c \in Clients :
    /\ reply[c] # "waiting" => op.from # c /\ \A i \in DOMAIN queue : queue[i].from # c
    /\ op.from = c => \A i \in DOMAIN queue : queue[i].from # c
    /\ \A i, j \in DOMAIN queue : queue[i].from = c /\ queue[j].from = c => i = j

\* The workload has a Deploy under way or in the event bus.
DeployPending(w) ==
  \/ op.kind = "Deploy" /\ op.id = w
  \/ \E i \in DOMAIN queue : queue[i].kind = "Deploy" /\ queue[i].id = w

\* Every Deploy of w that is still to be done comes before the command of c.
DeploysFirst(c, w) ==
  /\ op.kind = "Deploy" /\ op.id = w => \E j \in DOMAIN queue : queue[j].from = c
  /\ \A i \in DOMAIN queue :
       queue[i].kind = "Deploy" /\ queue[i].id = w =>
         \E j \in DOMAIN queue : i < j /\ queue[j].from = c

\* The lock holder goes on, or ends with an answer for its caller.
LEMMA OperationAnswers ==
  ASSUME TypeOK, Deploy \/ Stop
  PROVE  /\ queue' = queue
         /\ \/ /\ reply' = reply
               /\ op'.kind = op.kind /\ op'.id = op.id /\ op'.from = op.from
            \/ /\ op' = NoOp
               /\ \E result \in {"ok", "err"} :
                    reply' = [c \in Clients |-> IF c = op.from THEN result ELSE reply[c]]
<1>1. op \in Ops
  BY OpFields DEF TypeOK, Doing, Deploy, Reserve, InspectExisting, Create, StoreCreated, Start,
                  InspectStarted, Secure, Stop, Lookup, EngineStop, InspectStopped, Remove,
                  StoreStopped
<1>2. ASSUME NEW step, Goto(step)
      PROVE  reply' = reply /\ op'.kind = op.kind /\ op'.id = op.id /\ op'.from = op.from
  BY <1>1, <1>2 DEF Goto, Ops
<1>3. /\ queue' = queue
      /\ (\E step : Goto(step)) \/ (\E result \in {"ok", "err"} : Finish(result))
  BY DEF Fails, Rest, Deploy, Reserve, InspectExisting, Create, StoreCreated, Start,
         InspectStarted, Secure, Stop, Lookup, EngineStop, InspectStopped, Remove, StoreStopped
<1>4. QED
  BY <1>2, <1>3 DEF Finish

\* What TakeCommand does to the bus.
LEMMA TakenFirst ==
  ASSUME TypeOK, TakeCommand
  PROVE  /\ 1 \in DOMAIN queue
         /\ op'.kind = queue[1].kind /\ op'.id = queue[1].id /\ op'.from = queue[1].from
         /\ \A i \in DOMAIN queue' : i \in Nat /\ i + 1 \in DOMAIN queue /\ queue'[i] = queue[i + 1]
         /\ \A j \in DOMAIN queue : j \in Nat /\ (1 < j => j - 1 \in DOMAIN queue' /\ queue'[j - 1] = queue[j])
<1>1. queue \in Seq(Commands) /\ queue # <<>> /\ queue' = Tail(queue)
  BY DEF TypeOK, TakeCommand
<1>2. Len(queue) \in Nat /\ Len(queue) >= 1 /\ DOMAIN queue = 1 .. Len(queue) /\ Head(queue) = queue[1]
  BY <1>1
<1>3. /\ DOMAIN Tail(queue) = 1 .. Len(queue) - 1
      /\ \A i \in 1 .. Len(queue) - 1 : Tail(queue)[i] = queue[i + 1]
  BY <1>1, <1>2
<1>4. op'.kind = queue[1].kind /\ op'.id = queue[1].id /\ op'.from = queue[1].from
  BY <1>2 DEF TakeCommand
<1>5. QED
  BY <1>1, <1>2, <1>3, <1>4

\* A command is answered once, to the caller that waits for it.
LEMMA CallsStep ==
  ASSUME TypeOK, CallsOwned, [Next]_agentVars
  PROVE  CallsOwned'
<1>1. ASSUME NEW c \in Clients PROVE c # None /\ c # Expiry
  BY AgentAssumption DEF Expiry
<1>2. CASE Deploy \/ Stop
  <2>1. CASE /\ queue' = queue /\ reply' = reply
             /\ op'.kind = op.kind /\ op'.id = op.id /\ op'.from = op.from
    BY <2>1 DEF CallsOwned
  <2>2. ASSUME queue' = queue, op' = NoOp, NEW result \in {"ok", "err"},
               reply' = [c \in Clients |-> IF c = op.from THEN result ELSE reply[c]]
        PROVE  CallsOwned'
    BY <1>1, <2>2 DEF CallsOwned, NoOp
  <2>3. QED
    BY <1>2, <2>1, <2>2, OperationAnswers
<1>3. CASE TakeCommand
  <2>1. reply' = reply
    BY <1>3 DEF TakeCommand
  <2>2. /\ 1 \in DOMAIN queue /\ op'.from = queue[1].from
        /\ \A i \in DOMAIN queue' : i \in Nat /\ i + 1 \in DOMAIN queue /\ queue'[i] = queue[i + 1]
        /\ \A i \in DOMAIN queue' : i + 1 # 1
    <3>1. \A i \in DOMAIN queue' : i \in Nat /\ i # 0
      BY <1>3 DEF TypeOK, TakeCommand
    <3>2. QED
      BY <1>3, <3>1, TakenFirst
  <2>3. \A i, j \in DOMAIN queue' : i + 1 = j + 1 => i = j
    BY <2>2
  <2>4. QED
    BY <2>1, <2>2, <2>3 DEF CallsOwned
<1>4. CASE Crash
  <2>1. op'.from = None /\ DOMAIN queue' = {}
    BY <1>4 DEF Crash, NoOp
  <2>2. QED
    BY <1>1, <2>1 DEF CallsOwned
<1>5. ASSUME NEW w \in Workloads, StopExpired(w) PROVE CallsOwned'
  BY <1>1, <1>5 DEF StopExpired, CallsOwned
<1>6. CASE Recover \/ PickExpired \/ World \/ UNCHANGED agentVars
  BY <1>6 DEF Recover, PickExpired, World, ContainerExits, LeaseEnds, agentVars, CallsOwned
<1>7. ASSUME NEW c \in Clients, NEW kind \in {"Deploy", "Stop"}, NEW w \in Workloads, Call(c, kind, w)
      PROVE  CallsOwned'
  <2> DEFINE m == [kind |-> kind, id |-> w, from |-> c]
  <2>1. m.from = c
    OBVIOUS
  <2>2. queue' = Append(queue, m) /\ op' = op /\ reply[c] # "waiting"
        /\ reply' = [reply EXCEPT ![c] = "waiting"]
    BY <1>7 DEF Call
  <2> HIDE DEF m
  <2> DEFINE n == Len(queue) + 1
  <2>3. /\ \A i \in DOMAIN queue' : IF i = n THEN queue'[i] = m
                                             ELSE i \in DOMAIN queue /\ queue'[i] = queue[i]
    BY <2>2 DEF TypeOK
  <2> HIDE DEF n
  <2>4. reply'[c] = "waiting" /\ \A d \in Clients : d # c => reply'[d] = reply[d]
    BY <2>2 DEF TypeOK
  <2>5. QED
    BY <2>1, <2>2, <2>3, <2>4 DEF CallsOwned
<1>8. ASSUME NEW c \in Clients, CallRefused(c) PROVE CallsOwned'
  BY <1>8 DEF CallRefused, CallsOwned, TypeOK
<1>9. ASSUME NEW c \in Clients, GiveUp(c) PROVE CallsOwned'
  <2>1. \A d \in Clients : d # c => reply'[d] = reply[d]
    BY <1>9 DEF GiveUp, TypeOK
  <2>2. op'.from = IF op.from = c THEN None ELSE op.from
    BY <1>9 DEF GiveUp, Orphaned, TypeOK, Ops, NoOp
  <2>3. DOMAIN queue' = DOMAIN queue /\ \A i \in DOMAIN queue : queue[i] \in Commands
    BY <1>9 DEF GiveUp, TypeOK
  <2>4. \A i \in DOMAIN queue : queue'[i].from = IF queue[i].from = c THEN None ELSE queue[i].from
    BY <1>9, <2>3 DEF GiveUp, Orphaned, Commands
  <2>5. QED
    BY <1>1, <2>1, <2>2, <2>3, <2>4 DEF CallsOwned
<1>10. QED
  BY <1>2, <1>3, <1>4, <1>5, <1>6, <1>7, <1>8, <1>9 DEF Next, Agent, Client

\* The Agent answers nobody who does not wait.
LEMMA RepliesStay ==
  ASSUME TypeOK, CallsOwned, Agent \/ World, NEW c \in Clients, reply[c] # "waiting"
  PROVE  reply'[c] = reply[c]
<1>1. op.from # c
  BY DEF CallsOwned
<1>2. CASE Deploy \/ Stop
  BY <1>1, <1>2, OperationAnswers
<1>3. CASE Crash
  BY <1>3 DEF Crash
<1>4. CASE TakeCommand \/ PickExpired \/ Recover \/ World \/ \E w \in Workloads : StopExpired(w)
  BY <1>4 DEF TakeCommand, PickExpired, Recover, World, ContainerExits, LeaseEnds, StopExpired
<1>5. QED
  BY <1>2, <1>3, <1>4 DEF Agent

\* While c waits, the Deploys before its command stay before it, and once it has
\* its answer there are none left: a Stop that was answered was done last.
LEMMA DeploysFirstStep ==
  ASSUME TypeOK, CallsOwned, Agent \/ World, NEW c \in Clients, NEW w \in Workloads,
         reply[c] = "waiting", DeploysFirst(c, w)
  PROVE  /\ reply'[c] = "waiting" => DeploysFirst(c, w)'
         /\ reply'[c] = "ok" => ~DeployPending(w)'
<1>1. CASE Deploy \/ Stop
  <2>1. CASE /\ queue' = queue /\ reply' = reply
             /\ op'.kind = op.kind /\ op'.id = op.id /\ op'.from = op.from
    BY <2>1 DEF DeploysFirst
  <2>2. ASSUME queue' = queue, op' = NoOp, NEW result \in {"ok", "err"},
               reply' = [d \in Clients |-> IF d = op.from THEN result ELSE reply[d]]
        PROVE  /\ DeploysFirst(c, w)'
               /\ reply'[c] = "ok" => ~DeployPending(w)'
    BY <2>2 DEF CallsOwned, DeploysFirst, DeployPending, NoOp
  <2>3. QED
    BY <1>1, <2>1, <2>2, OperationAnswers
<1>2. CASE TakeCommand
  <2>1. reply' = reply
    BY <1>2 DEF TakeCommand
  <2>2. /\ 1 \in DOMAIN queue
        /\ op'.kind = queue[1].kind /\ op'.id = queue[1].id
        /\ \A i \in DOMAIN queue' : i \in Nat /\ i + 1 \in DOMAIN queue /\ queue'[i] = queue[i + 1]
        /\ \A j \in DOMAIN queue : j \in Nat /\ (1 < j => j - 1 \in DOMAIN queue' /\ queue'[j - 1] = queue[j])
    BY <1>2, TakenFirst
  <2>3. ASSUME op'.kind = "Deploy", op'.id = w PROVE \E j \in DOMAIN queue' : queue'[j].from = c
    <3>1. PICK j \in DOMAIN queue : 1 < j /\ queue[j].from = c
      BY <2>2, <2>3 DEF DeploysFirst
    <3>2. QED
      BY <2>2, <3>1
  <2>4. ASSUME NEW i \in DOMAIN queue', queue'[i].kind = "Deploy", queue'[i].id = w
        PROVE  \E j \in DOMAIN queue' : i < j /\ queue'[j].from = c
    <3>1. i \in Nat /\ i + 1 \in DOMAIN queue /\ queue'[i] = queue[i + 1]
      BY <2>2
    <3>2. PICK j \in DOMAIN queue : i + 1 < j /\ queue[j].from = c
      BY <2>4, <3>1 DEF DeploysFirst
    <3>3. j \in Nat /\ 1 < j /\ i < j - 1
      BY <2>2, <3>1, <3>2
    <3>4. j - 1 \in DOMAIN queue' /\ queue'[j - 1] = queue[j]
      BY <2>2, <3>3
    <3>5. QED
      BY <3>2, <3>3, <3>4
  <2>5. QED
    BY <2>1, <2>3, <2>4 DEF DeploysFirst
<1>3. CASE Crash
  BY <1>3 DEF Crash, TypeOK
<1>4. ASSUME NEW v \in Workloads, StopExpired(v)
      PROVE  reply' = reply /\ DeploysFirst(c, w)'
  BY <1>4 DEF StopExpired, DeploysFirst
<1>5. CASE Recover \/ PickExpired \/ World
  BY <1>5 DEF Recover, PickExpired, World, ContainerExits, LeaseEnds, DeploysFirst
<1>6. QED
  BY <1>1, <1>2, <1>3, <1>4, <1>5 DEF Agent

\* A command that is sent comes after everything sent before it.
LEMMA CallComesLast ==
  ASSUME TypeOK, NEW c \in Clients, NEW w \in Workloads, Call(c, "Stop", w)
  PROVE  DeploysFirst(c, w)' /\ reply'[c] = "waiting"
<1> DEFINE m == [kind |-> "Stop", id |-> w, from |-> c]
<1>1. m.from = c /\ m.kind = "Stop"
  OBVIOUS
<1>2. queue' = Append(queue, m) /\ reply' = [reply EXCEPT ![c] = "waiting"]
  BY DEF Call
<1> HIDE DEF m
<1> DEFINE n == Len(queue) + 1
<1>3. n \in DOMAIN queue' /\ queue'[n] = m /\ \A i \in DOMAIN queue' : i < n \/ queue'[i] = m
  BY <1>2 DEF TypeOK
<1> HIDE DEF n
<1>4. QED
  BY <1>1, <1>2, <1>3 DEF DeploysFirst, TypeOK

\* A caller has one command at most on its way, and none once it is answered or
\* has given up.
THEOREM CallsAreOwned == Spec => []CallsOwned
<1>1. Init => CallsOwned
  BY AgentAssumption DEF Init, CallsOwned, NoOp
<1>2. TypeOK /\ CallsOwned /\ [Next]_agentVars => CallsOwned'
  BY CallsStep
<1>3. QED
  BY <1>1, <1>2, AgentTypeCorrect, PTL DEF Spec

=============================================================================
