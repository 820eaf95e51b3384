------------------------- MODULE ShargonSystemProofs -------------------------
(***************************************************************************)
(* Theorems about ShargonSystem: clients, channel and backend together do  *)
(* what TaskClients says.                                                  *)
(***************************************************************************)
EXTENDS ShargonSystem, NspawnBackendStepProofs

\* The theorems about TaskClients, for the clients and the channel of this system.
Front == INSTANCE TaskClientsProofs
  WITH Slots      <- PoolSize,
       cancelling <- caller,
       status     <- States(tasks),
       requested  <- {t \in TaskId : tasks[t].cancellation_requested},
       lost       <- {t \in TaskId : MayReport(t)},
       up         <- daemon # "exited"

-----------------------------------------------------------------------------
\* The inductive invariant: that of the backend, that of the clients, and what
\* links them.

\* The actor awaits systemctl for one client; a daemon that does not serve has no
\* calls, and one that starts has had none.
Linked ==
  /\ caller = NoClient <=> cancelling = None
  /\ caller # NoClient => caller \in Client /\ request[caller].task_id = cancelling
  /\ daemon # "serving" => /\ waiters = <<>> /\ channel = <<>> /\ caller = NoClient
                           /\ \A c \in Client : step[c] # "calling"
  /\ daemon = "starting" => \A c \in Client : request[c].generation # generation

\* The unit of task t was stopped or has ended, or runs in a machine that may be one
\* of a former daemon.
StoppedOrHeld(t) == \/ unit[t] \in {"stopped", "done"}
                    \/ unit[t] # "none" /\ tasks[t].machine_id \in held

\* So it is with the task in answer r, if r says that the task runs.
Halted(r) == Front!TaskStateLabel(r.state) = "Running" => StoppedOrHeld(r.task_id)

\* What client c is or was told of a cancellation that was accepted.
Obeyed(c) ==
  daemon = "serving" /\ request[c].generation = generation /\ request[c].op = "CancelTask" =>
    /\ reply[c].kind = "ok" => Halted(reply[c])
    /\ step[c] = "reported" => Halted(view[c])

\* A task that succeeded has run and has ended, it and its systemd-run.
Ran(t) == tasks[t].state = "Succeeded" => unit[t] = "done"

SystemIInv ==
  /\ RInv
  /\ Orphans
  /\ \A t \in TaskId : Ran(t)
  /\ Front!IInv
  /\ Linked
  /\ \A c \in Client : Obeyed(c)

-----------------------------------------------------------------------------
(***************************************************************************)
(* Front and Clients are instances of the same module.                     *)
(***************************************************************************)

\* What TaskClients assumes of its constants.
LEMMA FrontAssumptions ==
  Front!ClientAssumption /\ Front!CapacityAssumption /\ Front!TaskClientsBounds
BY FrontAssumption, OneTaskPerClient, PoolSizeAssumption
   DEF Front!ClientAssumption, Front!CapacityAssumption, Front!TaskClientsBounds,
       Front!IsFiniteSet, IsFiniteSet, Front!Cardinality, Cardinality

LEMMA SameVars == UNCHANGED Clients!vars <=> UNCHANGED Front!vars
BY DEF Clients!vars, Clients!clientVars, Clients!channelVars, Clients!taskVars, Clients!daemonVars,
       Front!vars, Front!clientVars, Front!channelVars, Front!taskVars, Front!daemonVars

LEMMA SameServiceVars == UNCHANGED Clients!taskVars <=> UNCHANGED Service!vars
BY DEF Clients!taskVars, Service!vars, States

LEMMA SameInit == Clients!Init <=> Front!Init
BY DEF Clients!Init, Clients!Service!Init, Clients!None, Clients!TaskId, Clients!NoReply,
       Front!Init, Front!Service!Init, Front!None, Front!TaskId, Front!NoReply

LEMMA SameNext == Clients!Next <=> Front!Next
BY DEF Clients!Next, Clients!ExecuteRun, Clients!ExecuteCancel,
       Clients!ExecuteTaskStatus, Clients!Execute, Clients!Call, Clients!Read,
       Clients!Poll, Clients!Interrupt, Clients!IsTerminalTaskState, Clients!NoReply,
       Clients!Failure, Clients!None, Clients!TaskId, Clients!Push, Clients!DropHandler,
       Clients!Without, Clients!Handle, Clients!StartTask, Clients!Look,
       Clients!CancelTask, Clients!Respond, Clients!StatusReply,
       Clients!ToProtoTaskState, Clients!CancelReturns, Clients!Event, Clients!Crash,
       Clients!Restart, Clients!clientVars, Clients!channelVars, Clients!taskVars,
       Clients!daemonVars, Clients!Service!Submit, Clients!Service!CancelQueued,
       Clients!Service!RequestCancel, Clients!Service!Report, Clients!Service!GiveUp,
       Clients!Service!Start, Clients!Service!StartSome, Clients!Service!Status,
       Clients!Service!Running, Clients!Service!Result, Clients!Service!Cardinality,
       Front!Next, Front!ExecuteRun, Front!ExecuteCancel, Front!ExecuteTaskStatus,
       Front!Execute, Front!Call, Front!Read, Front!Poll, Front!Interrupt,
       Front!IsTerminalTaskState, Front!NoReply, Front!Failure, Front!None,
       Front!TaskId, Front!Push, Front!DropHandler, Front!Without, Front!Handle,
       Front!StartTask, Front!Look, Front!CancelTask, Front!Respond, Front!StatusReply,
       Front!ToProtoTaskState, Front!CancelReturns, Front!Event, Front!Crash,
       Front!Restart, Front!clientVars, Front!channelVars, Front!taskVars,
       Front!daemonVars, Front!Service!Submit, Front!Service!CancelQueued,
       Front!Service!RequestCancel, Front!Service!Report, Front!Service!GiveUp,
       Front!Service!Start, Front!Service!StartSome, Front!Service!Status,
       Front!Service!Running, Front!Service!Result, Front!Service!Cardinality
\* A step of Clients keeps the invariant of TaskClients.
LEMMA FrontKeeps ==
  ASSUME Front!IInv, [Clients!Next]_Clients!vars
  PROVE  Front!IInv'
<1>1. [Front!Next]_Front!vars
  BY SameNext, SameVars
<1>2. QED BY <1>1, FrontAssumptions, Front!NextKeeps
        DEF Front!NextKeeps, Front!ClientAssumption, Front!CapacityAssumption,
            Front!TaskClientsBounds

\* What the steps below need of the invariant of TaskClients.
LEMMA FrontParts ==
  ASSUME Front!IInv
  PROVE  /\ channel \in Seq(Client)
         /\ step \in [Client -> {"idle", "calling", "sleeping", "reported", "failed", "gone"}]
         /\ reply = [c \in Client |-> reply[c]]
         /\ view = [c \in Client |-> view[c]]
         /\ request = [c \in Client |-> request[c]]
         /\ \A c \in Client :
              /\ step[c] # "calling" => reply[c] = Clients!NoReply
              /\ request[c].op \in {"GetTask", "CancelTask"} => request[c].task_id \in TaskId
              /\ caller = c => step[c] \in {"calling", "gone"} /\ request[c].op = "CancelTask"
<1>1. /\ channel \in Seq(Client)
      /\ step \in [Client -> {"idle", "calling", "sleeping", "reported", "failed", "gone"}]
      /\ reply = [c \in Client |-> reply[c]]
      /\ view = [c \in Client |-> view[c]]
      /\ request = [c \in Client |-> request[c]]
  BY DEF Front!IInv, Front!TypeOK
<1>2. ASSUME NEW c \in Client
      PROVE  /\ step[c] # "calling" => reply[c] = Clients!NoReply
             /\ request[c].op \in {"GetTask", "CancelTask"} => request[c].task_id \in TaskId
             /\ caller = c => step[c] \in {"calling", "gone"} /\ request[c].op = "CancelTask"
  <2>1. Front!Placed(c)
    BY DEF Front!IInv, Front!Good
  <2>2. Front!NoReply = Clients!NoReply /\ Front!TaskId = TaskId
    BY DEF Front!NoReply, Clients!NoReply, Front!None, Clients!None, Front!TaskId, TaskId
  <2>3. QED BY <2>1, <2>2 DEF Front!Placed, Front!InService
<1>3. QED BY <1>1, <1>2

\* Nobody has called a daemon that is not started yet.
LEMMA FrontGenerations ==
  ASSUME Front!IInv
  PROVE  \A c \in Client : request[c].generation # generation + 1
<1>1. ASSUME NEW c \in Client
      PROVE  request[c].generation # generation + 1
  <2>1. Front!TypeOK /\ Front!Placed(c)
    BY DEF Front!IInv, Front!Good
  <2>2. request[c].generation \in Nat /\ generation \in Nat
    BY <2>1, FrontAssumption DEF Front!TypeOK, Front!Request
  <2>3. request[c].generation <= generation
    BY <2>1 DEF Front!Placed
  <2>4. QED BY <2>2, <2>3
<1>2. QED BY <1>1

-----------------------------------------------------------------------------
(***************************************************************************)
(* Each step is one of Clients.                                            *)
(***************************************************************************)

LEMMA ClientCallsRefines ==
  ASSUME NEW c \in Client, ClientCalls(c)
  PROVE  Clients!Next
BY DEF ClientCalls, Clients!Next, Clients!TaskId, TaskId

LEMMA ClientGoesOnRefines ==
  ASSUME NEW c \in Client, ClientGoesOn(c)
  PROVE  Clients!Next
BY DEF ClientGoesOn, Clients!Next

\* Submit, CancelQueued and RequestCancel are those of the service of NspawnBackend.
LEMMA SameService ==
  ASSUME NEW t \in TaskId
  PROVE  /\ Clients!Service!Submit(t) <=> Service!Submit(t)
         /\ Clients!Service!CancelQueued(t) <=> Service!CancelQueued(t)
         /\ Clients!Service!RequestCancel(t) <=> Service!RequestCancel(t)
         /\ Clients!Service!Report(t) <=> Service!Report(t)
         /\ Clients!Service!GiveUp(t) <=> Service!GiveUp(t)
         /\ Clients!Service!Start <=> Service!Start
BY DEF Clients!Service!Submit, Clients!Service!CancelQueued, Clients!Service!RequestCancel,
       Clients!Service!Report, Clients!Service!GiveUp, Clients!Service!Start,
       Clients!Service!StartSome, Clients!Service!Status, Clients!Service!Running,
       Clients!Service!Result, Clients!Service!Cardinality, Clients!TaskId, States,
       Service!Submit, Service!CancelQueued, Service!RequestCancel, Service!Report,
       Service!GiveUp, Service!Start, Service!StartSome, Service!Status, Service!Running,
       Service!Result, Service!Cardinality, TaskId

\* The answer of a task is what Clients answers.
LEMMA SameAnswer ==
  ASSUME NEW t \in TaskId
  PROVE  /\ States(tasks)[t] = tasks[t].state
         /\ Answer(t, tasks) = Clients!StatusReply(t, States(tasks))
BY DEF States, Answer

LEMMA HandleStartTaskRefines ==
  ASSUME RInv, RInv', NEW c \in Client, HandleStartTask(c)
  PROVE  Clients!StartTask(c)
<1>1. PICK t \in TaskId : t = next_task_id + 1 /\ Service!Submit(t)
  BY StartTaskRefines DEF HandleStartTask
<1>2. Clients!Service!Submit(t)
  BY <1>1, SameService
<1>3. next_task_id' = t
  BY <1>1 DEF HandleStartTask, StartTask
<1>4. /\ started' = started \cup {[client |-> c, generation |-> generation, task_id |-> t]}
      /\ Clients!Respond(c, Clients!StatusReply(t, States(tasks)'))
      /\ UNCHANGED caller
  BY <1>3 DEF HandleStartTask, Respond, Answer, States
<1>5. t \in Clients!TaskId
  BY DEF TaskId, Clients!TaskId
<1>6. QED BY <1>2, <1>4, <1>5 DEF Clients!StartTask

LEMMA HandleLookRefines ==
  ASSUME NEW c \in Client, NEW t \in TaskId, HandleLook(c, t)
  PROVE  Clients!Look(c, t)
<1>1. UNCHANGED vars /\ UNCHANGED <<caller, started>>
  BY DEF HandleLook
<1>2. UNCHANGED Clients!taskVars
  BY <1>1, MachineEventsStutter, SameServiceVars DEF vars, actorVars, procVars
<1>3. QED BY <1>1, <1>2, SameAnswer DEF HandleLook, Respond, Clients!Look

LEMMA HandleCancelTaskRefines ==
  ASSUME RInv, NEW c \in Client, NEW t \in TaskId, HandleCancelTask(c, t)
  PROVE  /\ Clients!CancelTask(c, t)
         /\ tasks[t].state = "Running" => cancelling' = t /\ caller' = c
         /\ tasks[t].state # "Running" => UNCHANGED <<cancelling, caller>>
<1>1. CASE CancelQueued(t) /\ Respond(c, Answer(t, tasks')) /\ UNCHANGED <<caller, started>>
  <2>1. Clients!Service!CancelQueued(t)
    BY <1>1, CancelQueuedRefines, SameService
  <2>2. Clients!Respond(c, Clients!StatusReply(t, States(tasks)'))
    BY <1>1 DEF Respond, Answer, States
  <2>3. tasks[t].state = "Queued" /\ UNCHANGED cancelling
    BY <1>1 DEF CancelQueued
  <2>4. QED BY <1>1, <2>1, <2>2, <2>3 DEF Clients!CancelTask
<1>2. CASE /\ CancelRunning(t)
           /\ IF cancelling' = t THEN caller' = c /\ UNCHANGED reply
                                 ELSE Respond(c, Clients!Failure) /\ UNCHANGED caller
           /\ UNCHANGED started
  <2>1. Clients!Service!RequestCancel(t)
    BY <1>2, CancelRunningRefines, SameService
  <2>2. tasks[t].state = "Running"
    BY <1>2 DEF CancelRunning
  <2>3. tasks[t].machine_id \in MachineId /\ machines[tasks[t].machine_id].current_task_id = t
    BY <2>2, SoundParts, TaskFields DEF RInv, PlacementOf
  <2>4. machines[tasks[t].machine_id].state = "Busy"
    BY <2>3, SoundParts DEF RInv, PlacementOf
  <2>5. cancelling' = t
    BY <1>2, <2>3, <2>4 DEF CancelRunning
  <2>6. QED BY <1>2, <2>1, <2>2, <2>5 DEF Clients!CancelTask
<1>3. CASE tasks[t].state \notin {"Queued", "Running"} /\ HandleLook(c, t)
  <2>1. Clients!Look(c, t)
    BY <1>3, HandleLookRefines
  <2>2. UNCHANGED <<cancelling, caller>>
    BY <1>3 DEF HandleLook, vars
  <2>3. QED BY <1>3, <2>1, <2>2, SameAnswer DEF Clients!CancelTask
<1>4. QED BY <1>1, <1>2, <1>3 DEF HandleCancelTask

\* The actor takes a command exactly when it does in Clients, and awaits systemctl
\* afterwards only for the caller.
LEMMA HandleCommandRefines ==
  ASSUME SystemIInv, RInv', HandleCommand
  PROVE  Clients!Handle /\ Linked'
<1> DEFINE c == Head(channel)
           t == request[c].task_id
<1>1. /\ daemon = "serving" /\ cancelling = None /\ caller = NoClient
      /\ RInv /\ channel # <<>> /\ channel' = Tail(channel)
      /\ UNCHANGED <<command, step, request, view, waiters, generation>>
  BY DEF HandleCommand, ActorReady, SystemIInv, Linked
<1>2. /\ c \in Client /\ c # NoClient
      /\ request[c].op \in {"GetTask", "CancelTask"} => t \in TaskId
  BY <1>1, FrontParts, FrontAssumption DEF SystemIInv
<1>3. \A u \in TaskId : u # None
  BY <1>1, SoundParts DEF RInv
<1>4. \/ request[c].op = "StartTask" /\ HandleStartTask(c)
      \/ request[c].op = "GetTask" /\ HandleLook(c, t)
      \/ request[c].op = "CancelTask" /\ HandleCancelTask(c, t)
  BY DEF HandleCommand
<1> HIDE DEF c
<1>5. /\ \/ request[c].op = "StartTask" /\ Clients!StartTask(c)
         \/ request[c].op = "GetTask" /\ Clients!Look(c, t)
         \/ request[c].op = "CancelTask" /\ Clients!CancelTask(c, t)
      /\ \/ UNCHANGED <<cancelling, caller>>
         \/ cancelling' = t /\ t \in TaskId /\ caller' = c
      /\ UNCHANGED daemon
  <2>1. CASE request[c].op = "StartTask" /\ HandleStartTask(c)
    <3>1. Clients!StartTask(c)
      BY <1>1, <1>2, <2>1, HandleStartTaskRefines
    <3>2. UNCHANGED <<daemon, cancelling, caller>>
      BY <2>1 DEF HandleStartTask, StartTask
    <3>3. QED BY <2>1, <3>1, <3>2
  <2>2. CASE request[c].op = "GetTask" /\ HandleLook(c, t)
    <3>1. Clients!Look(c, t)
      BY <1>2, <2>2, HandleLookRefines
    <3>2. UNCHANGED <<daemon, cancelling, caller>>
      BY <2>2 DEF HandleLook, vars
    <3>3. QED BY <2>2, <3>1, <3>2
  <2>3. CASE request[c].op = "CancelTask" /\ HandleCancelTask(c, t)
    <3>1. PICK u \in TaskId : u = t
      BY <1>2, <2>3
    <3>2. HandleCancelTask(c, u)
      BY <2>3, <3>1
    <3>3. /\ Clients!CancelTask(c, u)
          /\ tasks[u].state = "Running" => cancelling' = u /\ caller' = c
          /\ tasks[u].state # "Running" => UNCHANGED <<cancelling, caller>>
      BY <1>1, <1>2, <3>2, HandleCancelTaskRefines
    <3>4. UNCHANGED daemon
      BY <3>2 DEF HandleCancelTask, CancelQueued, CancelRunning, HandleLook, vars
    <3>5. Clients!CancelTask(c, t)
      BY <3>1, <3>3 DEF Clients!CancelTask, Clients!Service!CancelQueued,
         Clients!Service!RequestCancel, Clients!Look, Clients!StatusReply
    <3>6. QED BY <1>2, <2>3, <3>1, <3>3, <3>4, <3>5
  <2>4. QED BY <1>4, <2>1, <2>2, <2>3
<1>6. Clients!Handle
  BY <1>1, <1>5 DEF Clients!Handle, Clients!daemonVars, c
<1>7. Linked'
  BY <1>1, <1>2, <1>3, <1>5 DEF Linked
<1>8. QED BY <1>6, <1>7

LEMMA SystemctlReturnsRefines ==
  ASSUME SystemIInv, NEW ok \in BOOLEAN, SystemctlReturns(ok)
  PROVE  Clients!CancelReturns /\ Linked'
<1>1. /\ CancelReturns(ok) /\ cancelling # None /\ RInv
      /\ caller \in Client /\ caller # NoClient /\ request[caller].task_id = cancelling
      /\ cancelling' = None /\ caller' = NoClient /\ UNCHANGED daemon
      /\ UNCHANGED <<command, step, request, view, waiters, channel, generation, started>>
  BY DEF SystemctlReturns, CancelReturns, SystemIInv, Linked
<1>2. cancelling \in TaskId
  BY <1>1 DEF RInv, IInv
<1>3. UNCHANGED Clients!taskVars
  BY <1>1, CancelReturnsStutters, SameServiceVars
<1>4. Clients!Respond(caller, IF ok THEN Clients!StatusReply(request[caller].task_id, States(tasks))
                              ELSE Clients!Failure)
  BY <1>1, <1>2, SameAnswer DEF SystemctlReturns, Respond
<1>5. Clients!CancelReturns
  BY <1>1, <1>3, <1>4 DEF Clients!CancelReturns, Clients!channelVars, Clients!daemonVars
<1>6. Linked'
  BY <1>1 DEF SystemIInv, Linked
<1>7. QED BY <1>5, <1>6

\* The events of the backend, and what its processes do between them.
LEMMA EventRefines ==
  ASSUME SystemIInv, RInv', Event, UNCHANGED frontVars
  PROVE  (Clients!Event \/ UNCHANGED Clients!vars) /\ Linked'
<1>1. daemon = "serving" /\ cancelling = None /\ UNCHANGED <<daemon, cancelling>>
  BY DEF Event, MachineReady, MachineProvisionFailed, MachineExited, TaskFinished, Receive, ActorReady
<1>2. /\ RInv /\ caller = NoClient
      /\ UNCHANGED <<command, step, request, reply, view, waiters, channel, caller,
                     generation, started>>
  BY <1>1 DEF SystemIInv, Linked, frontVars
<1>3. Linked'
  BY <1>1, <1>2 DEF SystemIInv, Linked
<1>4. \/ Service!Start \/ \E t \in TaskId : Service!Report(t) \/ Service!GiveUp(t)
      \/ UNCHANGED Service!vars
  <2>1. ASSUME NEW m \in MachineId, MachineReady(m) PROVE Service!Start
    BY <1>2, <2>1, MachineReadyRefines
  <2>2. ASSUME NEW m \in MachineId, MachineProvisionFailed(m) PROVE UNCHANGED Service!vars
    BY <2>2, ProvisionFailedStutters
  <2>3. ASSUME NEW m \in MachineId, MachineExited(m)
        PROVE  (\E t \in TaskId : Service!GiveUp(t)) \/ UNCHANGED Service!vars
    BY <1>2, <2>3, MachineExitedRefines
  <2>4. ASSUME NEW t \in TaskId, NEW c \in ExitCode, TaskFinished(t, c) PROVE Service!Report(t)
    BY <1>2, <2>4, TaskFinishedRefines
  <2>5. QED BY <2>1, <2>2, <2>3, <2>4 DEF Event
<1>5. \/ Clients!Service!Start
      \/ \E t \in TaskId : Clients!Service!Report(t) \/ Clients!Service!GiveUp(t)
      \/ UNCHANGED Clients!taskVars
  <2>1. UNCHANGED Service!vars => UNCHANGED Clients!taskVars
    BY SameServiceVars
  <2>2. Service!Start => Clients!Service!Start
    BY DEF Service!Start, Clients!Service!Start, Service!StartSome, Clients!Service!StartSome,
           Service!Status, Clients!Service!Status, Service!Running, Clients!Service!Running,
           Service!Cardinality, Clients!Service!Cardinality, Clients!TaskId, TaskId, States
  <2>3. ASSUME NEW t \in TaskId, Service!Report(t) \/ Service!GiveUp(t)
        PROVE  Clients!Service!Report(t) \/ Clients!Service!GiveUp(t)
    BY <2>3, SameService
  <2>4. QED BY <1>4, <2>1, <2>2, <2>3
<1>6. Clients!Event \/ UNCHANGED Clients!vars
  BY <1>1, <1>2, <1>5
     DEF Clients!Event, Clients!vars, Clients!clientVars, Clients!channelVars,
         Clients!daemonVars, Clients!TaskId, TaskId
<1>7. QED BY <1>3, <1>6

LEMMA ProcessRefines ==
  ASSUME SystemIInv, Process, UNCHANGED frontVars
  PROVE  UNCHANGED Clients!vars /\ Linked'
<1>1. UNCHANGED <<daemon, cancelling>>
  BY DEF Process, NspawnExits, ProbeSucceeds, ProbeTimesOut, RunEnds, UnitEnds
<1>2. UNCHANGED <<command, step, request, reply, view, waiters, channel, caller,
                  generation, started>>
  BY DEF frontVars
<1>3. UNCHANGED Clients!taskVars
  <2>1. ASSUME NEW m \in MachineId, NspawnExits(m) \/ ProbeSucceeds(m) \/ ProbeTimesOut(m)
        PROVE  UNCHANGED Service!vars
    BY <2>1, MachineProcessesStutter
  <2>2. ASSUME NEW t \in TaskId, NEW c \in ExitCode, RunEnds(t, c)
        PROVE  UNCHANGED Service!vars
    BY <2>2, RunEndsStutters DEF SystemIInv
  <2>3. ASSUME NEW t \in TaskId, UnitEnds(t)
        PROVE  UNCHANGED Service!vars
    BY <2>3, UnitEndsStutters DEF SystemIInv
  <2>4. QED BY <2>1, <2>2, <2>3, SameServiceVars DEF Process
<1>4. Linked'
  BY <1>1, <1>2 DEF SystemIInv, Linked
<1>5. QED BY <1>1, <1>2, <1>3, <1>4
        DEF Clients!vars, Clients!clientVars, Clients!channelVars, Clients!daemonVars

\* A daemon that does not serve knows of no tasks.
NoTasks ==
  /\ States(tasks) = [t \in TaskId |-> "Absent"]
  /\ {t \in TaskId : tasks[t].cancellation_requested} = {}
  /\ {t \in TaskId : MayReport(t)} = {}

LEMMA NotServing == RInv /\ daemon # "serving" => NoTasks
<1> SUFFICES ASSUME RInv, daemon # "serving" PROVE NoTasks
  OBVIOUS
<1>1. \A t \in TaskId : tasks[t].state = "Absent" /\ ~tasks[t].cancellation_requested
  BY SoundParts DEF RInv, VerdictsOf
<1>2. QED BY <1>1 DEF NoTasks, States, MayReport

LEMMA NotServingNext == (RInv /\ daemon # "serving" => NoTasks)'
BY NotServing, PTL

\* A pool that is filled concerns nobody; a daemon that cannot fill its pool ends
\* before anybody called it.
LEMMA ReconcilePoolRefines ==
  ASSUME SystemIInv, RInv', ReconcilePool, UNCHANGED frontVars
  PROVE  (Clients!Crash \/ UNCHANGED Clients!vars) /\ Linked'
<1>1. /\ daemon = "starting" /\ daemon' \in {"serving", "exited"} /\ UNCHANGED cancelling
      /\ UNCHANGED <<tasks, events, unit>>
  BY DEF ReconcilePool
<1>2. /\ RInv /\ Front!IInv
      /\ UNCHANGED <<command, step, request, reply, view, waiters, channel, caller,
                     generation, started>>
  BY DEF SystemIInv, frontVars
<1>3. /\ waiters = <<>> /\ channel = <<>> /\ caller = NoClient
      /\ \A c \in Client : step[c] # "calling"
  BY <1>1 DEF SystemIInv, Linked
<1>4. Linked'
  BY <1>1, <1>2, <1>3 DEF SystemIInv, Linked
<1>5. CASE daemon' = "serving"
  <2>1. UNCHANGED Clients!taskVars
    BY <1>1, MachineEventsStutter, SameServiceVars
  <2>2. UNCHANGED (daemon # "exited")
    BY <1>1, <1>5
  <2>3. UNCHANGED Clients!vars
    BY <1>2, <2>1, <2>2
       DEF Clients!vars, Clients!clientVars, Clients!channelVars, Clients!daemonVars
  <2>4. QED BY <1>4, <2>3
<1>6. CASE daemon' = "exited"
  <2>1. /\ States(tasks)' = [t \in TaskId |-> "Absent"]
        /\ {t \in TaskId : tasks[t].cancellation_requested}' = {}
        /\ {t \in TaskId : MayReport(t)}' = {}
    BY <1>6, NotServingNext DEF NoTasks
  <2>2. /\ step' = [c \in Client |-> IF step[c] = "calling" THEN "failed" ELSE step[c]]
        /\ reply' = [c \in Client |-> Clients!NoReply]
        /\ view' = [c \in Client |-> IF step[c] = "calling" THEN Clients!NoReply ELSE view[c]]
    <3>1. step = [c \in Client |-> step[c]]
      BY <1>2, FrontParts
    <3>2. /\ reply = [c \in Client |-> reply[c]] /\ view = [c \in Client |-> view[c]]
          /\ \A c \in Client : reply[c] = Clients!NoReply
      BY <1>2, <1>3, FrontParts
    <3>3. QED BY <1>2, <1>3, <3>1, <3>2
  <2>3. Clients!Crash
    BY <1>1, <1>2, <1>3, <1>6, <2>1, <2>2 DEF Clients!Crash, Clients!TaskId, TaskId
  <2>4. QED BY <1>4, <2>3
<1>7. QED BY <1>1, <1>5, <1>6

LEMMA CrashRefines ==
  ASSUME SystemIInv, RInv', Crash
  PROVE  Clients!Crash /\ Linked'
<1>1. daemon # "exited" /\ daemon' = "exited"
  BY DEF Crash
<1>2. /\ States(tasks)' = [t \in TaskId |-> "Absent"]
      /\ {t \in TaskId : tasks[t].cancellation_requested}' = {}
      /\ {t \in TaskId : MayReport(t)}' = {}
  BY <1>1, NotServingNext DEF NoTasks
<1>3. Clients!Crash
  BY <1>1, <1>2 DEF Crash, Clients!Crash, Clients!TaskId, TaskId
<1>4. Linked'
  <2>1. cancelling' = None /\ caller' = NoClient /\ waiters' = <<>> /\ channel' = <<>>
    BY DEF Crash, ProcessEnds
  <2>2. \A c \in Client : step'[c] # "calling"
    BY DEF Crash
  <2>3. QED BY <1>1, <2>1, <2>2 DEF Linked
<1>5. QED BY <1>3, <1>4

LEMMA RestartRefines ==
  ASSUME SystemIInv, RInv', Restart
  PROVE  Clients!Restart /\ Linked'
<1>1. /\ daemon = "exited" /\ daemon' = "starting" /\ cancelling' = None
      /\ generation <= MaxRestarts /\ generation' = generation + 1
      /\ UNCHANGED <<command, step, request, reply, view, waiters, channel, caller, started>>
      /\ RInv
  BY DEF Restart, ProcessEnds, SystemIInv
<1>2. UNCHANGED Clients!taskVars
  <2>1. /\ States(tasks) = [t \in TaskId |-> "Absent"]
        /\ {t \in TaskId : tasks[t].cancellation_requested} = {}
        /\ {t \in TaskId : MayReport(t)} = {}
    BY <1>1, NotServing DEF NoTasks
  <2>2. /\ States(tasks)' = [t \in TaskId |-> "Absent"]
        /\ {t \in TaskId : tasks[t].cancellation_requested}' = {}
        /\ {t \in TaskId : MayReport(t)}' = {}
    BY <1>1, NotServingNext DEF NoTasks
  <2>3. QED BY <2>1, <2>2 DEF Clients!taskVars
<1>3. Clients!Restart
  BY <1>1, <1>2 DEF Clients!Restart, Clients!clientVars, Clients!channelVars
<1>4. Linked'
  <2>1. /\ caller = NoClient /\ waiters = <<>> /\ channel = <<>>
        /\ \A c \in Client : step[c] # "calling"
    BY <1>1 DEF SystemIInv, Linked
  <2>2. \A c \in Client : request[c].generation # generation + 1
    BY FrontGenerations DEF SystemIInv
  <2>3. QED BY <1>1, <2>1, <2>2 DEF Linked
<1>5. QED BY <1>3, <1>4

-----------------------------------------------------------------------------
(***************************************************************************)
(* Clients and handlers keep the link.                                     *)
(***************************************************************************)

LEMMA ClientCallsLinked ==
  ASSUME SystemIInv, NEW c \in Client, ClientCalls(c)
  PROVE  Linked'
<1>1. UNCHANGED <<daemon, cancelling>> /\ daemon # "starting"
  BY DEF ClientCalls, vars
<1>2. /\ step[c] \in {"idle", "sleeping"}
      /\ UNCHANGED <<caller, channel, generation>>
      /\ \/ daemon # "exited" /\ \A d \in Client : d # c => request'[d] = request[d]
         \/ /\ daemon = "exited" /\ step' = [step EXCEPT ![c] = "failed"]
            /\ UNCHANGED <<request, waiters>>
  <2>1. request = [d \in Client |-> request[d]]
    BY FrontParts DEF SystemIInv
  <2>2. QED
    BY <2>1
       DEF ClientCalls, Clients!ExecuteRun, Clients!ExecuteCancel, Clients!ExecuteTaskStatus,
           Clients!Execute, Clients!Poll, Clients!Call, Clients!daemonVars
<1>3. caller # c /\ step = [d \in Client |-> step[d]]
  BY <1>2, FrontParts DEF SystemIInv
<1>4. CASE daemon = "serving"
  BY <1>1, <1>2, <1>3, <1>4 DEF SystemIInv, Linked
<1>5. CASE daemon = "exited"
  BY <1>1, <1>2, <1>3, <1>5 DEF SystemIInv, Linked
<1>6. daemon \in {"starting", "serving", "exited"}
  BY DEF SystemIInv, RInv, IInv
<1>7. QED BY <1>1, <1>4, <1>5, <1>6

LEMMA ClientGoesOnLinked ==
  ASSUME SystemIInv, NEW c \in Client, ClientGoesOn(c)
  PROVE  Linked'
<1>1. UNCHANGED <<daemon, cancelling>>
  BY DEF ClientGoesOn, vars
<1>2. step = [d \in Client |-> step[d]]
  BY FrontParts DEF SystemIInv
<1>3. CASE Clients!Read(c) \/ Clients!Interrupt(c)
  <2>1. /\ UNCHANGED <<request, waiters, channel, caller, generation>>
        /\ \A d \in Client : step'[d] = "calling" => step[d] = "calling"
    BY <1>2, <1>3
       DEF Clients!Read, Clients!Interrupt, Clients!channelVars, Clients!daemonVars
  <2>2. QED BY <1>1, <2>1 DEF SystemIInv, Linked
<1>4. CASE Clients!Push(c) \/ Clients!DropHandler(c)
  <2>1. UNCHANGED <<step, request, caller, generation>> /\ waiters # <<>>
    BY <1>4 DEF Clients!Push, Clients!DropHandler, Clients!clientVars, Clients!daemonVars
  <2>2. daemon = "serving"
    BY <2>1 DEF SystemIInv, Linked
  <2>3. QED BY <1>1, <2>1, <2>2 DEF SystemIInv, Linked
<1>5. QED BY <1>3, <1>4 DEF ClientGoesOn

-----------------------------------------------------------------------------
(***************************************************************************)
(* The backend keeps its invariant.                                        *)
(***************************************************************************)

LEMMA BlankRInv == Blank => RInv
<1> SUFFICES ASSUME Blank PROVE RInv
  OBVIOUS
<1>1. IInv
  BY BlankIInv
<1>2. daemon # "serving" /\ \A t \in TaskId : tasks[t].state = "Absent"
  BY DEF Blank, AbsentTask
<1>3. QED BY <1>1, <1>2 DEF RInv, PoolFull

\* A command that the actor takes is one of the backend, or changes nothing there.
LEMMA HandleCommandIsCommand ==
  ASSUME Front!IInv, HandleCommand
  PROVE  [Next]_vars
<1> DEFINE c == Head(channel)
           t == request[c].task_id
<1>1. /\ c \in Client
      /\ request[c].op = "CancelTask" => t \in TaskId
  BY FrontParts DEF HandleCommand
<1>2. \/ request[c].op = "StartTask" /\ HandleStartTask(c)
      \/ request[c].op = "GetTask" /\ HandleLook(c, t)
      \/ request[c].op = "CancelTask" /\ HandleCancelTask(c, t)
  BY DEF HandleCommand
<1> HIDE DEF c, t
<1>3. CASE HandleStartTask(c)
  BY <1>3 DEF HandleStartTask, Next, Command
<1>4. CASE HandleLook(c, t)
  BY <1>4 DEF HandleLook
<1>5. CASE request[c].op = "CancelTask" /\ HandleCancelTask(c, t)
  <2>1. CancelQueued(t) \/ CancelRunning(t) \/ UNCHANGED vars
    BY <1>5 DEF HandleCancelTask, HandleLook
  <2>2. QED BY <1>1, <1>5, <2>1 DEF Next, Command
<1>6. QED BY <1>2, <1>3, <1>4, <1>5

\* The steps of one daemon are steps of the backend.
LEMMA BackendSteps ==
  ASSUME Front!IInv, [SystemNext]_systemVars, ~(Crash \/ Restart)
  PROVE  [Next]_vars
<1>1. ASSUME NEW c \in Client, ClientCalls(c) \/ ClientGoesOn(c) PROVE UNCHANGED vars
  BY <1>1 DEF ClientCalls, ClientGoesOn
<1>2. HandleCommand => [Next]_vars
  BY HandleCommandIsCommand
<1>3. ASSUME NEW ok \in BOOLEAN, SystemctlReturns(ok) PROVE Next
  BY <1>3 DEF SystemctlReturns, Next, Command
<1>4. ReconcilePool \/ Event \/ Process => Next
  BY DEF Next
<1>5. UNCHANGED systemVars => UNCHANGED vars
  BY DEF systemVars
<1>6. QED BY <1>1, <1>2, <1>3, <1>4, <1>5 DEF SystemNext

LEMMA BackendKeeps ==
  ASSUME RInv, Front!IInv, [SystemNext]_systemVars
  PROVE  RInv'
<1>1. CASE Crash \/ Restart
  <2>1. Blank'
    BY <1>1 DEF Crash, Restart, ProcessEnds, Blank
  <2>2. QED BY <2>1, BlankRInv, PTL
<1>2. CASE ~(Crash \/ Restart)
  BY <1>2, BackendSteps, NextKeepsRInv
<1>3. QED BY <1>1, <1>2

\* Every step of the system is one of Clients, or none, and keeps the link.
LEMMA SystemStepRefines ==
  ASSUME SystemIInv, RInv', [SystemNext]_systemVars
  PROVE  [Clients!Next]_Clients!vars /\ Linked'
<1>1. ASSUME NEW c \in Client, ClientCalls(c) \/ ClientGoesOn(c)
      PROVE  Clients!Next /\ Linked'
  BY <1>1, ClientCallsRefines, ClientCallsLinked, ClientGoesOnRefines, ClientGoesOnLinked
<1>2. HandleCommand => Clients!Next /\ Linked'
  BY HandleCommandRefines DEF Clients!Next
<1>3. ASSUME NEW ok \in BOOLEAN, SystemctlReturns(ok)
      PROVE  Clients!Next /\ Linked'
  BY <1>3, SystemctlReturnsRefines DEF Clients!Next
<1>4. ASSUME ReconcilePool \/ Event \/ Process, UNCHANGED frontVars
      PROVE  (Clients!Next \/ UNCHANGED Clients!vars) /\ Linked'
  BY <1>4, ReconcilePoolRefines, EventRefines, ProcessRefines DEF Clients!Next
<1>5. Crash \/ Restart => Clients!Next /\ Linked'
  BY CrashRefines, RestartRefines DEF Clients!Next
<1>6. ASSUME UNCHANGED systemVars
      PROVE  UNCHANGED Clients!vars /\ Linked'
  <2>1. UNCHANGED vars /\ UNCHANGED frontVars
    BY <1>6 DEF systemVars
  <2>2. UNCHANGED Clients!taskVars
    BY <2>1, MachineEventsStutter, SameServiceVars DEF vars, actorVars, procVars
  <2>3. UNCHANGED Clients!vars
    BY <2>1, <2>2
       DEF Clients!vars, Clients!clientVars, Clients!channelVars, Clients!daemonVars, vars, frontVars
  <2>4. Linked'
    BY <2>1 DEF SystemIInv, Linked, vars, frontVars
  <2>5. QED BY <2>3, <2>4
<1>7. QED BY <1>1, <1>2, <1>3, <1>4, <1>5, <1>6 DEF SystemNext

-----------------------------------------------------------------------------
(***************************************************************************)
(* What clients were told of their cancellations.                          *)
(***************************************************************************)

\* Scheduling touches queued tasks and their units only.
LEMMA ScheduleKeepsUnit ==
  ASSUME NEW ms, NEW ts, NEW q \in Seq(TaskId), NEW pick \in Picks(ms, q),
         ScheduleTasks(ts, q, pick), NEW t \in TaskId, \A i \in DOMAIN q : q[i] # t
  PROVE  unit'[t] = unit[t] /\ tasks'[t] = ts[t]
<1>1. Len(pick) \in 0..Len(q) /\ DOMAIN q = 1..Len(q) /\ DOMAIN pick = 1..Len(pick)
  BY PickFacts
<1>2. ~\E i \in DOMAIN pick : q[i] = t
  BY <1>1
<1>3. QED BY <1>2 DEF ScheduleTasks, AssignTasks

\* While its daemon runs, a unit that was stopped or has ended stays so, and one that
\* was started stays where it is.
LEMMA UnitStaysHalted ==
  ASSUME IInv, [Next]_vars, NEW t \in TaskId, unit[t] # "none"
  PROVE  /\ unit[t] \in {"stopped", "done"} => unit'[t] \in {"stopped", "done"}
         /\ unit[t] = "done" => unit'[t] = "done"
         /\ unit'[t] # "none"
         /\ tasks'[t].machine_id = tasks[t].machine_id
<1> DEFINE Goal == /\ unit[t] \in {"stopped", "done"} => unit'[t] \in {"stopped", "done"}
                   /\ unit[t] = "done" => unit'[t] = "done"
                   /\ unit'[t] # "none"
                   /\ tasks'[t].machine_id = tasks[t].machine_id
<1>1. /\ unit \in [TaskId -> {"none", "running", "stopped", "orphaned", "done"}]
      /\ tasks \in [TaskId -> TaskRecord]
      /\ task_queue \in Seq(TaskId)
      /\ \A i \in DOMAIN task_queue : task_queue[i] # t
      /\ tasks[t].state # "Absent"
  BY SoundParts DEF TypesOf, UnitsOf, QueueOf
<1>u. unit'[t] = unit[t] /\ tasks'[t].machine_id = tasks[t].machine_id => Goal
  OBVIOUS
<1>2. ASSUME StartTask PROVE Goal
  <2> DEFINE id == next_task_id + 1
             ts == [tasks EXCEPT ![id] = WithStatus(AbsentTask, "Queued", None, "none")]
             q  == Enqueue(task_queue, id)
  <2>1. /\ id \in TaskId /\ t # id
    BY <1>1, <1>2, SoundParts DEF StartTask, TypesOf
  <2>2. q \in Seq(TaskId) /\ \A i \in DOMAIN q : q[i] # t
    BY <1>1, <2>1 DEF Enqueue
  <2>3. PICK pick \in Picks(machines, q) : ScheduleTasks(ts, q, pick)
    BY <1>2 DEF StartTask
  <2>4. ts[t] = tasks[t]
    BY <1>1, <2>1
  <2> HIDE DEF ts, q, Goal
  <2>5. QED BY <2>2, <2>3, <2>4, <1>u, ScheduleKeepsUnit
<1>3. ASSUME NEW m \in MachineId, MachineReady(m)
      PROVE  Goal
  <2> DEFINE ms == IF machines[m].state = "Absent" THEN machines
                   ELSE [machines EXCEPT ![m].state = "Idle"]
  <2>1. PICK pick \in Picks(ms, task_queue) : ScheduleTasks(tasks, task_queue, pick)
    BY <1>3 DEF MachineReady
  <2> HIDE DEF ms, Goal
  <2>2. QED BY <1>1, <1>u, <2>1, ScheduleKeepsUnit
<1>4. ASSUME NEW f \in TaskId, NEW c \in ExitCode, TaskFinished(f, c)
      PROVE  Goal
  <2>1. PICK pick \in Picks(FreeMachine(f), task_queue) :
          ScheduleTasks(FinishTask(f, c), task_queue, pick)
    BY <1>4 DEF TaskFinished
  <2>2. FinishTask(f, c)[t].machine_id = tasks[t].machine_id
    BY <1>1 DEF FinishTask, WithStatus
  <2> HIDE DEF Goal
  <2>3. QED BY <1>1, <1>u, <2>1, <2>2, ScheduleKeepsUnit
<1>5. ASSUME NEW ok \in BOOLEAN, CancelReturns(ok)
      PROVE  Goal
  BY <1>1, <1>5 DEF CancelReturns, actorVars
<1>6. ASSUME NEW e \in TaskId, (\E c \in ExitCode : RunEnds(e, c)) \/ UnitEnds(e)
      PROVE  Goal
  <2>1. UNCHANGED tasks
    BY <1>6 DEF RunEnds, UnitEnds, actorVars
  <2>2. CASE t = e
    BY <1>1, <1>6, <2>1, <2>2 DEF RunEnds, UnitEnds
  <2>3. CASE t # e
    BY <1>1, <1>6, <2>1, <2>3 DEF RunEnds, UnitEnds
  <2>4. QED BY <2>2, <2>3
<1>7. ASSUME NEW u \in TaskId, CancelQueued(u) \/ CancelRunning(u)
      PROVE  Goal
  <2>1. UNCHANGED unit
    BY <1>7 DEF CancelQueued, CancelRunning, procVars
  <2>2. tasks'[t].machine_id = tasks[t].machine_id
    BY <1>1, <1>7 DEF CancelQueued, CancelRunning, WithStatus, TaskRecord
  <2>3. QED BY <2>1, <2>2
<1>8. ASSUME NEW m \in MachineId, \/ MachineProvisionFailed(m) \/ MachineExited(m)
                                  \/ NspawnExits(m) \/ ProbeSucceeds(m) \/ ProbeTimesOut(m)
      PROVE  Goal
  <2>1. tasks'[t].machine_id = tasks[t].machine_id
    BY <1>8 DEF MachineProvisionFailed, MachineExited, NspawnExits, ProbeSucceeds, ProbeTimesOut,
       WithStatus, actorVars
  <2>2. unit'[t] = unit[t] \/ (unit[t] = "orphaned" /\ unit'[t] = "done")
    BY <1>8 DEF MachineProvisionFailed, MachineExited, NspawnExits, ProbeSucceeds, ProbeTimesOut
  <2>3. QED BY <2>1, <2>2
<1>9. ReconcilePool \/ UNCHANGED vars => UNCHANGED <<unit, tasks>>
  BY DEF ReconcilePool, vars, procVars, actorVars
<1>10. QED
  <2> HIDE DEF Goal
  <2>1. Command => Goal
    BY <1>2, <1>5, <1>7 DEF Command
  <2>2. Event => Goal
    BY <1>3, <1>4, <1>8 DEF Event
  <2>3. Process => Goal
    BY <1>6, <1>8 DEF Process
  <2>4. ReconcilePool \/ UNCHANGED vars => Goal
    BY <1>9, <1>u
  <2>5. Goal
    BY <2>1, <2>2, <2>3, <2>4 DEF Next
  <2>6. QED BY <2>5 DEF Goal

\* Scheduling lets no task succeed.
LEMMA ScheduledSuccess ==
  ASSUME NEW ms, NEW ts, NEW q, NEW pick, ScheduleTasks(ts, q, pick), NEW t \in TaskId,
         tasks'[t].state = "Succeeded"
  PROVE  ts[t].state = "Succeeded"
BY DEF ScheduleTasks, AssignTasks, WithStatus

\* A task succeeds when the result of its unit is received.
LEMMA SuccessIsReported ==
  ASSUME IInv, Orphans, [Next]_vars, NEW t \in TaskId, tasks'[t].state = "Succeeded"
  PROVE  tasks[t].state = "Succeeded" \/ unit[t] = "done"
<1>1. tasks \in [TaskId -> TaskRecord]
  BY SoundParts
<1>2. CASE StartTask
  <2> DEFINE id == next_task_id + 1
             ts == [tasks EXCEPT ![id] = WithStatus(AbsentTask, "Queued", None, "none")]
             q  == Enqueue(task_queue, id)
  <2>1. PICK pick \in Picks(machines, q) : ScheduleTasks(ts, q, pick)
    BY <1>2 DEF StartTask
  <2>2. id \in TaskId
    BY <1>2 DEF StartTask
  <2>3. ts[t].state # "Succeeded" \/ ts[t] = tasks[t]
    BY <1>1, <2>2 DEF WithStatus
  <2> HIDE DEF ts, q
  <2>4. QED BY <2>1, <2>3, ScheduledSuccess
<1>3. ASSUME NEW m \in MachineId, MachineReady(m)
      PROVE  tasks[t].state = "Succeeded"
  <2> DEFINE ms == IF machines[m].state = "Absent" THEN machines
                   ELSE [machines EXCEPT ![m].state = "Idle"]
  <2>1. PICK pick \in Picks(ms, task_queue) : ScheduleTasks(tasks, task_queue, pick)
    BY <1>3 DEF MachineReady
  <2>2. QED BY <2>1, ScheduledSuccess
<1>4. ASSUME NEW f \in TaskId, NEW c \in ExitCode, TaskFinished(f, c)
      PROVE  tasks[t].state = "Succeeded" \/ unit[t] = "done"
  <2>1. PICK pick \in Picks(FreeMachine(f), task_queue) :
          ScheduleTasks(FinishTask(f, c), task_queue, pick)
    BY <1>4 DEF TaskFinished
  <2>2. FinishTask(f, c)[t].state = "Succeeded"
    BY <2>1, ScheduledSuccess
  <2>3. CASE t # f
    BY <1>1, <2>2, <2>3 DEF FinishTask
  <2>4. CASE t = f
    <3>1. FinishedEvent(f, c) \in events
      BY <1>4 DEF TaskFinished, Receive
    <3>2. tasks[f].state = "Succeeded" \/ c = "zero"
      BY <1>1, <2>2, <2>4 DEF FinishTask, WithStatus, Verdict
    <3>3. unit[f] \in {"orphaned", "done"}
      BY <3>1, SoundParts DEF UnitsOf
    <3>4. QED BY <2>4, <3>1, <3>2, <3>3 DEF Orphans
  <2>5. QED BY <2>3, <2>4
<1>5. ASSUME NEW u \in TaskId, CancelQueued(u) \/ CancelRunning(u)
      PROVE  tasks[t].state = "Succeeded"
  <2>1. CASE CancelQueued(u)
    <3> DEFINE new == WithStatus(tasks[u], "Cancelled", tasks[u].machine_id, "none")
    <3>1. tasks' = [tasks EXCEPT ![u] = new]
      BY <2>1 DEF CancelQueued
    <3>2. new.state = "Cancelled"
      BY DEF WithStatus
    <3> HIDE DEF new
    <3>3. QED BY <1>1, <3>1, <3>2
  <2>2. CASE CancelRunning(u)
    <3>1. /\ tasks[u].state = "Running"
          /\ tasks' = [tasks EXCEPT ![u].cancellation_requested = TRUE]
      BY <2>2 DEF CancelRunning
    <3>2. tasks'[t].state = tasks[t].state
      BY <1>1, <3>1 DEF TaskRecord
    <3>3. QED BY <3>2
  <2>3. QED BY <1>5, <2>1, <2>2
<1>6. ASSUME NEW m \in MachineId, MachineExited(m)
      PROVE  tasks[t].state = "Succeeded"
  BY <1>6 DEF MachineExited, WithStatus
<1>7. ASSUME NEW ok \in BOOLEAN, CancelReturns(ok)
      PROVE  UNCHANGED tasks
  BY <1>7 DEF CancelReturns, actorVars
<1>8. ASSUME NEW m \in MachineId, \/ MachineProvisionFailed(m) \/ NspawnExits(m)
                                  \/ ProbeSucceeds(m) \/ ProbeTimesOut(m)
      PROVE  UNCHANGED tasks
  BY <1>8 DEF MachineProvisionFailed, NspawnExits, ProbeSucceeds, ProbeTimesOut, actorVars
<1>9. ASSUME NEW e \in TaskId, (\E c \in ExitCode : RunEnds(e, c)) \/ UnitEnds(e)
      PROVE  UNCHANGED tasks
  BY <1>9 DEF RunEnds, UnitEnds, actorVars
<1>10. ReconcilePool \/ UNCHANGED vars => UNCHANGED tasks
  BY DEF ReconcilePool, vars, actorVars
<1>11. QED
  BY <1>2, <1>3, <1>4, <1>5, <1>6, <1>7, <1>8, <1>9, <1>10 DEF Next, Command, Event, Process

\* A daemon that is started again has no units.
LEMMA OrphansKept ==
  ASSUME SystemIInv, [SystemNext]_systemVars
  PROVE  Orphans'
<1>1. CASE Crash \/ Restart
  BY <1>1 DEF Crash, Restart, ProcessEnds, Orphans
<1>2. CASE ~(Crash \/ Restart)
  <2>1. [Next]_vars
    BY <1>2, BackendSteps DEF SystemIInv
  <2>2. QED BY <2>1, NextKeepsOrphans DEF SystemIInv, RInv
<1>3. QED BY <1>1, <1>2

LEMMA RanKept ==
  ASSUME SystemIInv, [SystemNext]_systemVars, NEW t \in TaskId
  PROVE  Ran(t)'
<1>1. CASE Crash \/ Restart
  BY <1>1 DEF Crash, Restart, ProcessEnds, AbsentTask, Ran
<1>2. CASE ~(Crash \/ Restart)
  <2>1. [Next]_vars
    BY <1>2, BackendSteps DEF SystemIInv
  <2>2. ASSUME tasks'[t].state = "Succeeded"
        PROVE  unit'[t] = "done"
    <3>1. unit[t] = "done"
      BY <2>1, <2>2, SuccessIsReported DEF SystemIInv, RInv, Ran
    <3>2. QED BY <2>1, <3>1, UnitStaysHalted DEF SystemIInv, RInv
  <2>3. QED BY <2>2 DEF Ran
<1>3. QED BY <1>1, <1>2

\* Client c is told nothing.
NotTold(c) ==
  /\ UNCHANGED <<daemon, generation>>
  /\ request'[c] = request[c]
  /\ reply'[c] = reply[c] \/ reply'[c].kind # "ok"
  /\ step'[c] = "reported" => step[c] = "reported" /\ view'[c] = view[c]

LEMMA NotToldKeeps ==
  ASSUME SystemIInv, [Next]_vars, NEW c \in Client, NotTold(c)
  PROVE  Obeyed(c)'
<1> SUFFICES ASSUME daemon' = "serving", request'[c].generation = generation',
                    request'[c].op = "CancelTask"
             PROVE  /\ reply'[c].kind = "ok" => Halted(reply[c])'
                    /\ step'[c] = "reported" => Halted(view[c])'
  BY DEF Obeyed
<1>1. /\ daemon = "serving" /\ request[c].generation = generation
      /\ request[c].op = "CancelTask"
  BY DEF NotTold
<1>2. /\ reply[c].kind = "ok" => Halted(reply[c]) /\ reply[c].task_id \in TaskId
      /\ step[c] = "reported" => Halted(view[c]) /\ view[c].task_id \in TaskId
  <2>1. Front!Told(c) /\ Front!TaskId = TaskId
    BY DEF SystemIInv, Front!IInv, Front!Good, Front!TaskId, TaskId
  <2>2. QED BY <1>1, <2>1 DEF SystemIInv, Obeyed, Front!Told, Front!Behind
<1>3. ASSUME NEW t \in TaskId, StoppedOrHeld(t)
      PROVE  StoppedOrHeld(t)'
  <2>1. held' = held
    BY NextKeepsHeld
  <2>2. unit[t] # "none"
    BY <1>3 DEF StoppedOrHeld
  <2>3. QED BY <1>3, <2>1, <2>2, UnitStaysHalted DEF SystemIInv, RInv, StoppedOrHeld
<1>4. reply'[c].kind = "ok" => Halted(reply[c])'
  <2> SUFFICES ASSUME reply'[c].kind = "ok" PROVE Halted(reply[c])'
    OBVIOUS
  <2>1. reply'[c] = reply[c] /\ Halted(reply[c]) /\ reply[c].task_id \in TaskId
    BY <1>2 DEF NotTold
  <2>2. QED BY <1>3, <2>1 DEF Halted
<1>5. step'[c] = "reported" => Halted(view[c])'
  <2> SUFFICES ASSUME step'[c] = "reported" PROVE Halted(view[c])'
    OBVIOUS
  <2>1. view'[c] = view[c] /\ Halted(view[c]) /\ view[c].task_id \in TaskId
    BY <1>2 DEF NotTold
  <2>2. QED BY <1>3, <2>1 DEF Halted
<1>6. QED BY <1>4, <1>5

\* No client is told anything about a task by its own calls; a client that reads its
\* answer reports what it says.
LEMMA ClientCallsObeyed ==
  ASSUME SystemIInv, NEW c \in Client, ClientCalls(c), NEW d \in Client
  PROVE  Obeyed(d)'
<1>1. UNCHANGED vars /\ UNCHANGED daemon
  BY DEF ClientCalls, vars
<1>2. /\ step[c] \in {"idle", "sleeping"} /\ UNCHANGED <<reply, generation>>
      /\ step'[c] \in {"calling", "failed"}
      /\ d # c => step'[d] = step[d] /\ request'[d] = request[d] /\ view'[d] = view[d]
  <2>1. /\ step = [e \in Client |-> step[e]] /\ request = [e \in Client |-> request[e]]
        /\ view = [e \in Client |-> view[e]]
    BY FrontParts DEF SystemIInv
  <2>2. QED
    BY <2>1
       DEF ClientCalls, Clients!ExecuteRun, Clients!ExecuteCancel, Clients!ExecuteTaskStatus,
           Clients!Execute, Clients!Poll, Clients!Call, Clients!daemonVars
<1>3. CASE d = c
  <2>1. reply'[c].kind = "none"
    BY <1>2, FrontParts DEF SystemIInv, Clients!NoReply
  <2>2. QED BY <1>2, <1>3, <2>1 DEF Obeyed
<1>4. CASE d # c
  <2>1. NotTold(d)
    BY <1>1, <1>2, <1>4 DEF NotTold
  <2>2. QED BY <1>1, <2>1, NotToldKeeps
<1>5. QED BY <1>3, <1>4

LEMMA ClientGoesOnObeyed ==
  ASSUME SystemIInv, NEW c \in Client, ClientGoesOn(c), NEW d \in Client
  PROVE  Obeyed(d)'
<1>1. UNCHANGED vars /\ UNCHANGED <<daemon, unit, tasks, held>>
  BY DEF ClientGoesOn, vars, procVars, actorVars
<1>2. /\ step = [e \in Client |-> step[e]] /\ reply = [e \in Client |-> reply[e]]
      /\ view = [e \in Client |-> view[e]] /\ Clients!NoReply.kind = "none"
  BY FrontParts DEF SystemIInv, Clients!NoReply
<1>3. CASE Clients!Read(c)
  <2>1. /\ UNCHANGED <<request, generation>>
        /\ reply'[c].kind = "none"
        /\ step'[c] = "reported" => reply[c].kind = "ok" /\ view'[c] = reply[c]
        /\ d # c => step'[d] = step[d] /\ reply'[d] = reply[d] /\ view'[d] = view[d]
    BY <1>2, <1>3 DEF Clients!Read, Clients!daemonVars
  <2>2. CASE d = c
    BY <1>1, <2>1, <2>2 DEF SystemIInv, Obeyed, Halted, StoppedOrHeld
  <2>3. CASE d # c
    <3>1. NotTold(d)
      BY <1>1, <2>1, <2>3 DEF NotTold
    <3>2. QED BY <1>1, <3>1, NotToldKeeps
  <2>4. QED BY <2>2, <2>3
<1>4. CASE Clients!Interrupt(c) \/ Clients!Push(c) \/ Clients!DropHandler(c)
  <2>1. NotTold(d)
    BY <1>1, <1>2, <1>4
       DEF NotTold, Clients!Interrupt, Clients!Push, Clients!DropHandler, Clients!clientVars,
           Clients!daemonVars
  <2>2. QED BY <1>1, <2>1, NotToldKeeps
<1>5. QED BY <1>3, <1>4 DEF ClientGoesOn

\* What clients make of a verdict is not that the task runs.
LEMMA VerdictLabels ==
  ASSUME NEW state \in TerminalState
  PROVE  Front!TaskStateLabel(Clients!ToProtoTaskState(state)) # "Running"
<1>1. CASE state = "Succeeded"
  <2>1. Clients!ToProtoTaskState(state) = 3
    BY <1>1 DEF Clients!ToProtoTaskState
  <2>2. QED BY <2>1 DEF Front!TaskStateLabel
<1>2. CASE state = "Failed"
  <2>1. Clients!ToProtoTaskState(state) = 4
    BY <1>2 DEF Clients!ToProtoTaskState
  <2>2. QED BY <2>1 DEF Front!TaskStateLabel
<1>3. CASE state = "Cancelled"
  <2>1. Clients!ToProtoTaskState(state) = 5
    BY <1>3 DEF Clients!ToProtoTaskState
  <2>2. QED BY <2>1 DEF Front!TaskStateLabel
<1>4. QED BY <1>1, <1>2, <1>3 DEF TerminalState

\* A cancellation is answered at once for a task that does not run, and no such
\* answer says that it does.
LEMMA HandleCommandObeyed ==
  ASSUME SystemIInv, HandleCommand, NEW d \in Client
  PROVE  Obeyed(d)'
<1> DEFINE c == Head(channel)
           t == request[c].task_id
<1>1. /\ UNCHANGED <<step, request, view, generation>> /\ daemon = "serving"
      /\ Front!IInv /\ RInv /\ c \in Client
      /\ reply = [e \in Client |-> reply[e]]
      /\ request[c].op = "CancelTask" => t \in TaskId
  BY FrontParts DEF HandleCommand, ActorReady, SystemIInv
<1>2. step[c] \in {"calling", "gone"}
  <2>1. Front!Placed(c) /\ c \in Front!Places(channel)
    <3>1. channel \in Seq(Client) /\ channel # <<>>
      BY FrontParts DEF HandleCommand, SystemIInv
    <3>2. 1 \in DOMAIN channel /\ c = channel[1]
      BY <3>1
    <3>3. QED BY <1>1, <3>2 DEF Front!IInv, Front!Good, Front!Places
  <2>2. QED BY <2>1 DEF Front!Placed, Front!InService
<1>3. [Next]_vars
  BY <1>1, HandleCommandIsCommand
<1>4. \/ request[c].op # "CancelTask" /\ (HandleStartTask(c) \/ HandleLook(c, t))
      \/ request[c].op = "CancelTask" /\ HandleCancelTask(c, t)
  BY DEF HandleCommand
<1> HIDE DEF c
<1>5. UNCHANGED daemon /\ (d # c => reply'[d] = reply[d])
  BY <1>1, <1>4
     DEF HandleStartTask, HandleLook, HandleCancelTask, StartTask, CancelQueued, CancelRunning,
         vars, Respond, Clients!Respond
<1>6. CASE d # c
  <2>1. NotTold(d)
    BY <1>1, <1>5, <1>6 DEF NotTold
  <2>2. QED BY <1>3, <2>1, NotToldKeeps
<1>7. CASE d = c /\ request[c].op # "CancelTask"
  BY <1>1, <1>7 DEF Obeyed
<1>8. CASE d = c /\ request[c].op = "CancelTask"
  <2>1. HandleCancelTask(c, t) /\ t \in TaskId /\ tasks[t] \in TaskRecord
        /\ tasks \in [TaskId -> TaskRecord]
    BY <1>1, <1>4, <1>8, SoundParts DEF RInv
  <2>2. CASE UNCHANGED reply
    <3>1. NotTold(d)
      BY <1>1, <1>5, <2>2 DEF NotTold
    <3>2. QED BY <1>3, <3>1, NotToldKeeps
  <2>3. CASE Respond(c, Clients!Failure)
    <3>1. reply'[c].kind # "ok"
      BY <1>1, <2>3 DEF Respond, Clients!Respond, Clients!Failure, Clients!NoReply
    <3>2. QED BY <1>1, <1>2, <1>8, <3>1 DEF Obeyed
  <2>4. CASE CancelQueued(t) /\ Respond(c, Answer(t, tasks'))
    <3>1. tasks'[t].state = "Cancelled"
      BY <2>1, <2>4 DEF CancelQueued, WithStatus
    <3>2. Front!TaskStateLabel(Answer(t, tasks').state) # "Running"
      <4>1. Answer(t, tasks').state = Clients!ToProtoTaskState(tasks'[t].state)
        BY <2>1 DEF Answer, Clients!StatusReply, States
      <4>2. QED BY <3>1, <4>1, VerdictLabels DEF TerminalState
    <3>3. reply'[c].kind # "ok" \/ reply'[c] = Answer(t, tasks')
      BY <1>1, <2>4 DEF Respond, Clients!Respond, Clients!NoReply
    <3>4. QED BY <1>1, <1>2, <1>8, <3>2, <3>3 DEF Obeyed, Halted
  <2>5. CASE tasks[t].state \in TerminalState /\ Respond(c, Answer(t, tasks))
    <3>1. Front!TaskStateLabel(Answer(t, tasks).state) # "Running"
      <4>1. Answer(t, tasks).state = Clients!ToProtoTaskState(tasks[t].state)
        BY <2>1 DEF Answer, Clients!StatusReply, States
      <4>2. QED BY <2>5, <4>1, VerdictLabels
    <3>2. reply'[c].kind # "ok" \/ reply'[c] = Answer(t, tasks)
      BY <1>1, <2>5 DEF Respond, Clients!Respond, Clients!NoReply
    <3>3. QED BY <1>1, <1>2, <1>8, <3>1, <3>2 DEF Obeyed, Halted
  <2>6. tasks[t].state \in {"Absent", "Queued", "Running"} \cup TerminalState
    BY <2>1 DEF TaskRecord, TaskState, TerminalState
  <2>7. QED BY <2>1, <2>2, <2>3, <2>4, <2>5, <2>6 DEF HandleCancelTask, HandleLook
<1>9. QED BY <1>6, <1>7, <1>8

\* The one answer that says that the task runs comes when systemctl has stopped its
\* unit, or when its unit had ended before, or from a machine of a former daemon.
LEMMA SystemctlReturnsObeyed ==
  ASSUME SystemIInv, NEW ok \in BOOLEAN, SystemctlReturns(ok), NEW d \in Client
  PROVE  Obeyed(d)'
<1>1. /\ CancelReturns(ok) /\ RInv /\ UNCHANGED daemon
      /\ caller \in Client /\ cancelling \in TaskId
      /\ step[caller] \in {"calling", "gone"}
      /\ UNCHANGED <<step, request, view, generation>>
      /\ reply = [e \in Client |-> reply[e]]
  BY FrontParts DEF SystemctlReturns, CancelReturns, SystemIInv, Linked, RInv, IInv
<1>2. reply'[caller].kind # "ok" \/ (reply'[caller] = Answer(cancelling, tasks) /\ ok)
  <2>1. Clients!NoReply.kind = "none" /\ Clients!Failure.kind = "error"
    BY DEF Clients!NoReply, Clients!Failure
  <2>2. CASE ok = TRUE
    BY <1>1, <2>1, <2>2 DEF SystemctlReturns, Respond, Clients!Respond
  <2>3. CASE ok = FALSE
    <3>1. Respond(caller, Clients!Failure)
      BY <2>3 DEF SystemctlReturns
    <3>2. reply'[caller] \in {Clients!Failure, Clients!NoReply}
      BY <1>1, <3>1 DEF Respond, Clients!Respond
    <3>3. QED BY <2>1, <3>2
  <2>4. QED BY <2>2, <2>3
<1>3. ASSUME ok, NEW t \in TaskId, t = cancelling
      PROVE  StoppedOrHeld(t)'
  <2>1. unit[cancelling] \in {"running", "stopped", "orphaned", "done"}
    <3>1. tasks[cancelling].state = "Running"
      BY <1>1 DEF RInv, IInv, CancelReturns
    <3>2. Pending(cancelling, unit, events)
      BY <1>1, <3>1, SoundParts DEF RInv, UnitsOf
    <3>3. QED BY <1>1, <3>2, SoundParts DEF RInv, UnitsOf, Pending
  <2>2. unit \in [TaskId -> {"none", "running", "stopped", "orphaned", "done"}]
    BY <1>1, SoundParts DEF RInv, TypesOf
  <2>3. UNCHANGED <<tasks, held>>
    BY <1>1 DEF CancelReturns, actorVars
  <2>4. \/ unit'[t] \in {"stopped", "done"}
        \/ unit'[t] # "none" /\ tasks[t].machine_id \in held
    BY <1>1, <1>3, <2>1, <2>2 DEF CancelReturns
  <2>5. QED BY <2>3, <2>4 DEF StoppedOrHeld
<1>4. CASE d = caller
  <2>1. Answer(cancelling, tasks).task_id = cancelling
    BY DEF Answer, Clients!StatusReply
  <2>2. reply'[d].kind = "ok" => reply'[d].task_id = cancelling /\ ok
    BY <1>2, <1>4, <2>1
  <2>3. reply'[d].kind = "ok" => StoppedOrHeld(reply[d].task_id)'
    <3>1. ASSUME ok, NEW t \in TaskId, t = cancelling, reply'[d].task_id = t
          PROVE  StoppedOrHeld(reply[d].task_id)'
      BY <1>3, <3>1 DEF StoppedOrHeld
    <3>2. QED BY <1>1, <2>2, <3>1
  <2>4. reply'[d].kind = "ok" => Halted(reply[d])'
    BY <2>3 DEF Halted
  <2>5. QED BY <1>1, <1>4, <2>4 DEF Obeyed
<1>5. CASE d # caller
  <2>1. NotTold(d)
    BY <1>1, <1>5 DEF NotTold, SystemctlReturns, Respond, Clients!Respond
  <2>2. [Next]_vars
    BY <1>1 DEF Next, Command
  <2>3. QED BY <2>1, <2>2, NotToldKeeps
<1>6. QED BY <1>4, <1>5

LEMMA ObeyedKept ==
  ASSUME SystemIInv, [SystemNext]_systemVars, NEW d \in Client
  PROVE  Obeyed(d)'
<1>1. ASSUME NEW c \in Client, ClientCalls(c) \/ ClientGoesOn(c) PROVE Obeyed(d)'
  BY <1>1, ClientCallsObeyed, ClientGoesOnObeyed
<1>2. CASE HandleCommand
  BY <1>2, HandleCommandObeyed
<1>3. ASSUME NEW ok \in BOOLEAN, SystemctlReturns(ok) PROVE Obeyed(d)'
  BY <1>3, SystemctlReturnsObeyed
<1>4. CASE (Event \/ Process) /\ UNCHANGED frontVars
  <2>1. [Next]_vars
    BY <1>4 DEF Next
  <2>2. UNCHANGED daemon
    BY <1>4
       DEF Event, MachineReady, MachineProvisionFailed, MachineExited, TaskFinished,
           Process, NspawnExits, ProbeSucceeds, ProbeTimesOut, RunEnds, UnitEnds
  <2>3. NotTold(d)
    BY <1>4, <2>2 DEF NotTold, frontVars
  <2>4. QED BY <2>1, <2>3, NotToldKeeps
<1>5. CASE ReconcilePool /\ UNCHANGED frontVars
  <2>1. daemon = "starting" /\ UNCHANGED <<request, generation>>
    BY <1>5 DEF ReconcilePool, frontVars
  <2>2. QED BY <2>1 DEF SystemIInv, Linked, Obeyed
<1>6. CASE Crash \/ Restart
  BY <1>6 DEF Crash, Restart, Obeyed
<1>7. CASE UNCHANGED systemVars
  <2>1. NotTold(d) /\ UNCHANGED vars
    BY <1>7 DEF NotTold, systemVars, frontVars, vars
  <2>2. QED BY <2>1, NotToldKeeps
<1>8. QED BY <1>1, <1>2, <1>3, <1>4, <1>5, <1>6, <1>7 DEF SystemNext

-----------------------------------------------------------------------------
(***************************************************************************)
(* The theorems.                                                           *)
(***************************************************************************)

LEMMA SystemInitIInv == SystemInit => SystemIInv /\ Clients!Init
<1> SUFFICES ASSUME SystemInit PROVE SystemIInv /\ Clients!Init
  OBVIOUS
<1>1. RInv
  BY InitRInv DEF SystemInit
<1>2. Clients!Init
  <2>1. daemon = "starting" /\ \A t \in TaskId : tasks[t] = AbsentTask
    BY DEF SystemInit, Init
  <2>2. Clients!Service!Init
    BY <1>1, <2>1, NotServing DEF NoTasks, Clients!Service!Init, Clients!TaskId, TaskId
  <2>3. QED BY <2>1, <2>2 DEF SystemInit, Clients!Init, Clients!None, None
<1>3. Front!IInv
  BY <1>2, SameInit, FrontAssumptions, Front!InitIsGood
     DEF Front!InitIsGood, Front!ClientAssumption, Front!CapacityAssumption,
         Front!TaskClientsBounds
<1>4. Linked /\ Orphans /\ (\A c \in Client : Obeyed(c)) /\ \A t \in TaskId : Ran(t)
  BY DEF SystemInit, Init, Linked, Orphans, Obeyed, Ran, AbsentTask
<1>5. QED BY <1>1, <1>2, <1>3, <1>4 DEF SystemIInv

LEMMA SystemNextKeeps ==
  ASSUME SystemIInv, [SystemNext]_systemVars
  PROVE  SystemIInv' /\ [Clients!Next]_Clients!vars
<1>1. RInv'
  BY BackendKeeps DEF SystemIInv
<1>2. [Clients!Next]_Clients!vars /\ Linked'
  BY <1>1, SystemStepRefines
<1>3. Front!IInv'
  BY <1>2, FrontKeeps DEF SystemIInv
<1>4. /\ \A c \in Client : Obeyed(c)'
      /\ \A t \in TaskId : Ran(t)'
      /\ Orphans'
  BY ObeyedKept, RanKept, OrphansKept
<1>5. QED BY <1>1, <1>2, <1>3, <1>4 DEF SystemIInv

\* The invariant of the system: that of the backend, that of the clients, that the
\* actor awaits systemctl for the client whose task it cancels, that a daemon which
\* does not serve has no calls, that an accepted cancellation stopped its unit unless
\* a former daemon left a machine of that name, that an orphaned unit has no success
\* reported of it, and that only tasks which ran succeed.
THEOREM SystemInvariance == SystemSpec => []SystemIInv
<1>1. SystemIInv /\ [SystemNext]_systemVars => SystemIInv'
  BY SystemNextKeeps
<1>2. QED BY <1>1, SystemInitIInv, PTL DEF SystemSpec

\* Clients, channel and backend together implement TaskClients.
THEOREM SystemImplementsClients == SystemSpec => ImplementsTaskClients
<1>1. SystemIInv /\ [SystemNext]_systemVars => [Clients!Next]_Clients!vars
  BY SystemNextKeeps
<1>2. QED BY <1>1, SystemInitIInv, SystemInvariance, PTL
          DEF SystemSpec, ImplementsTaskClients, Clients!Spec

\* What a client was told of its task holds of the processes of that task, as far as
\* it can: an orphaned unit may outlive the verdict, and in a machine that a former
\* daemon left an accepted cancellation may have stopped another unit.
THEOREM AnswersHoldOfProcesses == SystemSpec => []ToldOfProcesses
<1>1. SystemIInv => ToldOfProcesses
  <2> SUFFICES ASSUME SystemIInv, NEW c \in Client, step[c] = "reported",
                      request[c].generation = generation, daemon = "serving"
               PROVE  LET answer == Clients!TaskStateLabel(view[c].state)
                          t      == view[c].task_id
                      IN  /\ answer = "Succeeded" =>
                               unit[t] = "done" /\ tasks[t].exit_code = "zero"
                                 /\ ~tasks[t].cancellation_requested
                          /\ answer = "Cancelled" =>
                               /\ unit[t] \in {"none", "orphaned", "done"}
                               /\ unit[t] = "orphaned" => tasks[t].exit_code # "zero"
                          /\ answer = "Running" /\ command[c] = "cancel" =>
                               unit[t] \in {"stopped", "done"} \/ tasks[t].machine_id \in held
    BY DEF ToldOfProcesses
  <2> DEFINE answer == Clients!TaskStateLabel(view[c].state)
             t      == view[c].task_id
  <2>1. /\ RInv /\ IInv /\ \A u \in TaskId : Ran(u)
        /\ Front!Told(c) /\ Front!Placed(c) /\ Obeyed(c) /\ Orphans
    BY DEF SystemIInv, RInv, Front!IInv, Front!Good
  <2>2. answer = Front!TaskStateLabel(view[c].state) /\ Front!TaskId = TaskId
    BY DEF Clients!TaskStateLabel, Front!TaskStateLabel, Front!TaskId, TaskId
  <2>3. /\ t \in TaskId
        /\ answer = "Succeeded" => tasks[t].state = "Succeeded"
        /\ answer = "Cancelled" => tasks[t].state = "Cancelled"
    <3>1. Front!Behind(view[c], States(tasks))
      BY <2>1 DEF Front!Told
    <3>2. QED BY <2>2, <3>1 DEF Front!Behind, States
  <2>4. tasks[t].state = "Succeeded" =>
          unit[t] = "done" /\ tasks[t].exit_code = "zero" /\ ~tasks[t].cancellation_requested
    BY <2>1, <2>3, SoundParts DEF VerdictsOf, Ran
  <2>5. tasks[t].state = "Cancelled" => unit[t] \in {"none", "orphaned", "done"}
    <3>1. unit[t] \in {"none", "running", "stopped", "orphaned", "done"}
      BY <2>1, <2>3, SoundParts DEF TypesOf
    <3>2. QED BY <2>1, <2>3, <3>1, SoundParts DEF UnitsOf, Pending, LostMachine
  <2>6. unit[t] = "orphaned" => tasks[t].exit_code # "zero"
    BY <2>1, <2>3 DEF Orphans
  <2>7. answer = "Running" /\ command[c] = "cancel" =>
          unit[t] \in {"stopped", "done"} \/ tasks[t].machine_id \in held
    BY <2>1, <2>2 DEF Front!Placed, Obeyed, Halted, StoppedOrHeld
  <2>8. QED BY <2>3, <2>4, <2>5, <2>6, <2>7
<1>2. QED BY <1>1, SystemInvariance, PTL

=============================================================================
