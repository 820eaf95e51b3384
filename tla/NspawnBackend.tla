---------------------------- MODULE NspawnBackend ----------------------------
(***************************************************************************)
(* The nspawn backend of the shargon daemon: one actor task that owns the  *)
(* pool of machines, the queue of tasks and every record about them        *)
(* (BackendActor, src/crates/shargon-nspawn/src/lib.rs), and the processes *)
(* it starts: one systemd-nspawn and one readiness probe per machine, one  *)
(* systemd-run per running task, one systemctl stop per cancellation.      *)
(*                                                                         *)
(* The actor handles one command or one event at a time, so each handler   *)
(* is one atomic action, except the cancellation of a running task, which  *)
(* awaits systemctl inside the actor: it is two actions, and nothing else  *)
(* is handled between them.  Processes end whenever they like; the tokio   *)
(* task that waits for a process sends its event some time after the       *)
(* process ended, so events reach the actor in any order.                  *)
(***************************************************************************)
EXTENDS Naturals, Sequences, FiniteSets

CONSTANTS
  PoolSize,       \* settings.backend.default_parallel_vms
  MaxTasks,       \* bound: tasks ever submitted
  MaxMachines,    \* bound: machines ever created; the excess over PoolSize is
                  \* the number of machines that may fail in a behaviour
  Held,           \* the ids whose names, at the beginning, belong to machines that
                  \* former daemons have left running
  SpawnMayFail    \* whether Command::spawn of systemd-nspawn may return Err

\* DaemonSettings::validate refuses a pool of zero machines.
ASSUME PoolSizeAssumption == PoolSize \in Nat \ {0}
ASSUME BoundsAssumption == /\ MaxTasks \in Nat
                           /\ MaxMachines \in Nat
                           /\ PoolSize <= MaxMachines
ASSUME SpawnMayFailAssumption == SpawnMayFail \in BOOLEAN
ASSUME HeldAssumption == Held \subseteq 1..MaxMachines

TaskId    == 1..MaxTasks
MachineId == 1..MaxMachines
None      == 0      \* Option::None where an id is expected

\* MachineState and TaskState; "Absent" says that the map has no such key.
\* Nothing ever stores the other states that MachineState declares.
MachineState  == {"Provisioning", "Idle", "Busy"}
TaskState     == {"Queued", "Running", "Succeeded", "Failed", "Cancelled"}
TerminalState == {"Succeeded", "Failed", "Cancelled"}

\* Option<i32>, as far as finish_task tells codes apart.
ExitCode == {"none", "zero", "nonzero"}

\* The machines map and the tasks map.  unit_name is set together with
\* machine_id and never read on its own, so machine_id stands for both.
MachineRecord == [state : MachineState \cup {"Absent"},
                  current_task_id : TaskId \cup {None}]
TaskRecord    == [state : TaskState \cup {"Absent"},
                  machine_id : MachineId \cup {None},
                  exit_code : ExitCode,
                  cancellation_requested : BOOLEAN]

\* BackendEvent, without the error messages.
MachineEvent == [kind : {"MachineReady", "MachineProvisionFailed", "MachineExited"},
                 machine_id : MachineId]
TaskEvent    == [kind : {"TaskFinished"}, task_id : TaskId, exit_code : ExitCode]

VARIABLES
  daemon,           \* "starting", "serving", or "exited" when start-up failed
  held,             \* the ids whose names belong to machines of former daemons
  \* BackendState
  target_size, next_machine_id, next_task_id, machines, tasks, task_queue,
  \* The running task whose systemctl stop the actor awaits, or None.
  cancelling,
  \* The events sent and not yet received.  Each waiting tokio task sends one
  \* event, and different ones send in any order, so a set is exact.
  events,
  \* The processes: systemd-nspawn and readiness probe of each machine, and the
  \* transient unit of each task with the systemd-run that waits for it: both run,
  \* the unit was stopped, it was orphaned (it runs on in its machine, but its
  \* systemd-run has ended without waiting for it), or both have ended.
  nspawn, probe, unit

actorVars == <<target_size, next_machine_id, next_task_id, machines, tasks, task_queue>>
procVars  == <<nspawn, probe, unit>>
vars      == <<daemon, held, actorVars, cancelling, events, procVars>>

\* A task record whose status was written, its other field kept.
WithStatus(task, state, machine_id, exit_code) ==
  [state |-> state, machine_id |-> machine_id, exit_code |-> exit_code,
   cancellation_requested |-> task.cancellation_requested]

AbsentMachine == [state |-> "Absent", current_task_id |-> None]
AbsentTask    == [state |-> "Absent", machine_id |-> None, exit_code |-> "none",
                  cancellation_requested |-> FALSE]

\* Every variable has its type, no task record is ever dropped, and ids that were
\* not given out yet are unused (the maps of BackendState).
TypeOK ==
  /\ daemon \in {"starting", "serving", "exited"}
  /\ held \subseteq MachineId
  /\ target_size \in Nat
  /\ next_machine_id \in 0..MaxMachines
  /\ next_task_id \in 0..MaxTasks
  /\ machines \in [MachineId -> MachineRecord]
  /\ tasks \in [TaskId -> TaskRecord]
  /\ task_queue \in Seq(TaskId)
  /\ cancelling \in TaskId \cup {None}
  /\ events \subseteq MachineEvent \cup TaskEvent
  /\ nspawn \in [MachineId -> {"none", "running", "exited"}]
  /\ probe \in [MachineId -> {"none", "probing", "ready", "timedout"}]
  /\ unit \in [TaskId -> {"none", "running", "stopped", "orphaned", "done"}]
  /\ \A t \in TaskId : tasks[t].state = "Absent" <=> t > next_task_id
  /\ \A m \in MachineId : m > next_machine_id =>
        machines[m].state = "Absent" /\ nspawn[m] = "none" /\ probe[m] = "none"

Init ==
  /\ daemon = "starting"
  /\ held = Held
  /\ target_size = 0
  /\ next_machine_id = 0
  /\ next_task_id = 0
  /\ machines = [m \in MachineId |-> AbsentMachine]
  /\ tasks = [t \in TaskId |-> AbsentTask]
  /\ task_queue = <<>>
  /\ cancelling = None
  /\ events = {}
  /\ nspawn = [m \in MachineId |-> "none"]
  /\ probe = [m \in MachineId |-> "none"]
  /\ unit = [t \in TaskId |-> "none"]

-----------------------------------------------------------------------------
(***************************************************************************)
(* The pool: reconcile_pool_internal and spawn_machine.                    *)
(***************************************************************************)

\* Mutant: machines that still boot are not counted.
ActiveUpOnly(ms) == {m \in MachineId : ms[m].state \in {"Idle", "Busy"}}

\* active_machine_count
ActiveMachines(ms) == {m \in MachineId : ms[m].state \in MachineState}

\* Mutant: the loop stops one machine short.
MissingLessOne(ms, target) ==
  IF Cardinality(ActiveMachines(ms)) + 1 < target
  THEN target - Cardinality(ActiveMachines(ms)) - 1 ELSE 0

Missing(ms, target) ==
  IF Cardinality(ActiveMachines(ms)) < target
  THEN target - Cardinality(ActiveMachines(ms)) ELSE 0

\* The loop of reconcile_pool_internal, run on the map ms, calls spawn_machine
\* for the k next ids.  spawn_machine inserts the record before it starts the
\* process, so when the k-th spawn fails (~ok), which ends the loop, its record
\* stays in the map without any process to report on it.
ReconcilePoolInternal(ms, target, k, ok) ==
  LET fresh   == (next_machine_id + 1)..(next_machine_id + k)
      started == IF ok THEN fresh ELSE fresh \ {next_machine_id + k}
  IN  /\ next_machine_id + k <= MaxMachines
      /\ \/ ok /\ k = Missing(ms, target)
         \/ ~ok /\ SpawnMayFail /\ k \in 1..Missing(ms, target)
      /\ next_machine_id' = next_machine_id + k
      /\ machines' = [m \in MachineId |->
                        IF m \in fresh
                        THEN [state |-> "Provisioning", current_task_id |-> None]
                        ELSE ms[m]]
      /\ nspawn' = [m \in MachineId |-> IF m \in started THEN "running" ELSE nspawn[m]]
      /\ probe' = [m \in MachineId |-> IF m \in started THEN "probing" ELSE probe[m]]

\* reconcile_pool_logged: an error is logged and dropped.
ReconcilePoolLogged(ms) ==
  \E k \in 0..target_size, ok \in BOOLEAN : ReconcilePoolInternal(ms, target_size, k, ok)

-----------------------------------------------------------------------------
(***************************************************************************)
(* The scheduler: schedule_queued_tasks, find_idle_machine_id, assign_task *)
(***************************************************************************)

IdleMachines(ms) == {m \in MachineId : ms[m].state = "Idle"}

Picked(pick) == {pick[i] : i \in DOMAIN pick}

\* Mutant: the loop stops before the first task.
PicksNothing(ms, q) == {<<>>}

\* The loop of schedule_queued_tasks gives the i-th queued task to the i-th idle
\* machine, in the order of the BTreeMap, until tasks or idle machines run out.
\* (run_task of the real system never fails, so neither does assign_task.)
Picks(ms, q) ==
  {pick \in UNION {[1..n -> IdleMachines(ms)] : n \in 0..Len(q)} :
     /\ \A i, j \in DOMAIN pick : i < j => pick[i] < pick[j]
     /\ \A m \in IdleMachines(ms) \ Picked(pick) :
          Len(pick) = Len(q) /\ \A i \in DOMAIN pick : pick[i] < m}

\* Mutant: the machine is not marked Busy, and may be given out again.
AssignUnmarked(ms, q, pick) == ms

\* assign_task for every pair of the loop: the machine becomes Busy, the task
\* Running, and a systemd-run is started for it.
AssignMachines(ms, q, pick) ==
  [m \in MachineId |->
     IF m \in Picked(pick)
     THEN [state |-> "Busy",
           current_task_id |-> q[CHOOSE i \in DOMAIN pick : pick[i] = m]]
     ELSE ms[m]]

AssignTasks(ts, q, pick) ==
  [t \in TaskId |->
     IF \E i \in DOMAIN pick : q[i] = t
     THEN WithStatus(ts[t], "Running", pick[CHOOSE i \in DOMAIN pick : q[i] = t], "none")
     ELSE ts[t]]

\* What scheduling does to everything but the machines map, from the maps and
\* the queue that the handler left.
ScheduleTasks(ts, q, pick) ==
  /\ tasks' = AssignTasks(ts, q, pick)
  /\ task_queue' = SubSeq(q, Len(pick) + 1, Len(q))
  /\ unit' = [t \in TaskId |->
                IF \E i \in DOMAIN pick : q[i] = t THEN "running" ELSE unit[t]]

-----------------------------------------------------------------------------
(***************************************************************************)
(* Commands.  The actor takes the next command or event only when it is    *)
(* not awaiting systemctl.                                                 *)
(***************************************************************************)

ActorReady == daemon = "serving" /\ cancelling = None

\* build_backend of the daemon sends ReconcilePool before it serves anyone; if
\* the pool cannot be filled the daemon exits.
ReconcilePool ==
  /\ daemon = "starting"
  /\ target_size' = PoolSize
  /\ \E k \in 0..PoolSize, ok \in BOOLEAN :
       /\ ReconcilePoolInternal(machines, PoolSize, k, ok)
       /\ daemon' = IF ok THEN "serving" ELSE "exited"
  /\ UNCHANGED <<held, next_task_id, tasks, task_queue, cancelling, events, unit>>

\* Mutant: push_front.
EnqueueFront(q, id) == <<id>> \o q

\* task_queue.push_back
Enqueue(q, id) == Append(q, id)

\* handle_start_task, for a spec that validates.
StartTask ==
  LET id == next_task_id + 1
      ts == [tasks EXCEPT ![id] = WithStatus(AbsentTask, "Queued", None, "none")]
      q  == Enqueue(task_queue, id)
  IN  /\ ActorReady
      /\ id \in TaskId
      /\ next_task_id' = id
      /\ \E pick \in Picks(machines, q) :
           /\ machines' = AssignMachines(machines, q, pick)
           /\ ScheduleTasks(ts, q, pick)
      /\ UNCHANGED <<daemon, held, target_size, next_machine_id, cancelling, events,
                     nspawn, probe>>

\* Mutant: the cancelled task stays in the queue.
WithoutNone(q, t) == q

\* task_queue.retain: an id is queued at most once, so one position goes.
Without(q, t) ==
  [i \in 1..(Len(q) - 1) |->
     IF \E j \in 1..i : q[j] = t THEN q[i + 1] ELSE q[i]]

\* handle_cancel_task, branch Queued.
CancelQueued(t) ==
  /\ ActorReady
  /\ tasks[t].state = "Queued"
  /\ task_queue' = IF \E i \in DOMAIN task_queue : task_queue[i] = t
                   THEN Without(task_queue, t) ELSE task_queue
  /\ tasks' = [tasks EXCEPT ![t] = WithStatus(tasks[t], "Cancelled", tasks[t].machine_id, "none")]
  /\ UNCHANGED <<daemon, held, target_size, next_machine_id, next_task_id, machines,
                 cancelling, events, procVars>>

\* handle_cancel_task, branch Running, up to the await of systemctl stop.  The
\* request is recorded first; without a machine to stop the unit in, the handler
\* returns an internal error there.
CancelRunning(t) ==
  /\ ActorReady
  /\ tasks[t].state = "Running"
  /\ tasks' = [tasks EXCEPT ![t].cancellation_requested = TRUE]
  /\ cancelling' = IF \E m \in MachineId : /\ tasks[t].machine_id = m
                                         /\ machines[m].state # "Absent"
                   THEN t ELSE None
  /\ UNCHANGED <<daemon, held, target_size, next_machine_id, next_task_id, machines,
                 task_queue, events, procVars>>

\* systemd-run and systemctl reach a machine by its name.  Ids start from 1 with
\* each daemon and nobody stops the machines of a former one, so it may be one of
\* those that answers, in place of the one that was spawned.
Answers(m) == nspawn[m] = "running" \/ m \in held

\* Mutant: the caller is answered before systemctl has stopped the unit.
CancelReturnsEarly(ok) ==
  /\ cancelling # None
  /\ ok => Answers(tasks[cancelling].machine_id)
  /\ cancelling' = None
  /\ UNCHANGED <<daemon, held, actorVars, events, procVars>>

\* The rest of it: the caller gets the answer of systemctl.  It can only succeed in
\* a machine that is up, and then it stopped the unit of that name: the task's own,
\* or, in a machine of a former daemon, perhaps the one of a former task with the
\* same id, and then nothing happens to this one.  If it fails, the request stays
\* recorded in the task.
CancelReturns(ok) ==
  /\ cancelling # None
  /\ ok => Answers(tasks[cancelling].machine_id)
  /\ \/ /\ ok
        /\ unit' = [unit EXCEPT ![cancelling] = CASE @ = "running"  -> "stopped"
                                                  [] @ = "orphaned" -> "done"
                                                  [] OTHER          -> @]
     \/ /\ ok => tasks[cancelling].machine_id \in held
        /\ UNCHANGED unit
  /\ cancelling' = None
  /\ UNCHANGED <<daemon, held, actorVars, events, nspawn, probe>>

-----------------------------------------------------------------------------
(***************************************************************************)
(* Events.                                                                 *)
(***************************************************************************)

ReadyEvent(m)           == [kind |-> "MachineReady", machine_id |-> m]
ProvisionFailedEvent(m) == [kind |-> "MachineProvisionFailed", machine_id |-> m]
ExitedEvent(m)          == [kind |-> "MachineExited", machine_id |-> m]
FinishedEvent(t, c)     == [kind |-> "TaskFinished", task_id |-> t, exit_code |-> c]

\* Mutant: the channel is drained for one event.
ReceiveAndDrain(e) ==
  /\ ActorReady
  /\ e \in events
  /\ events' = {}

Receive(e) ==
  /\ ActorReady
  /\ e \in events
  /\ events' = events \ {e}

MachineReady(m) ==
  LET ms == IF machines[m].state = "Absent" THEN machines
            ELSE [machines EXCEPT ![m].state = "Idle"]
  IN  /\ Receive(ReadyEvent(m))
      /\ \E pick \in Picks(ms, task_queue) :
           /\ machines' = AssignMachines(ms, task_queue, pick)
           /\ ScheduleTasks(tasks, task_queue, pick)
      /\ UNCHANGED <<daemon, held, target_size, next_machine_id, next_task_id, cancelling,
                     nspawn, probe>>

\* The record goes; the systemd-nspawn process is left alone.
MachineProvisionFailed(m) ==
  /\ Receive(ProvisionFailedEvent(m))
  /\ ReconcilePoolLogged([machines EXCEPT ![m] = AbsentMachine])
  /\ UNCHANGED <<daemon, held, target_size, next_task_id, tasks, task_queue, cancelling, unit>>

\* fail_task of the machine's current task: its machine has just been removed,
\* so only the task changes.
MachineExited(m) ==
  /\ Receive(ExitedEvent(m))
  /\ tasks' = [t \in TaskId |->
                 IF machines[m].current_task_id = t /\ tasks[t].state # "Absent"
                 THEN WithStatus(tasks[t], "Failed", tasks[t].machine_id, "none")
                 ELSE tasks[t]]
  /\ ReconcilePoolLogged([machines EXCEPT ![m] = AbsentMachine])
  /\ UNCHANGED <<daemon, held, target_size, next_task_id, task_queue, cancelling, unit>>

\* Mutant: the exit code is looked at before the cancellation request.
VerdictByCode(task, exit_code) ==
  CASE exit_code = "zero" -> "Succeeded"
    [] exit_code # "zero" /\ task.cancellation_requested -> "Cancelled"
    [] OTHER -> "Failed"

\* The state finish_task stores, whatever state the task had.
Verdict(task, exit_code) ==
  CASE task.cancellation_requested -> "Cancelled"
    [] ~task.cancellation_requested /\ exit_code = "zero" -> "Succeeded"
    [] OTHER -> "Failed"

\* Mutant: a finished task is dropped from the map.
FinishAndForget(t, c) == [tasks EXCEPT ![t] = AbsentTask]

\* finish_task on the tasks map, and on the machines map: the machine is freed
\* only if the task is still its current one.
FinishTask(t, c) ==
  IF tasks[t].state = "Absent" THEN tasks
  ELSE [tasks EXCEPT ![t] = WithStatus(tasks[t], Verdict(tasks[t], c), tasks[t].machine_id, c)]

\* Mutants: the freed machine keeps its task; it is not freed; it is used up.
FreeKeepsTask(t) ==
  [m \in MachineId |->
     IF machines[m].current_task_id = t THEN [machines[m] EXCEPT !.state = "Idle"]
     ELSE machines[m]]
FreeNothing(t) == machines
FreeByRemoval(t) ==
  [m \in MachineId |->
     IF machines[m].current_task_id = t THEN AbsentMachine ELSE machines[m]]

FreeMachine(t) ==
  [m \in MachineId |->
     IF /\ tasks[t].machine_id = m
        /\ machines[m].state # "Absent"
        /\ machines[m].current_task_id = t
     THEN [state |-> "Idle", current_task_id |-> None]
     ELSE machines[m]]

TaskFinished(t, c) ==
  /\ Receive(FinishedEvent(t, c))
  /\ \E pick \in Picks(FreeMachine(t), task_queue) :
       /\ ScheduleTasks(FinishTask(t, c), task_queue, pick)
       /\ ReconcilePoolLogged(AssignMachines(FreeMachine(t), task_queue, pick))
  /\ UNCHANGED <<daemon, held, target_size, next_task_id, cancelling>>

-----------------------------------------------------------------------------
(***************************************************************************)
(* The processes, and the tokio tasks that wait for them: each sends its   *)
(* event once.  Machines fail, the held ones counted, at most              *)
(* MaxMachines - PoolSize times, so that there is always an id left for    *)
(* the replacement.                                                        *)
(***************************************************************************)

FaultyMachines == {m \in MachineId : nspawn[m] = "exited" \/ probe[m] = "timedout"}

MayFail(m) == \/ m \in FaultyMachines \cup held
              \/ PoolSize + Cardinality(FaultyMachines \cup held) < MaxMachines

\* systemd-nspawn ends: a crash, a task that powers its machine off, or a name
\* that is taken (it may be given up in time by the machine that holds it).  An
\* orphaned unit ends with its machine, unless it may run in one of that name which
\* a former daemon left.
NspawnExits(m) ==
  /\ daemon = "serving"
  /\ nspawn[m] = "running"
  /\ MayFail(m)
  /\ nspawn' = [nspawn EXCEPT ![m] = "exited"]
  /\ unit' = [t \in TaskId |->
                IF unit[t] = "orphaned" /\ tasks[t].machine_id = m /\ m \notin held
                THEN "done" ELSE unit[t]]
  /\ events' = events \cup {ExitedEvent(m)}
  /\ UNCHANGED <<daemon, held, actorVars, cancelling, probe>>

\* wait_for_machine_ready returns Ok: a probe ran in a machine of that name.
ProbeSucceeds(m) ==
  /\ daemon = "serving"
  /\ probe[m] = "probing"
  /\ Answers(m)
  /\ probe' = [probe EXCEPT ![m] = "ready"]
  /\ events' = events \cup {ReadyEvent(m)}
  /\ UNCHANGED <<daemon, held, actorVars, cancelling, nspawn, unit>>

\* wait_for_machine_ready returns Err: boot_timeout is over.
ProbeTimesOut(m) ==
  /\ daemon = "serving"
  /\ probe[m] = "probing"
  /\ MayFail(m)
  /\ probe' = [probe EXCEPT ![m] = "timedout"]
  /\ events' = events \cup {ProvisionFailedEvent(m)}
  /\ UNCHANGED <<daemon, held, actorVars, cancelling, nspawn, unit>>

\* systemd-run of task t ends.  It reports 0 only for a program that ran to its end in
\* a machine that was up under that name.  Any other end may be one of systemd-run
\* alone, killed by a signal (then there is no code) or cut off from the machine:
\* a unit that runs is not stopped by that.
RunEnds(t, c) ==
  /\ daemon = "serving"
  /\ unit[t] \in {"running", "stopped"}
  /\ c = "zero" => /\ tasks[t].machine_id \in MachineId
                   /\ Answers(tasks[t].machine_id)
  /\ \/ unit' = [unit EXCEPT ![t] = "done"]
     \/ /\ c # "zero" /\ unit[t] = "running" /\ Answers(tasks[t].machine_id)
        /\ unit' = [unit EXCEPT ![t] = "orphaned"]
  /\ events' = events \cup {FinishedEvent(t, c)}
  /\ UNCHANGED <<daemon, held, actorVars, cancelling, nspawn, probe>>

\* An orphaned unit ends by itself: nobody waits for it.
UnitEnds(t) ==
  /\ daemon = "serving"
  /\ unit[t] = "orphaned"
  /\ unit' = [unit EXCEPT ![t] = "done"]
  /\ UNCHANGED <<daemon, held, actorVars, cancelling, events, nspawn, probe>>

-----------------------------------------------------------------------------
Command == \/ StartTask
           \/ \E t \in TaskId : CancelQueued(t) \/ CancelRunning(t)
           \/ \E ok \in BOOLEAN : CancelReturns(ok)

Event == \/ \E m \in MachineId : \/ MachineReady(m)
                                 \/ MachineProvisionFailed(m)
                                 \/ MachineExited(m)
         \/ \E t \in TaskId, c \in ExitCode : TaskFinished(t, c)

Process == \/ \E m \in MachineId : NspawnExits(m) \/ ProbeSucceeds(m) \/ ProbeTimesOut(m)
           \/ \E t \in TaskId, c \in ExitCode : RunEnds(t, c)
           \/ \E t \in TaskId : UnitEnds(t)

Next == ReconcilePool \/ Command \/ Event \/ Process

Spec == Init /\ [][Next]_vars

-----------------------------------------------------------------------------
(***************************************************************************)
(* Fairness.  tokio::select! polls its two channels in random order and    *)
(* the event channel is a FIFO, so as long as there are events the actor   *)
(* receives one; a stream of cancellations makes them receivable only      *)
(* again and again, hence SF.  systemctl, the readiness loop (its deadline *)
(* is boot_timeout) and the systemd-run of a stopped unit, or of a unit    *)
(* whose machine is gone, end.  Nothing is assumed of clients, of the      *)
(* failures of machines, or of the programs that tasks run.  Every event,  *)
(* probe and systemd-run happens once, so that fairness towards each of    *)
(* them is the same as fairness towards their union.                       *)
(***************************************************************************)
ActorFairness ==
  /\ WF_vars(ReconcilePool)
  /\ WF_vars(\E ok \in BOOLEAN : CancelReturns(ok))
  /\ SF_vars(Event)

RunMustEnd(t) == \/ unit[t] = "stopped"
                  \/ \E m \in MachineId : tasks[t].machine_id = m /\ ~Answers(m)

ProcessFairness ==
  /\ WF_vars(\E m \in MachineId : ProbeSucceeds(m) \/ ProbeTimesOut(m))
  /\ WF_vars(\E t \in TaskId, c \in ExitCode : RunMustEnd(t) /\ RunEnds(t, c))

FairSpec == Spec /\ ActorFairness /\ ProcessFairness

\* Every program that a task runs ends by itself, and the systemd-run with it.
ProgramsEnd == WF_vars(\E t \in TaskId, c \in ExitCode : RunEnds(t, c))

-----------------------------------------------------------------------------
(***************************************************************************)
(* Safety.                                                                 *)
(***************************************************************************)

\* The machines map and the tasks map tell the same story: a machine is Busy
\* exactly with the task that is Running on it, whatever order cancellations,
\* exits and results come in (assign_task, fail_task, finish_task).
PlacementConsistent ==
  /\ \A m \in MachineId :
       machines[m].state = "Busy" <=> machines[m].current_task_id # None
  /\ \A t \in TaskId, m \in MachineId :
       machines[m].current_task_id = t
         <=> tasks[t].state = "Running" /\ tasks[t].machine_id = m
  /\ \A t \in TaskId : tasks[t].state = "Running" => tasks[t].machine_id # None

\* The queue holds the tasks that are Queued, each once, in the order of their
\* submission: a cancelled task is never left in it, a waiting one never lost.
QueueExact ==
  /\ \A i, j \in DOMAIN task_queue : i < j => task_queue[i] < task_queue[j]
  /\ \A t \in TaskId : tasks[t].state = "Queued"
                         <=> \E i \in DOMAIN task_queue : task_queue[i] = t

\* No task waits while a machine is idle: every handler that frees a machine or
\* queues a task calls schedule_queued_tasks.
WorkConserving ==
  task_queue # <<>> => \A m \in MachineId : machines[m].state # "Idle"

\* While the daemon serves, the pool has exactly target_size records: each one
\* that is removed is replaced, even by one whose process could not be spawned,
\* and none is added on top (reconcile_pool_internal).
PoolSizeKept ==
  daemon = "serving" =>
    Cardinality({m \in MachineId : machines[m].state # "Absent"}) = target_size

\* As long as the unit of a task runs, or its systemd-run goes on, its machine is not
\* given to another task, neither after a cancellation that was answered nor after a
\* failure.  There is one way for two tasks of a daemon to run in one machine at a
\* time: the systemd-run of the first ended without success and left the unit behind,
\* and finish_task, which has no way to know, settled the task and freed the machine.
\* (What runs in a machine of a former daemon is not spoken of.)
MachinesExclusive ==
  \A t \in TaskId, m \in MachineId :
    /\ unit[t] \in {"running", "stopped", "orphaned"}
    /\ tasks[t].machine_id = m
    => \/ machines[m].current_task_id = t
       \/ machines[m].state = "Absent"
       \/ /\ unit[t] = "orphaned"
          /\ tasks[t].state \in {"Failed", "Cancelled"} /\ tasks[t].exit_code # "zero"

\* Each record that is not settled has something that will settle it: a Running
\* task a systemd-run or its result, a Provisioning machine that has a process a
\* probe or its outcome, a machine whose process ended its exit event.
NothingForgotten ==
  daemon = "serving" =>
    /\ \A t \in TaskId : tasks[t].state = "Running" =>
         \/ unit[t] \in {"running", "stopped"}
         \/ \E c \in ExitCode : FinishedEvent(t, c) \in events
    /\ \A m \in MachineId : machines[m].state = "Provisioning" =>
         \/ probe[m] \in {"none", "probing"}
         \/ ReadyEvent(m) \in events
         \/ ProvisionFailedEvent(m) \in events
    /\ \A m \in MachineId : machines[m].state # "Absent" /\ nspawn[m] = "exited"
         => ExitedEvent(m) \in events

\* A systemd-nspawn that runs without a record is one whose boot timed out: that
\* handler forgets the machine without stopping it, and is the only one that does.
LeakOnlyByBootTimeout ==
  \A m \in MachineId :
    nspawn[m] = "running" /\ machines[m].state = "Absent" => probe[m] = "timedout"

\* What a task's state says agrees with its exit code and with the requests of
\* its clients (finish_task, fail_task, handle_cancel_task).
VerdictsJustified ==
  \A t \in TaskId :
    CASE tasks[t].state = "Succeeded" ->
           tasks[t].exit_code = "zero" /\ ~tasks[t].cancellation_requested
      [] tasks[t].state = "Failed" -> tasks[t].exit_code # "zero"
      [] tasks[t].state = "Cancelled" ->
           tasks[t].machine_id = None <=> ~tasks[t].cancellation_requested
      [] OTHER -> tasks[t].exit_code = "none"

-----------------------------------------------------------------------------
(***************************************************************************)
(* What a step may never do.                                               *)
(***************************************************************************)

\* Tasks start in the order of their submission: none overtakes a task that is
\* still queued (executes_tasks_in_fifo_order).
FifoStart ==
  [][\A t, u \in TaskId :
       /\ tasks[t].state # "Running" /\ tasks'[t].state = "Running"
       /\ u < t
       => tasks'[u].state # "Queued"]_vars

\* A verdict is final, with one exception: the late result of a task that was
\* failed because its machine exited replaces that verdict.  No task with a
\* verdict is ever queued or run again.
FinalVerdicts ==
  [][\A t \in TaskId :
       tasks[t].state \in TerminalState =>
         /\ tasks'[t].state \in TerminalState
         /\ tasks'[t] # tasks[t] =>
              /\ tasks[t].state = "Failed" /\ tasks[t].exit_code = "none"
              /\ machines[tasks[t].machine_id].state = "Absent"]_vars

\* Clients stop polling a task at its first terminal state (is_terminal_task_state
\* in the client), which supposes that terminal states do not change.
TerminalIsFinal ==
  [][\A t \in TaskId :
       tasks[t].state \in TerminalState => tasks'[t].state = tasks[t].state]_vars

-----------------------------------------------------------------------------
(***************************************************************************)
(* Liveness.                                                               *)
(***************************************************************************)

\* Machines fail finitely often in a behaviour; after the last failure the pool
\* of a daemon that did start comes back to PoolSize machines that are up and
\* ready, and stays so (replaces_failed_machine_to_keep_pool_size).
PoolRecovers ==
  <>[](\/ daemon = "exited"
       \/ PoolSize = Cardinality({m \in MachineId : /\ machines[m].state \in {"Idle", "Busy"}
                                                    /\ nspawn[m] = "running"}))

\* A task whose machine died gets a verdict, even if it was started on a machine
\* that was dead already and whatever its program does.
LostTaskEnds ==
  \A t \in TaskId :
    (\E m \in MachineId : /\ tasks[t].state = "Running"
                          /\ tasks[t].machine_id = m
                          /\ nspawn[m] = "exited")
      ~> tasks[t].state \in TerminalState

\* A cancellation that stopped the unit of a task ends in Cancelled, also when
\* its machine fails meanwhile.
CancelTakesEffect ==
  \A t \in TaskId : unit[t] = "stopped" ~> tasks[t].state = "Cancelled"

\* When programs end, every accepted task gets a verdict: none is stuck in the
\* queue or on a machine.
TasksGetVerdicts ==
  ProgramsEnd => \A t \in TaskId :
    tasks[t].state = "Queued" ~> tasks[t].state \in TerminalState

-----------------------------------------------------------------------------
(***************************************************************************)
(* The promise to the clients.                                             *)
(***************************************************************************)

\* A task that was failed with its machine may report as long as its systemd-run
\* goes on or its result is on its way.
MayReport(t) ==
  /\ tasks[t].state = "Failed"
  /\ \/ unit[t] \in {"running", "stopped"}
     \/ \E c \in ExitCode : FinishedEvent(t, c) \in events

Service == INSTANCE TaskService
  WITH Slots     <- PoolSize,
       status    <- [t \in TaskId |-> tasks[t].state],
       requested <- {t \in TaskId : tasks[t].cancellation_requested},
       lost      <- {t \in TaskId : MayReport(t)}

\* The backend keeps the promise of TaskService whatever its machines do: each
\* handler, with all that it schedules, is one of the steps allowed there.
ImplementsTaskService == Service!Spec

=============================================================================
