---------------------------- MODULE BackendLoops ----------------------------
(***************************************************************************)
(* The loops of BackendActor, one turn per step: schedule_queued_tasks,    *)
(* reconcile_pool_internal, and the retain of handle_cancel_task.          *)
(* NspawnBackend states what a whole loop does as one step; this module    *)
(* shows that the loops do that, for every pool and queue within the       *)
(* bounds, also those with many idle machines and many queued tasks at     *)
(* once, which no handler leaves behind.                                   *)
(***************************************************************************)
EXTENDS Naturals, Sequences, FiniteSets

CONSTANTS PoolSize, MaxTasks, MaxMachines, SpawnMayFail, Held  \* as in NspawnBackend

ASSUME LoopBounds == PoolSize \in Nat /\ MaxTasks \in Nat /\ MaxMachines \in Nat

VARIABLES
  loop,      \* the loop that runs, or "done"
  before,    \* the state when it began
  removing,  \* the task that retain takes out of the queue
  position,  \* how far retain is: the position in the queue it looks at
  machines, tasks, task_queue, next_machine_id, nspawn, probe, unit

state == [machines |-> machines, tasks |-> tasks, task_queue |-> task_queue,
          next_machine_id |-> next_machine_id, nspawn |-> nspawn, probe |-> probe,
          unit |-> unit]

stateVars == <<machines, tasks, task_queue, next_machine_id, nspawn, probe, unit>>

loopVars == <<before, removing, position>>

vars == <<loop, loopVars, stateVars>>

\* The actor handles nothing else while a loop runs, so the others see the state
\* from before the loop until it is done.
Shown == IF loop = "done" THEN state ELSE before

Backend == INSTANCE NspawnBackend
  WITH daemon <- "serving", held <- Held, target_size <- PoolSize, next_task_id <- MaxTasks,
       cancelling <- 0, events <- {},
       machines <- Shown.machines, tasks <- Shown.tasks,
       task_queue <- Shown.task_queue, next_machine_id <- Shown.next_machine_id,
       nspawn <- Shown.nspawn, probe <- Shown.probe, unit <- Shown.unit

MachineId == Backend!MachineId
TaskId    == Backend!TaskId

\* Any tasks are queued, in the order of their ids, and any machines of the first
\* next_machine_id ones have a record.
Init ==
  /\ next_machine_id \in 0..MaxMachines
  /\ \E states \in [1..next_machine_id -> {"Absent", "Provisioning", "Idle"}] :
       machines = [m \in MachineId |->
                     [state |-> IF m <= next_machine_id THEN states[m] ELSE "Absent",
                      current_task_id |-> Backend!None]]
  /\ \E n \in 0..MaxTasks : task_queue \in [1..n -> TaskId]
  /\ \A i, j \in DOMAIN task_queue : i < j => task_queue[i] < task_queue[j]
  /\ tasks = [t \in TaskId |->
                IF \E i \in DOMAIN task_queue : task_queue[i] = t
                THEN Backend!WithStatus(Backend!AbsentTask, "Queued", Backend!None, "none")
                ELSE Backend!AbsentTask]
  /\ nspawn = [m \in MachineId |-> IF m <= next_machine_id THEN "running" ELSE "none"]
  /\ probe = [m \in MachineId |-> IF m <= next_machine_id THEN "ready" ELSE "none"]
  /\ unit = [t \in TaskId |-> "none"]
  /\ before = state
  /\ position = 1
  /\ \/ loop \in {"schedule", "reconcile"} /\ removing = Backend!None
     \/ loop = "retain" /\ \E t \in TaskId : tasks[t].state = "Queued" /\ removing = t

Done == loop' = "done" /\ UNCHANGED loopVars

-----------------------------------------------------------------------------
\* schedule_queued_tasks takes the first queued task and the first idle machine,
\* in the order of the BTreeMap, and assigns one to the other ...
AssignTask ==
  \E m \in MachineId :
    /\ loop = "schedule"
    /\ task_queue # <<>>
    /\ machines[m].state = "Idle"
    /\ \A other \in MachineId : machines[other].state = "Idle" => m <= other
    /\ LET t == Head(task_queue)
       IN  /\ machines' = [machines EXCEPT ![m] = [state |-> "Busy", current_task_id |-> t]]
           /\ tasks' = [tasks EXCEPT ![t] = Backend!WithStatus(@, "Running", m, "none")]
           /\ unit' = [unit EXCEPT ![t] = "running"]
    /\ task_queue' = Tail(task_queue)
    /\ UNCHANGED <<loop, loopVars, next_machine_id, nspawn, probe>>

\* ... until one of them is missing; the task goes back to the front.
ScheduleEnds ==
  /\ loop = "schedule"
  /\ task_queue = <<>> \/ \A m \in MachineId : machines[m].state # "Idle"
  /\ Done
  /\ UNCHANGED stateVars

-----------------------------------------------------------------------------
Active == Cardinality({m \in MachineId :
                         machines[m].state \in {"Provisioning", "Idle", "Busy"}})

\* A turn of reconcile_pool_internal: spawn_machine inserts the record, then
\* starts the process; an error ends the loop.
SpawnMachine(ok) ==
  LET id == next_machine_id + 1
  IN  /\ loop = "reconcile"
      /\ Active < PoolSize
      /\ id \in MachineId
      /\ ok \/ SpawnMayFail
      /\ next_machine_id' = id
      /\ machines' = [machines EXCEPT ![id] = [state |-> "Provisioning",
                                               current_task_id |-> Backend!None]]
      /\ nspawn' = IF ok THEN [nspawn EXCEPT ![id] = "running"] ELSE nspawn
      /\ probe' = IF ok THEN [probe EXCEPT ![id] = "probing"] ELSE probe
      /\ IF ok THEN UNCHANGED <<loop, loopVars>> ELSE Done
      /\ UNCHANGED <<tasks, task_queue, unit>>

ReconcileEnds ==
  /\ loop = "reconcile"
  /\ Active >= PoolSize
  /\ Done
  /\ UNCHANGED stateVars

-----------------------------------------------------------------------------
\* A turn of task_queue.retain(|queued| queued != task_id): the id it looks at
\* stays, or goes and the ids behind it move up.
RetainTurn ==
  /\ loop = "retain"
  /\ position <= Len(task_queue)
  /\ \/ /\ task_queue[position] # removing
        /\ position' = position + 1
        /\ UNCHANGED task_queue
     \/ /\ task_queue[position] = removing
        /\ task_queue' = [i \in 1..(Len(task_queue) - 1) |->
                           IF i < position THEN task_queue[i] ELSE task_queue[i + 1]]
        /\ UNCHANGED position
  /\ UNCHANGED <<loop, before, removing, machines, tasks, next_machine_id, nspawn, probe, unit>>

RetainEnds ==
  /\ loop = "retain"
  /\ position > Len(task_queue)
  /\ Done
  /\ UNCHANGED stateVars

Next == \/ AssignTask \/ ScheduleEnds
        \/ (\E ok \in BOOLEAN : SpawnMachine(ok)) \/ ReconcileEnds
        \/ RetainTurn \/ RetainEnds

Spec == Init /\ [][Next]_vars

-----------------------------------------------------------------------------
\* Each loop comes to what NspawnBackend has as one step.  Pairing tasks and
\* machines one by one ends in the one pick that is allowed there, with its
\* machines, tasks, queue and units (schedule_queued_tasks).  Counting the records
\* again before each turn, and failing in any of them, is a step of
\* ReconcilePoolLogged (reconcile_pool_internal).  With its id queued only once,
\* retain takes one position out of the queue and keeps the order of the others
\* (handle_cancel_task).
LoopsAreOneStep ==
  [][/\ (loop = "schedule" /\ loop' = "done") =>
          \E pick \in Backend!Picks(before.machines, before.task_queue) :
            /\ Backend!Picks(before.machines, before.task_queue) = {pick}
            /\ machines' = Backend!AssignMachines(before.machines, before.task_queue, pick)
            /\ Backend!ScheduleTasks(before.tasks, before.task_queue, pick)
     /\ (loop = "reconcile" /\ loop' = "done") =>
          Backend!ReconcilePoolLogged(before.machines)
     /\ (loop = "retain" /\ loop' = "done") =>
          task_queue' = Backend!Without(before.task_queue, removing)]_vars

=============================================================================
