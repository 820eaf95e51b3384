----------------------- MODULE NspawnBackendStepProofs -----------------------
(***************************************************************************)
(* What a step of NspawnBackend does to the tasks, from the invariants of  *)
(* NspawnBackendProofs: what it never does to a verdict or to the order of *)
(* starts, and that it is a step of TaskService.                           *)
(***************************************************************************)
EXTENDS NspawnBackendProofs

-----------------------------------------------------------------------------
(***************************************************************************)
(* What each step does to a task, by the state the task had.               *)
(***************************************************************************)

\* Scheduling touches only tasks of the queue.
LEMMA ScheduleTouchesQueued ==
  ASSUME NEW ms, NEW ts \in [TaskId -> TaskRecord], NEW q \in Seq(TaskId),
         NEW pick \in Picks(ms, q), Ascending(q), ScheduleTasks(ts, q, pick),
         NEW t \in TaskId, \A i \in DOMAIN q : q[i] # t
  PROVE  tasks'[t] = ts[t]
<1>1. Len(pick) \in 0..Len(q) /\ DOMAIN q = 1..Len(q) /\ DOMAIN pick = 1..Len(pick)
  BY PickFacts
<1>2. \A i \in DOMAIN pick : q[i] # t
  BY <1>1
<1>3. AssignTasks(ts, q, pick)[t] = ts[t]
  BY <1>2 DEF AssignTasks
<1>4. QED BY <1>3 DEF ScheduleTasks

\* Tasks that start together with tasks that stay queued precede them.
LEMMA ScheduleInOrder ==
  ASSUME NEW ms, NEW ts \in [TaskId -> TaskRecord], NEW q \in Seq(TaskId),
         NEW pick \in Picks(ms, q), Ascending(q), ScheduleTasks(ts, q, pick),
         QueueOf(ts, q),
         NEW t \in TaskId, NEW u \in TaskId,
         ts[t].state # "Running", tasks'[t].state = "Running", u < t
  PROVE  tasks'[u].state # "Queued"
<1>1. /\ Len(pick) \in 0..Len(q) /\ DOMAIN q = 1..Len(q) /\ Len(q) \in Nat
      /\ \A i \in 1..Len(q) : q[i] \in Nat
      /\ t \in Nat /\ u \in Nat
  BY PickFacts, ConstantsAreNumbers DEF TaskId
<1>2. /\ \A i \in 1..Len(pick) : tasks'[q[i]].state = "Running"
      /\ \A v \in TaskId : (\A i \in 1..Len(pick) : q[i] # v) => tasks'[v] = ts[v]
  <2> DEFINE after == AssignTasks(ts, q, pick)
  <2>1. ASSUME NEW i \in 1..Len(pick)
        PROVE  /\ after[q[i]].state = "Running"
               /\ after[q[i]].machine_id = pick[i]
               /\ after[q[i]].exit_code = "none"
    <3>1. ts \in [TaskId -> TaskRecord] /\ q \in Seq(TaskId) /\ Ascending(q)
      OBVIOUS
    <3>2. QED BY <3>1, AssignTasksFacts
  <2>2. ASSUME NEW v \in TaskId, \A i \in 1..Len(pick) : q[i] # v
        PROVE  after[v] = ts[v]
    <3>1. \A i \in DOMAIN pick : q[i] # v
      BY <2>2, PickFacts
    <3>2. QED BY <3>1 DEF AssignTasks
  <2>3. tasks' = after
    BY DEF ScheduleTasks
  <2> HIDE DEF after
  <2>4. QED BY <2>1, <2>2, <2>3
<1>3. PICK i \in 1..Len(pick) : q[i] = t
  BY <1>2
<1>4. SUFFICES ASSUME tasks'[u].state = "Queued" PROVE FALSE
  OBVIOUS
<1>5. tasks'[u] = ts[u] /\ \A j \in 1..Len(pick) : q[j] # u
  BY <1>2, <1>4
<1>6. PICK j \in 1..Len(q) : q[j] = u
  BY <1>1, <1>4, <1>5 DEF QueueOf
<1>7. i < j
  BY <1>1, <1>5, <1>6
<1>8. q[i] < q[j]
  <2>1. i \in DOMAIN q /\ j \in DOMAIN q
    BY <1>1
  <2>2. QED BY <2>1, <1>7 DEF Ascending
<1>9. QED BY <1>1, <1>3, <1>6, <1>8

\* FinalVerdicts and FifoStart of one step.
KeepsVerdicts ==
  \A t \in TaskId :
    tasks[t].state \in TerminalState =>
      /\ tasks'[t].state \in TerminalState
      /\ tasks'[t] # tasks[t] =>
           /\ tasks[t].state = "Failed" /\ tasks[t].exit_code = "none"
           /\ machines[tasks[t].machine_id].state = "Absent"

StartsInOrder ==
  \A t, u \in TaskId :
    /\ tasks[t].state # "Running" /\ tasks'[t].state = "Running"
    /\ u < t
    => tasks'[u].state # "Queued"

\* A step that only changes tasks that have no verdict yet, and starts none.
LEMMA QuietStep ==
  ASSUME \A t \in TaskId : tasks[t].state \in TerminalState => tasks'[t] = tasks[t],
         \A t \in TaskId : tasks'[t].state = "Running" => tasks[t].state = "Running"
  PROVE  KeepsVerdicts /\ StartsInOrder
BY DEF KeepsVerdicts, StartsInOrder

\* A verdict is none of the states before it.
LEMMA TerminalIsNot ==
  ASSUME NEW s \in TerminalState
  PROVE  s \notin {"Absent", "Queued", "Running"}
BY DEF TerminalState

\* The queue that a handler leaves to the scheduler, and the tasks in it.
LEMMA QueueParts ==
  ASSUME IInv
  PROVE  /\ task_queue \in Seq(TaskId)
         /\ Ascending(task_queue)
         /\ QueueOf(tasks, task_queue)
         /\ \A t \in TaskId : tasks[t].state = "Queued"
                                <=> \E i \in DOMAIN task_queue : task_queue[i] = t
BY SoundParts DEF TypesOf, QueueOf

\* The new task has no verdict yet and stands behind the others.
LEMMA StartTaskStep ==
  ASSUME IInv, StartTask
  PROVE  KeepsVerdicts /\ StartsInOrder
<1> DEFINE id == next_task_id + 1
           new == WithStatus(AbsentTask, "Queued", None, "none")
           ts == [tasks EXCEPT ![id] = new]
           q  == Enqueue(task_queue, id)
<1>1. /\ id \in TaskId
      /\ new \in TaskRecord /\ new.state = "Queued"
      /\ tasks[id].state = "Absent"
  <2>1. id \in TaskId /\ id > next_task_id
    BY SoundParts DEF StartTask
  <2>2. new \in TaskRecord /\ new.state = "Queued"
    BY DEF WithStatus, AbsentTask, TaskRecord, TaskState, ExitCode
  <2>3. tasks[id].state = "Absent"
    BY <2>1, SoundParts DEF TypesOf
  <2>4. QED BY <2>1, <2>2, <2>3
<1>2. PICK pick \in Picks(machines, q) : ScheduleTasks(ts, q, pick)
  BY DEF StartTask
<1>3. /\ ts \in [TaskId -> TaskRecord]
      /\ ts[id] = new
      /\ \A t \in TaskId : t # id => ts[t] = tasks[t]
  BY <1>1, SoundParts
<1>4. /\ q \in Seq(TaskId)
      /\ DOMAIN q = 1..(Len(task_queue) + 1)
      /\ DOMAIN task_queue = 1..Len(task_queue) /\ Len(task_queue) \in Nat
      /\ \A i \in 1..Len(task_queue) : q[i] = task_queue[i]
      /\ q[Len(task_queue) + 1] = id
  BY <1>1, QueueParts DEF Enqueue
<1>5. \A i \in 1..Len(task_queue) : task_queue[i] \in TaskId /\ task_queue[i] < id
  <2>1. SUFFICES ASSUME NEW i \in 1..Len(task_queue)
                 PROVE  task_queue[i] \in TaskId /\ task_queue[i] < id
    OBVIOUS
  <2>2. task_queue[i] \in TaskId /\ tasks[task_queue[i]].state = "Queued"
    BY <1>4, QueueParts
  <2>3. ~(task_queue[i] > next_task_id)
    BY <2>2, SoundParts DEF TypesOf
  <2>4. QED BY <2>2, <2>3, SoundParts
<1> HIDE DEF id, new, ts, q
<1>6. \A i \in DOMAIN q : \/ i \in 1..Len(task_queue)
                          \/ i = Len(task_queue) + 1
  BY <1>4
<1>7. Ascending(q)
  <2>1. \A i \in 1..Len(task_queue) : task_queue[i] \in Nat
    BY <1>5, SoundParts
  <2>2. id \in Nat
    BY <1>1, SoundParts
  <2>3. QED BY <2>1, <2>2, <1>4, <1>5, <1>6, QueueParts DEF Ascending
<1>8. \A t \in TaskId : ts[t].state = "Queued" <=> \E i \in DOMAIN q : q[i] = t
  <2>1. \A t \in TaskId : (\E i \in DOMAIN q : q[i] = t)
          <=> t = id \/ \E i \in DOMAIN task_queue : task_queue[i] = t
    <3>1. Len(task_queue) + 1 \in DOMAIN q
          /\ \A i \in 1..Len(task_queue) : i \in DOMAIN q
      BY <1>4
    <3>2. QED BY <3>1, <1>4, <1>6
  <2>2. QED BY <2>1, <1>1, <1>3, QueueParts
<1>9. QueueOf(ts, q)
  BY <1>7, <1>8 DEF QueueOf
<1>10. KeepsVerdicts
  <2>1. SUFFICES ASSUME NEW t \in TaskId, tasks[t].state \in TerminalState
                 PROVE  tasks'[t] = tasks[t]
    BY DEF KeepsVerdicts
  <2>2. t # id /\ tasks[t].state # "Queued"
    BY <2>1, <1>1, TerminalIsNot
  <2>3. ts[t] = tasks[t] /\ \A i \in DOMAIN q : q[i] # t
    BY <2>2, <1>3, <1>8
  <2>4. tasks'[t] = ts[t]
    BY <2>3, <1>2, <1>3, <1>4, <1>7, ScheduleTouchesQueued
  <2>5. QED BY <2>3, <2>4
<1>11. StartsInOrder
  <2>1. SUFFICES ASSUME NEW t \in TaskId, NEW u \in TaskId,
                        tasks[t].state # "Running", tasks'[t].state = "Running", u < t
                 PROVE  tasks'[u].state # "Queued"
    BY DEF StartsInOrder
  <2>2. ts[t].state # "Running"
    BY <2>1, <1>1, <1>3
  <2>3. QED BY <2>1, <2>2, <1>2, <1>3, <1>4, <1>7, <1>9, ScheduleInOrder
<1>12. QED BY <1>10, <1>11

\* The task that gets its verdict was Queued, and none starts.
LEMMA CancelQueuedStep ==
  ASSUME IInv, NEW c \in TaskId, CancelQueued(c)
  PROVE  KeepsVerdicts /\ StartsInOrder
<1> DEFINE new == WithStatus(tasks[c], "Cancelled", tasks[c].machine_id, "none")
<1>1. tasks[c].state = "Queued" /\ tasks' = [tasks EXCEPT ![c] = new]
  BY DEF CancelQueued
<1>2. new.state = "Cancelled"
  BY DEF WithStatus
<1>3. tasks \in [TaskId -> TaskRecord]
  BY SoundParts
<1> HIDE DEF new
<1>4. tasks'[c] = new /\ \A t \in TaskId : t # c => tasks'[t] = tasks[t]
  BY <1>1, <1>3
<1>5. \A t \in TaskId : tasks[t].state \in TerminalState => tasks'[t] = tasks[t]
  BY <1>1, <1>4, TerminalIsNot
<1>6. \A t \in TaskId : tasks'[t].state = "Running" => tasks[t].state = "Running"
  BY <1>2, <1>4
<1>7. QED BY <1>5, <1>6, QuietStep

\* No state changes.
LEMMA CancelRunningStep ==
  ASSUME IInv, NEW c \in TaskId, CancelRunning(c)
  PROVE  KeepsVerdicts /\ StartsInOrder
<1>1. tasks[c].state = "Running" /\ tasks' = [tasks EXCEPT ![c].cancellation_requested = TRUE]
  BY DEF CancelRunning
<1>2. tasks \in [TaskId -> TaskRecord]
  BY SoundParts
<1>3. \A t \in TaskId : t # c => tasks'[t] = tasks[t]
  BY <1>1, <1>2
<1>4. \A t \in TaskId : tasks[t].state \in TerminalState => tasks'[t] = tasks[t]
  BY <1>1, <1>3, TerminalIsNot
<1>5. \A t \in TaskId : tasks'[t].state = "Running" => tasks[t].state = "Running"
  BY <1>1, <1>3
<1>6. QED BY <1>4, <1>5, QuietStep

\* Only the scheduler changes tasks.
LEMMA MachineReadyStep ==
  ASSUME IInv, NEW r \in MachineId, MachineReady(r)
  PROVE  KeepsVerdicts /\ StartsInOrder
<1> DEFINE ms == IF machines[r].state = "Absent" THEN machines
                 ELSE [machines EXCEPT ![r].state = "Idle"]
<1>1. PICK pick \in Picks(ms, task_queue) : ScheduleTasks(tasks, task_queue, pick)
  BY DEF MachineReady
<1> HIDE DEF ms
<1>2. tasks \in [TaskId -> TaskRecord]
  BY SoundParts
<1>3. KeepsVerdicts
  <2>1. SUFFICES ASSUME NEW t \in TaskId, tasks[t].state \in TerminalState
                 PROVE  tasks'[t] = tasks[t]
    BY DEF KeepsVerdicts
  <2>2. \A i \in DOMAIN task_queue : task_queue[i] # t
    BY <2>1, TerminalIsNot, QueueParts
  <2>3. QED BY <2>2, <1>1, <1>2, QueueParts, ScheduleTouchesQueued
<1>4. StartsInOrder
  <2>1. SUFFICES ASSUME NEW t \in TaskId, NEW u \in TaskId,
                        tasks[t].state # "Running", tasks'[t].state = "Running", u < t
                 PROVE  tasks'[u].state # "Queued"
    BY DEF StartsInOrder
  <2>2. QED BY <2>1, <1>1, <1>2, QueueParts, ScheduleInOrder
<1>5. QED BY <1>3, <1>4

\* The task that fails was Running; then the scheduler runs.
LEMMA MachineExitedStep ==
  ASSUME IInv, NEW r \in MachineId, MachineExited(r)
  PROVE  KeepsVerdicts /\ StartsInOrder
<1> DEFINE Failing(t) == machines[r].current_task_id = t
<1>1. \A t \in TaskId : Failing(t) => tasks[t].state = "Running"
  BY SoundParts DEF PlacementOf
<1>2. \A t \in TaskId : ~Failing(t) => tasks'[t] = tasks[t]
  BY DEF MachineExited
<1>3. \A t \in TaskId : tasks[t].state \in TerminalState => tasks'[t] = tasks[t]
  BY <1>1, <1>2, TerminalIsNot
<1>4. \A t \in TaskId : tasks'[t].state = "Running" => tasks[t].state = "Running"
  BY <1>1, <1>2
<1>5. QED BY <1>3, <1>4, QuietStep

\* The one step that may touch a verdict: the late result of a lost task.
LEMMA TaskFinishedStep ==
  ASSUME IInv, NEW f \in TaskId, NEW c \in ExitCode, TaskFinished(f, c)
  PROVE  KeepsVerdicts /\ StartsInOrder
<1> DEFINE ts  == FinishTask(f, c)
           new == WithStatus(tasks[f], Verdict(tasks[f], c), tasks[f].machine_id, c)
<1>1. PICK pick \in Picks(FreeMachine(f), task_queue) : ScheduleTasks(ts, task_queue, pick)
  BY DEF TaskFinished
<1>2. /\ Pending(f, unit, events)
      /\ unit[f] \in {"orphaned", "done"}
      /\ tasks[f].state \notin {"Absent", "Queued"}
  <2>1. FinishedEvent(f, c) \in events
    BY DEF TaskFinished, Receive
  <2>2. QED BY <2>1, SoundParts DEF UnitsOf, Pending
<1>3. /\ tasks[f].cancellation_requested \in BOOLEAN
      /\ tasks[f].machine_id \in MachineId \cup {None}
  BY SoundParts, TaskFields
<1>4. /\ new \in TaskRecord
      /\ new.state = Verdict(tasks[f], c)
  <2> DEFINE verdict == Verdict(tasks[f], c)
             task    == tasks[f]
             place   == tasks[f].machine_id
             result  == WithStatus(task, verdict, place, c)
  <2>1. verdict \in TaskState
    BY <1>3, VerdictFacts
  <2>2. task.cancellation_requested \in BOOLEAN /\ place \in MachineId \cup {None}
    BY <1>3
  <2> HIDE DEF verdict, task, place
  <2>3. result \in TaskRecord /\ result.state = verdict
    BY <2>1, <2>2, SMTT(30) DEF WithStatus, TaskRecord, TaskState
  <2>4. QED BY <2>3 DEF verdict, task, place
<1>5. new.state \in TerminalState
  BY <1>3, <1>4, VerdictFacts
<1>6. ts = [tasks EXCEPT ![f] = new]
  BY <1>2 DEF FinishTask
<1> HIDE DEF new
<1>7. /\ ts \in [TaskId -> TaskRecord]
      /\ ts[f] = new
      /\ \A t \in TaskId : t # f => ts[t] = tasks[t]
  BY <1>4, <1>6, SoundParts
<1> HIDE DEF ts
<1>8. \A t \in TaskId : ts[t].state = "Queued" <=> tasks[t].state = "Queued"
  BY <1>2, <1>5, <1>7, TerminalIsNot
<1>9. QueueOf(ts, task_queue)
  BY <1>8, QueueParts DEF QueueOf
<1>10. ASSUME NEW t \in TaskId, tasks[t].state # "Queued"
       PROVE  tasks'[t] = ts[t]
  <2>1. \A i \in DOMAIN task_queue : task_queue[i] # t
    BY <1>10, QueueParts
  <2>2. QED BY <2>1, <1>1, <1>7, QueueParts, ScheduleTouchesQueued
<1>11. KeepsVerdicts
  <2>1. SUFFICES ASSUME NEW t \in TaskId, tasks[t].state \in TerminalState
                 PROVE  /\ tasks'[t].state \in TerminalState
                        /\ tasks'[t] # tasks[t] =>
                             /\ tasks[t].state = "Failed" /\ tasks[t].exit_code = "none"
                             /\ machines[tasks[t].machine_id].state = "Absent"
    BY DEF KeepsVerdicts
  <2>2. tasks[t].state # "Running" /\ tasks'[t] = ts[t]
    BY <2>1, <1>10, TerminalIsNot
  <2>3. CASE t = f
    <3>1. LostMachine(f, machines, tasks)
      BY <2>2, <2>3, <1>2, SoundParts DEF UnitsOf
    <3>2. QED BY <3>1, <2>2, <2>3, <1>5, <1>7 DEF LostMachine
  <2>4. CASE t # f
    BY <2>1, <2>2, <2>4, <1>7
  <2>5. QED BY <2>3, <2>4
<1>12. StartsInOrder
  <2>1. SUFFICES ASSUME NEW t \in TaskId, NEW u \in TaskId,
                        tasks[t].state # "Running", tasks'[t].state = "Running", u < t
                 PROVE  tasks'[u].state # "Queued"
    BY DEF StartsInOrder
  <2>2. ts[t].state # "Running"
    BY <2>1, <1>5, <1>7, TerminalIsNot
  <2>3. QED BY <2>1, <2>2, <1>1, <1>7, <1>9, QueueParts, ScheduleInOrder
<1>13. QED BY <1>11, <1>12

\* What a step never does to a task, for every step.
LEMMA StepFacts ==
  ASSUME IInv, [Next]_vars
  PROVE  KeepsVerdicts /\ StartsInOrder
<1>1. CASE UNCHANGED tasks
  BY <1>1, QuietStep
<1>2. CASE StartTask
  BY <1>2, StartTaskStep
<1>3. ASSUME NEW t \in TaskId, CancelQueued(t) PROVE KeepsVerdicts /\ StartsInOrder
  BY <1>3, CancelQueuedStep
<1>4. ASSUME NEW t \in TaskId, CancelRunning(t) PROVE KeepsVerdicts /\ StartsInOrder
  BY <1>4, CancelRunningStep
<1>5. ASSUME NEW m \in MachineId, MachineReady(m) PROVE KeepsVerdicts /\ StartsInOrder
  BY <1>5, MachineReadyStep
<1>6. ASSUME NEW m \in MachineId, MachineExited(m) PROVE KeepsVerdicts /\ StartsInOrder
  BY <1>6, MachineExitedStep
<1>7. ASSUME NEW t \in TaskId, NEW c \in ExitCode, TaskFinished(t, c)
      PROVE  KeepsVerdicts /\ StartsInOrder
  BY <1>7, TaskFinishedStep
<1>8. ReconcilePool => UNCHANGED tasks
  BY DEF ReconcilePool
<1>9. ASSUME NEW ok \in BOOLEAN, CancelReturns(ok) PROVE UNCHANGED tasks
  BY <1>9 DEF CancelReturns, actorVars
<1>10. ASSUME NEW m \in MachineId, MachineProvisionFailed(m) PROVE UNCHANGED tasks
  BY <1>10 DEF MachineProvisionFailed
<1>11. Process => UNCHANGED tasks
  BY DEF Process, NspawnExits, ProbeSucceeds, ProbeTimesOut, RunEnds, UnitEnds, actorVars
<1>12. UNCHANGED vars => UNCHANGED tasks
  BY DEF vars, actorVars
<1>13. QED
  BY <1>1, <1>2, <1>3, <1>4, <1>5, <1>6, <1>7, <1>8, <1>9, <1>10, <1>11, <1>12
     DEF Next, Command, Event

-----------------------------------------------------------------------------
(***************************************************************************)
(* The theorems.                                                           *)
(***************************************************************************)

\* A verdict is final, except that of a task that lost its machine.
THEOREM VerdictsAreFinal == Spec => FinalVerdicts
<1>1. IInv /\ [Next]_vars =>
        [\A t \in TaskId :
           tasks[t].state \in TerminalState =>
             /\ tasks'[t].state \in TerminalState
             /\ tasks'[t] # tasks[t] =>
                  /\ tasks[t].state = "Failed" /\ tasks[t].exit_code = "none"
                  /\ machines[tasks[t].machine_id].state = "Absent"]_vars
  BY StepFacts DEF KeepsVerdicts
<1>2. QED BY <1>1, Invariance, PTL DEF Spec, FinalVerdicts

\* Tasks start in the order in which they were submitted.
THEOREM StartsAreFifo == Spec => FifoStart
<1>1. IInv /\ [Next]_vars =>
        [\A t, u \in TaskId :
           /\ tasks[t].state # "Running" /\ tasks'[t].state = "Running"
           /\ u < t
           => tasks'[u].state # "Queued"]_vars
  BY StepFacts DEF StartsInOrder
<1>2. QED BY <1>1, Invariance, PTL DEF Spec, FifoStart

-----------------------------------------------------------------------------
(***************************************************************************)
(* NspawnBackend implements TaskService: each handler, with all that it    *)
(* schedules, is one step of the service, and what happens to machines,    *)
(* probes and processes alone is none.                                     *)
(***************************************************************************)

\* The invariant of the proof: besides IInv, that a daemon that serves has a pool
\* of PoolSize machines, and that one that does not has no tasks.
RInv ==
  /\ IInv
  /\ PoolFull
  /\ daemon = "serving" => target_size = PoolSize
  /\ daemon # "serving" => \A t \in TaskId : tasks[t].state = "Absent"

\* At first no daemon serves, and there are no tasks.
LEMMA InitRInv == Init => RInv
<1> SUFFICES ASSUME Init PROVE RInv
  OBVIOUS
<1>1. IInv
  BY InitIInv
<1>2. daemon = "starting" /\ \A t \in TaskId : tasks[t].state = "Absent"
  BY DEF Init, AbsentTask
<1>3. QED BY <1>1, <1>2 DEF RInv, PoolFull

\* Only ReconcilePool touches target_size, and only a daemon that serves has
\* anything to do with tasks.
LEMMA NextKeepsRInv ==
  ASSUME RInv, [Next]_vars
  PROVE  RInv'
<1>1. IInv' /\ PoolFull'
  BY NextKeepsIInv, NextKeepsPoolFull DEF RInv
<1>2. CASE ReconcilePool
  <2>1. /\ target_size' = PoolSize /\ tasks' = tasks
        /\ daemon # "serving"
    BY <1>2 DEF ReconcilePool
  <2>2. QED BY <1>1, <2>1 DEF RInv
<1>3. CASE UNCHANGED <<daemon, target_size>> /\ daemon = "serving"
  BY <1>1, <1>3 DEF RInv
<1>4. CASE UNCHANGED <<daemon, target_size, tasks>>
  BY <1>1, <1>4 DEF RInv
<1>5. Command \/ Event \/ Process =>
        \/ UNCHANGED <<daemon, target_size>> /\ daemon = "serving"
        \/ UNCHANGED <<daemon, target_size, tasks>>
  <2>1. Command => \/ UNCHANGED <<daemon, target_size>> /\ daemon = "serving"
                   \/ UNCHANGED <<daemon, target_size, tasks>>
    BY DEF Command, StartTask, CancelQueued, CancelRunning, CancelReturns, ActorReady, actorVars
  <2>2. Event => UNCHANGED <<daemon, target_size>> /\ daemon = "serving"
    BY DEF Event, MachineReady, MachineProvisionFailed, MachineExited, TaskFinished, Receive,
       ActorReady
  <2>3. Process => UNCHANGED <<daemon, target_size, tasks>>
    BY DEF Process, NspawnExits, ProbeSucceeds, ProbeTimesOut, RunEnds, UnitEnds, actorVars
  <2>4. QED BY <2>1, <2>2, <2>3
<1>6. UNCHANGED vars => UNCHANGED <<daemon, target_size, tasks>>
  BY DEF vars, actorVars
<1>7. QED BY <1>2, <1>3, <1>4, <1>5, <1>6 DEF Next

\* Each running task has a machine of its own, and there are PoolSize of them.
LEMMA RunningBound ==
  RInv => Cardinality({t \in TaskId : tasks[t].state = "Running"}) <= PoolSize
<1> SUFFICES ASSUME RInv
             PROVE  Cardinality({t \in TaskId : tasks[t].state = "Running"}) <= PoolSize
  OBVIOUS
<1> DEFINE running == {t \in TaskId : tasks[t].state = "Running"}
           place   == [t \in running |-> tasks[t].machine_id]
<1>1. CASE daemon # "serving"
  <2>1. running = {}
    BY <1>1 DEF RInv
  <2>2. Cardinality(running) = 0
    BY <2>1, FS_EmptySet
  <2>3. QED BY <2>2, ConstantsAreNumbers
<1>2. CASE daemon = "serving"
  <2>1. IInv
    BY DEF RInv
  <2>2. ASSUME NEW t \in running
        PROVE  /\ tasks[t].machine_id \in ActiveMachines(machines)
               /\ machines[tasks[t].machine_id].current_task_id = t
    <3>1. t \in TaskId /\ tasks[t].state = "Running" /\ tasks[t] \in TaskRecord
      BY <2>1, SoundParts
    <3>2. tasks[t].machine_id \in MachineId
      BY <2>1, <3>1, SoundParts, TaskFields DEF PlacementOf
    <3>3. machines[tasks[t].machine_id].current_task_id = t
      BY <2>1, <3>1, <3>2, SoundParts DEF PlacementOf
    <3>4. machines[tasks[t].machine_id].state = "Busy"
      BY <2>1, <3>1, <3>2, <3>3, SoundParts DEF PlacementOf
    <3>5. QED BY <2>1, <3>2, <3>3, <3>4, SoundParts, ActiveFacts
  <2>3. place \in Injection(running, ActiveMachines(machines))
    BY <2>2 DEF Injection, IsInjective
  <2>4. IsFiniteSet(ActiveMachines(machines))
    BY <2>1, SoundParts, ActiveFacts, MachinesFinite
  <2> HIDE DEF running, place
  <2>5. Cardinality(running) <= Cardinality(ActiveMachines(machines))
    BY <2>3, <2>4, FS_Injection
  <2>6. Cardinality(ActiveMachines(machines)) = PoolSize
    BY <1>2 DEF RInv, PoolFull
  <2>7. QED BY <2>5, <2>6 DEF running
<1>3. QED BY <1>1, <1>2

LEMMA RunningBoundNext ==
  RInv' => (Cardinality({t \in TaskId : tasks[t].state = "Running"}) <= PoolSize)'
BY RunningBound, PTL

\* The instance counts as this module does.
LEMMA SameCardinality ==
  ASSUME NEW S
  PROVE  Service!Cardinality(S) = Cardinality(S)
BY DEF Service!Cardinality, Cardinality

-----------------------------------------------------------------------------
(***************************************************************************)
(* Steps of the service, from what happened to each task.                  *)
(***************************************************************************)

Requested(t) == tasks[t].cancellation_requested

\* The states of tasks ts are statuses of the service.
LEMMA StatusTypes ==
  ASSUME NEW ts \in [TaskId -> TaskRecord]
  PROVE  [t \in TaskId |-> ts[t].state] \in [TaskId -> Service!Status]
<1>1. \A t \in TaskId : ts[t].state \in Service!Status
  BY TaskFields DEF TaskState, Service!Status
<1>2. QED BY <1>1

\* Nothing that the service knows of changes.
LEMMA Stutters ==
  ASSUME \A t \in TaskId : /\ tasks'[t].state = tasks[t].state
                           /\ Requested(t)' <=> Requested(t)
                           /\ MayReport(t)' <=> MayReport(t)
  PROVE  UNCHANGED Service!vars
<1>1. [t \in TaskId |-> tasks'[t].state] = [t \in TaskId |-> tasks[t].state]
  OBVIOUS
<1>2. {t \in TaskId : Requested(t)'} = {t \in TaskId : Requested(t)}
  OBVIOUS
<1>3. {t \in TaskId : MayReport(t)'} = {t \in TaskId : MayReport(t)}
  OBVIOUS
<1>4. QED BY <1>1, <1>2, <1>3 DEF Service!vars, Requested

\* Some of the queued tasks start.
Starts(s) ==
  /\ \A t \in TaskId : \/ tasks'[t].state = s[t]
                       \/ s[t] = "Queued" /\ tasks'[t].state = "Running"
  /\ \A t, u \in TaskId : u < t /\ s[t] = "Queued" /\ tasks'[t].state = "Running"
                            => tasks'[u].state # "Queued"

LEMMA StartsSome ==
  ASSUME NEW s, RInv', Starts(s)
  PROVE  Service!StartSome(s)
<1>1. tasks' \in [TaskId -> TaskRecord]
  BY DEF RInv, IInv, Sound, TypesOf
<1> DEFINE st == [t \in TaskId |-> tasks'[t].state]
<1>2. st \in [TaskId -> Service!Status]
  BY <1>1, StatusTypes
<1>3. \A t \in TaskId : st[t] = tasks'[t].state
  OBVIOUS
<1>4. Cardinality({t \in TaskId : tasks'[t].state = "Running"}) <= PoolSize
  BY RunningBoundNext
<1> HIDE DEF st
<1>5. {t \in TaskId : st[t] = "Running"} = {t \in TaskId : tasks'[t].state = "Running"}
  BY <1>3
<1>6. Cardinality({t \in TaskId : st[t] = "Running"}) <= PoolSize
  BY <1>4, <1>5
<1>7. /\ \A t \in TaskId : st[t] = s[t] \/ (s[t] = "Queued" /\ st[t] = "Running")
      /\ \A t, u \in TaskId : u < t /\ s[t] = "Queued" /\ st[t] = "Running" => st[u] # "Queued"
  BY <1>3 DEF Starts
<1>8. QED BY <1>2, <1>6, <1>7, SameCardinality DEF Service!StartSome, Service!Running, st

\* What the scheduler does to each task, when a handler left the tasks ts.
LEMMA ScheduleEffect ==
  ASSUME NEW ms, NEW ts \in [TaskId -> TaskRecord], NEW q \in Seq(TaskId),
         NEW pick \in Picks(ms, q), QueueOf(ts, q), ScheduleTasks(ts, q, pick)
  PROVE  /\ \A t \in TaskId :
              /\ tasks'[t].cancellation_requested = ts[t].cancellation_requested
              /\ \/ tasks'[t].state = ts[t].state
                 \/ ts[t].state = "Queued" /\ tasks'[t].state = "Running"
              /\ ts[t].state # "Queued" => tasks'[t].state = ts[t].state /\ unit'[t] = unit[t]
         /\ \A t, u \in TaskId :
              u < t /\ ts[t].state = "Queued" /\ tasks'[t].state = "Running"
                => tasks'[u].state # "Queued"
<1>1. Ascending(q)
  BY DEF QueueOf
<1>2. /\ Len(pick) \in 0..Len(q) /\ DOMAIN q = 1..Len(q) /\ DOMAIN pick = 1..Len(pick)
      /\ \A i \in 1..Len(pick) : i \in DOMAIN q /\ q[i] \in TaskId
  BY PickFacts
<1>3. ASSUME NEW t \in TaskId, \E i \in DOMAIN pick : q[i] = t
      PROVE  /\ tasks'[t].cancellation_requested = ts[t].cancellation_requested
             /\ ts[t].state = "Queued" /\ tasks'[t].state = "Running"
  <2>1. tasks'[t] = WithStatus(ts[t], "Running", pick[CHOOSE i \in DOMAIN pick : q[i] = t], "none")
    BY <1>3 DEF ScheduleTasks, AssignTasks
  <2>2. ts[t].state = "Queued"
    BY <1>2, <1>3 DEF QueueOf
  <2>3. QED BY <2>1, <2>2 DEF WithStatus
<1>4. ASSUME NEW t \in TaskId, ~\E i \in DOMAIN pick : q[i] = t
      PROVE  tasks'[t] = ts[t] /\ unit'[t] = unit[t]
  BY <1>4 DEF ScheduleTasks, AssignTasks
<1>5. ASSUME NEW t \in TaskId, NEW u \in TaskId,
             u < t, ts[t].state = "Queued", tasks'[t].state = "Running"
      PROVE  tasks'[u].state # "Queued"
  BY <1>1, <1>5, ScheduleInOrder
<1>6. QED BY <1>3, <1>4, <1>5

\* The queue with the new task behind the others.
LEMMA EnqueuedQueue ==
  ASSUME IInv, next_task_id + 1 \in TaskId
  PROVE  LET id == next_task_id + 1
             ts == [tasks EXCEPT ![id] = WithStatus(AbsentTask, "Queued", None, "none")]
             q  == Enqueue(task_queue, id)
         IN  /\ ts \in [TaskId -> TaskRecord]
             /\ q \in Seq(TaskId)
             /\ QueueOf(ts, q)
<1> DEFINE id == next_task_id + 1
           new == WithStatus(AbsentTask, "Queued", None, "none")
           ts == [tasks EXCEPT ![id] = new]
           q  == Enqueue(task_queue, id)
<1>1. /\ id \in TaskId /\ id \in Nat /\ id > next_task_id
      /\ new \in TaskRecord /\ new.state = "Queued"
  <2>1. new \in TaskRecord /\ new.state = "Queued"
    BY DEF WithStatus, AbsentTask, TaskRecord, TaskState, ExitCode
  <2>2. QED BY <2>1, SoundParts
<1>2. tasks[id].state = "Absent"
  BY <1>1, SoundParts DEF TypesOf
<1> HIDE DEF new
<1>3. /\ ts \in [TaskId -> TaskRecord]
      /\ ts[id] = new
      /\ \A t \in TaskId : t # id => ts[t] = tasks[t]
  BY <1>1, SoundParts
<1>4. /\ q \in Seq(TaskId)
      /\ DOMAIN q = 1..(Len(task_queue) + 1)
      /\ DOMAIN task_queue = 1..Len(task_queue) /\ Len(task_queue) \in Nat
      /\ \A i \in 1..Len(task_queue) : q[i] = task_queue[i]
      /\ q[Len(task_queue) + 1] = id
  BY <1>1, QueueParts DEF Enqueue
<1>5. ASSUME NEW i \in 1..Len(task_queue)
      PROVE  /\ task_queue[i] \in TaskId /\ task_queue[i] \in Nat
             /\ task_queue[i] < id
  <2>1. task_queue[i] \in TaskId /\ tasks[task_queue[i]].state = "Queued"
    BY <1>4, QueueParts
  <2>2. ~(task_queue[i] > next_task_id)
    BY <2>1, SoundParts DEF TypesOf
  <2>3. QED BY <2>1, <2>2, SoundParts
<1> HIDE DEF id, ts, q
<1>6. \A i \in DOMAIN q : i \in 1..Len(task_queue) \/ i = Len(task_queue) + 1
  BY <1>4
<1>7. Ascending(q)
  BY <1>1, <1>4, <1>5, <1>6, QueueParts DEF Ascending
<1>8. \A t \in TaskId : ts[t].state = "Queued" <=> \E i \in DOMAIN q : q[i] = t
  <2>1. \A t \in TaskId : (\E i \in DOMAIN q : q[i] = t)
          <=> t = id \/ \E i \in DOMAIN task_queue : task_queue[i] = t
    <3>1. /\ Len(task_queue) + 1 \in DOMAIN q
          /\ \A i \in 1..Len(task_queue) : i \in DOMAIN q
      BY <1>4
    <3>2. QED BY <3>1, <1>4, <1>6
  <2>2. QED BY <2>1, <1>1, <1>3, QueueParts
<1>9. QED BY <1>3, <1>4, <1>7, <1>8 DEF QueueOf, id, ts, q, new

\* handle_start_task is Submit.
LEMMA StartTaskRefines ==
  ASSUME RInv, RInv', StartTask
  PROVE  \E t \in TaskId : t = next_task_id + 1 /\ Service!Submit(t)
<1> DEFINE id == next_task_id + 1
           new == WithStatus(AbsentTask, "Queued", None, "none")
           ts == [tasks EXCEPT ![id] = new]
           q  == Enqueue(task_queue, id)
<1>1. IInv /\ id \in TaskId /\ UNCHANGED events
  BY DEF RInv, StartTask
<1>2. PICK pick \in Picks(machines, q) : ScheduleTasks(ts, q, pick)
  BY DEF StartTask
<1>3. ts \in [TaskId -> TaskRecord] /\ q \in Seq(TaskId) /\ QueueOf(ts, q)
  BY <1>1, EnqueuedQueue
<1>4. /\ ts[id].state = "Queued" /\ ~ts[id].cancellation_requested
      /\ \A t \in TaskId : t # id => ts[t] = tasks[t]
  BY <1>1, SoundParts DEF WithStatus, AbsentTask
<1>5. /\ tasks[id].state = "Absent" /\ ~tasks[id].cancellation_requested
      /\ \A u \in TaskId : u < id => tasks[u].state # "Absent"
  BY <1>1, SoundParts DEF TypesOf, VerdictsOf
<1> HIDE DEF ts, q
<1>6. /\ \A t \in TaskId :
           /\ tasks'[t].cancellation_requested = ts[t].cancellation_requested
           /\ \/ tasks'[t].state = ts[t].state
              \/ ts[t].state = "Queued" /\ tasks'[t].state = "Running"
           /\ ts[t].state # "Queued" => tasks'[t].state = ts[t].state /\ unit'[t] = unit[t]
      /\ \A t, u \in TaskId :
           u < t /\ ts[t].state = "Queued" /\ tasks'[t].state = "Running"
             => tasks'[u].state # "Queued"
  BY <1>2, <1>3, ScheduleEffect
<1> DEFINE st == [t \in TaskId |-> tasks[t].state]
<1>7. PICK t \in TaskId : t = id
  BY <1>1
<1>8. PICK s : s = [st EXCEPT ![t] = "Queued"]
  OBVIOUS
<1>9. /\ tasks[t].state = "Absent" /\ ~tasks[t].cancellation_requested
      /\ \A u \in TaskId : u < t => tasks[u].state # "Absent"
      /\ ts[t].state = "Queued" /\ ~ts[t].cancellation_requested
      /\ \A u \in TaskId : u # t => ts[u] = tasks[u]
  BY <1>4, <1>5, <1>7
<1> HIDE DEF id
<1>10. \A u \in TaskId : s[u] = ts[u].state
  BY <1>8, <1>9
<1>11. Service!StartSome(s)
  <2>1. Starts(s)
    BY <1>6, <1>10 DEF Starts
  <2>2. QED BY <2>1, StartsSome
<1>12. Service!StartSome([st EXCEPT ![t] = "Queued"])
  BY <1>8, <1>11 DEF Service!StartSome
<1>13. \A u \in TaskId : tasks'[u].cancellation_requested <=> tasks[u].cancellation_requested
  BY <1>6, <1>9
<1>14. \A u \in TaskId : MayReport(u)' <=> MayReport(u)
  BY <1>1, <1>6, <1>9 DEF MayReport
<1>15. {u \in TaskId : tasks'[u].cancellation_requested} = {u \in TaskId : tasks[u].cancellation_requested}
  BY <1>13
<1>16. {u \in TaskId : MayReport(u)'} = {u \in TaskId : MayReport(u)}
  BY <1>14
<1>17. Service!Submit(t)
  BY <1>9, <1>12, <1>15, <1>16 DEF Service!Submit
<1>18. QED BY <1>7, <1>17 DEF id

\* handle_cancel_task of a task that waits.
LEMMA CancelQueuedRefines ==
  ASSUME RInv, NEW t \in TaskId, CancelQueued(t)
  PROVE  Service!CancelQueued(t)
<1> DEFINE new == WithStatus(tasks[t], "Cancelled", tasks[t].machine_id, "none")
<1>1. /\ tasks[t].state = "Queued" /\ tasks' = [tasks EXCEPT ![t] = new]
      /\ UNCHANGED <<unit, events>>
  BY DEF CancelQueued, procVars
<1>2. new.state = "Cancelled" /\ new.cancellation_requested = tasks[t].cancellation_requested
  BY DEF WithStatus
<1> HIDE DEF new
<1>3. tasks \in [TaskId -> TaskRecord]
  BY SoundParts DEF RInv
<1>4. tasks'[t] = new /\ \A u \in TaskId : u # t => tasks'[u] = tasks[u]
  BY <1>1, <1>3
<1>5. [u \in TaskId |-> tasks'[u].state] = [[u \in TaskId |-> tasks[u].state] EXCEPT ![t] = "Cancelled"]
  BY <1>2, <1>4
<1>6. {u \in TaskId : tasks'[u].cancellation_requested} = {u \in TaskId : tasks[u].cancellation_requested}
  BY <1>2, <1>4
<1>7. \A u \in TaskId : MayReport(u)' <=> MayReport(u)
  BY <1>1, <1>2, <1>4 DEF MayReport
<1>8. {u \in TaskId : MayReport(u)'} = {u \in TaskId : MayReport(u)}
  BY <1>7
<1>9. QED
  BY <1>1, <1>5, <1>6, <1>8 DEF Service!CancelQueued

\* handle_cancel_task of a task that runs, up to its await.
LEMMA CancelRunningRefines ==
  ASSUME RInv, NEW t \in TaskId, CancelRunning(t)
  PROVE  Service!RequestCancel(t)
<1>1. /\ tasks[t].state = "Running"
      /\ tasks' = [tasks EXCEPT ![t].cancellation_requested = TRUE]
      /\ UNCHANGED <<unit, events>>
  BY DEF CancelRunning, procVars
<1>2. tasks \in [TaskId -> TaskRecord] /\ tasks[t] \in TaskRecord
  BY SoundParts DEF RInv
<1>3. /\ \A u \in TaskId : u # t => tasks'[u] = tasks[u]
      /\ tasks'[t] = [tasks[t] EXCEPT !.cancellation_requested = TRUE]
  BY <1>1, <1>2
<1>4. tasks'[t].state = tasks[t].state /\ tasks'[t].cancellation_requested = TRUE
  BY <1>2, <1>3 DEF TaskRecord
<1>5. [u \in TaskId |-> tasks'[u].state] = [u \in TaskId |-> tasks[u].state]
  BY <1>3, <1>4
<1>6. {u \in TaskId : tasks'[u].cancellation_requested}
        = {u \in TaskId : tasks[u].cancellation_requested} \cup {t}
  BY <1>3, <1>4
<1>7. \A u \in TaskId : MayReport(u)' <=> MayReport(u)
  BY <1>1, <1>3, <1>4 DEF MayReport
<1>8. {u \in TaskId : MayReport(u)'} = {u \in TaskId : MayReport(u)}
  BY <1>7
<1>9. QED
  BY <1>1, <1>5, <1>6, <1>8 DEF Service!RequestCancel

\* MachineReady is Start: what is left of it is what the scheduler does.
LEMMA MachineReadyRefines ==
  ASSUME RInv, RInv', NEW m \in MachineId, MachineReady(m)
  PROVE  Service!Start
<1> DEFINE ms == IF machines[m].state = "Absent" THEN machines
                 ELSE [machines EXCEPT ![m].state = "Idle"]
<1>1. IInv /\ events' = events \ {ReadyEvent(m)}
  BY DEF RInv, MachineReady, Receive
<1>2. PICK pick \in Picks(ms, task_queue) : ScheduleTasks(tasks, task_queue, pick)
  BY DEF MachineReady
<1> HIDE DEF ms
<1>3. tasks \in [TaskId -> TaskRecord] /\ task_queue \in Seq(TaskId) /\ QueueOf(tasks, task_queue)
  BY <1>1, SoundParts, QueueParts
<1>4. /\ \A t \in TaskId :
           /\ tasks'[t].cancellation_requested = tasks[t].cancellation_requested
           /\ \/ tasks'[t].state = tasks[t].state
              \/ tasks[t].state = "Queued" /\ tasks'[t].state = "Running"
           /\ tasks[t].state # "Queued" => tasks'[t].state = tasks[t].state /\ unit'[t] = unit[t]
      /\ \A t, u \in TaskId :
           u < t /\ tasks[t].state = "Queued" /\ tasks'[t].state = "Running"
             => tasks'[u].state # "Queued"
  BY <1>2, <1>3, ScheduleEffect
<1>5. PICK s : s = [t \in TaskId |-> tasks[t].state]
  OBVIOUS
<1>6. \A t \in TaskId : s[t] = tasks[t].state
  BY <1>5
<1>7. Service!StartSome(s)
  <2>1. Starts(s)
    BY <1>4, <1>6 DEF Starts
  <2>2. QED BY <2>1, StartsSome
<1>8. Service!StartSome([t \in TaskId |-> tasks[t].state])
  BY <1>5, <1>7 DEF Service!StartSome
<1>9. {u \in TaskId : tasks'[u].cancellation_requested} = {u \in TaskId : tasks[u].cancellation_requested}
  BY <1>4
<1>10. \A u \in TaskId : MayReport(u)' <=> MayReport(u)
  <2>1. \A u \in TaskId, c \in ExitCode : FinishedEvent(u, c) \in events' <=> FinishedEvent(u, c) \in events
    BY <1>1, EventsDiffer
  <2>2. QED BY <2>1, <1>4 DEF MayReport
<1>11. {u \in TaskId : MayReport(u)'} = {u \in TaskId : MayReport(u)}
  BY <1>10
<1>12. QED
  BY <1>8, <1>9, <1>11 DEF Service!Start

\* The machine that goes had no task, or one that is given up.
LEMMA MachineExitedRefines ==
  ASSUME RInv, NEW m \in MachineId, MachineExited(m)
  PROVE  (\E t \in TaskId : Service!GiveUp(t)) \/ UNCHANGED Service!vars
<1> DEFINE Failing(t) == machines[m].current_task_id = t
<1>1. IInv /\ events' = events \ {ExitedEvent(m)} /\ UNCHANGED unit
  BY DEF RInv, MachineExited, Receive
<1>2. \A t \in TaskId, c \in ExitCode : FinishedEvent(t, c) \in events' <=> FinishedEvent(t, c) \in events
  BY <1>1, EventsDiffer
<1>3. \A t \in TaskId : ~Failing(t) => tasks'[t] = tasks[t]
  BY DEF MachineExited
<1>4. CASE \A t \in TaskId : ~Failing(t)
  <2>1. \A t \in TaskId : tasks'[t] = tasks[t]
    BY <1>3, <1>4
  <2>2. \A t \in TaskId : /\ tasks'[t].state = tasks[t].state
                          /\ Requested(t)' <=> Requested(t)
    BY <2>1 DEF Requested
  <2>3. \A t \in TaskId : MayReport(t)' <=> MayReport(t)
    BY <2>1, <1>1, <1>2 DEF MayReport
  <2>4. QED BY <2>2, <2>3, Stutters
<1>5. ASSUME NEW t \in TaskId, Failing(t)
      PROVE  Service!GiveUp(t)
  <2>1. tasks[t].state = "Running" /\ Pending(t, unit, events)
    BY <1>1, <1>5, SoundParts DEF PlacementOf, UnitsOf
  <2>2. /\ tasks'[t].state = "Failed"
        /\ tasks'[t].cancellation_requested = tasks[t].cancellation_requested
    <3>1. tasks[t].state # "Absent"
      BY <2>1
    <3>2. tasks'[t] = WithStatus(tasks[t], "Failed", tasks[t].machine_id, "none")
      BY <3>1, <1>5 DEF MachineExited
    <3>3. QED BY <3>2 DEF WithStatus
  <2>3. \A u \in TaskId : u # t => tasks'[u] = tasks[u]
    BY <1>3, <1>5
  <2>4. [u \in TaskId |-> tasks'[u].state] = [[u \in TaskId |-> tasks[u].state] EXCEPT ![t] = "Failed"]
    BY <2>2, <2>3
  <2>5. {u \in TaskId : tasks'[u].cancellation_requested} = {u \in TaskId : tasks[u].cancellation_requested}
    BY <2>2, <2>3
  <2>6. \A u \in TaskId : MayReport(u)' <=> MayReport(u) \/ u = t
    <3>1. MayReport(t)'
      BY <2>1, <2>2, <1>1, <1>2 DEF MayReport, Pending
    <3>2. \A u \in TaskId : u # t => (MayReport(u)' <=> MayReport(u))
      BY <2>3, <1>1, <1>2 DEF MayReport
    <3>3. QED BY <3>1, <3>2
  <2>7. {u \in TaskId : MayReport(u)'} = {u \in TaskId : MayReport(u)} \cup {t}
    BY <2>6
  <2>8. QED BY <2>1, <2>4, <2>5, <2>7 DEF Service!GiveUp
<1>6. QED BY <1>4, <1>5

\* The task that reports is running, or was given up and may report.
LEMMA TaskFinishedRefines ==
  ASSUME RInv, RInv', NEW f \in TaskId, NEW c \in ExitCode, TaskFinished(f, c)
  PROVE  Service!Report(f)
<1> DEFINE ts  == FinishTask(f, c)
           new == WithStatus(tasks[f], Verdict(tasks[f], c), tasks[f].machine_id, c)
<1>1. /\ IInv /\ FinishedEvent(f, c) \in events
      /\ events' = events \ {FinishedEvent(f, c)}
  BY DEF RInv, TaskFinished, Receive
<1>2. PICK pick \in Picks(FreeMachine(f), task_queue) : ScheduleTasks(ts, task_queue, pick)
  BY DEF TaskFinished
<1>3. /\ Pending(f, unit, events)
      /\ unit[f] \in {"orphaned", "done"}
      /\ tasks[f].state \notin {"Absent", "Queued"}
      /\ tasks[f].state = "Running" \/ tasks[f].state = "Failed"
  <2>1. unit[f] \in {"orphaned", "done"} /\ Pending(f, unit, events)
    BY <1>1, SoundParts DEF UnitsOf, Pending
  <2>2. tasks[f].state \notin {"Absent", "Queued"}
    BY <1>1, <2>1, SoundParts DEF UnitsOf
  <2>3. tasks[f].state = "Running" \/ LostMachine(f, machines, tasks)
    BY <1>1, <2>1, SoundParts DEF UnitsOf
  <2>4. QED BY <2>1, <2>2, <2>3 DEF LostMachine
<1>4. /\ tasks[f].cancellation_requested \in BOOLEAN
      /\ tasks[f].machine_id \in MachineId \cup {None}
  BY <1>1, SoundParts, TaskFields
<1>5. PICK verdict : verdict = Verdict(tasks[f], c)
  OBVIOUS
<1>6. /\ verdict \in TaskState
      /\ verdict \in TerminalState
      /\ verdict = "Cancelled" <=> tasks[f].cancellation_requested
  BY <1>4, <1>5, VerdictFacts
<1>7. /\ new \in TaskRecord
      /\ new.state = verdict
      /\ new.cancellation_requested = tasks[f].cancellation_requested
  BY <1>4, <1>5, <1>6, WithStatusFields
<1>8. ts = [tasks EXCEPT ![f] = new]
  BY <1>3 DEF FinishTask
<1> HIDE DEF new
<1>9. tasks \in [TaskId -> TaskRecord] /\ task_queue \in Seq(TaskId)
  BY <1>1, SoundParts, QueueParts
<1>10. /\ ts \in [TaskId -> TaskRecord]
       /\ ts[f] = new
       /\ \A t \in TaskId : t # f => ts[t] = tasks[t]
  BY <1>7, <1>8, <1>9
<1> HIDE DEF ts
<1>11. QueueOf(ts, task_queue)
  <2>1. \A t \in TaskId : ts[t].state = "Queued" <=> tasks[t].state = "Queued"
    BY <1>3, <1>6, <1>7, <1>10, TerminalIsNot
  <2>2. QED BY <2>1, <1>1, QueueParts DEF QueueOf
<1>12. /\ \A t \in TaskId :
            /\ tasks'[t].cancellation_requested = ts[t].cancellation_requested
            /\ \/ tasks'[t].state = ts[t].state
               \/ ts[t].state = "Queued" /\ tasks'[t].state = "Running"
            /\ ts[t].state # "Queued" => tasks'[t].state = ts[t].state /\ unit'[t] = unit[t]
       /\ \A t, u \in TaskId :
            u < t /\ ts[t].state = "Queued" /\ tasks'[t].state = "Running"
              => tasks'[u].state # "Queued"
  BY <1>2, <1>9, <1>10, <1>11, ScheduleEffect
<1>13. PICK s : s = [[t \in TaskId |-> tasks[t].state] EXCEPT ![f] = verdict]
  OBVIOUS
<1>14. \A t \in TaskId : s[t] = ts[t].state
  BY <1>7, <1>10, <1>13
<1>15. Service!StartSome(s)
  <2>1. Starts(s)
    BY <1>12, <1>14 DEF Starts
  <2>2. QED BY <2>1, StartsSome
<1>16. Service!StartSome([[t \in TaskId |-> tasks[t].state] EXCEPT ![f] = verdict])
  BY <1>13, <1>15 DEF Service!StartSome
<1>17. \A u \in TaskId : tasks'[u].cancellation_requested = tasks[u].cancellation_requested
  BY <1>7, <1>10, <1>12
<1>18. {u \in TaskId : tasks'[u].cancellation_requested} = {u \in TaskId : tasks[u].cancellation_requested}
  BY <1>17
<1>19. \A u \in TaskId : MayReport(u)' <=> MayReport(u) /\ u # f
  <2>1. ~MayReport(f)'
    <3>1. \A d \in ExitCode : FinishedEvent(f, d) \notin events'
      BY <1>1, SoundParts DEF UnitsOf
    <3>2. unit'[f] \in {"orphaned", "done"}
      BY <1>3, <1>6, <1>7, <1>10, <1>12, TerminalIsNot
    <3>3. QED BY <3>1, <3>2 DEF MayReport
  <2>2. ASSUME NEW u \in TaskId, u # f
        PROVE  MayReport(u)' <=> MayReport(u)
    <3>1. \A d \in ExitCode : FinishedEvent(u, d) \in events' <=> FinishedEvent(u, d) \in events
      BY <1>1, <2>2, EventsDiffer
    <3>2. ts[u] = tasks[u]
      BY <2>2, <1>10
    <3>3. QED BY <3>1, <3>2, <1>12 DEF MayReport
  <2>3. QED BY <2>1, <2>2
<1>20. {u \in TaskId : MayReport(u)'} = {u \in TaskId : MayReport(u)} \ {f}
  BY <1>19
<1>21. verdict \in Service!Result(f)
  BY <1>6 DEF Service!Result, TerminalState
<1>22. tasks[f].state = "Running" \/ MayReport(f)
  BY <1>3 DEF MayReport, Pending
<1>23. QED
  BY <1>16, <1>18, <1>20, <1>21, <1>22 DEF Service!Report

-----------------------------------------------------------------------------
(***************************************************************************)
(* The steps that the service does not know of.                            *)
(***************************************************************************)

\* The tasks stay, and so does whether a result is to come.
LEMMA ProcessStutters ==
  ASSUME UNCHANGED tasks,
         \A t \in TaskId : Pending(t, unit', events') <=> Pending(t, unit, events)
  PROVE  UNCHANGED Service!vars
<1>1. \A t \in TaskId : MayReport(t)' <=> MayReport(t)
  BY DEF MayReport, Pending
<1>2. \A t \in TaskId : tasks'[t].state = tasks[t].state /\ (Requested(t)' <=> Requested(t))
  BY DEF Requested
<1>3. QED BY <1>1, <1>2, Stutters

\* An event about a machine tells nothing of a task.
LEMMA MachineEventsStutter ==
  ASSUME UNCHANGED <<tasks, unit>>,
         \A t \in TaskId, c \in ExitCode :
           FinishedEvent(t, c) \in events' <=> FinishedEvent(t, c) \in events
  PROVE  UNCHANGED Service!vars
BY ProcessStutters DEF Pending

LEMMA ProvisionFailedStutters ==
  ASSUME NEW m \in MachineId, MachineProvisionFailed(m)
  PROVE  UNCHANGED Service!vars
<1>1. UNCHANGED <<tasks, unit>> /\ events' = events \ {ProvisionFailedEvent(m)}
  BY DEF MachineProvisionFailed, Receive
<1>2. \A t \in TaskId, c \in ExitCode : FinishedEvent(t, c) \in events' <=> FinishedEvent(t, c) \in events
  BY <1>1, EventsDiffer
<1>3. QED BY <1>1, <1>2, MachineEventsStutter

LEMMA MachineProcessesStutter ==
  ASSUME NEW m \in MachineId, NspawnExits(m) \/ ProbeSucceeds(m) \/ ProbeTimesOut(m)
  PROVE  UNCHANGED Service!vars
<1>1. /\ UNCHANGED tasks
      /\ events' \in {events \cup {ExitedEvent(m)}, events \cup {ReadyEvent(m)},
                      events \cup {ProvisionFailedEvent(m)}}
  BY DEF NspawnExits, ProbeSucceeds, ProbeTimesOut, actorVars
<1>2. \A t \in TaskId, c \in ExitCode : FinishedEvent(t, c) \in events' <=> FinishedEvent(t, c) \in events
  BY <1>1, EventsDiffer
<1>3. \A t \in TaskId : unit'[t] \in {"running", "stopped"} <=> unit[t] \in {"running", "stopped"}
  BY DEF NspawnExits, ProbeSucceeds, ProbeTimesOut
<1>4. QED BY <1>1, <1>2, <1>3, ProcessStutters DEF Pending

\* A unit that was stopped still has to report.
LEMMA CancelReturnsStutters ==
  ASSUME RInv, NEW ok \in BOOLEAN, CancelReturns(ok)
  PROVE  UNCHANGED Service!vars
<1>1. UNCHANGED <<tasks, events>>
  BY DEF CancelReturns, actorVars
<1>2. unit \in [TaskId -> {"none", "running", "stopped", "orphaned", "done"}]
  BY SoundParts DEF RInv, TypesOf
<1>3. \A t \in TaskId : unit'[t] \in {"running", "stopped"} <=> unit[t] \in {"running", "stopped"}
  BY <1>2 DEF CancelReturns
<1>4. QED BY <1>1, <1>3, ProcessStutters DEF Pending

\* A systemd-run that ends hands its result to the event.
LEMMA RunEndsStutters ==
  ASSUME RInv, NEW e \in TaskId, NEW c \in ExitCode, RunEnds(e, c)
  PROVE  UNCHANGED Service!vars
<1>1. /\ UNCHANGED tasks
      /\ events' = events \cup {FinishedEvent(e, c)}
      /\ unit[e] \in {"running", "stopped"}
      /\ \/ unit' = [unit EXCEPT ![e] = "done"]
         \/ unit' = [unit EXCEPT ![e] = "orphaned"]
  BY DEF RunEnds, actorVars
<1>2. Pending(e, unit', events') /\ Pending(e, unit, events)
  BY <1>1 DEF Pending
<1>3. unit \in [TaskId -> {"none", "running", "stopped", "orphaned", "done"}]
  BY SoundParts DEF RInv, TypesOf
<1>4. \A t \in TaskId : t # e => unit'[t] = unit[t]
  BY <1>1, <1>3
<1>5. \A t \in TaskId, d \in ExitCode :
        t # e => (FinishedEvent(t, d) \in events' <=> FinishedEvent(t, d) \in events)
  BY <1>1, EventsDiffer
<1>6. \A t \in TaskId : t # e => (Pending(t, unit', events') <=> Pending(t, unit, events))
  BY <1>4, <1>5 DEF Pending
<1>7. QED BY <1>1, <1>2, <1>6, ProcessStutters

\* Nobody is told of the end of an orphaned unit.
LEMMA UnitEndsStutters ==
  ASSUME RInv, NEW e \in TaskId, UnitEnds(e)
  PROVE  UNCHANGED Service!vars
<1>1. UNCHANGED <<tasks, events>>
  BY DEF UnitEnds, actorVars
<1>2. unit \in [TaskId -> {"none", "running", "stopped", "orphaned", "done"}]
  BY SoundParts DEF RInv, TypesOf
<1>3. \A t \in TaskId : unit'[t] \in {"running", "stopped"} <=> unit[t] \in {"running", "stopped"}
  BY <1>2 DEF UnitEnds
<1>4. QED BY <1>1, <1>3, ProcessStutters DEF Pending

\* Every step of the backend is one of the service, or none.
LEMMA StepRefines ==
  ASSUME RInv, RInv', [Next]_vars
  PROVE  Service!Next \/ UNCHANGED Service!vars
<1>1. ReconcilePool => UNCHANGED Service!vars
  BY MachineEventsStutter DEF ReconcilePool
<1>2. StartTask => Service!Next
  BY StartTaskRefines DEF Service!Next
<1>3. ASSUME NEW t \in TaskId, CancelQueued(t) \/ CancelRunning(t) PROVE Service!Next
  BY <1>3, CancelQueuedRefines, CancelRunningRefines DEF Service!Next
<1>4. ASSUME NEW ok \in BOOLEAN, CancelReturns(ok) PROVE UNCHANGED Service!vars
  BY <1>4, CancelReturnsStutters
<1>5. ASSUME NEW m \in MachineId, MachineReady(m) PROVE Service!Next
  BY <1>5, MachineReadyRefines DEF Service!Next
<1>6. ASSUME NEW m \in MachineId, MachineProvisionFailed(m) PROVE UNCHANGED Service!vars
  BY <1>6, ProvisionFailedStutters
<1>7. ASSUME NEW m \in MachineId, MachineExited(m)
      PROVE  Service!Next \/ UNCHANGED Service!vars
  BY <1>7, MachineExitedRefines DEF Service!Next
<1>8. ASSUME NEW t \in TaskId, NEW c \in ExitCode, TaskFinished(t, c) PROVE Service!Next
  BY <1>8, TaskFinishedRefines DEF Service!Next
<1>9. ASSUME NEW m \in MachineId, NspawnExits(m) \/ ProbeSucceeds(m) \/ ProbeTimesOut(m)
      PROVE  UNCHANGED Service!vars
  BY <1>9, MachineProcessesStutter
<1>10. ASSUME NEW t \in TaskId, NEW c \in ExitCode, RunEnds(t, c) PROVE UNCHANGED Service!vars
  BY <1>10, RunEndsStutters
<1>11. ASSUME NEW t \in TaskId, UnitEnds(t) PROVE UNCHANGED Service!vars
  BY <1>11, UnitEndsStutters
<1>12. UNCHANGED vars => UNCHANGED Service!vars
  BY MachineEventsStutter DEF vars, actorVars, procVars
<1>13. QED
  BY <1>1, <1>2, <1>3, <1>4, <1>5, <1>6, <1>7, <1>8, <1>9, <1>10, <1>11, <1>12
     DEF Next, Command, Event, Process

\* At first there is nothing.
LEMMA InitRefines == Init => Service!Init
<1> SUFFICES ASSUME Init PROVE Service!Init
  OBVIOUS
<1>1. \A t \in TaskId : tasks[t].state = "Absent" /\ ~tasks[t].cancellation_requested
  BY DEF Init, AbsentTask
<1>2. \A t \in TaskId : ~MayReport(t)
  BY <1>1 DEF MayReport
<1>3. QED BY <1>1, <1>2 DEF Service!Init

\* The backend implements TaskService: whatever machines, probes and programs do,
\* its clients see tasks that are accepted and started in order, on at most
\* PoolSize machines, with verdicts that agree with their requests.
THEOREM BackendImplementsService == Spec => ImplementsTaskService
<1>1. Init => RInv
  BY InitRInv
<1>2. RInv /\ [Next]_vars => RInv'
  BY NextKeepsRInv
<1>3. RInv /\ RInv' /\ [Next]_vars => [Service!Next]_(Service!vars)
  BY StepRefines
<1>4. QED BY <1>1, <1>2, <1>3, InitRefines, PTL DEF Spec, ImplementsTaskService, Service!Spec

=============================================================================
