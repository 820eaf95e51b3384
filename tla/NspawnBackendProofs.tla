------------------------- MODULE NspawnBackendProofs -------------------------
(***************************************************************************)
(* Proofs about NspawnBackend, for every value of its constants.           *)
(*                                                                         *)
(* A handler of the actor changes a record, then schedules the queue, then *)
(* reconciles the pool, and only the result is a state.  The inductive     *)
(* invariant is therefore stated of maps, queue, events and processes      *)
(* given as arguments (Sound), so that one lemma says that scheduling      *)
(* keeps it, one that reconciling keeps it, and each handler has to show   *)
(* only what its own part does.                                            *)
(*                                                                         *)
(* The size of the pool follows from what each handler removes and         *)
(* reconciling puts back, at the end of the module.                        *)
(***************************************************************************)
EXTENDS NspawnBackend, FiniteSetTheorems, TLAPS

-----------------------------------------------------------------------------
\* The inductive invariant, in parts.  Arguments: machines ms, tasks ts, queue
\* q, units un, events ev, probes pr, nspawn processes ns, the last ids nm, nt.

\* The types of the maps; ids not given out yet are unused.
TypesOf(ms, ts, q, un, ev, pr, ns, nm, nt) ==
  /\ ms \in [MachineId -> MachineRecord]
  /\ ts \in [TaskId -> TaskRecord]
  /\ q \in Seq(TaskId)
  /\ un \in [TaskId -> {"none", "running", "stopped", "orphaned", "done"}]
  /\ ev \subseteq MachineEvent \cup TaskEvent
  /\ pr \in [MachineId -> {"none", "probing", "ready", "timedout"}]
  /\ ns \in [MachineId -> {"none", "running", "exited"}]
  /\ nm \in 0..MaxMachines
  /\ nt \in 0..MaxTasks
  /\ \A t \in TaskId : ts[t].state = "Absent" <=> t > nt
  /\ \A m \in MachineId : m > nm => ms[m].state = "Absent" /\ ns[m] = "none" /\ pr[m] = "none"

Ascending(q) == \A i, j \in DOMAIN q : i < j => q[i] < q[j]

QueueOf(ts, q) ==
  /\ Ascending(q)
  /\ \A t \in TaskId : ts[t].state = "Queued" <=> \E i \in DOMAIN q : q[i] = t

PlacementOf(ms, ts) ==
  /\ \A m \in MachineId : ms[m].state = "Busy" <=> ms[m].current_task_id # None
  /\ \A t \in TaskId, m \in MachineId :
       ms[m].current_task_id = t <=> ts[t].state = "Running" /\ ts[t].machine_id = m
  /\ \A t \in TaskId : ts[t].state = "Running" => ts[t].machine_id # None

\* A probe has one outcome, and only the Ready one makes a machine leave
\* Provisioning.
ProbesOf(ms, ev, pr) ==
  \A m \in MachineId :
    /\ ReadyEvent(m) \in ev => pr[m] = "ready"
    /\ ProvisionFailedEvent(m) \in ev => pr[m] = "timedout"
    /\ ms[m].state \in {"Idle", "Busy"} => pr[m] = "ready" /\ ReadyEvent(m) \notin ev
    /\ ms[m].state = "Provisioning" => \/ pr[m] \in {"none", "probing"}
                                       \/ ReadyEvent(m) \in ev
                                       \/ ProvisionFailedEvent(m) \in ev

\* The exit of a machine's process is on its way until its record is removed.
ProcessesOf(ms, ev, pr, ns) ==
  \A m \in MachineId :
    /\ ExitedEvent(m) \in ev => ns[m] = "exited"
    /\ ms[m].state # "Absent" /\ ns[m] = "exited" => ExitedEvent(m) \in ev
    /\ ms[m].state = "Absent" /\ ns[m] = "running" => pr[m] = "timedout"

\* The result of task t is still to come.
Pending(t, un, ev) == \/ un[t] \in {"running", "stopped"}
                      \/ \E c \in ExitCode : FinishedEvent(t, c) \in ev

\* The task was failed by the exit of its machine and has no exit code.
LostMachine(t, ms, ts) == /\ ts[t].state = "Failed"
                          /\ ts[t].exit_code = "none"
                          /\ ts[t].machine_id \in MachineId
                          /\ ms[ts[t].machine_id].state = "Absent"

\* One result comes for every started task; while it is to come the task is
\* Running, or has lost its machine.
UnitsOf(ms, ts, un, ev, nm) ==
  /\ \A t \in TaskId : un[t] # "none" => ts[t].state \notin {"Absent", "Queued"}
  /\ \A t \in TaskId, c, d \in ExitCode :
       FinishedEvent(t, c) \in ev =>
         un[t] \in {"orphaned", "done"} /\ (FinishedEvent(t, d) \in ev => c = d)
  /\ \A t \in TaskId : ts[t].state = "Running" => Pending(t, un, ev)
  /\ \A t \in TaskId : Pending(t, un, ev) /\ ts[t].state # "Running" =>
       LostMachine(t, ms, ts) /\ ts[t].machine_id <= nm

\* VerdictsJustified, and what tells started tasks from the others.
VerdictsOf(ts) ==
  \A t \in TaskId :
    /\ ts[t].state \in {"Absent", "Queued"} =>
         ts[t].machine_id = None /\ ~ts[t].cancellation_requested
    /\ ts[t].state \in {"Absent", "Queued", "Running"} => ts[t].exit_code = "none"
    /\ ts[t].state \in {"Running", "Succeeded", "Failed"} => ts[t].machine_id # None
    /\ ts[t].state = "Succeeded" => ts[t].exit_code = "zero" /\ ~ts[t].cancellation_requested
    /\ ts[t].state = "Failed" => ts[t].exit_code # "zero"
    /\ ts[t].state = "Cancelled" => (ts[t].machine_id = None <=> ~ts[t].cancellation_requested)

Sound(ms, ts, q, un, ev, pr, ns, nm, nt) ==
  /\ TypesOf(ms, ts, q, un, ev, pr, ns, nm, nt)
  /\ QueueOf(ts, q)
  /\ PlacementOf(ms, ts)
  /\ ProbesOf(ms, ev, pr)
  /\ ProcessesOf(ms, ev, pr, ns)
  /\ UnitsOf(ms, ts, un, ev, nm)
  /\ VerdictsOf(ts)

\* No task waits while a machine is idle.
WorkOf(ms, q) == q # <<>> => \A m \in MachineId : ms[m].state # "Idle"

\* The inductive invariant.
IInv ==
  /\ daemon \in {"starting", "serving", "exited"}
  /\ target_size \in Nat
  /\ cancelling \in TaskId \cup {None}
  /\ Sound(machines, tasks, task_queue, unit, events, probe, nspawn,
           next_machine_id, next_task_id)
  /\ WorkOf(machines, task_queue)
  /\ daemon = "starting" => /\ next_machine_id = 0
                            /\ next_task_id = 0
  /\ cancelling # None => tasks[cancelling].state = "Running"

-----------------------------------------------------------------------------
(***************************************************************************)
(* The scheduler.                                                          *)
(***************************************************************************)

\* The bounds, as the arithmetic below needs them.
LEMMA ConstantsAreNumbers ==
  /\ PoolSize \in Nat
  /\ MaxTasks \in Nat
  /\ MaxMachines \in Nat
BY PoolSizeAssumption, BoundsAssumption

\* What is left of a queue when its first n entries are gone.
LEMMA SuffixFacts ==
  ASSUME NEW S, NEW q \in Seq(S), NEW n \in 0..Len(q)
  PROVE  /\ SubSeq(q, n + 1, Len(q)) \in Seq(S)
         /\ Len(SubSeq(q, n + 1, Len(q))) = Len(q) - n
         /\ \A i \in 1..(Len(q) - n) : SubSeq(q, n + 1, Len(q))[i] = q[i + n]
<1>1. SubSeq(q, n + 1, Len(q)) \in Seq(S)
  OBVIOUS
<1>2. Len(SubSeq(q, n + 1, Len(q))) = Len(q) - n
  OBVIOUS
<1>3. \A i \in 1..(Len(q) - n) : SubSeq(q, n + 1, Len(q))[i] = q[i + n]
  OBVIOUS
<1>4. QED BY <1>1, <1>2, <1>3

\* What it means to be idle in a map.
LEMMA IdleMachine ==
  ASSUME NEW ms, NEW m \in IdleMachines(ms)
  PROVE  m \in MachineId /\ ms[m].state = "Idle"
BY DEF IdleMachines

\* A pick assigns the first Len(pick) tasks of the queue, each to a machine of
\* its own.
LEMMA PickFacts ==
  ASSUME NEW ms, NEW q \in Seq(TaskId), NEW pick \in Picks(ms, q)
  PROVE  /\ Len(pick) \in 0..Len(q)
         /\ DOMAIN pick = 1..Len(pick)
         /\ \A i \in 1..Len(pick) : pick[i] \in IdleMachines(ms)
         /\ \A i, j \in 1..Len(pick) : pick[i] = pick[j] => i = j
         /\ \A m \in IdleMachines(ms) \ Picked(pick) : Len(pick) = Len(q)
<1>1. PICK n \in 0..Len(q) : pick \in [1..n -> IdleMachines(ms)]
  BY DEF Picks
<1>2. pick \in Seq(IdleMachines(ms)) /\ Len(pick) = n /\ DOMAIN pick = 1..n
  BY <1>1
<1>3. \A i, j \in DOMAIN pick : i < j => pick[i] < pick[j]
  BY DEF Picks
<1>4. \A i \in 1..n : pick[i] \in Nat
  BY <1>1, IdleMachine, ConstantsAreNumbers DEF MachineId
<1>5. \A i, j \in 1..n : pick[i] = pick[j] => i = j
  BY <1>2, <1>3, <1>4, SMTT(30)
<1>6. \A m \in IdleMachines(ms) \ Picked(pick) : Len(pick) = Len(q)
  BY DEF Picks
<1>7. QED BY <1>1, <1>2, <1>5, <1>6

\* What assign_task leaves in the machines map.
LEMMA AssignMachinesFacts ==
  ASSUME NEW ms \in [MachineId -> MachineRecord], NEW q \in Seq(TaskId),
         NEW pick \in Picks(ms, q)
  PROVE  LET after == AssignMachines(ms, q, pick)
         IN  /\ after \in [MachineId -> MachineRecord]
             /\ \A i \in 1..Len(pick) : /\ after[pick[i]].state = "Busy"
                                        /\ after[pick[i]].current_task_id = q[i]
             /\ \A m \in MachineId : (\A i \in 1..Len(pick) : pick[i] # m) => after[m] = ms[m]
<1> DEFINE after == AssignMachines(ms, q, pick)
<1>1. \A m \in MachineId : m \in Picked(pick) <=> \E i \in 1..Len(pick) : pick[i] = m
  BY PickFacts DEF Picked
<1>2. \A i \in 1..Len(pick) : q[i] \in TaskId
  BY PickFacts
<1>3. ASSUME NEW i \in 1..Len(pick)
      PROVE  after[pick[i]] = [state |-> "Busy", current_task_id |-> q[i]]
  <2>1. pick[i] \in MachineId /\ pick[i] \in Picked(pick)
    BY PickFacts, IdleMachine DEF Picked
  <2>2. (CHOOSE j \in DOMAIN pick : pick[j] = pick[i]) = i
    BY PickFacts
  <2>3. QED BY <2>1, <2>2 DEF AssignMachines
<1>4. ASSUME NEW m \in MachineId, \A i \in 1..Len(pick) : pick[i] # m
      PROVE  after[m] = ms[m]
  BY <1>1, <1>4 DEF AssignMachines
<1>5. ASSUME NEW i \in 1..Len(pick)
      PROVE  /\ after[pick[i]] \in MachineRecord
             /\ after[pick[i]].state = "Busy"
             /\ after[pick[i]].current_task_id = q[i]
  <2> DEFINE r == [state |-> "Busy", current_task_id |-> q[i]]
  <2>1. r \in MachineRecord /\ r.state = "Busy" /\ r.current_task_id = q[i]
    BY <1>2 DEF MachineRecord, MachineState
  <2>2. after[pick[i]] = r
    BY <1>3
  <2> HIDE DEF after, r
  <2>3. QED BY <2>1, <2>2
<1>6. ASSUME NEW m \in MachineId
      PROVE  after[m] \in MachineRecord
  <2> HIDE DEF after
  <2>1. QED BY <1>4, <1>5
<1>7. after \in [MachineId -> MachineRecord]
  BY <1>6 DEF AssignMachines
<1>8. QED BY <1>4, <1>5, <1>7

\* What assign_task leaves in the tasks map.
LEMMA AssignTasksFacts ==
  ASSUME NEW ms, NEW ts \in [TaskId -> TaskRecord], NEW q \in Seq(TaskId),
         NEW pick \in Picks(ms, q), Ascending(q)
  PROVE  LET after == AssignTasks(ts, q, pick)
         IN  /\ after \in [TaskId -> TaskRecord]
             /\ \A i \in 1..Len(pick) :
                  /\ after[q[i]].state = "Running"
                  /\ after[q[i]].machine_id = pick[i]
                  /\ after[q[i]].exit_code = "none"
             /\ \A t \in TaskId : (\A i \in 1..Len(pick) : q[i] # t) => after[t] = ts[t]
<1> DEFINE after == AssignTasks(ts, q, pick)
<1>1. Len(pick) \in 0..Len(q) /\ DOMAIN pick = 1..Len(pick) /\ DOMAIN q = 1..Len(q)
  BY PickFacts
<1>2. \A i \in 1..Len(q) : q[i] \in TaskId /\ q[i] \in Nat
  BY ConstantsAreNumbers DEF TaskId
<1>3. \A i, j \in 1..Len(q) : q[i] = q[j] => i = j
  BY <1>1, <1>2 DEF Ascending
<1>4. ASSUME NEW i \in 1..Len(pick)
      PROVE  after[q[i]] = WithStatus(ts[q[i]], "Running", pick[i], "none")
  <2>1. (CHOOSE j \in DOMAIN pick : q[j] = q[i]) = i
    BY <1>1, <1>3
  <2>2. q[i] \in TaskId /\ \E j \in DOMAIN pick : q[j] = q[i]
    BY <1>1, <1>2
  <2>3. QED BY <2>1, <2>2 DEF AssignTasks
<1>5. ASSUME NEW t \in TaskId, \A i \in 1..Len(pick) : q[i] # t
      PROVE  after[t] = ts[t]
  BY <1>1, <1>5 DEF AssignTasks
<1>6. ASSUME NEW i \in 1..Len(pick)
      PROVE  /\ after[q[i]] \in TaskRecord
             /\ after[q[i]].state = "Running"
             /\ after[q[i]].machine_id = pick[i]
             /\ after[q[i]].exit_code = "none"
  <2>1. q[i] \in TaskId /\ pick[i] \in MachineId
    BY <1>1, <1>2, PickFacts, IdleMachine
  <2>2. ts[q[i]].cancellation_requested \in BOOLEAN
    BY <2>1 DEF TaskRecord
  <2> DEFINE r == WithStatus(ts[q[i]], "Running", pick[i], "none")
  <2>3. /\ r \in TaskRecord
        /\ r.state = "Running"
        /\ r.machine_id = pick[i]
        /\ r.exit_code = "none"
    BY <2>1, <2>2 DEF WithStatus, TaskRecord, TaskState, ExitCode
  <2>4. after[q[i]] = r
    BY <1>4
  <2> HIDE DEF after, r
  <2>5. QED BY <2>3, <2>4
<1>7. ASSUME NEW t \in TaskId
      PROVE  after[t] \in TaskRecord
  <2> HIDE DEF after
  <2>1. QED BY <1>5, <1>6
<1>8. after \in [TaskId -> TaskRecord]
  BY <1>7 DEF AssignTasks
<1>9. QED BY <1>5, <1>6, <1>8

\* Scheduling keeps the invariant, and leaves no idle machine next to a queue.
LEMMA ScheduleKeepsSound ==
  ASSUME NEW ms, NEW ts, NEW q, NEW un, NEW ev, NEW pr, NEW ns, NEW nm, NEW nt,
         Sound(ms, ts, q, un, ev, pr, ns, nm, nt),
         NEW pick \in Picks(ms, q)
  PROVE  LET after == AssignMachines(ms, q, pick)
             rest  == SubSeq(q, Len(pick) + 1, Len(q))
             units == [t \in TaskId |->
                         IF \E i \in DOMAIN pick : q[i] = t THEN "running" ELSE un[t]]
         IN  /\ Sound(after, AssignTasks(ts, q, pick), rest, units, ev, pr, ns, nm, nt)
             /\ WorkOf(after, rest)
<1> DEFINE after == AssignMachines(ms, q, pick)
           tasks2 == AssignTasks(ts, q, pick)
           n == Len(pick)
           rest  == SubSeq(q, n + 1, Len(q))
           units == [t \in TaskId |->
                       IF \E i \in DOMAIN pick : q[i] = t THEN "running" ELSE un[t]]
           Chosen(t) == \E i \in 1..n : q[i] = t
           Given(m) == \E i \in 1..n : pick[i] = m
<1>a. /\ TypesOf(ms, ts, q, un, ev, pr, ns, nm, nt)
      /\ QueueOf(ts, q)
      /\ PlacementOf(ms, ts)
      /\ ProbesOf(ms, ev, pr)
      /\ ProcessesOf(ms, ev, pr, ns)
      /\ UnitsOf(ms, ts, un, ev, nm)
      /\ VerdictsOf(ts)
  BY DEF Sound
<1>b. /\ q \in Seq(TaskId)
      /\ ts \in [TaskId -> TaskRecord]
      /\ ms \in [MachineId -> MachineRecord]
      /\ nm \in Nat /\ nt \in Nat
      /\ \A t \in TaskId : t \in Nat /\ t # None
      /\ \A m \in MachineId : m \in Nat /\ m # None
  BY <1>a, ConstantsAreNumbers DEF TypesOf, TaskId, MachineId, None
<1>c. /\ n \in 0..Len(q)
      /\ DOMAIN pick = 1..n
      /\ Len(q) \in Nat /\ DOMAIN q = 1..Len(q)
      /\ \A i \in 1..n : pick[i] \in MachineId /\ ms[pick[i]].state = "Idle"
      /\ \A i, j \in 1..n : pick[i] = pick[j] => i = j
  BY <1>b, PickFacts, IdleMachine
<1>d. /\ \A i \in 1..Len(q) : q[i] \in TaskId /\ ts[q[i]].state = "Queued"
      /\ \A i, j \in 1..Len(q) : i < j => q[i] < q[j]
      /\ \A i, j \in 1..Len(q) : q[i] = q[j] => i = j
  <2>1. \A i \in 1..Len(q) : q[i] \in TaskId /\ ts[q[i]].state = "Queued"
    BY <1>a, <1>b, <1>c DEF QueueOf
  <2>2. \A i, j \in 1..Len(q) : i < j => q[i] < q[j]
    BY <1>a, <1>c DEF QueueOf, Ascending
  <2>3. QED BY <2>1, <2>2, <1>b
<1>e. /\ after \in [MachineId -> MachineRecord]
      /\ \A i \in 1..n : /\ after[pick[i]].state = "Busy"
                         /\ after[pick[i]].current_task_id = q[i]
      /\ \A m \in MachineId : ~Given(m) => after[m] = ms[m]
  BY <1>b, AssignMachinesFacts, SMTT(30)
<1>f. /\ tasks2 \in [TaskId -> TaskRecord]
      /\ \A i \in 1..n :
           /\ tasks2[q[i]].state = "Running"
           /\ tasks2[q[i]].machine_id = pick[i]
           /\ tasks2[q[i]].exit_code = "none"
      /\ \A t \in TaskId : ~Chosen(t) => tasks2[t] = ts[t]
  <2>1. ts \in [TaskId -> TaskRecord] /\ q \in Seq(TaskId) /\ Ascending(q)
    BY <1>a, <1>b DEF QueueOf
  <2>2. tasks2 \in [TaskId -> TaskRecord]
    BY <2>1, AssignTasksFacts
  <2>3. ASSUME NEW i \in 1..n
        PROVE  /\ tasks2[q[i]].state = "Running"
               /\ tasks2[q[i]].machine_id = pick[i]
               /\ tasks2[q[i]].exit_code = "none"
    BY <2>1, AssignTasksFacts
  <2>4. ASSUME NEW t \in TaskId, ~Chosen(t)
        PROVE  tasks2[t] = ts[t]
    BY <2>4, <1>c DEF AssignTasks
  <2>5. QED BY <2>2, <2>3, <2>4
<1> HIDE DEF after, tasks2
<1>h. /\ rest \in Seq(TaskId)
      /\ Len(rest) = Len(q) - n
      /\ DOMAIN rest = 1..(Len(q) - n)
      /\ \A i \in 1..(Len(q) - n) : rest[i] = q[i + n]
  <2>1. /\ rest \in Seq(TaskId)
        /\ Len(rest) = Len(q) - n
        /\ \A i \in 1..(Len(q) - n) : rest[i] = q[i + n]
    <3>1. q \in Seq(TaskId) /\ n \in 0..Len(q)
      BY <1>b, <1>c
    <3> HIDE DEF n
    <3>2. QED BY <3>1, SuffixFacts
  <2> HIDE DEF rest
  <2>2. QED BY <2>1
<1> HIDE DEF rest
<1>u. \A t \in TaskId : units[t] = IF Chosen(t) THEN "running" ELSE un[t]
  BY <1>c
<1>1. TypesOf(after, tasks2, rest, units, ev, pr, ns, nm, nt)
  <2>3. units \in [TaskId -> {"none", "running", "stopped", "orphaned", "done"}]
    BY <1>a DEF TypesOf
  <2>4. \A t \in TaskId : tasks2[t].state = "Absent" <=> t > nt
    <3>1. \A t \in TaskId : ts[t].state = "Absent" <=> t > nt
      BY <1>a DEF TypesOf
    <3>2. \A t \in TaskId : Chosen(t) => /\ ts[t].state = "Queued"
                                           /\ tasks2[t].state = "Running"
      BY <1>c, <1>d, <1>f, SMTT(30)
    <3>3. \A t \in TaskId : ~Chosen(t) => tasks2[t] = ts[t]
      BY <1>f
    <3>4. QED BY <3>1, <3>2, <3>3
  <2>5. \A m \in MachineId : m > nm => after[m].state = "Absent"
    BY <1>a, <1>c, <1>e DEF TypesOf
  <2>6. QED BY <2>3, <2>4, <2>5, <1>a, <1>e, <1>f, <1>h DEF TypesOf
<1>2. QueueOf(tasks2, rest)
  <2>1. Ascending(rest)
    <3>1. SUFFICES ASSUME NEW i \in 1..(Len(q) - n), NEW j \in 1..(Len(q) - n), i < j
                   PROVE  rest[i] < rest[j]
      BY <1>h DEF Ascending
    <3>2. (i + n) \in 1..Len(q) /\ (j + n) \in 1..Len(q) /\ i + n < j + n
      BY <3>1, <1>c
    <3>3. q[i + n] < q[j + n]
      BY <3>2, <1>d
    <3>4. QED BY <3>3, <1>h
  <2>2. ASSUME NEW t \in TaskId, tasks2[t].state = "Queued"
        PROVE  \E i \in DOMAIN rest : rest[i] = t
    <3>1. ~Chosen(t) /\ ts[t].state = "Queued"
      BY <2>2, <1>f
    <3>2. PICK i \in 1..Len(q) : q[i] = t
      BY <3>1, <1>a, <1>c DEF QueueOf
    <3>3. i \notin 1..n
      BY <3>1, <3>2
    <3>4. (i - n) \in 1..(Len(q) - n) /\ rest[i - n] = t
      BY <3>2, <3>3, <1>c, <1>h
    <3>5. QED BY <3>4, <1>h
  <2>3. ASSUME NEW i \in DOMAIN rest
        PROVE  rest[i] \in TaskId /\ tasks2[rest[i]].state = "Queued"
    <3>1. (i + n) \in 1..Len(q) /\ (i + n) \notin 1..n /\ rest[i] = q[i + n]
      BY <1>c, <1>h
    <3>2. ~Chosen(rest[i])
      BY <3>1, <1>c, <1>d
    <3>3. QED BY <3>1, <3>2, <1>d, <1>f
  <2>4. QED BY <2>1, <2>2, <2>3 DEF QueueOf
<1>3. PlacementOf(after, tasks2)
  <2>1. ASSUME NEW m \in MachineId
        PROVE  after[m].state = "Busy" <=> after[m].current_task_id # None
    <3>1. CASE Given(m)
      <4>1. PICK i \in 1..n : pick[i] = m
        BY <3>1
      <4>2. after[m].state = "Busy" /\ after[m].current_task_id = q[i]
        BY <4>1, <1>e
      <4>3. q[i] # None
        BY <1>b, <1>c, <1>d
      <4>4. QED BY <4>2, <4>3
    <3>2. CASE ~Given(m)
      BY <3>2, <1>a, <1>e DEF PlacementOf
    <3>3. QED BY <3>1, <3>2
  <2>2. ASSUME NEW t \in TaskId, NEW m \in MachineId
        PROVE  after[m].current_task_id = t
                 <=> tasks2[t].state = "Running" /\ tasks2[t].machine_id = m
    <3>1. CASE Given(m) /\ Chosen(t)
      <4>1. PICK i \in 1..n : pick[i] = m
        BY <3>1
      <4>2. PICK j \in 1..n : q[j] = t
        BY <3>1
      <4>3. after[m].current_task_id = t <=> i = j
        BY <4>1, <4>2, <1>c, <1>d, <1>e
      <4>4. tasks2[t].state = "Running" /\ (tasks2[t].machine_id = m <=> i = j)
        BY <4>1, <4>2, <1>c, <1>f
      <4>5. QED BY <4>3, <4>4
    <3>2. CASE Given(m) /\ ~Chosen(t)
      <4>1. PICK i \in 1..n : pick[i] = m
        BY <3>2
      <4>2. after[m].current_task_id # t
        BY <4>1, <3>2, <1>e
      <4>3. ms[m].state = "Idle"
        BY <4>1, <1>c
      <4>4. ms[m].current_task_id # t
        BY <4>3, <1>a, <1>b DEF PlacementOf
      <4>5. QED BY <4>2, <4>4, <3>2, <1>a, <1>f DEF PlacementOf
    <3>3. CASE ~Given(m) /\ Chosen(t)
      <4>1. PICK i \in 1..n : q[i] = t
        BY <3>3
      <4>2. tasks2[t].machine_id # m
        BY <4>1, <3>3, <1>f
      <4>3. ts[t].state = "Queued"
        BY <4>1, <1>c, <1>d
      <4>4. QED BY <4>2, <4>3, <3>3, <1>a, <1>e DEF PlacementOf
    <3>4. CASE ~Given(m) /\ ~Chosen(t)
      BY <3>4, <1>a, <1>e, <1>f DEF PlacementOf
    <3>5. QED BY <3>1, <3>2, <3>3, <3>4
  <2>3. ASSUME NEW t \in TaskId, tasks2[t].state = "Running"
        PROVE  tasks2[t].machine_id # None
    <3>1. CASE Chosen(t)
      <4>1. PICK i \in 1..n : q[i] = t
        BY <3>1
      <4>2. tasks2[t].machine_id = pick[i] /\ pick[i] # None
        BY <4>1, <1>b, <1>c, <1>f
      <4>3. QED BY <4>2
    <3>2. CASE ~Chosen(t)
      BY <3>2, <2>3, <1>a, <1>f DEF PlacementOf
    <3>3. QED BY <3>1, <3>2
  <2>4. QED BY <2>1, <2>2, <2>3 DEF PlacementOf
<1>4. ProbesOf(after, ev, pr)
  BY <1>a, <1>c, <1>e DEF ProbesOf
<1>5. ProcessesOf(after, ev, pr, ns)
  BY <1>a, <1>c, <1>e DEF ProcessesOf
<1>6. UnitsOf(after, tasks2, units, ev, nm)
  <2>1. \A t \in TaskId : Chosen(t) => ts[t].state = "Queued" /\ un[t] = "none"
    BY <1>a, <1>c, <1>d DEF UnitsOf
  <2>2. \A t \in TaskId : units[t] # "none" => tasks2[t].state \notin {"Absent", "Queued"}
    BY <1>a, <1>f, <1>u DEF UnitsOf
  <2>3. \A t \in TaskId, c, d \in ExitCode :
          FinishedEvent(t, c) \in ev =>
            units[t] \in {"orphaned", "done"} /\ (FinishedEvent(t, d) \in ev => c = d)
    BY <1>a, <1>u, <2>1 DEF UnitsOf
  <2>4. \A t \in TaskId : ~Chosen(t) => (Pending(t, units, ev) <=> Pending(t, un, ev))
    BY <1>u DEF Pending
  <2>5. \A t \in TaskId : Chosen(t) => tasks2[t].state = "Running" /\ Pending(t, units, ev)
    BY <1>u, <1>f DEF Pending
  <2>6. \A t \in TaskId : tasks2[t].state = "Running" => Pending(t, units, ev)
    BY <1>a, <1>f, <2>4, <2>5 DEF UnitsOf
  <2>7. ASSUME NEW t \in TaskId, Pending(t, units, ev), tasks2[t].state # "Running"
        PROVE  LostMachine(t, after, tasks2) /\ tasks2[t].machine_id <= nm
    <3>1. ~Chosen(t) /\ tasks2[t] = ts[t]
      BY <2>7, <2>5, <1>f
    <3>2. LostMachine(t, ms, ts) /\ ts[t].machine_id <= nm
      BY <3>1, <2>7, <2>4, <1>a DEF UnitsOf
    <3>3. ~Given(ts[t].machine_id)
      BY <3>2, <1>c DEF LostMachine
    <3>4. QED BY <3>1, <3>2, <3>3, <1>e DEF LostMachine
  <2>8. QED BY <2>2, <2>3, <2>6, <2>7 DEF UnitsOf
<1>7. VerdictsOf(tasks2)
  <2>1. ASSUME NEW t \in TaskId, Chosen(t)
        PROVE  /\ tasks2[t].state = "Running" /\ tasks2[t].exit_code = "none"
               /\ tasks2[t].machine_id # None
    BY <2>1, <1>b, <1>c, <1>f
  <2>2. QED BY <2>1, <1>a, <1>f DEF VerdictsOf
<1>8. WorkOf(after, rest)
  <2>1. ASSUME NEW m \in MachineId, after[m].state = "Idle"
        PROVE  n = Len(q)
    <3>1. ~Given(m) /\ ms[m].state = "Idle"
      BY <2>1, <1>e
    <3>2. m \in IdleMachines(ms) \ Picked(pick)
      BY <3>1, <1>c DEF IdleMachines, Picked
    <3>3. QED BY <3>2, <1>b, PickFacts
  <2>2. n = Len(q) => rest = <<>>
    BY <1>h
  <2>3. QED BY <2>1, <2>2 DEF WorkOf
<1>9. QED BY <1>1, <1>2, <1>3, <1>4, <1>5, <1>6, <1>7, <1>8 DEF Sound, after, tasks2, rest

-----------------------------------------------------------------------------
(***************************************************************************)
(* The pool.                                                               *)
(***************************************************************************)

\* What the loop of reconcile_pool_internal leaves, machine by machine.
LEMMA ReconcileFacts ==
  ASSUME NEW ms \in [MachineId -> MachineRecord], NEW target, NEW k \in Nat,
         NEW ok \in BOOLEAN,
         nspawn \in [MachineId -> {"none", "running", "exited"}],
         probe \in [MachineId -> {"none", "probing", "ready", "timedout"}],
         next_machine_id \in 0..MaxMachines,
         ReconcilePoolInternal(ms, target, k, ok)
  PROVE  /\ machines' \in [MachineId -> MachineRecord]
         /\ nspawn' \in [MachineId -> {"none", "running", "exited"}]
         /\ probe' \in [MachineId -> {"none", "probing", "ready", "timedout"}]
         /\ next_machine_id' \in 0..MaxMachines
         /\ next_machine_id <= next_machine_id'
         /\ \A m \in MachineId :
              IF next_machine_id < m /\ m <= next_machine_id'
              THEN /\ machines'[m].state = "Provisioning"
                   /\ machines'[m].current_task_id = None
                   /\ \/ nspawn'[m] = "running" /\ probe'[m] = "probing"
                      \/ nspawn'[m] = nspawn[m] /\ probe'[m] = probe[m]
              ELSE /\ machines'[m] = ms[m]
                   /\ nspawn'[m] = nspawn[m]
                   /\ probe'[m] = probe[m]
<1> DEFINE fresh   == (next_machine_id + 1)..(next_machine_id + k)
           started == IF ok THEN fresh ELSE fresh \ {next_machine_id + k}
           new     == [state |-> "Provisioning", current_task_id |-> None]
<1>1. /\ next_machine_id' = next_machine_id + k
      /\ next_machine_id' <= MaxMachines
      /\ machines' = [m \in MachineId |-> IF m \in fresh THEN new ELSE ms[m]]
      /\ nspawn' = [m \in MachineId |-> IF m \in started THEN "running" ELSE nspawn[m]]
      /\ probe' = [m \in MachineId |-> IF m \in started THEN "probing" ELSE probe[m]]
  BY DEF ReconcilePoolInternal
<1>2. new \in MachineRecord /\ new.state = "Provisioning" /\ new.current_task_id = None
  BY DEF MachineRecord, MachineState
<1>3. next_machine_id' \in 0..MaxMachines /\ next_machine_id <= next_machine_id'
  BY <1>1, ConstantsAreNumbers
<1>4. \A m \in MachineId : m \in fresh <=> next_machine_id < m /\ m <= next_machine_id'
  BY <1>1, ConstantsAreNumbers DEF MachineId
<1>5. \A m \in MachineId : m \in started => m \in fresh
  OBVIOUS
<1> HIDE DEF fresh, started, new
<1>6. machines' \in [MachineId -> MachineRecord]
  BY <1>1, <1>2
<1>7. /\ nspawn' \in [MachineId -> {"none", "running", "exited"}]
      /\ probe' \in [MachineId -> {"none", "probing", "ready", "timedout"}]
  BY <1>1
<1>8. ASSUME NEW m \in MachineId
      PROVE  IF next_machine_id < m /\ m <= next_machine_id'
             THEN /\ machines'[m].state = "Provisioning"
                  /\ machines'[m].current_task_id = None
                  /\ \/ nspawn'[m] = "running" /\ probe'[m] = "probing"
                     \/ nspawn'[m] = nspawn[m] /\ probe'[m] = probe[m]
             ELSE /\ machines'[m] = ms[m]
                  /\ nspawn'[m] = nspawn[m]
                  /\ probe'[m] = probe[m]
  <2>1. machines'[m] = IF m \in fresh THEN new ELSE ms[m]
    BY <1>1
  <2>2. /\ nspawn'[m] = IF m \in started THEN "running" ELSE nspawn[m]
        /\ probe'[m] = IF m \in started THEN "probing" ELSE probe[m]
    BY <1>1
  <2>3. QED BY <2>1, <2>2, <1>2, <1>4, <1>5
<1>9. QED BY <1>3, <1>6, <1>7, <1>8

\* Reconciling keeps the invariant, and makes no machine idle.
LEMMA ReconcileKeepsSound ==
  ASSUME NEW ms, NEW ts, NEW q, NEW un, NEW ev, NEW nt,
         Sound(ms, ts, q, un, ev, probe, nspawn, next_machine_id, nt),
         NEW target, NEW k \in Nat, NEW ok \in BOOLEAN,
         ReconcilePoolInternal(ms, target, k, ok)
  PROVE  /\ Sound(machines', ts, q, un, ev, probe', nspawn', next_machine_id', nt)
         /\ WorkOf(ms, q) => WorkOf(machines', q)
<1> DEFINE Fresh(m) == next_machine_id < m /\ m <= next_machine_id'
<1>a. /\ TypesOf(ms, ts, q, un, ev, probe, nspawn, next_machine_id, nt)
      /\ QueueOf(ts, q)
      /\ PlacementOf(ms, ts)
      /\ ProbesOf(ms, ev, probe)
      /\ ProcessesOf(ms, ev, probe, nspawn)
      /\ UnitsOf(ms, ts, un, ev, next_machine_id)
      /\ VerdictsOf(ts)
  BY DEF Sound
<1>b. /\ ms \in [MachineId -> MachineRecord]
      /\ nspawn \in [MachineId -> {"none", "running", "exited"}]
      /\ probe \in [MachineId -> {"none", "probing", "ready", "timedout"}]
      /\ next_machine_id \in 0..MaxMachines
  BY <1>a DEF TypesOf
<1>c. /\ machines' \in [MachineId -> MachineRecord]
      /\ nspawn' \in [MachineId -> {"none", "running", "exited"}]
      /\ probe' \in [MachineId -> {"none", "probing", "ready", "timedout"}]
      /\ next_machine_id' \in 0..MaxMachines
      /\ next_machine_id <= next_machine_id'
  BY <1>b, ReconcileFacts
<1>d. \A m \in MachineId : Fresh(m) =>
        /\ machines'[m].state = "Provisioning"
        /\ machines'[m].current_task_id = None
        /\ \/ nspawn'[m] = "running" /\ probe'[m] = "probing"
           \/ nspawn'[m] = nspawn[m] /\ probe'[m] = probe[m]
  BY <1>b, ReconcileFacts
<1>e. \A m \in MachineId : ~Fresh(m) =>
        /\ machines'[m] = ms[m]
        /\ nspawn'[m] = nspawn[m]
        /\ probe'[m] = probe[m]
  BY <1>b, ReconcileFacts
<1>n. /\ next_machine_id \in Nat /\ next_machine_id' \in Nat
      /\ \A m \in MachineId : m \in Nat /\ m # None
  BY <1>b, <1>c, ConstantsAreNumbers DEF MachineId, None
<1>f. \A m \in MachineId : Fresh(m) =>
        ms[m].state = "Absent" /\ nspawn[m] = "none" /\ probe[m] = "none"
  BY <1>a DEF TypesOf
<1>1. TypesOf(machines', ts, q, un, ev, probe', nspawn', next_machine_id', nt)
  <2>1. \A m \in MachineId : m > next_machine_id' =>
          machines'[m].state = "Absent" /\ nspawn'[m] = "none" /\ probe'[m] = "none"
    <3>1. \A m \in MachineId : m > next_machine_id' => ~Fresh(m) /\ m > next_machine_id
      BY <1>c, <1>n
    <3>2. QED BY <3>1, <1>a, <1>e DEF TypesOf
  <2>2. QED BY <2>1, <1>a, <1>c DEF TypesOf
<1>2. QueueOf(ts, q)
  BY <1>a
<1>3. PlacementOf(machines', ts)
  <2>1. ASSUME NEW m \in MachineId, Fresh(m)
        PROVE  /\ ms[m].current_task_id = None
               /\ machines'[m].state # "Busy"
               /\ machines'[m].current_task_id = None
    BY <2>1, <1>a, <1>d, <1>f DEF PlacementOf
  <2>2. \A m \in MachineId : machines'[m].current_task_id = ms[m].current_task_id
    BY <2>1, <1>e
  <2>3. \A m \in MachineId : machines'[m].state = "Busy" <=> ms[m].state = "Busy"
    BY <2>1, <1>e, <1>f
  <2>4. QED BY <2>2, <2>3, <1>a DEF PlacementOf
<1>4. ProbesOf(machines', ev, probe')
  <2>1. ASSUME NEW m \in MachineId, Fresh(m)
        PROVE  /\ ReadyEvent(m) \notin ev
               /\ ProvisionFailedEvent(m) \notin ev
               /\ machines'[m].state = "Provisioning"
               /\ probe'[m] \in {"none", "probing"}
    BY <2>1, <1>a, <1>d, <1>f DEF ProbesOf
  <2>2. QED BY <2>1, <1>a, <1>e DEF ProbesOf
<1>5. ProcessesOf(machines', ev, probe', nspawn')
  <2>1. ASSUME NEW m \in MachineId, Fresh(m)
        PROVE  /\ ExitedEvent(m) \notin ev
               /\ machines'[m].state = "Provisioning"
               /\ nspawn'[m] \in {"none", "running"}
    BY <2>1, <1>a, <1>d, <1>f DEF ProcessesOf
  <2>2. QED BY <2>1, <1>a, <1>e DEF ProcessesOf
<1>6. UnitsOf(machines', ts, un, ev, next_machine_id')
  <2>1. ASSUME NEW t \in TaskId, LostMachine(t, ms, ts), ts[t].machine_id <= next_machine_id
        PROVE  LostMachine(t, machines', ts) /\ ts[t].machine_id <= next_machine_id'
    <3>1. ts[t].machine_id \in MachineId /\ ~Fresh(ts[t].machine_id)
      BY <2>1, <1>n DEF LostMachine
    <3>2. ts[t].machine_id <= next_machine_id'
      BY <3>1, <2>1, <1>c, <1>n
    <3>3. QED BY <2>1, <3>1, <3>2, <1>e DEF LostMachine
  <2>2. QED BY <2>1, <1>a DEF UnitsOf
<1>7. ASSUME WorkOf(ms, q)
      PROVE  WorkOf(machines', q)
  BY <1>7, <1>d, <1>e DEF WorkOf
<1>8. QED BY <1>1, <1>2, <1>3, <1>4, <1>5, <1>6, <1>7, <1>a DEF Sound

-----------------------------------------------------------------------------
(***************************************************************************)
(* Records and events.                                                     *)
(***************************************************************************)

\* The fields of a task record; records are compared field by field below.
LEMMA TaskFields ==
  ASSUME NEW task \in TaskRecord
  PROVE  /\ task.state \in TaskState \cup {"Absent"}
         /\ task.machine_id \in MachineId \cup {None}
         /\ task.exit_code \in ExitCode
         /\ task.cancellation_requested \in BOOLEAN
BY DEF TaskRecord

\* WithStatus gives a record with the fields it is told, and keeps the request.
LEMMA WithStatusFields ==
  ASSUME NEW task, task.cancellation_requested \in BOOLEAN,
         NEW state \in TaskState, NEW machine_id \in MachineId \cup {None},
         NEW exit_code \in ExitCode
  PROVE  LET new == WithStatus(task, state, machine_id, exit_code)
         IN  /\ new \in TaskRecord
             /\ new.state = state
             /\ new.machine_id = machine_id
             /\ new.exit_code = exit_code
             /\ new.cancellation_requested = task.cancellation_requested
BY DEF WithStatus, TaskRecord

\* The fields of a missing machine.
LEMMA AbsentMachineFields ==
  /\ AbsentMachine \in MachineRecord
  /\ AbsentMachine.state = "Absent"
  /\ AbsentMachine.current_task_id = None
BY DEF AbsentMachine, MachineRecord

\* An event tells its kind and what it is about.
LEMMA EventsDiffer ==
  ASSUME NEW m, NEW n, NEW t, NEW u, NEW c, NEW d
  PROVE  /\ ReadyEvent(m) = ReadyEvent(n) => m = n
         /\ ProvisionFailedEvent(m) = ProvisionFailedEvent(n) => m = n
         /\ ExitedEvent(m) = ExitedEvent(n) => m = n
         /\ FinishedEvent(t, c) = FinishedEvent(u, d) => t = u /\ c = d
         /\ ReadyEvent(m) # ProvisionFailedEvent(n)
         /\ ReadyEvent(m) # ExitedEvent(n)
         /\ ReadyEvent(m) # FinishedEvent(t, c)
         /\ ProvisionFailedEvent(m) # ExitedEvent(n)
         /\ ProvisionFailedEvent(m) # FinishedEvent(t, c)
         /\ ExitedEvent(m) # FinishedEvent(t, c)
BY DEF ReadyEvent, ProvisionFailedEvent, ExitedEvent, FinishedEvent

\* Each kind of event is one.
LEMMA EventTypes ==
  /\ \A m \in MachineId : /\ ReadyEvent(m) \in MachineEvent
                          /\ ProvisionFailedEvent(m) \in MachineEvent
                          /\ ExitedEvent(m) \in MachineEvent
  /\ \A t \in TaskId, c \in ExitCode : FinishedEvent(t, c) \in TaskEvent
BY DEF ReadyEvent, ProvisionFailedEvent, ExitedEvent, FinishedEvent, MachineEvent, TaskEvent

\* Removing one id from an ascending queue.
LEMMA WithoutFacts ==
  ASSUME NEW q \in Seq(TaskId), Ascending(q), NEW p \in 1..Len(q)
  PROVE  LET rest == Without(q, q[p])
         IN  /\ rest \in Seq(TaskId)
             /\ Ascending(rest)
             /\ \A t \in TaskId : (\E i \in DOMAIN rest : rest[i] = t)
                                    <=> t # q[p] /\ \E i \in DOMAIN q : q[i] = t
<1> DEFINE n == Len(q)
           At(i) == IF p <= i THEN q[i + 1] ELSE q[i]
           rest == Without(q, q[p])
<1>1. n \in Nat /\ DOMAIN q = 1..n /\ \A i \in 1..n : q[i] \in TaskId /\ q[i] \in Nat
  BY ConstantsAreNumbers DEF TaskId
<1>2. \A i, j \in 1..n : i < j => q[i] < q[j]
  BY <1>1 DEF Ascending
<1>3. \A i, j \in 1..n : q[i] = q[j] => i = j
  BY <1>1, <1>2
<1>4. \A i \in 1..(n - 1) : (\E j \in 1..i : q[j] = q[p]) <=> p <= i
  BY <1>1, <1>3
<1>5. rest = [i \in 1..(n - 1) |-> At(i)]
  BY <1>4 DEF Without
<1>6. \A i \in 1..(n - 1) : At(i) \in TaskId
  BY <1>1
<1> HIDE DEF rest
<1>7. /\ rest \in Seq(TaskId)
      /\ DOMAIN rest = 1..(n - 1)
      /\ \A i \in 1..(n - 1) : rest[i] = At(i)
  <2>1. n - 1 \in Nat
    BY <1>1
  <2> HIDE DEF n, At
  <2>2. QED BY <2>1, <1>5, <1>6
<1>8. Ascending(rest)
  BY <1>1, <1>2, <1>7 DEF Ascending
<1>9. ASSUME NEW t \in TaskId
      PROVE  (\E i \in DOMAIN rest : rest[i] = t)
               <=> t # q[p] /\ \E i \in DOMAIN q : q[i] = t
  <2>1. ASSUME NEW i \in 1..(n - 1), rest[i] = t
        PROVE  t # q[p] /\ \E j \in 1..n : q[j] = t
    BY <2>1, <1>1, <1>3, <1>7
  <2>2. ASSUME NEW i \in 1..n, q[i] = t, t # q[p]
        PROVE  \E j \in 1..(n - 1) : rest[j] = t
    <3>1. CASE i < p
      <4>1. i \in 1..(n - 1) /\ rest[i] = t
        BY <3>1, <2>2, <1>1, <1>7
      <4>2. QED BY <4>1
    <3>2. CASE p < i
      <4>1. (i - 1) \in 1..(n - 1) /\ rest[i - 1] = t
        BY <3>2, <2>2, <1>1, <1>7
      <4>2. QED BY <4>1
    <3>3. QED BY <3>1, <3>2, <2>2, <1>1
  <2>3. QED BY <2>1, <2>2, <1>1, <1>7
<1>10. QED BY <1>7, <1>8, <1>9 DEF rest

-----------------------------------------------------------------------------
(***************************************************************************)
(* Init, and the commands.                                                 *)
(***************************************************************************)

\* Nothing exists and nothing runs: a daemon that does not serve yet, or no longer.
Blank ==
  /\ daemon \in {"starting", "exited"}
  /\ target_size = 0
  /\ next_machine_id = 0
  /\ next_task_id = 0
  /\ machines = [m \in MachineId |-> AbsentMachine]
  /\ tasks = [t \in TaskId |-> AbsentTask]
  /\ task_queue = <<>>
  /\ cancelling = None
  /\ events = {}
  /\ nspawn = [m \in MachineId |-> "none"]
  /\ probe = [m \in MachineId |-> "none"]
  /\ unit = [t \in TaskId |-> "none"]

LEMMA BlankIInv == Blank => IInv
<1> SUFFICES ASSUME Blank PROVE IInv
  OBVIOUS
<1>1. /\ \A m \in MachineId : machines[m] = AbsentMachine
      /\ \A m \in MachineId : machines[m].state = "Absent" /\ machines[m].current_task_id = None
      /\ machines \in [MachineId -> MachineRecord]
  BY AbsentMachineFields DEF Blank
<1>2. /\ AbsentTask \in TaskRecord
      /\ AbsentTask.state = "Absent" /\ AbsentTask.machine_id = None
      /\ AbsentTask.exit_code = "none" /\ ~AbsentTask.cancellation_requested
  BY DEF AbsentTask, TaskRecord, ExitCode
<1>3. /\ \A t \in TaskId : /\ tasks[t].state = "Absent" /\ tasks[t].machine_id = None
                           /\ tasks[t].exit_code = "none" /\ ~tasks[t].cancellation_requested
      /\ tasks \in [TaskId -> TaskRecord]
  BY <1>2 DEF Blank
<1>4. /\ \A t \in TaskId : t \in Nat /\ t > 0
      /\ \A m \in MachineId : m \in Nat /\ m > 0
  BY ConstantsAreNumbers DEF TaskId, MachineId
<1>5. TypesOf(machines, tasks, task_queue, unit, events, probe, nspawn,
              next_machine_id, next_task_id)
  <2>1. task_queue \in Seq(TaskId)
    BY DEF Blank
  <2>2. next_machine_id \in 0..MaxMachines /\ next_task_id \in 0..MaxTasks
    BY ConstantsAreNumbers DEF Blank
  <2>3. /\ unit \in [TaskId -> {"none", "running", "stopped", "orphaned", "done"}]
        /\ probe \in [MachineId -> {"none", "probing", "ready", "timedout"}]
        /\ nspawn \in [MachineId -> {"none", "running", "exited"}]
        /\ events \subseteq MachineEvent \cup TaskEvent
    BY DEF Blank
  <2>4. /\ \A t \in TaskId : tasks[t].state = "Absent" <=> t > next_task_id
        /\ \A m \in MachineId : m > next_machine_id =>
             machines[m].state = "Absent" /\ nspawn[m] = "none" /\ probe[m] = "none"
    BY <1>1, <1>3, <1>4 DEF Blank
  <2>5. QED BY <1>1, <1>3, <2>1, <2>2, <2>3, <2>4 DEF TypesOf
<1>6. QueueOf(tasks, task_queue)
  BY <1>3 DEF Blank, QueueOf, Ascending
<1>7. PlacementOf(machines, tasks)
  BY <1>1, <1>3, <1>4 DEF PlacementOf, None
<1>8. ProbesOf(machines, events, probe) /\ ProcessesOf(machines, events, probe, nspawn)
  BY <1>1 DEF Blank, ProbesOf, ProcessesOf
<1>9. UnitsOf(machines, tasks, unit, events, next_machine_id)
  BY <1>3 DEF Blank, UnitsOf, Pending
<1>10. VerdictsOf(tasks)
  BY <1>3 DEF VerdictsOf
<1>11. WorkOf(machines, task_queue)
  BY DEF Blank, WorkOf
<1>12. QED
  BY <1>5, <1>6, <1>7, <1>8, <1>9, <1>10, <1>11 DEF Blank, IInv, Sound

LEMMA InitIInv == Init => IInv
BY BlankIInv DEF Init, Blank

\* The parts of the invariant, with the types most steps need.
LEMMA SoundParts ==
  ASSUME IInv
  PROVE  /\ TypesOf(machines, tasks, task_queue, unit, events, probe, nspawn,
                    next_machine_id, next_task_id)
         /\ QueueOf(tasks, task_queue)
         /\ PlacementOf(machines, tasks)
         /\ ProbesOf(machines, events, probe)
         /\ ProcessesOf(machines, events, probe, nspawn)
         /\ UnitsOf(machines, tasks, unit, events, next_machine_id)
         /\ VerdictsOf(tasks)
         /\ machines \in [MachineId -> MachineRecord]
         /\ tasks \in [TaskId -> TaskRecord]
         /\ next_machine_id \in Nat /\ next_task_id \in Nat
         /\ \A t \in TaskId : t \in Nat /\ t # None
         /\ \A m \in MachineId : m \in Nat /\ m # None
BY ConstantsAreNumbers DEF IInv, Sound, TypesOf, TaskId, MachineId, None

\* build_backend spawns machines, and does no more.
LEMMA ReconcilePoolKeeps ==
  ASSUME IInv, ReconcilePool
  PROVE  IInv'
<1>1. PICK k \in 0..PoolSize, ok \in BOOLEAN :
        /\ ReconcilePoolInternal(machines, PoolSize, k, ok)
        /\ daemon' = IF ok THEN "serving" ELSE "exited"
  BY DEF ReconcilePool
<1>2. Sound(machines, tasks, task_queue, unit, events, probe, nspawn,
            next_machine_id, next_task_id) /\ WorkOf(machines, task_queue)
  BY DEF IInv
<1>3. k \in Nat
  BY ConstantsAreNumbers
<1>4. /\ Sound(machines', tasks, task_queue, unit, events, probe', nspawn',
               next_machine_id', next_task_id)
      /\ WorkOf(machines', task_queue)
  BY <1>1, <1>2, <1>3, ReconcileKeepsSound
<1>5. /\ target_size' \in Nat
      /\ daemon' \in {"serving", "exited"}
      /\ UNCHANGED <<next_task_id, tasks, task_queue, cancelling, events, unit>>
  BY <1>1, ConstantsAreNumbers DEF ReconcilePool
<1>6. QED BY <1>4, <1>5 DEF IInv

\* The new task goes to the end of the queue; then the scheduler runs.
LEMMA StartTaskKeeps ==
  ASSUME IInv, StartTask
  PROVE  IInv'
<1> DEFINE id == next_task_id + 1
           new == WithStatus(AbsentTask, "Queued", None, "none")
           ts == [tasks EXCEPT ![id] = new]
           q  == Enqueue(task_queue, id)
<1>a. /\ id \in TaskId
      /\ daemon = "serving" /\ cancelling = None
      /\ UNCHANGED <<daemon, target_size, next_machine_id, cancelling, events, nspawn, probe>>
      /\ next_task_id' = id
  BY DEF StartTask, ActorReady
<1>b. PICK pick \in Picks(machines, q) :
        /\ machines' = AssignMachines(machines, q, pick)
        /\ ScheduleTasks(ts, q, pick)
  BY DEF StartTask
<1>c. /\ new \in TaskRecord /\ new.state = "Queued" /\ new.machine_id = None
      /\ new.exit_code = "none" /\ new.cancellation_requested = FALSE
  BY DEF WithStatus, AbsentTask, TaskRecord, TaskState, ExitCode
<1>d. \A t \in TaskId : ts[t] = IF t = id THEN new ELSE tasks[t]
  BY SoundParts
<1>e. ts \in [TaskId -> TaskRecord]
  BY <1>c, SoundParts
<1>f. /\ tasks[id].state = "Absent"
      /\ \A t \in TaskId : tasks[t].state = "Absent" <=> t > next_task_id
  BY <1>a, SoundParts DEF TypesOf
<1>g. /\ task_queue \in Seq(TaskId)
      /\ Ascending(task_queue)
      /\ \A t \in TaskId : tasks[t].state = "Queued"
                             <=> \E i \in DOMAIN task_queue : task_queue[i] = t
  BY SoundParts DEF TypesOf, QueueOf
<1>h. /\ q \in Seq(TaskId)
      /\ Len(q) = Len(task_queue) + 1
      /\ DOMAIN q = 1..(Len(task_queue) + 1)
      /\ Len(task_queue) \in Nat /\ DOMAIN task_queue = 1..Len(task_queue)
      /\ \A i \in 1..Len(task_queue) : q[i] = task_queue[i]
      /\ q[Len(task_queue) + 1] = id
  BY <1>a, <1>g DEF Enqueue
<1>i. \A i \in 1..Len(task_queue) : /\ task_queue[i] \in TaskId
                                    /\ task_queue[i] \in Nat
                                    /\ task_queue[i] < id
  <2>1. SUFFICES ASSUME NEW i \in 1..Len(task_queue)
                 PROVE  /\ task_queue[i] \in TaskId
                        /\ task_queue[i] \in Nat
                        /\ task_queue[i] < id
    OBVIOUS
  <2>2. task_queue[i] \in TaskId /\ tasks[task_queue[i]].state = "Queued"
    BY <1>g, <1>h
  <2>3. ~(task_queue[i] > next_task_id)
    BY <2>2, <1>f
  <2>4. QED BY <2>2, <2>3, SoundParts
<1>u. unit[id] = "none"
  BY <1>a, <1>f, SoundParts DEF UnitsOf
<1> HIDE DEF id, new, ts, q
<1>1. TypesOf(machines, ts, q, unit, events, probe, nspawn, next_machine_id, id)
  <2>1. id \in 0..MaxTasks /\ id \in Nat /\ id = next_task_id + 1
    BY <1>a, ConstantsAreNumbers DEF TaskId, id
  <2>2. \A t \in TaskId : ts[t].state = "Absent" <=> t > id
    BY <2>1, <1>c, <1>d, <1>f, SoundParts
  <2>3. QED BY <2>1, <2>2, <1>e, <1>h, SoundParts DEF TypesOf
<1>2. QueueOf(ts, q)
  <2>1. Ascending(q)
    <3>1. \A i, j \in 1..Len(task_queue) : i < j => task_queue[i] < task_queue[j]
      BY <1>g, <1>h DEF Ascending
    <3>2. \A i \in 1..(Len(task_queue) + 1) : i \in 1..Len(task_queue) \/ i = Len(task_queue) + 1
      BY <1>h
    <3>3. QED BY <3>1, <3>2, <1>h, <1>i DEF Ascending
  <2>2. ASSUME NEW t \in TaskId
        PROVE  ts[t].state = "Queued" <=> \E i \in DOMAIN q : q[i] = t
    <3>1. (\E i \in DOMAIN q : q[i] = t)
            <=> t = id \/ \E i \in DOMAIN task_queue : task_queue[i] = t
      <4>1. \A i \in 1..(Len(task_queue) + 1) : i \in 1..Len(task_queue) \/ i = Len(task_queue) + 1
        BY <1>h
      <4>2. Len(task_queue) + 1 \in 1..(Len(task_queue) + 1)
            /\ \A i \in 1..Len(task_queue) : i \in 1..(Len(task_queue) + 1)
        BY <1>h
      <4>3. QED BY <4>1, <4>2, <1>h
    <3>2. QED BY <3>1, <1>c, <1>d, <1>g
  <2>3. QED BY <2>1, <2>2 DEF QueueOf
<1>3. PlacementOf(machines, ts)
  <2>1. \A m \in MachineId : machines[m].current_task_id # id
    BY <1>a, <1>f, SoundParts DEF PlacementOf
  <2>2. QED BY <2>1, <1>a, <1>c, <1>d, SoundParts DEF PlacementOf
<1>4. UnitsOf(machines, ts, unit, events, next_machine_id)
  <2>1. ~Pending(id, unit, events)
    BY <1>a, <1>f, <1>u, SoundParts DEF UnitsOf, Pending
  <2>2. \A t \in TaskId : LostMachine(t, machines, tasks) => t # id
    BY <1>f DEF LostMachine
  <2>3. \A t \in TaskId : t # id /\ LostMachine(t, machines, tasks) => LostMachine(t, machines, ts)
    BY <1>d DEF LostMachine
  <2>4. \A t \in TaskId : unit[t] # "none" => ts[t].state \notin {"Absent", "Queued"}
    BY <1>d, <1>u, SoundParts DEF UnitsOf
  <2>5. \A t \in TaskId : ts[t].state = "Running" => Pending(t, unit, events)
    BY <1>c, <1>d, SoundParts DEF UnitsOf
  <2>6. \A t \in TaskId : Pending(t, unit, events) /\ ts[t].state # "Running" =>
          LostMachine(t, machines, ts) /\ ts[t].machine_id <= next_machine_id
    BY <2>1, <2>3, <1>d, SoundParts DEF UnitsOf
  <2>7. QED BY <2>4, <2>5, <2>6, SoundParts DEF UnitsOf
<1>5. VerdictsOf(ts)
  BY <1>c, <1>d, SoundParts DEF VerdictsOf
<1>6. Sound(machines, ts, q, unit, events, probe, nspawn, next_machine_id, id)
  BY <1>1, <1>2, <1>3, <1>4, <1>5, SoundParts DEF Sound
<1>7. /\ Sound(machines', tasks', task_queue', unit', events, probe, nspawn, next_machine_id, id)
      /\ WorkOf(machines', task_queue')
  BY <1>6, <1>b, ScheduleKeepsSound DEF ScheduleTasks
<1>8. QED BY <1>7, <1>a DEF IInv

\* The task leaves both the queue and the Queued tasks.
LEMMA CancelQueuedKeeps ==
  ASSUME IInv, NEW c \in TaskId, CancelQueued(c)
  PROVE  IInv'
<1> DEFINE new == WithStatus(tasks[c], "Cancelled", tasks[c].machine_id, "none")
<1>a. /\ tasks[c].state = "Queued"
      /\ daemon = "serving" /\ cancelling = None
      /\ tasks' = [tasks EXCEPT ![c] = new]
      /\ UNCHANGED <<daemon, target_size, next_machine_id, next_task_id, machines,
                     cancelling, events, procVars>>
  BY DEF CancelQueued, ActorReady
<1>b. tasks[c].machine_id = None /\ tasks[c].cancellation_requested = FALSE
  BY <1>a, SoundParts, TaskFields DEF VerdictsOf
<1>c. /\ new \in TaskRecord /\ new.state = "Cancelled" /\ new.machine_id = None
      /\ new.exit_code = "none" /\ new.cancellation_requested = FALSE
  <2>1. "Cancelled" \in TaskState /\ "none" \in ExitCode
    BY DEF TaskState, ExitCode
  <2>2. /\ tasks[c].machine_id \in MachineId \cup {None}
        /\ tasks[c].cancellation_requested \in BOOLEAN
    BY <1>b
  <2>3. /\ new \in TaskRecord
        /\ new.state = "Cancelled"
        /\ new.machine_id = tasks[c].machine_id
        /\ new.exit_code = "none"
        /\ new.cancellation_requested = tasks[c].cancellation_requested
    BY <2>1, <2>2, WithStatusFields
  <2> HIDE DEF new
  <2>4. QED BY <2>3, <1>b
<1>d. \A t \in TaskId : tasks'[t] = IF t = c THEN new ELSE tasks[t]
  BY <1>a, SoundParts
<1>e. tasks' \in [TaskId -> TaskRecord]
  BY <1>a, <1>c, SoundParts
<1>f. /\ task_queue \in Seq(TaskId)
      /\ Ascending(task_queue)
      /\ \A t \in TaskId : tasks[t].state = "Queued"
                             <=> \E i \in DOMAIN task_queue : task_queue[i] = t
  BY SoundParts DEF TypesOf, QueueOf
<1>g. PICK p \in DOMAIN task_queue : task_queue[p] = c
  BY <1>a, <1>f
<1>h. p \in 1..Len(task_queue)
  BY <1>f
<1>i. task_queue' = Without(task_queue, task_queue[p])
  BY <1>g DEF CancelQueued
<1>j. /\ task_queue' \in Seq(TaskId)
      /\ Ascending(task_queue')
      /\ \A t \in TaskId : (\E i \in DOMAIN task_queue' : task_queue'[i] = t)
                             <=> t # c /\ \E i \in DOMAIN task_queue : task_queue[i] = t
  <2> DEFINE rest == Without(task_queue, task_queue[p])
  <2>1. /\ rest \in Seq(TaskId)
        /\ Ascending(rest)
        /\ \A t \in TaskId : (\E i \in DOMAIN rest : rest[i] = t)
              <=> t # task_queue[p] /\ \E i \in DOMAIN task_queue : task_queue[i] = t
    BY <1>f, <1>h, WithoutFacts
  <2>2. task_queue' = rest
    BY <1>i
  <2> HIDE DEF rest
  <2>3. QED BY <2>1, <2>2, <1>g
<1>k. unit[c] = "none" /\ \A m \in MachineId : machines[m].current_task_id # c
  BY <1>a, SoundParts DEF UnitsOf, PlacementOf, TypesOf
<1> HIDE DEF new
<1>1. TypesOf(machines, tasks', task_queue', unit, events, probe, nspawn,
              next_machine_id, next_task_id)
  <2>1. \A t \in TaskId : tasks'[t].state = "Absent" <=> t > next_task_id
    BY <1>a, <1>c, <1>d, SoundParts DEF TypesOf
  <2>2. QED BY <2>1, <1>e, <1>j, SoundParts DEF TypesOf
<1>2. QueueOf(tasks', task_queue')
  BY <1>c, <1>d, <1>f, <1>j DEF QueueOf
<1>3. PlacementOf(machines, tasks')
  BY <1>c, <1>d, <1>k, SoundParts DEF PlacementOf
<1>4. UnitsOf(machines, tasks', unit, events, next_machine_id)
  <2>1. ~Pending(c, unit, events)
    BY <1>a, <1>k, SoundParts DEF UnitsOf, Pending
  <2>2. \A t \in TaskId : t # c /\ LostMachine(t, machines, tasks) => LostMachine(t, machines, tasks')
    BY <1>d DEF LostMachine
  <2>3. \A t \in TaskId : unit[t] # "none" => tasks'[t].state \notin {"Absent", "Queued"}
    BY <1>d, <1>k, SoundParts DEF UnitsOf
  <2>4. \A t \in TaskId : tasks'[t].state = "Running" => Pending(t, unit, events)
    BY <1>c, <1>d, SoundParts DEF UnitsOf
  <2>5. \A t \in TaskId : Pending(t, unit, events) /\ tasks'[t].state # "Running" =>
          LostMachine(t, machines, tasks') /\ tasks'[t].machine_id <= next_machine_id
    BY <2>1, <2>2, <1>d, SoundParts DEF UnitsOf
  <2>6. QED BY <2>3, <2>4, <2>5, SoundParts DEF UnitsOf
<1>5. VerdictsOf(tasks')
  BY <1>c, <1>d, SoundParts DEF VerdictsOf
<1>6. WorkOf(machines, task_queue')
  <2>1. task_queue' # <<>> => task_queue # <<>>
    BY <1>g, <1>f
  <2>2. QED BY <2>1 DEF IInv, WorkOf
<1>7. Sound(machines, tasks', task_queue', unit, events, probe, nspawn,
            next_machine_id, next_task_id)
  BY <1>1, <1>2, <1>3, <1>4, <1>5, SoundParts DEF Sound
<1>8. QED BY <1>6, <1>7, <1>a DEF IInv, procVars

\* Only the request is recorded; the machine stays with the task.
LEMMA CancelRunningKeeps ==
  ASSUME IInv, NEW c \in TaskId, CancelRunning(c)
  PROVE  IInv'
<1>a. /\ tasks[c].state = "Running"
      /\ daemon = "serving" /\ cancelling = None
      /\ tasks' = [tasks EXCEPT ![c].cancellation_requested = TRUE]
      /\ cancelling' \in {c, None}
      /\ UNCHANGED <<daemon, target_size, next_machine_id, next_task_id, machines,
                     task_queue, events, procVars>>
  BY DEF CancelRunning, ActorReady
<1>b. tasks \in [TaskId -> TaskRecord]
  BY SoundParts
<1>c. /\ tasks' \in [TaskId -> TaskRecord]
      /\ \A t \in TaskId : /\ tasks'[t].state = tasks[t].state
                           /\ tasks'[t].machine_id = tasks[t].machine_id
                           /\ tasks'[t].exit_code = tasks[t].exit_code
      /\ \A t \in TaskId : t # c => tasks'[t] = tasks[t]
  BY <1>a, <1>b DEF TaskRecord
<1>1. TypesOf(machines, tasks', task_queue, unit, events, probe, nspawn,
              next_machine_id, next_task_id)
  BY <1>c, SoundParts DEF TypesOf
<1>2. QueueOf(tasks', task_queue)
  BY <1>c, SoundParts DEF QueueOf
<1>3. PlacementOf(machines, tasks')
  BY <1>c, SoundParts DEF PlacementOf
<1>4. UnitsOf(machines, tasks', unit, events, next_machine_id)
  <2>1. \A t \in TaskId : LostMachine(t, machines, tasks) => LostMachine(t, machines, tasks')
    BY <1>c DEF LostMachine
  <2>2. QED BY <2>1, <1>c, SoundParts DEF UnitsOf
<1>5. VerdictsOf(tasks')
  BY <1>a, <1>c, SoundParts DEF VerdictsOf
<1>6. Sound(machines, tasks', task_queue, unit, events, probe, nspawn,
            next_machine_id, next_task_id)
  BY <1>1, <1>2, <1>3, <1>4, <1>5, SoundParts DEF Sound
<1>7. cancelling' # None => tasks'[cancelling'].state = "Running"
  BY <1>a, <1>c
<1>8. QED BY <1>6, <1>7, <1>a DEF IInv, procVars

\* The unit that systemctl stopped was running, and is still waited for; or it was
\* orphaned, or of a former daemon.
LEMMA CancelReturnsKeeps ==
  ASSUME IInv, NEW ok \in BOOLEAN, CancelReturns(ok)
  PROVE  IInv'
<1>a. /\ cancelling \in TaskId
      /\ tasks[cancelling].state = "Running"
      /\ cancelling' = None
      /\ UNCHANGED <<daemon, actorVars, events, nspawn, probe>>
  BY DEF CancelReturns, IInv
<1>b. unit \in [TaskId -> {"none", "running", "stopped", "orphaned", "done"}]
  BY SoundParts DEF TypesOf
<1>c. /\ unit' \in [TaskId -> {"none", "running", "stopped", "orphaned", "done"}]
      /\ \A t \in TaskId : \/ unit'[t] = unit[t]
                           \/ unit[t] = "running" /\ unit'[t] = "stopped"
                           \/ unit[t] = "orphaned" /\ unit'[t] = "done"
  BY <1>a, <1>b DEF CancelReturns
<1>d. \A t \in TaskId : Pending(t, unit', events) <=> Pending(t, unit, events)
  BY <1>c DEF Pending
<1>1. TypesOf(machines, tasks, task_queue, unit', events, probe, nspawn,
              next_machine_id, next_task_id)
  BY <1>c, SoundParts DEF TypesOf
<1>2. UnitsOf(machines, tasks, unit', events, next_machine_id)
  BY <1>c, <1>d, SoundParts DEF UnitsOf
<1>3. Sound(machines, tasks, task_queue, unit', events, probe, nspawn,
            next_machine_id, next_task_id)
  BY <1>1, <1>2, SoundParts DEF Sound
<1>4. QED BY <1>3, <1>a DEF IInv, actorVars

-----------------------------------------------------------------------------
(***************************************************************************)
(* The events.                                                             *)
(***************************************************************************)

\* A machine that reports ready is still provisioning, or was removed.
LEMMA MachineReadyKeeps ==
  ASSUME IInv, NEW r \in MachineId, MachineReady(r)
  PROVE  IInv'
<1> DEFINE ms == IF machines[r].state = "Absent" THEN machines
                 ELSE [machines EXCEPT ![r].state = "Idle"]
<1>a. /\ ReadyEvent(r) \in events
      /\ events' = events \ {ReadyEvent(r)}
      /\ daemon = "serving" /\ cancelling = None
      /\ UNCHANGED <<daemon, target_size, next_machine_id, next_task_id, cancelling,
                     nspawn, probe>>
  BY DEF MachineReady, Receive, ActorReady
<1>b. PICK pick \in Picks(ms, task_queue) :
        /\ machines' = AssignMachines(ms, task_queue, pick)
        /\ ScheduleTasks(tasks, task_queue, pick)
  BY DEF MachineReady
<1>c. /\ probe[r] = "ready"
      /\ machines[r].state \notin {"Idle", "Busy"}
  BY <1>a, SoundParts DEF ProbesOf
<1>d. machines[r].current_task_id = None
  BY <1>c, SoundParts DEF PlacementOf
<1>e. machines \in [MachineId -> MachineRecord]
  BY SoundParts
<1>f. /\ ms \in [MachineId -> MachineRecord]
      /\ ms[r].state \in {"Absent", "Idle"}
      /\ \A m \in MachineId : /\ ms[m].current_task_id = machines[m].current_task_id
                              /\ ms[m].state = "Absent" <=> machines[m].state = "Absent"
                              /\ m # r => ms[m] = machines[m]
  <2>1. CASE machines[r].state = "Absent"
    BY <2>1, <1>e
  <2>2. CASE machines[r].state # "Absent"
    BY <2>2, <1>e DEF MachineRecord, MachineState
  <2>3. QED BY <2>1, <2>2
<1>g. /\ \A m \in MachineId : /\ m # r => (ReadyEvent(m) \in events' <=> ReadyEvent(m) \in events)
                              /\ ProvisionFailedEvent(m) \in events' <=> ProvisionFailedEvent(m) \in events
                              /\ ExitedEvent(m) \in events' <=> ExitedEvent(m) \in events
      /\ \A t \in TaskId, c \in ExitCode :
           FinishedEvent(t, c) \in events' <=> FinishedEvent(t, c) \in events
      /\ ReadyEvent(r) \notin events'
  BY <1>a, EventsDiffer
<1> HIDE DEF ms
<1>1. TypesOf(ms, tasks, task_queue, unit, events', probe, nspawn,
              next_machine_id, next_task_id)
  <2>1. events' \subseteq MachineEvent \cup TaskEvent
    BY <1>a, SoundParts DEF TypesOf
  <2>2. QED BY <2>1, <1>f, SoundParts DEF TypesOf
<1>2. PlacementOf(ms, tasks)
  BY <1>d, <1>f, SoundParts DEF PlacementOf
<1>3. ProbesOf(ms, events', probe)
  BY <1>c, <1>f, <1>g, SoundParts DEF ProbesOf
<1>4. ProcessesOf(ms, events', probe, nspawn)
  BY <1>f, <1>g, SoundParts DEF ProcessesOf
<1>5. UnitsOf(ms, tasks, unit, events', next_machine_id)
  <2>1. \A t \in TaskId : Pending(t, unit, events') <=> Pending(t, unit, events)
    BY <1>g DEF Pending
  <2>2. \A t \in TaskId : LostMachine(t, machines, tasks) => LostMachine(t, ms, tasks)
    BY <1>f DEF LostMachine
  <2>3. QED BY <2>1, <2>2, <1>g, SoundParts DEF UnitsOf
<1>6. Sound(ms, tasks, task_queue, unit, events', probe, nspawn,
            next_machine_id, next_task_id)
  BY <1>1, <1>2, <1>3, <1>4, <1>5, SoundParts DEF Sound
<1>7. /\ Sound(machines', tasks', task_queue', unit', events', probe, nspawn,
               next_machine_id, next_task_id)
      /\ WorkOf(machines', task_queue')
  BY <1>6, <1>b, ScheduleKeepsSound DEF ScheduleTasks
<1>8. QED BY <1>7, <1>a DEF IInv

\* The call that ends the handlers of the events: it reconciles what they left.
LEMMA ReconciledKeepsSound ==
  ASSUME NEW ms, NEW ts, NEW q, NEW un, NEW ev, NEW nt,
         Sound(ms, ts, q, un, ev, probe, nspawn, next_machine_id, nt),
         WorkOf(ms, q), target_size \in Nat,
         ReconcilePoolLogged(ms)
  PROVE  /\ Sound(machines', ts, q, un, ev, probe', nspawn', next_machine_id', nt)
         /\ WorkOf(machines', q)
<1>1. PICK k \in 0..target_size, ok \in BOOLEAN :
        ReconcilePoolInternal(ms, target_size, k, ok)
  BY DEF ReconcilePoolLogged
<1>2. k \in Nat
  OBVIOUS
<1>3. QED BY <1>1, <1>2, ReconcileKeepsSound

\* A machine whose boot timed out has no task; its record goes.
LEMMA MachineProvisionFailedKeeps ==
  ASSUME IInv, NEW r \in MachineId, MachineProvisionFailed(r)
  PROVE  IInv'
<1> DEFINE ms == [machines EXCEPT ![r] = AbsentMachine]
<1>a. /\ ProvisionFailedEvent(r) \in events
      /\ events' = events \ {ProvisionFailedEvent(r)}
      /\ daemon = "serving" /\ cancelling = None
      /\ ReconcilePoolLogged(ms)
      /\ UNCHANGED <<daemon, target_size, next_task_id, tasks, task_queue, cancelling, unit>>
  BY DEF MachineProvisionFailed, Receive, ActorReady
<1>b. /\ probe[r] = "timedout"
      /\ machines[r].state \notin {"Idle", "Busy"}
  BY <1>a, SoundParts DEF ProbesOf
<1>c. machines[r].current_task_id = None
  BY <1>b, SoundParts DEF PlacementOf
<1>d. /\ ms \in [MachineId -> MachineRecord]
      /\ ms[r].state = "Absent"
      /\ \A m \in MachineId : /\ ms[m].current_task_id = machines[m].current_task_id
                              /\ m # r => ms[m] = machines[m]
  BY <1>c, SoundParts, AbsentMachineFields
<1>e. /\ \A m \in MachineId :
           /\ ReadyEvent(m) \in events' <=> ReadyEvent(m) \in events
           /\ m # r => (ProvisionFailedEvent(m) \in events' <=> ProvisionFailedEvent(m) \in events)
           /\ ExitedEvent(m) \in events' <=> ExitedEvent(m) \in events
      /\ \A t \in TaskId, c \in ExitCode :
           FinishedEvent(t, c) \in events' <=> FinishedEvent(t, c) \in events
      /\ ProvisionFailedEvent(r) \notin events'
  BY <1>a, EventsDiffer
<1> HIDE DEF ms
<1>1. TypesOf(ms, tasks, task_queue, unit, events', probe, nspawn,
              next_machine_id, next_task_id)
  <2>1. events' \subseteq MachineEvent \cup TaskEvent
    BY <1>a, SoundParts DEF TypesOf
  <2>2. \A m \in MachineId : m > next_machine_id =>
          ms[m].state = "Absent" /\ nspawn[m] = "none" /\ probe[m] = "none"
    BY <1>d, SoundParts DEF TypesOf
  <2>3. QED BY <2>1, <2>2, <1>d, SoundParts DEF TypesOf
<1>2. PlacementOf(ms, tasks)
  BY <1>c, <1>d, SoundParts DEF PlacementOf
<1>3. ProbesOf(ms, events', probe)
  BY <1>b, <1>d, <1>e, SoundParts DEF ProbesOf
<1>4. ProcessesOf(ms, events', probe, nspawn)
  BY <1>b, <1>d, <1>e, SoundParts DEF ProcessesOf
<1>5. UnitsOf(ms, tasks, unit, events', next_machine_id)
  <2>1. \A t \in TaskId : Pending(t, unit, events') <=> Pending(t, unit, events)
    BY <1>e DEF Pending
  <2>2. \A t \in TaskId : LostMachine(t, machines, tasks) => LostMachine(t, ms, tasks)
    BY <1>d DEF LostMachine
  <2>3. QED BY <2>1, <2>2, <1>e, SoundParts DEF UnitsOf
<1>6. Sound(ms, tasks, task_queue, unit, events', probe, nspawn,
            next_machine_id, next_task_id)
  BY <1>1, <1>2, <1>3, <1>4, <1>5, SoundParts DEF Sound
<1>7. WorkOf(ms, task_queue) /\ target_size \in Nat
  BY <1>d DEF IInv, WorkOf
<1>8. /\ Sound(machines', tasks, task_queue, unit, events', probe', nspawn',
               next_machine_id', next_task_id)
      /\ WorkOf(machines', task_queue)
  BY <1>6, <1>7, <1>a, ReconciledKeepsSound
<1>9. QED BY <1>8, <1>a DEF IInv

\* The task of a machine that exited is failed; its result is still to come.
LEMMA MachineExitedKeeps ==
  ASSUME IInv, NEW r \in MachineId, MachineExited(r)
  PROVE  IInv'
<1> DEFINE ms == [machines EXCEPT ![r] = AbsentMachine]
           Failing(t) == machines[r].current_task_id = t
<1>a. /\ ExitedEvent(r) \in events
      /\ events' = events \ {ExitedEvent(r)}
      /\ daemon = "serving" /\ cancelling = None
      /\ ReconcilePoolLogged(ms)
      /\ UNCHANGED <<daemon, target_size, next_task_id, task_queue, cancelling, unit>>
  BY DEF MachineExited, Receive, ActorReady
<1>b. nspawn[r] = "exited"
  BY <1>a, SoundParts DEF ProcessesOf
<1>c. /\ ms \in [MachineId -> MachineRecord]
      /\ ms[r].state = "Absent" /\ ms[r].current_task_id = None
      /\ \A m \in MachineId : m # r => ms[m] = machines[m]
  BY SoundParts, AbsentMachineFields
<1>d. \A t \in TaskId : Failing(t) => /\ tasks[t].state = "Running"
                                      /\ tasks[t].machine_id = r
                                      /\ r <= next_machine_id
  <2>1. SUFFICES ASSUME NEW t \in TaskId, Failing(t)
                 PROVE  tasks[t].state = "Running" /\ tasks[t].machine_id = r
                        /\ r <= next_machine_id
    OBVIOUS
  <2>2. tasks[t].state = "Running" /\ tasks[t].machine_id = r
    BY <2>1, SoundParts DEF PlacementOf
  <2>3. machines[r].state = "Busy"
    BY <2>1, SoundParts DEF PlacementOf
  <2>4. ~(r > next_machine_id)
    BY <2>3, SoundParts DEF TypesOf
  <2>5. QED BY <2>2, <2>4, SoundParts
<1>e. \A t \in TaskId : ~Failing(t) => tasks'[t] = tasks[t]
  BY DEF MachineExited
<1>f. \A t \in TaskId : Failing(t) =>
        /\ tasks'[t] \in TaskRecord
        /\ tasks'[t].state = "Failed"
        /\ tasks'[t].machine_id = r
        /\ tasks'[t].exit_code = "none"
        /\ tasks'[t].cancellation_requested = tasks[t].cancellation_requested
  <2>1. SUFFICES ASSUME NEW t \in TaskId, Failing(t)
                 PROVE  /\ tasks'[t] \in TaskRecord
                        /\ tasks'[t].state = "Failed"
                        /\ tasks'[t].machine_id = r
                        /\ tasks'[t].exit_code = "none"
                        /\ tasks'[t].cancellation_requested = tasks[t].cancellation_requested
    OBVIOUS
  <2> DEFINE new == WithStatus(tasks[t], "Failed", tasks[t].machine_id, "none")
  <2>2. tasks'[t] = new
    BY <2>1, <1>d DEF MachineExited
  <2>3. tasks[t] \in TaskRecord
    BY SoundParts
  <2>4. tasks[t].cancellation_requested \in BOOLEAN /\ tasks[t].machine_id \in MachineId \cup {None}
    BY <2>3, TaskFields
  <2>5. "Failed" \in TaskState /\ "none" \in ExitCode
    BY DEF TaskState, ExitCode
  <2>6. /\ new \in TaskRecord
        /\ new.state = "Failed"
        /\ new.machine_id = tasks[t].machine_id
        /\ new.exit_code = "none"
        /\ new.cancellation_requested = tasks[t].cancellation_requested
    BY <2>4, <2>5, SMTT(30) DEF WithStatus, TaskRecord
  <2> HIDE DEF new
  <2>7. QED BY <2>1, <2>2, <2>6, <1>d
<1>g. tasks' \in [TaskId -> TaskRecord]
  <2>1. tasks' = [t \in TaskId |-> tasks'[t]]
    BY DEF MachineExited
  <2>2. \A t \in TaskId : tasks'[t] \in TaskRecord
    BY <1>e, <1>f, SoundParts
  <2>3. QED BY <2>1, <2>2
<1>h. /\ \A m \in MachineId :
           /\ ReadyEvent(m) \in events' <=> ReadyEvent(m) \in events
           /\ ProvisionFailedEvent(m) \in events' <=> ProvisionFailedEvent(m) \in events
           /\ m # r => (ExitedEvent(m) \in events' <=> ExitedEvent(m) \in events)
      /\ \A t \in TaskId, c \in ExitCode :
           FinishedEvent(t, c) \in events' <=> FinishedEvent(t, c) \in events
      /\ ExitedEvent(r) \notin events'
  BY <1>a, EventsDiffer
<1> HIDE DEF ms
<1>1. TypesOf(ms, tasks', task_queue, unit, events', probe, nspawn,
              next_machine_id, next_task_id)
  <2>1. events' \subseteq MachineEvent \cup TaskEvent
    BY <1>a, SoundParts DEF TypesOf
  <2>2. \A m \in MachineId : m > next_machine_id =>
          ms[m].state = "Absent" /\ nspawn[m] = "none" /\ probe[m] = "none"
    BY <1>c, SoundParts DEF TypesOf
  <2>3. \A t \in TaskId : tasks'[t].state = "Absent" <=> t > next_task_id
    <3>1. \A t \in TaskId : tasks'[t].state = "Absent" <=> tasks[t].state = "Absent"
      BY <1>d, <1>e, <1>f
    <3>2. QED BY <3>1, SoundParts DEF TypesOf
  <2>4. QED BY <2>1, <2>2, <2>3, <1>c, <1>g, SoundParts DEF TypesOf
<1>2. QueueOf(tasks', task_queue)
  <2>1. \A t \in TaskId : tasks'[t].state = "Queued" <=> tasks[t].state = "Queued"
    BY <1>d, <1>e, <1>f
  <2>2. QED BY <2>1, SoundParts DEF QueueOf
<1>3. PlacementOf(ms, tasks')
  <2>1. \A m \in MachineId : ms[m].state = "Busy" <=> ms[m].current_task_id # None
    BY <1>c, SoundParts DEF PlacementOf
  <2>2. ASSUME NEW t \in TaskId, NEW m \in MachineId
        PROVE  ms[m].current_task_id = t <=> tasks'[t].state = "Running" /\ tasks'[t].machine_id = m
    <3>1. CASE Failing(t)
      <4>1. tasks'[t].state # "Running"
        BY <3>1, <1>f
      <4>2. m # r => machines[m].current_task_id # t
        BY <3>1, <1>d, SoundParts DEF PlacementOf
      <4>3. t # None
        BY SoundParts
      <4>4. QED BY <4>1, <4>2, <4>3, <1>c
    <3>2. CASE ~Failing(t)
      <4>1. tasks'[t] = tasks[t]
        BY <3>2, <1>e
      <4>2. machines[m].current_task_id = t <=> tasks[t].state = "Running" /\ tasks[t].machine_id = m
        BY SoundParts DEF PlacementOf
      <4>3. t # None
        BY SoundParts
      <4>4. QED BY <3>2, <4>1, <4>2, <4>3, <1>c
    <3>3. QED BY <3>1, <3>2
  <2>3. \A t \in TaskId : tasks'[t].state = "Running" => tasks'[t].machine_id # None
    BY <1>e, <1>f, SoundParts DEF PlacementOf
  <2>4. QED BY <2>1, <2>2, <2>3 DEF PlacementOf
<1>4. ProbesOf(ms, events', probe)
  BY <1>c, <1>h, SoundParts DEF ProbesOf
<1>5. ProcessesOf(ms, events', probe, nspawn)
  BY <1>b, <1>c, <1>h, SoundParts DEF ProcessesOf
<1>6. UnitsOf(ms, tasks', unit, events', next_machine_id)
  <2>1. \A t \in TaskId : Pending(t, unit, events') <=> Pending(t, unit, events)
    BY <1>h DEF Pending
  <2>2. ASSUME NEW t \in TaskId, ~Failing(t), LostMachine(t, machines, tasks)
        PROVE  LostMachine(t, ms, tasks')
    BY <2>2, <1>c, <1>e DEF LostMachine
  <2>3. ASSUME NEW t \in TaskId, Failing(t)
        PROVE  LostMachine(t, ms, tasks') /\ tasks'[t].machine_id <= next_machine_id
    BY <2>3, <1>c, <1>d, <1>f DEF LostMachine
  <2>4. \A t \in TaskId : unit[t] # "none" => tasks'[t].state \notin {"Absent", "Queued"}
    BY <1>e, <1>f, SoundParts DEF UnitsOf
  <2>5. \A t \in TaskId : tasks'[t].state = "Running" => Pending(t, unit, events')
    BY <2>1, <1>e, <1>f, SoundParts DEF UnitsOf
  <2>6. ASSUME NEW t \in TaskId, Pending(t, unit, events'), tasks'[t].state # "Running"
        PROVE  LostMachine(t, ms, tasks') /\ tasks'[t].machine_id <= next_machine_id
    <3>1. CASE Failing(t)
      BY <3>1, <2>3
    <3>2. CASE ~Failing(t)
      <4>1. Pending(t, unit, events) /\ tasks'[t] = tasks[t]
        BY <3>2, <2>1, <2>6, <1>e
      <4>2. LostMachine(t, machines, tasks) /\ tasks[t].machine_id <= next_machine_id
        BY <4>1, <2>6, SoundParts DEF UnitsOf
      <4>3. QED BY <4>1, <4>2, <3>2, <2>2
    <3>3. QED BY <3>1, <3>2
  <2>7. \A t \in TaskId, c, d \in ExitCode :
          FinishedEvent(t, c) \in events' =>
            unit[t] \in {"orphaned", "done"} /\ (FinishedEvent(t, d) \in events' => c = d)
    BY <1>h, SoundParts DEF UnitsOf
  <2>8. QED BY <2>4, <2>5, <2>6, <2>7 DEF UnitsOf
<1>7. VerdictsOf(tasks')
  <2>1. SUFFICES ASSUME NEW t \in TaskId PROVE VerdictsOf(tasks')!(t)
    BY DEF VerdictsOf
  <2>2. CASE Failing(t)
    BY <2>2, <1>d, <1>f, SoundParts DEF VerdictsOf
  <2>3. CASE ~Failing(t)
    BY <2>3, <1>e, SoundParts DEF VerdictsOf
  <2>4. QED BY <2>2, <2>3
<1>8. Sound(ms, tasks', task_queue, unit, events', probe, nspawn,
            next_machine_id, next_task_id)
  BY <1>1, <1>2, <1>3, <1>4, <1>5, <1>6, <1>7 DEF Sound
<1>9. WorkOf(ms, task_queue) /\ target_size \in Nat
  BY <1>c DEF IInv, WorkOf
<1>10. /\ Sound(machines', tasks', task_queue, unit, events', probe', nspawn',
                next_machine_id', next_task_id)
       /\ WorkOf(machines', task_queue)
  BY <1>8, <1>9, <1>a, ReconciledKeepsSound
<1>11. QED BY <1>10, <1>a DEF IInv

\* A verdict is terminal, and tells of the request and of the exit code.
LEMMA VerdictFacts ==
  ASSUME NEW task, NEW c \in ExitCode, task.cancellation_requested \in BOOLEAN
  PROVE  /\ Verdict(task, c) \in TaskState
         /\ Verdict(task, c) \in TerminalState
         /\ Verdict(task, c) = "Cancelled" <=> task.cancellation_requested
         /\ Verdict(task, c) = "Succeeded" => c = "zero"
         /\ Verdict(task, c) = "Failed" => c # "zero"
<1>1. CASE task.cancellation_requested
  BY <1>1 DEF Verdict, TaskState, TerminalState
<1>2. CASE ~task.cancellation_requested /\ c = "zero"
  BY <1>2 DEF Verdict, TaskState, TerminalState
<1>3. CASE ~task.cancellation_requested /\ c # "zero"
  BY <1>3 DEF Verdict, TaskState, TerminalState
<1>4. QED BY <1>1, <1>2, <1>3

\* The one result of a task comes while it is Running, and frees its machine, or
\* after it lost its machine, and frees nothing.
LEMMA TaskFinishedKeeps ==
  ASSUME IInv, NEW f \in TaskId, NEW c \in ExitCode, TaskFinished(f, c)
  PROVE  IInv'
<1> DEFINE ms == FreeMachine(f)
           ts == FinishTask(f, c)
           new == WithStatus(tasks[f], Verdict(tasks[f], c), tasks[f].machine_id, c)
           Freed(m) == machines[m].current_task_id = f
<1>a. /\ FinishedEvent(f, c) \in events
      /\ events' = events \ {FinishedEvent(f, c)}
      /\ daemon = "serving" /\ cancelling = None
      /\ UNCHANGED <<daemon, target_size, next_task_id, cancelling>>
  BY DEF TaskFinished, Receive, ActorReady
<1>b. PICK pick \in Picks(ms, task_queue) :
        /\ ScheduleTasks(ts, task_queue, pick)
        /\ ReconcilePoolLogged(AssignMachines(ms, task_queue, pick))
  BY DEF TaskFinished
<1>c. /\ unit[f] \in {"orphaned", "done"}
      /\ tasks[f].state \notin {"Absent", "Queued"}
      /\ Pending(f, unit, events)
      /\ \A d \in ExitCode : FinishedEvent(f, d) \in events => c = d
  BY <1>a, SoundParts DEF UnitsOf, Pending
<1>d. /\ tasks[f] \in TaskRecord
      /\ tasks[f].cancellation_requested \in BOOLEAN
      /\ tasks[f].machine_id \in MachineId \cup {None}
  BY SoundParts, TaskFields
<1>e. /\ new \in TaskRecord
      /\ new.state = Verdict(tasks[f], c)
      /\ new.machine_id = tasks[f].machine_id
      /\ new.exit_code = c
      /\ new.cancellation_requested = tasks[f].cancellation_requested
  <2>1. Verdict(tasks[f], c) \in TaskState
    BY <1>d, VerdictFacts
  <2>2. QED BY <2>1, <1>d, WithStatusFields
<1>f. ts = [tasks EXCEPT ![f] = new]
  BY <1>c DEF FinishTask
<1>g. tasks \in [TaskId -> TaskRecord]
  BY SoundParts
<1> HIDE DEF new
<1>h. /\ ts \in [TaskId -> TaskRecord]
      /\ ts[f] = new
      /\ \A t \in TaskId : t # f => ts[t] = tasks[t]
  BY <1>e, <1>f, <1>g
<1>i. /\ ts[f].state \in TerminalState
      /\ ts[f].state \in {"Succeeded", "Failed", "Cancelled"}
      /\ ts[f].machine_id = tasks[f].machine_id
  BY <1>d, <1>e, <1>h, VerdictFacts DEF TerminalState
<1>j. \A m \in MachineId : Freed(m) => /\ tasks[f].state = "Running"
                                       /\ tasks[f].machine_id = m
                                       /\ machines[m].state = "Busy"
  BY SoundParts DEF PlacementOf
<1>k. /\ ms \in [MachineId -> MachineRecord]
      /\ \A m \in MachineId : Freed(m) => ms[m].state = "Idle" /\ ms[m].current_task_id = None
      /\ \A m \in MachineId : ~Freed(m) => ms[m] = machines[m]
  <2> DEFINE idle == [state |-> "Idle", current_task_id |-> None]
  <2>1. idle \in MachineRecord /\ idle.state = "Idle" /\ idle.current_task_id = None
    BY DEF MachineRecord, MachineState
  <2>2. ASSUME NEW m \in MachineId
        PROVE  ms[m] = IF Freed(m) THEN idle ELSE machines[m]
    BY <1>j DEF FreeMachine
  <2>3. ms = [m \in MachineId |-> ms[m]]
    BY DEF FreeMachine
  <2>4. machines \in [MachineId -> MachineRecord]
    BY SoundParts
  <2> HIDE DEF idle, ms
  <2>5. \A m \in MachineId : ms[m] \in MachineRecord
    BY <2>1, <2>2, <2>4
  <2>6. QED BY <2>1, <2>2, <2>3, <2>5
<1>l. /\ \A m \in MachineId :
           /\ ReadyEvent(m) \in events' <=> ReadyEvent(m) \in events
           /\ ProvisionFailedEvent(m) \in events' <=> ProvisionFailedEvent(m) \in events
           /\ ExitedEvent(m) \in events' <=> ExitedEvent(m) \in events
      /\ \A t \in TaskId, d \in ExitCode :
           t # f => (FinishedEvent(t, d) \in events' <=> FinishedEvent(t, d) \in events)
      /\ \A d \in ExitCode : FinishedEvent(f, d) \notin events'
  BY <1>a, <1>c, EventsDiffer
<1> HIDE DEF ms, ts
<1>1. TypesOf(ms, ts, task_queue, unit, events', probe, nspawn,
              next_machine_id, next_task_id)
  <2>1. events' \subseteq MachineEvent \cup TaskEvent
    BY <1>a, SoundParts DEF TypesOf
  <2>2. \A m \in MachineId : m > next_machine_id =>
          ms[m].state = "Absent" /\ nspawn[m] = "none" /\ probe[m] = "none"
    <3>1. \A m \in MachineId : m > next_machine_id => ~Freed(m)
      BY <1>j, SoundParts DEF TypesOf
    <3>2. QED BY <3>1, <1>k, SoundParts DEF TypesOf
  <2>3. \A t \in TaskId : ts[t].state = "Absent" <=> tasks[t].state = "Absent"
    BY <1>c, <1>h, <1>i
  <2>4. QED BY <2>1, <2>2, <2>3, <1>h, <1>k, SoundParts DEF TypesOf
<1>2. QueueOf(ts, task_queue)
  <2>1. \A t \in TaskId : ts[t].state = "Queued" <=> tasks[t].state = "Queued"
    BY <1>c, <1>h, <1>i
  <2>2. QED BY <2>1, SoundParts DEF QueueOf
<1>3. PlacementOf(ms, ts)
  <2>1. \A m \in MachineId : ms[m].state = "Busy" <=> ms[m].current_task_id # None
    BY <1>k, SoundParts DEF PlacementOf
  <2>2. ASSUME NEW t \in TaskId, NEW m \in MachineId
        PROVE  ms[m].current_task_id = t <=> ts[t].state = "Running" /\ ts[t].machine_id = m
    <3>1. t # None
      BY SoundParts
    <3>2. machines[m].current_task_id = t <=> tasks[t].state = "Running" /\ tasks[t].machine_id = m
      BY SoundParts DEF PlacementOf
    <3>3. CASE t = f
      BY <3>1, <3>3, <1>i, <1>k
    <3>4. CASE t # f
      BY <3>1, <3>2, <3>4, <1>h, <1>k
    <3>5. QED BY <3>3, <3>4
  <2>3. \A t \in TaskId : ts[t].state = "Running" => ts[t].machine_id # None
    BY <1>h, <1>i, SoundParts DEF PlacementOf
  <2>4. QED BY <2>1, <2>2, <2>3 DEF PlacementOf
<1>4. ProbesOf(ms, events', probe)
  BY <1>j, <1>k, <1>l, SoundParts DEF ProbesOf
<1>5. ProcessesOf(ms, events', probe, nspawn)
  BY <1>j, <1>k, <1>l, SoundParts DEF ProcessesOf
<1>6. UnitsOf(ms, ts, unit, events', next_machine_id)
  <2>1. ~Pending(f, unit, events')
    BY <1>c, <1>l DEF Pending
  <2>2. \A t \in TaskId : t # f => (Pending(t, unit, events') <=> Pending(t, unit, events))
    BY <1>l DEF Pending
  <2>3. \A m \in MachineId : machines[m].state = "Absent" => ms[m].state = "Absent"
    BY <1>j, <1>k
  <2>4. ASSUME NEW t \in TaskId, t # f, LostMachine(t, machines, tasks)
        PROVE  LostMachine(t, ms, ts)
    BY <2>3, <2>4, <1>h DEF LostMachine
  <2>5. \A t \in TaskId : unit[t] # "none" => ts[t].state \notin {"Absent", "Queued"}
    BY <1>h, <1>i, SoundParts DEF UnitsOf
  <2>6. \A t \in TaskId : ts[t].state = "Running" => Pending(t, unit, events')
    BY <2>2, <1>h, <1>i, SoundParts DEF UnitsOf
  <2>7. \A t \in TaskId : Pending(t, unit, events') /\ ts[t].state # "Running" =>
          LostMachine(t, ms, ts) /\ ts[t].machine_id <= next_machine_id
    BY <2>1, <2>2, <2>4, <1>h, SoundParts DEF UnitsOf
  <2>8. \A t \in TaskId, d, e \in ExitCode :
          FinishedEvent(t, d) \in events' =>
            unit[t] \in {"orphaned", "done"} /\ (FinishedEvent(t, e) \in events' => d = e)
    BY <1>l, SoundParts DEF UnitsOf
  <2>9. QED BY <2>5, <2>6, <2>7, <2>8 DEF UnitsOf
<1>7. VerdictsOf(ts)
  <2>1. SUFFICES ASSUME NEW t \in TaskId PROVE VerdictsOf(ts)!(t)
    BY DEF VerdictsOf
  <2>2. CASE t = f
    <3>1. tasks[f].machine_id # None
      <4>1. tasks[f].state = "Running" \/ LostMachine(f, machines, tasks)
        BY <1>c, SoundParts DEF UnitsOf
      <4>2. QED BY <4>1, SoundParts DEF LostMachine, VerdictsOf
    <3>2. /\ ts[f].state = "Cancelled" <=> tasks[f].cancellation_requested
          /\ ts[f].state = "Succeeded" => c = "zero"
          /\ ts[f].state = "Failed" => c # "zero"
          /\ ts[f].exit_code = c
          /\ ts[f].cancellation_requested = tasks[f].cancellation_requested
      BY <1>d, <1>e, <1>h, VerdictFacts
    <3>3. QED BY <3>1, <3>2, <2>2, <1>i
  <2>3. CASE t # f
    BY <2>3, <1>h, SoundParts DEF VerdictsOf
  <2>4. QED BY <2>2, <2>3
<1>8. Sound(ms, ts, task_queue, unit, events', probe, nspawn,
            next_machine_id, next_task_id)
  BY <1>1, <1>2, <1>3, <1>4, <1>5, <1>6, <1>7 DEF Sound
<1>9. /\ Sound(AssignMachines(ms, task_queue, pick), tasks', task_queue', unit', events',
               probe, nspawn, next_machine_id, next_task_id)
      /\ WorkOf(AssignMachines(ms, task_queue, pick), task_queue')
  BY <1>8, <1>b, ScheduleKeepsSound DEF ScheduleTasks
<1>10. target_size \in Nat
  BY DEF IInv
<1>11. /\ Sound(machines', tasks', task_queue', unit', events', probe', nspawn',
                next_machine_id', next_task_id)
       /\ WorkOf(machines', task_queue')
  BY <1>9, <1>10, <1>b, ReconciledKeepsSound
<1>12. QED BY <1>11, <1>a DEF IInv

-----------------------------------------------------------------------------
(***************************************************************************)
(* The processes.                                                          *)
(***************************************************************************)

\* The process of a machine ends, and its one exit event is sent.
LEMMA NspawnExitsKeeps ==
  ASSUME IInv, NEW x \in MachineId, NspawnExits(x)
  PROVE  IInv'
<1>a. /\ nspawn[x] = "running"
      /\ nspawn' = [nspawn EXCEPT ![x] = "exited"]
      /\ events' = events \cup {ExitedEvent(x)}
      /\ UNCHANGED <<daemon, actorVars, cancelling, probe>>
  BY DEF NspawnExits
<1>u. /\ unit' \in [TaskId -> {"none", "running", "stopped", "orphaned", "done"}]
      /\ \A t \in TaskId : \/ unit'[t] = unit[t]
                           \/ unit[t] = "orphaned" /\ unit'[t] = "done"
  BY SoundParts DEF NspawnExits, TypesOf
<1>b. /\ nspawn' \in [MachineId -> {"none", "running", "exited"}]
      /\ nspawn'[x] = "exited"
      /\ \A m \in MachineId : m # x => nspawn'[m] = nspawn[m]
  BY <1>a, SoundParts DEF TypesOf
<1>c. /\ \A m \in MachineId :
           /\ ReadyEvent(m) \in events' <=> ReadyEvent(m) \in events
           /\ ProvisionFailedEvent(m) \in events' <=> ProvisionFailedEvent(m) \in events
           /\ m # x => (ExitedEvent(m) \in events' <=> ExitedEvent(m) \in events)
      /\ \A t \in TaskId, d \in ExitCode :
           FinishedEvent(t, d) \in events' <=> FinishedEvent(t, d) \in events
      /\ ExitedEvent(x) \in events'
  BY <1>a, EventsDiffer
<1>1. TypesOf(machines, tasks, task_queue, unit', events', probe, nspawn',
              next_machine_id, next_task_id)
  <2>1. events' \subseteq MachineEvent \cup TaskEvent
    BY <1>a, EventTypes, SoundParts DEF TypesOf
  <2>2. ~(x > next_machine_id)
    BY <1>a, SoundParts DEF TypesOf
  <2>3. QED BY <2>1, <2>2, <1>b, <1>u, SoundParts DEF TypesOf
<1>2. ProbesOf(machines, events', probe)
  BY <1>c, SoundParts DEF ProbesOf
<1>3. ProcessesOf(machines, events', probe, nspawn')
  BY <1>b, <1>c, SoundParts DEF ProcessesOf
<1>4. UnitsOf(machines, tasks, unit', events', next_machine_id)
  <2>1. \A t \in TaskId : Pending(t, unit', events') <=> Pending(t, unit, events)
    BY <1>c, <1>u DEF Pending
  <2>2. QED BY <2>1, <1>c, <1>u, SoundParts DEF UnitsOf
<1>5. Sound(machines, tasks, task_queue, unit', events', probe, nspawn',
            next_machine_id, next_task_id)
  BY <1>1, <1>2, <1>3, <1>4, SoundParts DEF Sound
<1>6. QED BY <1>5, <1>a DEF IInv, actorVars

\* A readiness probe ends with its one event.
LEMMA ProbeSucceedsKeeps ==
  ASSUME IInv, NEW x \in MachineId, ProbeSucceeds(x)
  PROVE  IInv'
<1>a. /\ probe[x] = "probing"
      /\ probe' = [probe EXCEPT ![x] = "ready"]
      /\ events' = events \cup {ReadyEvent(x)}
      /\ UNCHANGED <<daemon, actorVars, cancelling, nspawn, unit>>
  BY DEF ProbeSucceeds
<1>b. /\ probe' \in [MachineId -> {"none", "probing", "ready", "timedout"}]
      /\ probe'[x] = "ready"
      /\ \A m \in MachineId : m # x => probe'[m] = probe[m]
  BY <1>a, SoundParts DEF TypesOf
<1>c. /\ \A m \in MachineId :
           /\ m # x => (ReadyEvent(m) \in events' <=> ReadyEvent(m) \in events)
           /\ ProvisionFailedEvent(m) \in events' <=> ProvisionFailedEvent(m) \in events
           /\ ExitedEvent(m) \in events' <=> ExitedEvent(m) \in events
      /\ \A t \in TaskId, d \in ExitCode :
           FinishedEvent(t, d) \in events' <=> FinishedEvent(t, d) \in events
      /\ ReadyEvent(x) \in events'
  BY <1>a, EventsDiffer
<1>1. TypesOf(machines, tasks, task_queue, unit, events', probe', nspawn,
              next_machine_id, next_task_id)
  <2>1. events' \subseteq MachineEvent \cup TaskEvent
    BY <1>a, EventTypes, SoundParts DEF TypesOf
  <2>2. ~(x > next_machine_id)
    BY <1>a, SoundParts DEF TypesOf
  <2>3. QED BY <2>1, <2>2, <1>b, SoundParts DEF TypesOf
<1>2. ProbesOf(machines, events', probe')
  BY <1>a, <1>b, <1>c, SoundParts DEF ProbesOf
<1>3. ProcessesOf(machines, events', probe', nspawn)
  BY <1>a, <1>b, <1>c, SoundParts DEF ProcessesOf
<1>4. UnitsOf(machines, tasks, unit, events', next_machine_id)
  <2>1. \A t \in TaskId : Pending(t, unit, events') <=> Pending(t, unit, events)
    BY <1>c DEF Pending
  <2>2. QED BY <2>1, <1>c, SoundParts DEF UnitsOf
<1>5. Sound(machines, tasks, task_queue, unit, events', probe', nspawn,
            next_machine_id, next_task_id)
  BY <1>1, <1>2, <1>3, <1>4, SoundParts DEF Sound
<1>6. QED BY <1>5, <1>a DEF IInv, actorVars

\* A readiness probe gives up with its one event.
LEMMA ProbeTimesOutKeeps ==
  ASSUME IInv, NEW x \in MachineId, ProbeTimesOut(x)
  PROVE  IInv'
<1>a. /\ probe[x] = "probing"
      /\ probe' = [probe EXCEPT ![x] = "timedout"]
      /\ events' = events \cup {ProvisionFailedEvent(x)}
      /\ UNCHANGED <<daemon, actorVars, cancelling, nspawn, unit>>
  BY DEF ProbeTimesOut
<1>b. /\ probe' \in [MachineId -> {"none", "probing", "ready", "timedout"}]
      /\ probe'[x] = "timedout"
      /\ \A m \in MachineId : m # x => probe'[m] = probe[m]
  BY <1>a, SoundParts DEF TypesOf
<1>c. /\ \A m \in MachineId :
           /\ ReadyEvent(m) \in events' <=> ReadyEvent(m) \in events
           /\ m # x => (ProvisionFailedEvent(m) \in events' <=> ProvisionFailedEvent(m) \in events)
           /\ ExitedEvent(m) \in events' <=> ExitedEvent(m) \in events
      /\ \A t \in TaskId, d \in ExitCode :
           FinishedEvent(t, d) \in events' <=> FinishedEvent(t, d) \in events
      /\ ProvisionFailedEvent(x) \in events'
  BY <1>a, EventsDiffer
<1>1. TypesOf(machines, tasks, task_queue, unit, events', probe', nspawn,
              next_machine_id, next_task_id)
  <2>1. events' \subseteq MachineEvent \cup TaskEvent
    BY <1>a, EventTypes, SoundParts DEF TypesOf
  <2>2. ~(x > next_machine_id)
    BY <1>a, SoundParts DEF TypesOf
  <2>3. QED BY <2>1, <2>2, <1>b, SoundParts DEF TypesOf
<1>2. ProbesOf(machines, events', probe')
  BY <1>a, <1>b, <1>c, SoundParts DEF ProbesOf
<1>3. ProcessesOf(machines, events', probe', nspawn)
  BY <1>a, <1>b, <1>c, SoundParts DEF ProcessesOf
<1>4. UnitsOf(machines, tasks, unit, events', next_machine_id)
  <2>1. \A t \in TaskId : Pending(t, unit, events') <=> Pending(t, unit, events)
    BY <1>c DEF Pending
  <2>2. QED BY <2>1, <1>c, SoundParts DEF UnitsOf
<1>5. Sound(machines, tasks, task_queue, unit, events', probe', nspawn,
            next_machine_id, next_task_id)
  BY <1>1, <1>2, <1>3, <1>4, SoundParts DEF Sound
<1>6. QED BY <1>5, <1>a DEF IInv, actorVars

\* A systemd-run ends, and its one result is sent.
LEMMA RunEndsKeeps ==
  ASSUME IInv, NEW x \in TaskId, NEW c \in ExitCode, RunEnds(x, c)
  PROVE  IInv'
<1>a. /\ unit[x] \in {"running", "stopped"}
      /\ \/ unit' = [unit EXCEPT ![x] = "done"]
         \/ unit' = [unit EXCEPT ![x] = "orphaned"]
      /\ events' = events \cup {FinishedEvent(x, c)}
      /\ UNCHANGED <<daemon, actorVars, cancelling, nspawn, probe>>
  BY DEF RunEnds
<1>b. /\ unit' \in [TaskId -> {"none", "running", "stopped", "orphaned", "done"}]
      /\ unit'[x] \in {"orphaned", "done"}
      /\ \A t \in TaskId : t # x => unit'[t] = unit[t]
  BY <1>a, SoundParts DEF TypesOf
<1>c. /\ \A m \in MachineId :
           /\ ReadyEvent(m) \in events' <=> ReadyEvent(m) \in events
           /\ ProvisionFailedEvent(m) \in events' <=> ProvisionFailedEvent(m) \in events
           /\ ExitedEvent(m) \in events' <=> ExitedEvent(m) \in events
      /\ \A t \in TaskId, d \in ExitCode :
           t # x => (FinishedEvent(t, d) \in events' <=> FinishedEvent(t, d) \in events)
      /\ FinishedEvent(x, c) \in events'
      /\ \A d \in ExitCode : FinishedEvent(x, d) \in events' <=> d = c
  <2>1. \A d \in ExitCode : FinishedEvent(x, d) \notin events
    BY <1>a, SoundParts DEF UnitsOf
  <2>2. QED BY <2>1, <1>a, EventsDiffer
<1>1. TypesOf(machines, tasks, task_queue, unit', events', probe, nspawn,
              next_machine_id, next_task_id)
  <2>1. events' \subseteq MachineEvent \cup TaskEvent
    BY <1>a, EventTypes, SoundParts DEF TypesOf
  <2>2. QED BY <2>1, <1>b, SoundParts DEF TypesOf
<1>2. ProbesOf(machines, events', probe)
  BY <1>c, SoundParts DEF ProbesOf
<1>3. ProcessesOf(machines, events', probe, nspawn)
  BY <1>c, SoundParts DEF ProcessesOf
<1>4. UnitsOf(machines, tasks, unit', events', next_machine_id)
  <2>1. \A t \in TaskId : Pending(t, unit', events') <=> Pending(t, unit, events)
    BY <1>a, <1>b, <1>c DEF Pending
  <2>2. \A t \in TaskId : unit'[t] # "none" => tasks[t].state \notin {"Absent", "Queued"}
    BY <1>a, <1>b, SoundParts DEF UnitsOf
  <2>3. \A t \in TaskId, d, e \in ExitCode :
          FinishedEvent(t, d) \in events' =>
            unit'[t] \in {"orphaned", "done"} /\ (FinishedEvent(t, e) \in events' => d = e)
    BY <1>b, <1>c, SoundParts DEF UnitsOf
  <2>4. QED BY <2>1, <2>2, <2>3, SoundParts DEF UnitsOf
<1>5. Sound(machines, tasks, task_queue, unit', events', probe, nspawn,
            next_machine_id, next_task_id)
  BY <1>1, <1>2, <1>3, <1>4, SoundParts DEF Sound
<1>6. QED BY <1>5, <1>a DEF IInv, actorVars

\* An orphaned unit ends, and nobody is told.
LEMMA UnitEndsKeeps ==
  ASSUME IInv, NEW x \in TaskId, UnitEnds(x)
  PROVE  IInv'
<1>a. UNCHANGED <<daemon, actorVars, cancelling, events, nspawn, probe>>
  BY DEF UnitEnds
<1>b. /\ unit' \in [TaskId -> {"none", "running", "stopped", "orphaned", "done"}]
      /\ \A t \in TaskId : \/ unit'[t] = unit[t]
                           \/ unit[t] = "orphaned" /\ unit'[t] = "done"
  BY SoundParts DEF UnitEnds, TypesOf
<1>c. \A t \in TaskId : Pending(t, unit', events) <=> Pending(t, unit, events)
  BY <1>b DEF Pending
<1>1. TypesOf(machines, tasks, task_queue, unit', events, probe, nspawn,
              next_machine_id, next_task_id)
  BY <1>b, SoundParts DEF TypesOf
<1>2. UnitsOf(machines, tasks, unit', events, next_machine_id)
  BY <1>b, <1>c, SoundParts DEF UnitsOf
<1>3. Sound(machines, tasks, task_queue, unit', events, probe, nspawn,
            next_machine_id, next_task_id)
  BY <1>1, <1>2, SoundParts DEF Sound
<1>4. QED BY <1>3, <1>a DEF IInv, actorVars

-----------------------------------------------------------------------------
(***************************************************************************)
(* The theorems.                                                           *)
(***************************************************************************)

\* Each handler and each process keeps the invariant.
LEMMA NextKeepsIInv ==
  ASSUME IInv, [Next]_vars
  PROVE  IInv'
<1>1. CASE ReconcilePool
  BY <1>1, ReconcilePoolKeeps
<1>2. CASE Command
  <2>1. CASE StartTask
    BY <2>1, StartTaskKeeps
  <2>2. ASSUME NEW t \in TaskId, CancelQueued(t) PROVE IInv'
    BY <2>2, CancelQueuedKeeps
  <2>3. ASSUME NEW t \in TaskId, CancelRunning(t) PROVE IInv'
    BY <2>3, CancelRunningKeeps
  <2>4. ASSUME NEW ok \in BOOLEAN, CancelReturns(ok) PROVE IInv'
    BY <2>4, CancelReturnsKeeps
  <2>5. QED BY <1>2, <2>1, <2>2, <2>3, <2>4 DEF Command
<1>3. CASE Event
  <2>1. ASSUME NEW m \in MachineId, MachineReady(m) PROVE IInv'
    BY <2>1, MachineReadyKeeps
  <2>2. ASSUME NEW m \in MachineId, MachineProvisionFailed(m) PROVE IInv'
    BY <2>2, MachineProvisionFailedKeeps
  <2>3. ASSUME NEW m \in MachineId, MachineExited(m) PROVE IInv'
    BY <2>3, MachineExitedKeeps
  <2>4. ASSUME NEW t \in TaskId, NEW c \in ExitCode, TaskFinished(t, c) PROVE IInv'
    BY <2>4, TaskFinishedKeeps
  <2>5. QED BY <1>3, <2>1, <2>2, <2>3, <2>4 DEF Event
<1>4. CASE Process
  <2>1. ASSUME NEW m \in MachineId, NspawnExits(m) PROVE IInv'
    BY <2>1, NspawnExitsKeeps
  <2>2. ASSUME NEW m \in MachineId, ProbeSucceeds(m) PROVE IInv'
    BY <2>2, ProbeSucceedsKeeps
  <2>3. ASSUME NEW m \in MachineId, ProbeTimesOut(m) PROVE IInv'
    BY <2>3, ProbeTimesOutKeeps
  <2>4. ASSUME NEW t \in TaskId, NEW c \in ExitCode, RunEnds(t, c) PROVE IInv'
    BY <2>4, RunEndsKeeps
  <2>5. ASSUME NEW t \in TaskId, UnitEnds(t) PROVE IInv'
    BY <2>5, UnitEndsKeeps
  <2>6. QED BY <1>4, <2>1, <2>2, <2>3, <2>4, <2>5 DEF Process
<1>5. CASE UNCHANGED vars
  BY <1>5 DEF IInv, vars, actorVars, procVars
<1>6. QED BY <1>1, <1>2, <1>3, <1>4, <1>5 DEF Next

\* The inductive invariant holds in every reachable state of the backend.
THEOREM Invariance == Spec => []IInv
<1>1. Init => IInv
  BY InitIInv
<1>2. IInv /\ [Next]_vars => IInv'
  BY NextKeepsIInv
<1>3. QED BY <1>1, <1>2, PTL DEF Spec

\* While a daemon runs nobody gives its machines back the names of former ones.
LEMMA NextKeepsHeld ==
  ASSUME [Next]_vars
  PROVE  held' = held
<1>1. CASE Command
  BY <1>1 DEF Command, StartTask, CancelQueued, CancelRunning, CancelReturns
<1>2. CASE Event
  BY <1>2 DEF Event, MachineReady, MachineProvisionFailed, MachineExited, TaskFinished
<1>3. CASE Process
  BY <1>3 DEF Process, NspawnExits, ProbeSucceeds, ProbeTimesOut, RunEnds, UnitEnds
<1>4. QED BY <1>1, <1>2, <1>3 DEF Next, ReconcilePool, vars

\* Every variable keeps its type, and the maps their shape.
THEOREM TypeCorrect == Spec => []TypeOK
<1>1. IInv /\ held = Held => TypeOK
  BY HeldAssumption DEF IInv, Sound, TypesOf, TypeOK, MachineId
<1>2. Init => held = Held
  BY DEF Init
<1>3. held = Held /\ [Next]_vars => (held = Held)'
  BY NextKeepsHeld
<1>4. Spec => [](held = Held)
  BY <1>2, <1>3, PTL DEF Spec
<1>5. QED BY <1>1, <1>4, Invariance, PTL

\* The machines map and the tasks map agree on what runs where, after any
\* interleaving of commands, exits and results.
THEOREM PlacementHolds == Spec => []PlacementConsistent
<1>1. IInv => PlacementConsistent
  BY DEF IInv, Sound, PlacementOf, PlacementConsistent
<1>2. QED BY <1>1, Invariance, PTL

\* The queue is exactly the Queued tasks, in the order of their submission.
THEOREM QueueHolds == Spec => []QueueExact
<1>1. IInv => QueueExact
  BY DEF IInv, Sound, QueueOf, Ascending, QueueExact
<1>2. QED BY <1>1, Invariance, PTL

\* No task waits while a machine is idle.
THEOREM WorkConserved == Spec => []WorkConserving
<1>1. IInv => WorkConserving
  BY DEF IInv, WorkOf, WorkConserving
<1>2. QED BY <1>1, Invariance, PTL

\* No successful result is reported of an orphaned unit: its systemd-run ended
\* without success.
Orphans ==
  \A t \in TaskId : unit[t] = "orphaned" =>
    FinishedEvent(t, "zero") \notin events /\ tasks[t].exit_code # "zero"

\* What a step may not do to an orphaned unit, one that becomes orphaned excepted.
LEMMA OrphansStay ==
  ASSUME Orphans,
         \A t \in TaskId : unit'[t] = "orphaned" => unit[t] = "orphaned",
         \A t \in TaskId : FinishedEvent(t, "zero") \in events' =>
                            FinishedEvent(t, "zero") \in events,
         \A t \in TaskId : tasks'[t].exit_code = "zero" =>
                            \/ tasks[t].exit_code = "zero"
                            \/ FinishedEvent(t, "zero") \in events
  PROVE  Orphans'
BY DEF Orphans

\* Scheduling starts units and gives no exit codes.
LEMMA ScheduleStarts ==
  ASSUME NEW ts, NEW q, NEW pick, ScheduleTasks(ts, q, pick), NEW t \in TaskId
  PROVE  /\ unit'[t] \in {unit[t], "running"}
         /\ tasks'[t].exit_code \in {ts[t].exit_code, "none"}
BY DEF ScheduleTasks, AssignTasks, WithStatus

\* Only systemd-run makes an orphan, and reports that it did not succeed.
LEMMA NextKeepsOrphans ==
  ASSUME IInv, Orphans, [Next]_vars
  PROVE  Orphans'
<1>t. /\ tasks \in [TaskId -> TaskRecord]
      /\ unit \in [TaskId -> {"none", "running", "stopped", "orphaned", "done"}]
  BY SoundParts DEF TypesOf
<1>1. CASE StartTask
  <2>1. UNCHANGED events
    BY <1>1 DEF StartTask
  <2>2. PICK pick, ts, q : /\ ScheduleTasks(ts, q, pick)
                           /\ ts = [tasks EXCEPT ![next_task_id + 1] =
                                      WithStatus(AbsentTask, "Queued", None, "none")]
    BY <1>1 DEF StartTask
  <2>3. \A t \in TaskId : ts[t].exit_code \in {tasks[t].exit_code, "none"}
    BY <1>t, <2>2 DEF WithStatus
  <2>4. QED BY <2>1, <2>2, <2>3, ScheduleStarts, OrphansStay
<1>2. ASSUME NEW x \in TaskId, CancelQueued(x) \/ CancelRunning(x) PROVE Orphans'
  <2>1. UNCHANGED <<unit, events>>
    BY <1>2 DEF CancelQueued, CancelRunning, procVars
  <2>2. \A t \in TaskId : tasks'[t].exit_code \in {tasks[t].exit_code, "none"}
    BY <1>2, <1>t DEF CancelQueued, CancelRunning, WithStatus, TaskRecord
  <2>3. QED BY <2>1, <2>2, OrphansStay
<1>3. ASSUME NEW ok \in BOOLEAN, CancelReturns(ok) PROVE Orphans'
  <2>1. UNCHANGED <<tasks, events>>
    BY <1>3 DEF CancelReturns, actorVars
  <2>2. \A t \in TaskId : unit'[t] = "orphaned" => unit[t] = "orphaned"
    BY <1>3, <1>t DEF CancelReturns
  <2>3. QED BY <2>1, <2>2, OrphansStay
<1>4. ASSUME NEW m \in MachineId, MachineReady(m) PROVE Orphans'
  <2>1. events' \subseteq events
    BY <1>4 DEF MachineReady, Receive
  <2>2. PICK pick, q : ScheduleTasks(tasks, q, pick)
    BY <1>4 DEF MachineReady
  <2>3. QED BY <2>1, <2>2, ScheduleStarts, OrphansStay
<1>5. ASSUME NEW m \in MachineId, MachineProvisionFailed(m) \/ MachineExited(m) PROVE Orphans'
  <2>1. events' \subseteq events /\ UNCHANGED unit
    BY <1>5 DEF MachineProvisionFailed, MachineExited, Receive
  <2>2. \A t \in TaskId : tasks'[t].exit_code \in {tasks[t].exit_code, "none"}
    BY <1>5 DEF MachineProvisionFailed, MachineExited, WithStatus
  <2>3. QED BY <2>1, <2>2, OrphansStay
<1>6. ASSUME NEW x \in TaskId, NEW c \in ExitCode, TaskFinished(x, c) PROVE Orphans'
  <2>1. events' \subseteq events /\ FinishedEvent(x, c) \in events
    BY <1>6 DEF TaskFinished, Receive
  <2>2. PICK pick, q : ScheduleTasks(FinishTask(x, c), q, pick)
    BY <1>6 DEF TaskFinished
  <2>3. \A t \in TaskId : FinishTask(x, c)[t].exit_code # tasks[t].exit_code => t = x
    BY <1>t DEF FinishTask
  <2>4. FinishTask(x, c)[x].exit_code \in {tasks[x].exit_code, c}
    BY <1>t DEF FinishTask, WithStatus
  <2>5. QED BY <2>1, <2>2, <2>3, <2>4, ScheduleStarts, OrphansStay
<1>7. ASSUME NEW m \in MachineId, NspawnExits(m) \/ ProbeSucceeds(m) \/ ProbeTimesOut(m)
      PROVE Orphans'
  <2>1. UNCHANGED tasks
    BY <1>7 DEF NspawnExits, ProbeSucceeds, ProbeTimesOut, actorVars
  <2>2. \A t \in TaskId : FinishedEvent(t, "zero") \in events' =>
                           FinishedEvent(t, "zero") \in events
    BY <1>7, EventsDiffer DEF NspawnExits, ProbeSucceeds, ProbeTimesOut, ExitCode
  <2>3. \A t \in TaskId : unit'[t] = "orphaned" => unit[t] = "orphaned"
    BY <1>7 DEF NspawnExits, ProbeSucceeds, ProbeTimesOut
  <2>4. QED BY <2>1, <2>2, <2>3, OrphansStay
<1>8. ASSUME NEW x \in TaskId, NEW c \in ExitCode, RunEnds(x, c) PROVE Orphans'
  <2>1. UNCHANGED tasks /\ unit[x] \in {"running", "stopped"}
    BY <1>8 DEF RunEnds, actorVars
  <2>2. \A t \in TaskId : FinishedEvent(t, "zero") \in events' =>
                           FinishedEvent(t, "zero") \in events \/ (t = x /\ c = "zero")
    <3>1. events' = events \cup {FinishedEvent(x, c)}
      BY <1>8 DEF RunEnds
    <3>2. \A t \in TaskId : FinishedEvent(t, "zero") = FinishedEvent(x, c) => t = x /\ c = "zero"
      BY EventsDiffer
    <3>3. QED BY <3>1, <3>2
  <2>3. \A t \in TaskId : unit'[t] = "orphaned" =>
                           unit[t] = "orphaned" \/ (t = x /\ c # "zero")
    <3>1. \/ unit' = [unit EXCEPT ![x] = "done"]
          \/ c # "zero" /\ unit' = [unit EXCEPT ![x] = "orphaned"]
      BY <1>8 DEF RunEnds
    <3>2. QED BY <3>1, <1>t
  <2>4. FinishedEvent(x, "zero") \notin events
    BY <2>1, SoundParts DEF UnitsOf, ExitCode
  <2>5. unit'[x] = "orphaned" => c # "zero"
    BY <2>1, <2>3
  <2>6. tasks[x].exit_code # "zero"
    <3>1. Pending(x, unit, events)
      BY <2>1 DEF Pending
    <3>2. CASE tasks[x].state = "Running"
      BY <3>2, SoundParts DEF VerdictsOf
    <3>3. CASE tasks[x].state # "Running"
      BY <3>1, <3>3, SoundParts DEF UnitsOf, LostMachine
    <3>4. QED BY <3>2, <3>3
  <2>7. QED BY <2>1, <2>2, <2>3, <2>4, <2>5, <2>6 DEF Orphans
<1>9. ASSUME NEW x \in TaskId, UnitEnds(x) PROVE Orphans'
  <2>1. UNCHANGED <<tasks, events>>
    BY <1>9 DEF UnitEnds, actorVars
  <2>2. \A t \in TaskId : unit'[t] = "orphaned" => unit[t] = "orphaned"
    BY <1>9, <1>t DEF UnitEnds
  <2>3. QED BY <2>1, <2>2, OrphansStay
<1>10. CASE ReconcilePool \/ UNCHANGED vars
  <2>1. UNCHANGED <<tasks, events, unit>>
    BY <1>10 DEF ReconcilePool, vars, actorVars, procVars
  <2>2. QED BY <2>1, OrphansStay
<1>11. QED BY <1>1, <1>2, <1>3, <1>4, <1>5, <1>6, <1>7, <1>8, <1>9, <1>10
           DEF Next, Command, Event, Process

\* A task whose systemd-run has ended and whose result was received has a verdict.
LEMMA OrphansHaveVerdicts ==
  ASSUME IInv, Orphans, NEW t \in TaskId, unit[t] = "orphaned", tasks[t].state # "Running"
  PROVE  /\ tasks[t].state \in {"Failed", "Cancelled"}
         /\ tasks[t].exit_code # "zero"
<1>1. tasks[t].state \in TaskState \cup {"Absent"}
  BY SoundParts DEF TypesOf, TaskRecord
<1>2. tasks[t].state \notin {"Absent", "Queued"}
  BY SoundParts DEF UnitsOf
<1>3. tasks[t].exit_code # "zero"
  BY DEF Orphans
<1>4. tasks[t].state # "Succeeded"
  BY <1>3, SoundParts DEF VerdictsOf
<1>5. QED BY <1>1, <1>2, <1>3, <1>4 DEF TaskState

\* A machine is not given away while the systemd-run of its task goes on, nor while its
\* unit runs, unless that unit was left behind by a systemd-run that did not succeed.
THEOREM Exclusion == Spec => []MachinesExclusive
<1>1. ASSUME IInv, Orphans PROVE MachinesExclusive
  <2>1. SUFFICES ASSUME NEW t \in TaskId, NEW m \in MachineId,
                        unit[t] \in {"running", "stopped", "orphaned"},
                        tasks[t].machine_id = m
                 PROVE  \/ machines[m].current_task_id = t
                        \/ machines[m].state = "Absent"
                        \/ /\ unit[t] = "orphaned"
                           /\ tasks[t].state \in {"Failed", "Cancelled"}
                           /\ tasks[t].exit_code # "zero"
    BY DEF MachinesExclusive
  <2>2. CASE tasks[t].state = "Running"
    BY <1>1, <2>1, <2>2, SoundParts DEF PlacementOf
  <2>3. CASE tasks[t].state # "Running" /\ unit[t] # "orphaned"
    <3>1. Pending(t, unit, events)
      BY <2>1, <2>3 DEF Pending
    <3>2. LostMachine(t, machines, tasks)
      BY <1>1, <3>1, <2>3, SoundParts DEF UnitsOf
    <3>3. QED BY <3>2, <2>1 DEF LostMachine
  <2>4. CASE tasks[t].state # "Running" /\ unit[t] = "orphaned"
    BY <1>1, <2>4, OrphansHaveVerdicts
  <2>5. QED BY <2>2, <2>3, <2>4
<1>2. Init => Orphans
  BY DEF Init, Orphans
<1>3. IInv /\ Orphans /\ [Next]_vars => Orphans'
  BY NextKeepsOrphans
<1>4. QED BY <1>1, <1>2, <1>3, Invariance, PTL DEF Spec

\* Every record that is not settled has a process or an event that settles it.
THEOREM NothingIsForgotten == Spec => []NothingForgotten
<1>1. ASSUME IInv PROVE NothingForgotten
  <2>1. \A t \in TaskId : tasks[t].state = "Running" =>
          \/ unit[t] \in {"running", "stopped"}
          \/ \E c \in ExitCode : FinishedEvent(t, c) \in events
    BY <1>1, SoundParts DEF UnitsOf, Pending
  <2>2. \A m \in MachineId : machines[m].state = "Provisioning" =>
          \/ probe[m] \in {"none", "probing"}
          \/ ReadyEvent(m) \in events
          \/ ProvisionFailedEvent(m) \in events
    BY <1>1, SoundParts DEF ProbesOf
  <2>3. \A m \in MachineId : machines[m].state # "Absent" /\ nspawn[m] = "exited"
          => ExitedEvent(m) \in events
    BY <1>1, SoundParts DEF ProcessesOf
  <2>4. QED BY <2>1, <2>2, <2>3 DEF NothingForgotten
<1>2. QED BY <1>1, Invariance, PTL

\* Only the handler of a boot timeout leaves a machine running without a record.
THEOREM LeaksAreBootTimeouts == Spec => []LeakOnlyByBootTimeout
<1>1. ASSUME IInv PROVE LeakOnlyByBootTimeout
  BY <1>1, SoundParts DEF ProcessesOf, LeakOnlyByBootTimeout
<1>2. QED BY <1>1, Invariance, PTL

\* State, exit code and cancellation request of a task agree.
THEOREM VerdictsHold == Spec => []VerdictsJustified
<1>1. ASSUME IInv PROVE VerdictsJustified
  <2>1. \A t \in TaskId : tasks[t].state \in TaskState \cup {"Absent"}
    BY <1>1, SoundParts, TaskFields
  <2>2. ASSUME NEW t \in TaskId
        PROVE  CASE tasks[t].state = "Succeeded" ->
                      tasks[t].exit_code = "zero" /\ ~tasks[t].cancellation_requested
                 [] tasks[t].state = "Failed" -> tasks[t].exit_code # "zero"
                 [] tasks[t].state = "Cancelled" ->
                      tasks[t].machine_id = None <=> ~tasks[t].cancellation_requested
                 [] OTHER -> tasks[t].exit_code = "none"
    <3>1. VerdictsOf(tasks)!(t)
      BY <1>1, SoundParts DEF VerdictsOf
    <3>2. CASE tasks[t].state = "Succeeded"
      BY <3>1, <3>2
    <3>3. CASE tasks[t].state = "Failed"
      BY <3>1, <3>3
    <3>4. CASE tasks[t].state = "Cancelled"
      BY <3>1, <3>4
    <3>5. CASE tasks[t].state \in {"Absent", "Queued", "Running"}
      BY <3>1, <3>5
    <3>6. QED BY <2>1, <3>2, <3>3, <3>4, <3>5 DEF TaskState
  <2>3. QED BY <2>2 DEF VerdictsJustified
<1>2. QED BY <1>1, Invariance, PTL

-----------------------------------------------------------------------------
(***************************************************************************)
(* A serving backend keeps its pool at target_size records, whatever       *)
(* fails: each handler removes at most one record, and                     *)
(* reconcile_pool_internal puts back what is missing.                      *)
(***************************************************************************)

\* Any set of machines is finite.
LEMMA MachinesFinite ==
  ASSUME NEW S \in SUBSET MachineId
  PROVE  /\ IsFiniteSet(S)
         /\ Cardinality(S) \in Nat
<1>1. IsFiniteSet(MachineId)
  BY FS_Interval, ConstantsAreNumbers DEF MachineId
<1>2. IsFiniteSet(S)
  BY <1>1, FS_Subset
<1>3. QED BY <1>2, FS_CardinalityType

\* The machines with a record are the active ones: nothing stores the states
\* that active_machine_count would skip.
LEMMA ActiveFacts ==
  ASSUME NEW ms \in [MachineId -> MachineRecord]
  PROVE  /\ ActiveMachines(ms) \in SUBSET MachineId
         /\ \A m \in MachineId : m \in ActiveMachines(ms) <=> ms[m].state # "Absent"
BY DEF ActiveMachines, MachineRecord, MachineState

\* A record that is removed is one active machine less, or was none.
LEMMA RemovedOne ==
  ASSUME NEW ms \in [MachineId -> MachineRecord], NEW r \in MachineId
  PROVE  LET after == [ms EXCEPT ![r] = AbsentMachine]
         IN  /\ after \in [MachineId -> MachineRecord]
             /\ Cardinality(ActiveMachines(after)) =
                  IF ms[r].state = "Absent" THEN Cardinality(ActiveMachines(ms))
                  ELSE Cardinality(ActiveMachines(ms)) - 1
<1> DEFINE after == [ms EXCEPT ![r] = AbsentMachine]
<1>1. /\ after \in [MachineId -> MachineRecord]
      /\ after[r].state = "Absent"
      /\ \A m \in MachineId : m # r => after[m] = ms[m]
  BY AbsentMachineFields
<1> HIDE DEF after
<1>2. ActiveMachines(after) = ActiveMachines(ms) \ {r}
  BY <1>1, ActiveFacts
<1>3. r \in ActiveMachines(ms) <=> ms[r].state # "Absent"
  BY ActiveFacts
<1>4. IsFiniteSet(ActiveMachines(ms))
  BY ActiveFacts, MachinesFinite
<1>5. Cardinality(ActiveMachines(ms) \ {r}) =
        IF r \in ActiveMachines(ms) THEN Cardinality(ActiveMachines(ms)) - 1
        ELSE Cardinality(ActiveMachines(ms))
  BY <1>4, FS_RemoveElement
<1>6. QED BY <1>1, <1>2, <1>3, <1>5 DEF after

\* The loop of reconcile_pool_internal adds one active machine per iteration,
\* the last one also if its process could not be spawned.
LEMMA ReconcileAdds ==
  ASSUME NEW ms \in [MachineId -> MachineRecord], NEW target, NEW k \in Nat,
         NEW ok \in BOOLEAN, next_machine_id \in 0..MaxMachines,
         \A m \in MachineId : m > next_machine_id => ms[m].state = "Absent",
         ReconcilePoolInternal(ms, target, k, ok)
  PROVE  /\ machines' \in [MachineId -> MachineRecord]
         /\ Cardinality(ActiveMachines(machines')) = Cardinality(ActiveMachines(ms)) + k
<1> DEFINE fresh == (next_machine_id + 1)..(next_machine_id + k)
           new   == [state |-> "Provisioning", current_task_id |-> None]
<1>1. /\ next_machine_id + k <= MaxMachines
      /\ machines' = [m \in MachineId |-> IF m \in fresh THEN new ELSE ms[m]]
  BY DEF ReconcilePoolInternal
<1>2. new \in MachineRecord /\ new.state = "Provisioning"
  BY DEF MachineRecord, MachineState
<1>3. next_machine_id \in Nat /\ fresh \in SUBSET MachineId
  BY <1>1, ConstantsAreNumbers DEF MachineId
<1>4. Cardinality(fresh) = k
  <2>1. next_machine_id + 1 \in Int /\ next_machine_id + k \in Int
    BY <1>3
  <2>2. Cardinality(fresh) = IF next_machine_id + 1 > next_machine_id + k THEN 0
                             ELSE (next_machine_id + k) - (next_machine_id + 1) + 1
    BY <2>1, FS_Interval
  <2>3. QED BY <2>2, <1>3
<1>5. \A m \in fresh : ms[m].state = "Absent"
  <2>1. \A m \in fresh : m \in MachineId /\ m > next_machine_id
    BY <1>3
  <2>2. QED BY <2>1
<1> HIDE DEF fresh, new
<1>6. /\ machines' \in [MachineId -> MachineRecord]
      /\ \A m \in MachineId : machines'[m] = IF m \in fresh THEN new ELSE ms[m]
  BY <1>1, <1>2
<1>7. ActiveMachines(machines') = ActiveMachines(ms) \cup fresh
  BY <1>2, <1>3, <1>6, ActiveFacts
<1>8. ActiveMachines(ms) \cap fresh = {}
  BY <1>3, <1>5, ActiveFacts
<1>9. /\ IsFiniteSet(ActiveMachines(ms)) /\ IsFiniteSet(fresh)
      /\ Cardinality(ActiveMachines(ms)) \in Nat
  BY <1>3, ActiveFacts, MachinesFinite
<1>10. Cardinality(ActiveMachines(ms) \cup fresh) =
         Cardinality(ActiveMachines(ms)) + Cardinality(fresh)
           - Cardinality(ActiveMachines(ms) \cap fresh)
  BY <1>9, FS_Union
<1>11. Cardinality({}) = 0
  BY FS_EmptySet
<1>12. Cardinality(ActiveMachines(ms) \cup fresh) = Cardinality(ActiveMachines(ms)) + k - 0
  BY <1>4, <1>8, <1>10, <1>11
<1>13. Cardinality(ActiveMachines(machines')) = Cardinality(ActiveMachines(ms)) + k
  BY <1>7, <1>9, <1>12
<1>14. QED BY <1>6, <1>13

\* When at most one machine is missing, the pool is full afterwards, even if the
\* spawn failed.
LEMMA ReconcileFills ==
  ASSUME NEW ms \in [MachineId -> MachineRecord], target_size \in Nat,
         next_machine_id \in 0..MaxMachines,
         \A m \in MachineId : m > next_machine_id => ms[m].state = "Absent",
         \/ Cardinality(ActiveMachines(ms)) = target_size
         \/ Cardinality(ActiveMachines(ms)) = target_size - 1,
         ReconcilePoolLogged(ms)
  PROVE  Cardinality(ActiveMachines(machines')) = target_size
<1>1. PICK k \in 0..target_size, ok \in BOOLEAN :
        ReconcilePoolInternal(ms, target_size, k, ok)
  BY DEF ReconcilePoolLogged
<1>2. k \in Nat
  OBVIOUS
<1>3. Cardinality(ActiveMachines(ms)) \in Nat
  BY ActiveFacts, MachinesFinite
<1>4. k = Missing(ms, target_size) \/ k \in 1..Missing(ms, target_size)
  BY <1>1 DEF ReconcilePoolInternal
<1>5. Cardinality(ActiveMachines(ms)) + k = target_size
  BY <1>2, <1>3, <1>4 DEF Missing
<1>6. Cardinality(ActiveMachines(machines')) = Cardinality(ActiveMachines(ms)) + k
  BY <1>1, <1>2, ReconcileAdds
<1>7. QED BY <1>5, <1>6

-----------------------------------------------------------------------------
\* The pool of a daemon that serves is full.
PoolFull == daemon = "serving" => Cardinality(ActiveMachines(machines)) = target_size

\* A step that keeps who has a record keeps the pool.
LEMMA SameMachines ==
  ASSUME PoolFull, UNCHANGED <<daemon, target_size>>,
         machines \in [MachineId -> MachineRecord],
         machines' \in [MachineId -> MachineRecord],
         \A m \in MachineId : machines'[m].state = "Absent" <=> machines[m].state = "Absent"
  PROVE  PoolFull'
<1>1. ActiveMachines(machines') = ActiveMachines(machines)
  BY ActiveFacts
<1>2. QED BY <1>1 DEF PoolFull

\* Assigning tasks neither adds nor removes a machine.
LEMMA AssignKeepsMachines ==
  ASSUME NEW ms \in [MachineId -> MachineRecord], NEW q \in Seq(TaskId),
         NEW pick \in Picks(ms, q)
  PROVE  /\ AssignMachines(ms, q, pick) \in [MachineId -> MachineRecord]
         /\ \A m \in MachineId :
              AssignMachines(ms, q, pick)[m].state = "Absent" <=> ms[m].state = "Absent"
<1> DEFINE after == AssignMachines(ms, q, pick)
<1>1. after \in [MachineId -> MachineRecord]
  BY AssignMachinesFacts
<1>2. ASSUME NEW i \in 1..Len(pick)
      PROVE  /\ after[pick[i]].state = "Busy"
             /\ after[pick[i]].current_task_id = q[i]
  BY AssignMachinesFacts
<1>3. ASSUME NEW m \in MachineId, \A i \in 1..Len(pick) : pick[i] # m
      PROVE  after[m] = ms[m]
  BY <1>3, AssignMachinesFacts
<1>4. \A i \in 1..Len(pick) : ms[pick[i]].state = "Idle"
  BY PickFacts, IdleMachine
<1> HIDE DEF after
<1>5. \A m \in MachineId : after[m].state = "Absent" <=> ms[m].state = "Absent"
  BY <1>2, <1>3, <1>4
<1>6. QED BY <1>1, <1>5 DEF after

\* build_backend serves only once all its machines have been spawned.
LEMMA ReconcilePoolFills ==
  ASSUME IInv, ReconcilePool
  PROVE  PoolFull'
<1>1. PICK k \in 0..PoolSize, ok \in BOOLEAN :
        /\ ReconcilePoolInternal(machines, PoolSize, k, ok)
        /\ daemon' = IF ok THEN "serving" ELSE "exited"
  BY DEF ReconcilePool
<1>2. next_machine_id = 0 /\ target_size' = PoolSize /\ k \in Nat
  BY ConstantsAreNumbers DEF ReconcilePool, IInv
<1>3. \A m \in MachineId : machines[m].state = "Absent"
  <2>1. \A m \in MachineId : m > next_machine_id
    BY <1>2, ConstantsAreNumbers DEF MachineId
  <2>2. QED BY <2>1, SoundParts DEF TypesOf
<1>4. ActiveMachines(machines) = {}
  BY <1>3, SoundParts, ActiveFacts
<1>5. Cardinality(ActiveMachines(machines)) = 0
  BY <1>4, FS_EmptySet
<1>6. machines \in [MachineId -> MachineRecord] /\ next_machine_id \in 0..MaxMachines
  BY SoundParts DEF TypesOf
<1>7. Cardinality(ActiveMachines(machines')) = k
  <2>1. Cardinality(ActiveMachines(machines')) = Cardinality(ActiveMachines(machines)) + k
    BY <1>1, <1>2, <1>3, <1>6, ReconcileAdds
  <2>2. QED BY <2>1, <1>2, <1>5
<1>8. ok => k = PoolSize
  <2>1. Missing(machines, PoolSize) = PoolSize
    BY <1>5, ConstantsAreNumbers, PoolSizeAssumption DEF Missing
  <2>2. ok => k = Missing(machines, PoolSize)
    BY <1>1 DEF ReconcilePoolInternal
  <2>3. QED BY <2>1, <2>2
<1>9. QED BY <1>1, <1>2, <1>7, <1>8 DEF PoolFull

\* Both handlers that remove a record.
LEMMA RemovalFills ==
  ASSUME IInv, PoolFull, daemon = "serving", NEW r \in MachineId,
         ReconcilePoolLogged([machines EXCEPT ![r] = AbsentMachine]),
         UNCHANGED <<daemon, target_size>>
  PROVE  PoolFull'
<1> DEFINE ms == [machines EXCEPT ![r] = AbsentMachine]
<1>1. machines \in [MachineId -> MachineRecord]
  BY SoundParts
<1>2. /\ ms \in [MachineId -> MachineRecord]
      /\ Cardinality(ActiveMachines(ms)) =
           IF machines[r].state = "Absent" THEN Cardinality(ActiveMachines(machines))
           ELSE Cardinality(ActiveMachines(machines)) - 1
  BY <1>1, RemovedOne
<1>3. \A m \in MachineId : m > next_machine_id => ms[m].state = "Absent"
  BY AbsentMachineFields, SoundParts DEF TypesOf
<1>4. target_size \in Nat /\ next_machine_id \in 0..MaxMachines
  BY SoundParts DEF IInv, TypesOf
<1> HIDE DEF ms
<1>5. \/ Cardinality(ActiveMachines(ms)) = target_size
      \/ Cardinality(ActiveMachines(ms)) = target_size - 1
  BY <1>2 DEF PoolFull
<1>6. ReconcilePoolLogged(ms)
  BY DEF ms
<1>7. Cardinality(ActiveMachines(machines')) = target_size
  BY <1>2, <1>3, <1>4, <1>5, <1>6, ReconcileFills
<1>8. QED BY <1>7 DEF PoolFull

\* A finished task removes at most the record of its own machine.
LEMMA TaskFinishedFills ==
  ASSUME IInv, PoolFull, NEW f \in TaskId, NEW c \in ExitCode, TaskFinished(f, c)
  PROVE  PoolFull'
<1> DEFINE ms == FreeMachine(f)
<1>1. PICK pick \in Picks(ms, task_queue) :
        ReconcilePoolLogged(AssignMachines(ms, task_queue, pick))
  BY DEF TaskFinished
<1>2. daemon = "serving" /\ UNCHANGED <<daemon, target_size>>
  BY DEF TaskFinished, Receive, ActorReady
<1>3. /\ ms \in [MachineId -> MachineRecord]
      /\ \A m \in MachineId : ms[m].state = "Absent" <=> machines[m].state = "Absent"
  <2> DEFINE idle == [state |-> "Idle", current_task_id |-> None]
  <2>1. idle \in MachineRecord /\ idle.state = "Idle"
    BY DEF MachineRecord, MachineState
  <2>2. \A m \in MachineId : \/ ms[m] = idle /\ machines[m].state # "Absent"
                             \/ ms[m] = machines[m]
    BY DEF FreeMachine
  <2>3. ms = [m \in MachineId |-> ms[m]]
    BY DEF FreeMachine
  <2>4. machines \in [MachineId -> MachineRecord]
    BY SoundParts
  <2> HIDE DEF idle, ms
  <2>5. \A m \in MachineId : ms[m] \in MachineRecord
    BY <2>1, <2>2, <2>4
  <2>6. QED BY <2>1, <2>2, <2>3, <2>5
<1> HIDE DEF ms
<1> DEFINE after == AssignMachines(ms, task_queue, pick)
<1>4. /\ after \in [MachineId -> MachineRecord]
      /\ \A m \in MachineId : after[m].state = "Absent" <=> machines[m].state = "Absent"
  <2>1. task_queue \in Seq(TaskId)
    BY SoundParts DEF TypesOf
  <2>2. /\ after \in [MachineId -> MachineRecord]
        /\ \A m \in MachineId : after[m].state = "Absent" <=> ms[m].state = "Absent"
    BY <2>1, <1>3, AssignKeepsMachines
  <2> HIDE DEF after
  <2>3. QED BY <2>2, <1>3
<1>5. ReconcilePoolLogged(after)
  BY <1>1
<1> HIDE DEF after
<1>6. /\ target_size \in Nat /\ next_machine_id \in 0..MaxMachines
      /\ \A m \in MachineId : m > next_machine_id => after[m].state = "Absent"
  BY <1>4, SoundParts DEF IInv, TypesOf
<1>7. ActiveMachines(after) = ActiveMachines(machines)
  BY <1>4, SoundParts, ActiveFacts
<1>8. Cardinality(ActiveMachines(after)) = target_size
  BY <1>2, <1>7 DEF PoolFull
<1>9. Cardinality(ActiveMachines(machines')) = target_size
  BY <1>4, <1>5, <1>6, <1>8, ReconcileFills
<1>10. QED BY <1>2, <1>9 DEF PoolFull

\* No handler leaves the pool short, and no other step touches it.
LEMMA NextKeepsPoolFull ==
  ASSUME IInv, IInv', PoolFull, [Next]_vars
  PROVE  PoolFull'
<1>a. /\ machines \in [MachineId -> MachineRecord]
      /\ machines' \in [MachineId -> MachineRecord]
  <2>1. machines \in [MachineId -> MachineRecord]
    BY SoundParts
  <2>2. machines' \in [MachineId -> MachineRecord]
    BY DEF IInv, Sound, TypesOf
  <2>3. QED BY <2>1, <2>2
<1>1. CASE ReconcilePool
  BY <1>1, ReconcilePoolFills
<1>2. CASE UNCHANGED <<daemon, target_size, machines>>
  BY <1>2, <1>a, SameMachines
<1>3. CASE StartTask
  <2> DEFINE q == Enqueue(task_queue, next_task_id + 1)
  <2>1. /\ UNCHANGED <<daemon, target_size>>
        /\ next_task_id + 1 \in TaskId
    BY <1>3 DEF StartTask
  <2>2. PICK pick \in Picks(machines, q) : machines' = AssignMachines(machines, q, pick)
    BY <1>3 DEF StartTask
  <2>3. q \in Seq(TaskId)
    BY <2>1, SoundParts DEF TypesOf, Enqueue
  <2> HIDE DEF q
  <2>4. \A m \in MachineId : machines'[m].state = "Absent" <=> machines[m].state = "Absent"
    BY <2>2, <2>3, <1>a, AssignKeepsMachines
  <2>5. QED BY <2>1, <2>4, <1>a, SameMachines
<1>4. ASSUME NEW r \in MachineId, MachineReady(r) PROVE PoolFull'
  <2> DEFINE ms == IF machines[r].state = "Absent" THEN machines
                   ELSE [machines EXCEPT ![r].state = "Idle"]
  <2>1. UNCHANGED <<daemon, target_size>>
    BY <1>4 DEF MachineReady
  <2>2. PICK pick \in Picks(ms, task_queue) : machines' = AssignMachines(ms, task_queue, pick)
    BY <1>4 DEF MachineReady
  <2>3. /\ ms \in [MachineId -> MachineRecord]
        /\ \A m \in MachineId : ms[m].state = "Absent" <=> machines[m].state = "Absent"
    <3>1. CASE machines[r].state = "Absent"
      BY <3>1, <1>a
    <3>2. CASE machines[r].state # "Absent"
      BY <3>2, <1>a DEF MachineRecord, MachineState
    <3>3. QED BY <3>1, <3>2
  <2>4. task_queue \in Seq(TaskId)
    BY SoundParts DEF TypesOf
  <2> HIDE DEF ms
  <2>5. \A m \in MachineId : machines'[m].state = "Absent" <=> ms[m].state = "Absent"
    BY <2>2, <2>3, <2>4, AssignKeepsMachines
  <2>6. QED BY <2>1, <2>3, <2>5, <1>a, SameMachines
<1>5. ASSUME NEW r \in MachineId, MachineProvisionFailed(r) PROVE PoolFull'
  BY <1>5, RemovalFills DEF MachineProvisionFailed, Receive, ActorReady
<1>6. ASSUME NEW r \in MachineId, MachineExited(r) PROVE PoolFull'
  BY <1>6, RemovalFills DEF MachineExited, Receive, ActorReady
<1>7. ASSUME NEW t \in TaskId, NEW c \in ExitCode, TaskFinished(t, c) PROVE PoolFull'
  BY <1>7, TaskFinishedFills
<1>8. ASSUME NEW t \in TaskId, CancelQueued(t) \/ CancelRunning(t)
      PROVE  UNCHANGED <<daemon, target_size, machines>>
  BY <1>8 DEF CancelQueued, CancelRunning
<1>9. ASSUME NEW ok \in BOOLEAN, CancelReturns(ok)
      PROVE  UNCHANGED <<daemon, target_size, machines>>
  BY <1>9 DEF CancelReturns, actorVars
<1>10. Process => UNCHANGED <<daemon, target_size, machines>>
  BY DEF Process, NspawnExits, ProbeSucceeds, ProbeTimesOut, RunEnds, UnitEnds, actorVars
<1>11. UNCHANGED vars => UNCHANGED <<daemon, target_size, machines>>
  BY DEF vars, actorVars
<1>12. QED
  BY <1>1, <1>2, <1>3, <1>4, <1>5, <1>6, <1>7, <1>8, <1>9, <1>10, <1>11
     DEF Next, Command, Event

\* While the daemon serves, the pool has exactly target_size records.
THEOREM PoolSizeHolds == Spec => []PoolSizeKept
<1>1. Init => PoolFull
  BY DEF Init, PoolFull
<1>2. IInv /\ IInv' /\ PoolFull /\ [Next]_vars => PoolFull'
  BY NextKeepsPoolFull
<1>3. IInv /\ PoolFull => PoolSizeKept
  <2>1. SUFFICES ASSUME IInv, PoolFull PROVE PoolSizeKept
    OBVIOUS
  <2>2. ActiveMachines(machines) = {m \in MachineId : machines[m].state # "Absent"}
    BY <2>1, SoundParts, ActiveFacts
  <2>3. QED BY <2>1, <2>2 DEF PoolFull, PoolSizeKept
<1>4. QED BY <1>1, <1>2, <1>3, Invariance, PTL DEF Spec

=============================================================================
