---------------------------- MODULE ShargonSystem ----------------------------
(***************************************************************************)
(* The clients, the channel and the actor of TaskClients, with the whole   *)
(* backend of NspawnBackend, its machines and its processes, in place of   *)
(* TaskService: each command that the actor takes out of the channel is    *)
(* the handler of NspawnBackend, with the answer that it makes.  A daemon  *)
(* that ends leaves its machines running, and the one that is started next *)
(* gives out the same names.                                               *)
(***************************************************************************)
EXTENDS NspawnBackend

CONSTANTS Client, NoClient, Capacity, MaxRestarts   \* as in TaskClients

\* No client starts more than one task.
ASSUME OneTaskPerClient == IsFiniteSet(Client) /\ MaxTasks = Cardinality(Client)
ASSUME FrontAssumption == /\ NoClient \notin Client
                          /\ Capacity \in Nat \ {0}
                          /\ MaxRestarts \in Nat

VARIABLES
  command, step, request, reply, view, waiters, channel,   \* as in TaskClients
  caller,               \* the client whose cancel_task awaits systemctl
  generation, started   \* as in TaskClients

frontVars  == <<command, step, request, reply, view, waiters, channel, caller,
                generation, started>>
systemVars == <<vars, frontVars>>

\* The state of each task in the tasks map ts.
States(ts) == [t \in TaskId |-> ts[t].state]

Clients == INSTANCE TaskClients
  WITH Slots      <- PoolSize,
       cancelling <- caller,
       status     <- States(tasks),
       requested  <- {t \in TaskId : tasks[t].cancellation_requested},
       lost       <- {t \in TaskId : MayReport(t)},
       up         <- daemon # "exited"

SystemInit ==
  /\ Init
  /\ command = [c \in Client |-> "none"]
  /\ step = [c \in Client |-> "idle"]
  /\ request = [c \in Client |-> [op |-> "None", task_id |-> None, generation |-> 0]]
  /\ reply = [c \in Client |-> Clients!NoReply]
  /\ view = [c \in Client |-> Clients!NoReply]
  /\ waiters = <<>>
  /\ channel = <<>>
  /\ caller = NoClient
  /\ generation = 1
  /\ started = {}

-----------------------------------------------------------------------------
(***************************************************************************)
(* The clients and their handlers, as in TaskClients.                      *)
(***************************************************************************)

\* A daemon answers nobody, not even the ping that precedes a call, before
\* build_backend has filled its pool.
ClientCalls(c) ==
  /\ daemon # "starting"
  /\ UNCHANGED vars
  /\ \/ Clients!ExecuteRun(c)
     \/ \E t \in TaskId : Clients!ExecuteCancel(c, t) \/ Clients!ExecuteTaskStatus(c, t)
     \/ Clients!Poll(c)

ClientGoesOn(c) ==
  /\ UNCHANGED vars
  /\ Clients!Read(c) \/ Clients!Interrupt(c) \/ Clients!Push(c) \/ Clients!DropHandler(c)

-----------------------------------------------------------------------------
(***************************************************************************)
(* The actor.                                                              *)
(***************************************************************************)

Respond(c, r) == Clients!Respond(c, r)
Answer(t, ts) == Clients!StatusReply(t, States(ts))

\* Mutant: the status in the answer is the one from before scheduling.
HandleStartTaskUnread(c) ==
  /\ StartTask
  /\ started' = started \cup {[client |-> c, generation |-> generation,
                               task_id |-> next_task_id']}
  /\ Respond(c, [Answer(next_task_id', tasks') EXCEPT !.state = 1])
  /\ UNCHANGED caller

\* handle_start_task, whose answer has the status from after scheduling.
HandleStartTask(c) ==
  /\ StartTask
  /\ started' = started \cup {[client |-> c, generation |-> generation,
                               task_id |-> next_task_id']}
  /\ Respond(c, Answer(next_task_id', tasks'))
  /\ UNCHANGED caller

\* handle_get_task, and handle_cancel_task of a task unknown or ended.
HandleLook(c, t) ==
  /\ UNCHANGED <<vars, caller, started>>
  /\ Respond(c, IF tasks[t].state = "Absent" THEN Clients!Failure ELSE Answer(t, tasks))

\* handle_cancel_task: without a machine to stop the unit in, the caller gets an
\* internal error at once.
HandleCancelTask(c, t) ==
  \/ /\ CancelQueued(t)
     /\ Respond(c, Answer(t, tasks'))
     /\ UNCHANGED <<caller, started>>
  \/ /\ CancelRunning(t)
     /\ IF cancelling' = t THEN caller' = c /\ UNCHANGED reply
                           ELSE Respond(c, Clients!Failure) /\ UNCHANGED caller
     /\ UNCHANGED started
  \/ tasks[t].state \notin {"Queued", "Running"} /\ HandleLook(c, t)

\* The actor receives the next command.
HandleCommand ==
  /\ ActorReady
  /\ channel # <<>>
  /\ channel' = Tail(channel)
  /\ LET c == Head(channel)
         t == request[c].task_id
     IN  \/ request[c].op = "StartTask" /\ HandleStartTask(c)
         \/ request[c].op = "GetTask" /\ HandleLook(c, t)
         \/ request[c].op = "CancelTask" /\ HandleCancelTask(c, t)
  /\ UNCHANGED <<command, step, request, view, waiters, generation>>

\* systemctl stop returns, and handle_cancel_task answers.
SystemctlReturns(ok) ==
  /\ CancelReturns(ok)
  /\ Respond(caller, IF ok THEN Answer(cancelling, tasks) ELSE Clients!Failure)
  /\ caller' = NoClient
  /\ UNCHANGED <<command, step, request, view, waiters, channel, generation, started>>

-----------------------------------------------------------------------------
(***************************************************************************)
(* The daemon ends, and is started again.                                  *)
(***************************************************************************)

\* The records, the queue, the events and the ids end with the process; the
\* machines that run keep their names, which the next daemon gives out again.
ProcessEnds ==
  /\ held' = held \cup {m \in MachineId : nspawn[m] = "running"}
  /\ target_size' = 0
  /\ next_machine_id' = 0
  /\ next_task_id' = 0
  /\ machines' = [m \in MachineId |-> AbsentMachine]
  /\ tasks' = [t \in TaskId |-> AbsentTask]
  /\ task_queue' = <<>>
  /\ cancelling' = None
  /\ events' = {}
  /\ nspawn' = [m \in MachineId |-> "none"]
  /\ probe' = [m \in MachineId |-> "none"]
  /\ unit' = [t \in TaskId |-> "none"]

\* Every call in flight fails.
Crash ==
  /\ daemon # "exited"
  /\ daemon' = "exited"
  /\ ProcessEnds
  /\ step' = [c \in Client |-> IF step[c] = "calling" THEN "failed" ELSE step[c]]
  /\ reply' = [c \in Client |-> Clients!NoReply]
  /\ view' = [c \in Client |-> IF step[c] = "calling" THEN Clients!NoReply ELSE view[c]]
  /\ waiters' = <<>>
  /\ channel' = <<>>
  /\ caller' = NoClient
  /\ UNCHANGED <<command, request, generation, started>>

\* Another daemon is started.  (Bound: there are ids for a pool next to the held
\* names.)
Restart ==
  /\ daemon = "exited"
  /\ generation <= MaxRestarts
  /\ daemon' = "starting"
  /\ generation' = generation + 1
  /\ ProcessEnds
  /\ PoolSize + Cardinality(held') <= MaxMachines
  /\ UNCHANGED <<command, step, request, reply, view, waiters, channel, caller, started>>

SystemNext ==
  \/ \E c \in Client : ClientCalls(c) \/ ClientGoesOn(c)
  \/ HandleCommand
  \/ \E ok \in BOOLEAN : SystemctlReturns(ok)
  \/ (ReconcilePool \/ Event \/ Process) /\ UNCHANGED frontVars
  \/ Crash \/ Restart

SystemSpec == SystemInit /\ [][SystemNext]_systemVars

-----------------------------------------------------------------------------
\* What a client was told about a task holds of its processes, through the channel,
\* the await of systemctl and the failures of machines.  A program that succeeded has
\* ended with 0 and was not to be stopped.  Nobody waits any longer for one that was
\* cancelled, and it runs on only if its systemd-run ended without success before it.
\* One whose cancellation was accepted was stopped or had ended, unless its machine
\* has the name of one that a former daemon left: there systemctl may have stopped
\* the unit of a former task (handle_cancel_task, finish_task, run_task and
\* cancel_task of the system).
ToldOfProcesses ==
  \A c \in Client :
    step[c] = "reported" /\ request[c].generation = generation /\ daemon = "serving" =>
      LET answer == Clients!TaskStateLabel(view[c].state)
          t      == view[c].task_id
      IN  /\ answer = "Succeeded" =>
               unit[t] = "done" /\ tasks[t].exit_code = "zero"
                 /\ ~tasks[t].cancellation_requested
          /\ answer = "Cancelled" =>
               /\ unit[t] \in {"none", "orphaned", "done"}
               /\ unit[t] = "orphaned" => tasks[t].exit_code # "zero"
          /\ answer = "Running" /\ command[c] = "cancel" =>
               unit[t] \in {"stopped", "done"} \/ tasks[t].machine_id \in held

\* Clients, channel and backend together do what TaskClients says, where the
\* backend is only what TaskService promises.
ImplementsTaskClients == Clients!Spec

=============================================================================
