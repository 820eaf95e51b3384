----------------------------- MODULE TaskClients -----------------------------
(***************************************************************************)
(* The way of a task between the command line and the backend: the         *)
(* commands `shargon run`, `shargon cancel` and `shargon task-status`, the *)
(* handlers of the daemon's RPC service, each of which makes one call of   *)
(* the backend, the bounded channel through which those calls reach the    *)
(* actor, and the actor's replies.                                         *)
(*                                                                         *)
(* What the actor does with its tasks is TaskService, which NspawnBackend  *)
(* implements; here the actor takes the commands one by one out of the     *)
(* channel and handles nothing else while it awaits systemctl.  Clients    *)
(* may be interrupted at any moment, and the daemon may end at any moment  *)
(* and be started again: tasks, ids and calls are then lost, but a client  *)
(* that was between two calls goes on with the new daemon.                 *)
(***************************************************************************)
EXTENDS Naturals, Sequences, FiniteSets

CONSTANTS
  Client,       \* the clients, each of which executes one command
  NoClient,     \* none of them
  Capacity,     \* of the command channel (32 in the code)
  Slots,        \* how many tasks run at a time
  MaxTasks,     \* bound: tasks ever submitted, one by each client
  MaxRestarts   \* bound: how often the daemon is started again

ASSUME ClientAssumption == IsFiniteSet(Client) /\ NoClient \notin Client
ASSUME CapacityAssumption == Capacity \in Nat \ {0}
ASSUME TaskClientsBounds == /\ Slots \in Nat /\ MaxRestarts \in Nat
                            /\ MaxTasks = Cardinality(Client)

TaskId == 1..MaxTasks
None   == 0            \* no task id

VARIABLES
  \* The clients: the command each one executes and how far it is, the request
  \* it last made, the reply on its way to it, and the status it last read.
  command, step, request, reply, view,
  \* The handlers whose send awaits room in the channel, oldest first, and the
  \* channel, both as the clients who made the requests.
  waiters, channel,
  \* The client whose cancel_task awaits systemctl inside the actor.
  cancelling,
  \* The tasks, as in TaskService.
  status, requested, lost,
  \* Whether the daemon runs, and how many daemons were started so far.
  up, generation,
  \* History: which client's start_task made which task of which daemon.
  started

clientVars  == <<command, step, request, reply, view>>
channelVars == <<waiters, channel>>
taskVars    == <<status, requested, lost>>
daemonVars  == <<up, generation>>
vars == <<clientVars, channelVars, cancelling, taskVars, daemonVars, started>>

Service == INSTANCE TaskService

\* BackendCommand, without the ones that only list; generation is history and
\* names the daemon that got the request.
Request == [op : {"None", "StartTask", "GetTask", "CancelTask"},
            task_id : TaskId \cup {None}, generation : 0..(MaxRestarts + 1)]

\* Mutant: the last two states change places.
ToProtoSwapped(state) ==
  CASE state = "Queued" -> 1 [] state = "Running" -> 2 [] state = "Succeeded" -> 3
    [] state = "Failed" -> 5 [] state = "Cancelled" -> 4

\* to_proto_task_state: the number that a state has on the wire.
ToProtoTaskState(state) ==
  CASE state = "Queued" -> 1 [] state = "Running" -> 2 [] state = "Succeeded" -> 3
    [] state = "Failed" -> 4 [] state = "Cancelled" -> 5

\* TaskState::try_from and task_state_label: what the client makes of the number.
TaskStateLabel(value) ==
  CASE value = 1 -> "Queued" [] value = 2 -> "Running" [] value = 3 -> "Succeeded"
    [] value = 4 -> "Failed" [] value = 5 -> "Cancelled" [] OTHER -> "unknown"

\* Mutant: only the states that a program ends in by itself.
TerminalButCancelled(value) == value \in {3, 4}

\* is_terminal_task_state, on the number that came over the wire.
IsTerminalTaskState(value) == value \in {3, 4, 5}

\* What to_proto_task_status keeps of a task, and the errors, which no client
\* tells apart.
StatusReply(t, s) == [kind |-> "ok", task_id |-> t, state |-> ToProtoTaskState(s[t])]
NoReply == [kind |-> "none", task_id |-> None, state |-> 0]
Failure == [kind |-> "error", task_id |-> None, state |-> 0]
Reply   == [kind : {"none", "ok", "error"}, task_id : TaskId \cup {None}, state : 0..5]

Places(seq) == {seq[i] : i \in DOMAIN seq}
Distinct(seq) == \A i, j \in DOMAIN seq : seq[i] = seq[j] => i = j

\* Every variable has its type, the channel keeps its bound, and a client has at
\* most one request there and one among the waiting ones.
TypeOK ==
  /\ command \in [Client -> {"none", "run", "cancel", "task-status"}]
  /\ step \in [Client -> {"idle", "calling", "sleeping", "reported", "failed", "gone"}]
  /\ request \in [Client -> Request]
  /\ reply \in [Client -> Reply]
  /\ view \in [Client -> Reply]
  /\ waiters \in Seq(Client) /\ Distinct(waiters)
  /\ channel \in Seq(Client) /\ Distinct(channel) /\ Len(channel) <= Capacity
  /\ cancelling \in Client \cup {NoClient}
  /\ status \in [TaskId -> Service!Status]
  /\ requested \subseteq TaskId /\ lost \subseteq TaskId
  /\ up \in BOOLEAN /\ generation \in 1..(MaxRestarts + 1)
  /\ started \subseteq [client : Client, generation : 1..(MaxRestarts + 1), task_id : TaskId]

Init ==
  /\ command = [c \in Client |-> "none"]
  /\ step = [c \in Client |-> "idle"]
  /\ request = [c \in Client |-> [op |-> "None", task_id |-> None, generation |-> 0]]
  /\ reply = [c \in Client |-> NoReply]
  /\ view = [c \in Client |-> NoReply]
  /\ waiters = <<>>
  /\ channel = <<>>
  /\ cancelling = NoClient
  /\ Service!Init
  /\ up = TRUE
  /\ generation = 1
  /\ started = {}

-----------------------------------------------------------------------------
(***************************************************************************)
(* The clients.                                                            *)
(***************************************************************************)

\* A call reaches its handler, which asks for room in the channel.  Without a
\* daemon it fails, and so does the command.
Call(c, op, task_id) ==
  /\ \/ /\ up
        /\ step' = [step EXCEPT ![c] = "calling"]
        /\ request' = [request EXCEPT ![c] = [op |-> op, task_id |-> task_id,
                                              generation |-> generation]]
        /\ waiters' = Append(waiters, c)
        /\ UNCHANGED view
     \/ /\ ~up
        /\ step' = [step EXCEPT ![c] = "failed"]
        /\ view' = [view EXCEPT ![c] = NoReply]
        /\ UNCHANGED <<request, waiters>>
  /\ UNCHANGED <<reply, channel, cancelling, taskVars, daemonVars, started>>

\* A command begins: it connects (connect_to_running_vm_service), which takes no
\* step of its own as nothing depends on when the ping is answered, and makes its
\* first call.
Execute(c, name, op, task_id) ==
  /\ step[c] = "idle"
  /\ command' = [command EXCEPT ![c] = name]
  /\ Call(c, op, task_id)

ExecuteRun(c)           == Execute(c, "run", "StartTask", None)
ExecuteCancel(c, t)     == Execute(c, "cancel", "CancelTask", t)
ExecuteTaskStatus(c, t) == Execute(c, "task-status", "GetTask", t)

\* The answer arrives and is printed, except that `shargon run` sleeps when it is
\* not a verdict; an error ends any command.
Read(c) ==
  /\ step[c] = "calling"
  /\ reply[c].kind # "none"
  /\ \/ /\ reply[c].kind = "error"
        /\ step' = [step EXCEPT ![c] = "failed"]
        /\ view' = [view EXCEPT ![c] = NoReply]
     \/ /\ reply[c].kind = "ok"
        /\ view' = [view EXCEPT ![c] = reply[c]]
        /\ step' = [step EXCEPT ![c] = IF command[c] # "run" \/ IsTerminalTaskState(reply[c].state)
                                       THEN "reported" ELSE "sleeping"]
  /\ reply' = [reply EXCEPT ![c] = NoReply]
  /\ UNCHANGED <<command, request, channelVars, cancelling, taskVars, daemonVars, started>>

\* The sleep between two polls is over.  The channel to the daemon reconnects by
\* itself, so this call finds whichever daemon runs now.
Poll(c) ==
  /\ step[c] = "sleeping"
  /\ Call(c, "GetTask", view[c].task_id)
  /\ UNCHANGED command

\* The user interrupts the command.  Its call, if any, goes on without it.
Interrupt(c) ==
  /\ step[c] \in {"calling", "sleeping"}
  /\ step' = [step EXCEPT ![c] = "gone"]
  /\ reply' = [reply EXCEPT ![c] = NoReply]
  /\ view' = [view EXCEPT ![c] = NoReply]
  /\ UNCHANGED <<command, request, channelVars, cancelling, taskVars, daemonVars, started>>

-----------------------------------------------------------------------------
(***************************************************************************)
(* The handlers of the RPC service and the channel.                        *)
(***************************************************************************)

Without(seq, i) == [j \in 1..(Len(seq) - 1) |-> IF j < i THEN seq[j] ELSE seq[j + 1]]

\* Mutant: room goes to the handler that came last.
PushNewest(c) ==
  /\ Len(waiters) > 0 /\ waiters[Len(waiters)] = c
  /\ Len(channel) < Capacity
  /\ waiters' = Without(waiters, Len(waiters))
  /\ channel' = Append(channel, c)
  /\ UNCHANGED <<clientVars, cancelling, taskVars, daemonVars, started>>

\* Mutant: one command more than there is room for.
PushBeyond(c) ==
  /\ \E i \in DOMAIN waiters :
       /\ waiters[i] = c
       /\ i + Len(channel) <= Capacity + 1
       /\ waiters' = Without(waiters, i)
  /\ channel' = Append(channel, c)
  /\ UNCHANGED <<clientVars, cancelling, taskVars, daemonVars, started>>

\* send: room is granted in the order in which it was asked for, and each
\* handler that was granted room uses it when it is scheduled next.
Push(c) ==
  /\ \E i \in DOMAIN waiters :
       /\ waiters[i] = c
       /\ i + Len(channel) <= Capacity
       /\ waiters' = Without(waiters, i)
  /\ channel' = Append(channel, c)
  /\ UNCHANGED <<clientVars, cancelling, taskVars, daemonVars, started>>

\* Mutant: the handler that is dropped is another one.
DropOldest(c) ==
  /\ step[c] = "gone"
  /\ \E i \in DOMAIN waiters : waiters[i] = c /\ waiters' = Without(waiters, 1)
  /\ UNCHANGED <<clientVars, channel, cancelling, taskVars, daemonVars, started>>

\* The handler of a client that is gone is dropped while it awaits room.  Once the
\* command is in the channel only the reply is dropped.
DropHandler(c) ==
  /\ step[c] = "gone"
  /\ \E i \in DOMAIN waiters : waiters[i] = c /\ waiters' = Without(waiters, i)
  /\ UNCHANGED <<clientVars, channel, cancelling, taskVars, daemonVars, started>>

-----------------------------------------------------------------------------
(***************************************************************************)
(* The actor.                                                              *)
(***************************************************************************)

\* response_tx.send, whose error nobody looks at.
Respond(c, r) == reply' = [reply EXCEPT ![c] = IF step[c] = "calling" THEN r ELSE NoReply]

\* Mutant: an error on the way to a machine is returned although the task is in.
StartTaskThenFail(c) ==
  /\ \E t \in TaskId :
       /\ Service!Submit(t)
       /\ started' = started \cup {[client |-> c, generation |-> generation, task_id |-> t]}
       /\ Respond(c, IF status'[t] = "Queued" THEN Failure ELSE StatusReply(t, status'))
  /\ UNCHANGED cancelling

\* handle_start_task: the status in the reply is the one after scheduling.
StartTask(c) ==
  /\ \E t \in TaskId :
       /\ Service!Submit(t)
       /\ started' = started \cup {[client |-> c, generation |-> generation, task_id |-> t]}
       /\ Respond(c, StatusReply(t, status'))
  /\ UNCHANGED cancelling

\* Nothing changes: GetTask, and CancelTask of a task unknown or ended.
Look(c, t) ==
  /\ Respond(c, IF status[t] = "Absent" THEN Failure ELSE StatusReply(t, status))
  /\ UNCHANGED <<cancelling, taskVars, started>>

\* Mutant: the flag is forgotten.
CancelUnrecorded(c, t) ==
  \/ /\ status[t] = "Queued"
     /\ Service!CancelQueued(t)
     /\ Respond(c, StatusReply(t, status'))
     /\ UNCHANGED <<cancelling, started>>
  \/ /\ status[t] = "Running"
     /\ cancelling' = c
     /\ UNCHANGED <<reply, taskVars, started>>
  \/ status[t] \notin {"Queued", "Running"} /\ Look(c, t)

\* handle_cancel_task, up to the await for a running task.
CancelTask(c, t) ==
  \/ /\ Service!CancelQueued(t)
     /\ Respond(c, StatusReply(t, status'))
     /\ UNCHANGED <<cancelling, started>>
  \/ /\ Service!RequestCancel(t)
     /\ cancelling' = c
     /\ UNCHANGED <<reply, started>>
  \/ status[t] \notin {"Queued", "Running"} /\ Look(c, t)

\* The actor receives the next command.
Handle ==
  /\ cancelling = NoClient
  /\ channel # <<>>
  /\ channel' = Tail(channel)
  /\ LET c == Head(channel)
         t == request[c].task_id
     IN  \/ request[c].op = "StartTask" /\ StartTask(c)
         \/ request[c].op = "GetTask" /\ Look(c, t)
         \/ request[c].op = "CancelTask" /\ CancelTask(c, t)
  /\ UNCHANGED <<command, step, request, view, waiters, daemonVars>>

\* systemctl stop returns, with or without success.
CancelReturns ==
  /\ cancelling # NoClient
  /\ \E ok \in BOOLEAN :
       Respond(cancelling, IF ok THEN StatusReply(request[cancelling].task_id, status)
                           ELSE Failure)
  /\ cancelling' = NoClient
  /\ UNCHANGED <<command, step, request, view, channelVars, taskVars, daemonVars, started>>

\* The actor receives an event.
Event ==
  /\ up
  /\ cancelling = NoClient
  /\ Service!Start \/ \E t \in TaskId : Service!Report(t) \/ Service!GiveUp(t)
  /\ UNCHANGED <<clientVars, channelVars, cancelling, daemonVars, started>>

-----------------------------------------------------------------------------
(***************************************************************************)
(* The daemon ends, and is started again.                                  *)
(***************************************************************************)

\* Mutant: a command whose call failed is executed again.
CrashAndRetry ==
  /\ up
  /\ up' = FALSE
  /\ step' = [c \in Client |-> IF step[c] = "calling" THEN "idle" ELSE step[c]]
  /\ reply' = [c \in Client |-> NoReply]
  /\ view' = [c \in Client |-> IF step[c] = "calling" THEN NoReply ELSE view[c]]
  /\ waiters' = <<>>
  /\ channel' = <<>>
  /\ cancelling' = NoClient
  /\ status' = [t \in TaskId |-> "Absent"]
  /\ requested' = {}
  /\ lost' = {}
  /\ UNCHANGED <<command, request, generation, started>>

\* Every call in flight fails, and with the process all that it knew is gone.
Crash ==
  /\ up
  /\ up' = FALSE
  /\ step' = [c \in Client |-> IF step[c] = "calling" THEN "failed" ELSE step[c]]
  /\ reply' = [c \in Client |-> NoReply]
  /\ view' = [c \in Client |-> IF step[c] = "calling" THEN NoReply ELSE view[c]]
  /\ waiters' = <<>>
  /\ channel' = <<>>
  /\ cancelling' = NoClient
  /\ status' = [t \in TaskId |-> "Absent"]
  /\ requested' = {}
  /\ lost' = {}
  /\ UNCHANGED <<command, request, generation, started>>

\* The new daemon numbers its tasks from 1 again.
Restart ==
  /\ ~up
  /\ generation <= MaxRestarts
  /\ up' = TRUE
  /\ generation' = generation + 1
  /\ UNCHANGED <<clientVars, channelVars, cancelling, taskVars, started>>

Next ==
  \/ \E c \in Client :
       \/ ExecuteRun(c) \/ \E t \in TaskId : ExecuteCancel(c, t) \/ ExecuteTaskStatus(c, t)
       \/ Read(c) \/ Poll(c) \/ Interrupt(c)
       \/ Push(c) \/ DropHandler(c)
  \/ Handle \/ CancelReturns \/ Event
  \/ Crash \/ Restart

Spec == Init /\ [][Next]_vars

\* The runtime schedules handlers and the actor, whose select! takes its branch
\* at random and so neglects no command for ever, systemctl returns, and clients
\* that are not interrupted go on.  Nobody has to run a command, to interrupt
\* one or to start a daemon, and no program has to end.
Fairness ==
  /\ WF_vars(Handle) /\ WF_vars(CancelReturns)
  /\ \A c \in Client : WF_vars(Read(c)) /\ WF_vars(Poll(c)) /\ WF_vars(Push(c))

FairSpec == Spec /\ Fairness

-----------------------------------------------------------------------------
(***************************************************************************)
(* Properties.                                                             *)
(***************************************************************************)

\* A call that has not failed is in exactly one place: waiting for room, in the
\* channel, with the actor, or answered; and a client that is not calling has no
\* answer coming (send_command and the handlers of the actor).
NoCallLost ==
  \A c \in Client :
    IF step[c] = "calling"
    THEN \E place \in {"waiting", "queued", "handled", "answered"} :
           /\ c \in Places(waiters) <=> place = "waiting"
           /\ c \in Places(channel) <=> place = "queued"
           /\ c = cancelling <=> place = "handled"
           /\ reply[c].kind # "none" <=> place = "answered"
    ELSE reply[c] = NoReply

\* However often the daemon ends and whoever is interrupted, one `shargon run`
\* makes at most one task (CliRunCommand never repeats start_task).
OneTaskPerRun ==
  \A e, f \in started : e.client = f.client => e = f

\* While its daemon lives, a `shargon run` that is neither interrupted nor in the
\* middle of its start_task knows its task, and does not end before it: no client
\* is told of a failure and leaves a task behind that nobody can name.
OrphansOnlyOfInterrupted ==
  \A e \in started :
    e.generation = generation /\ up =>
      /\ step[e.client] \in {"calling", "sleeping", "reported", "gone"}
      /\ step[e.client] \in {"sleeping", "reported"} => view[e.client].task_id = e.task_id
      /\ step[e.client] = "calling" /\ request[e.client].op = "GetTask" =>
           request[e.client].task_id = e.task_id

\* What `shargon run` reports is a verdict on its own task, and the daemon stands by
\* it, except that a task given up as failed may still report its result.  Once the
\* daemon was started again the id may be another client's.
ReportsItsTask ==
  \A e \in started :
    e.generation = generation /\ up /\ step[e.client] = "reported" =>
      /\ view[e.client].task_id = e.task_id
      /\ LET verdict == TaskStateLabel(view[e.client].state)
         IN  \/ verdict = status[e.task_id]
             \/ verdict = "Failed" /\ status[e.task_id] \in {"Succeeded", "Cancelled"}
      /\ status[e.task_id] \in {"Succeeded", "Failed", "Cancelled"}

\* A client that was told that its task is cancelled, or that its cancellation was
\* accepted while the task ran, will not see the task succeed, whichever of the
\* program and systemctl is faster: it stays cancelled, or ends cancelled or given
\* up (handle_cancel_task, finish_task).
CancelHonoured ==
  \A c \in Client :
    step[c] = "reported" /\ command[c] = "cancel"
      /\ request[c].generation = generation /\ up =>
        LET answer == TaskStateLabel(view[c].state)
            now    == status[request[c].task_id]
        IN  /\ answer = "Running" => now \in {"Running", "Cancelled", "Failed"}
            /\ answer = "Cancelled" => now = "Cancelled"

\* Every call ends, by an answer or an error, or with its client (the channel is
\* first come, first served, and the actor replies to every command).
CallsEnd ==
  \A c \in Client : (step[c] = "calling") ~> (step[c] # "calling")

\* `shargon run` ends once its task has a verdict, unless the daemon ends first.
RunsEnd ==
  \A c \in Client :
    (\E e \in started : /\ e.client = c /\ e.generation = generation /\ up
                        /\ status[e.task_id] \in {"Succeeded", "Failed", "Cancelled"})
      ~> (step[c] \in {"reported", "failed", "gone"} \/ ~up)

=============================================================================
