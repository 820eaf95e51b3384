# shargon in TLA+

`shargon` runs commands in a pool of `systemd-nspawn` machines. A daemon keeps
the pool, queues the tasks and serves clients over a Unix socket; the client
program submits, watches and cancels tasks. This directory holds a formal model
of that program: TLA+ modules translated from its source, TLC configurations
that check them on small instances, and theorems about them that TLAPS proves
for every value of the constants. In source paths, `nspawn` stands for
`crates/shargon-nspawn/src/lib.rs`, `run` for
`crates/shargon-daemon/src/cli_command/run.rs` and `client` for
`crates/shargon-client/src/daemon.rs`.

## 1. The system

| Part | State it keeps | Operations | Talks to |
|---|---|---|---|
| nspawn backend actor (`nspawn` 175-593) | `target_size`, next ids, machines, tasks, queue | ReconcilePool, StartTask, CancelTask, Get/List; events MachineReady, MachineProvisionFailed, MachineExited, TaskFinished | commands from the RPC service (mpsc, 32), events from the tokio tasks (unbounded mpsc) |
| backend command channel (`nspawn` 38-135) | the commands sent and not received, and the callers that wait for room | send_command for each operation of `VmBackend`, its oneshot reply | RPC handlers on one side, the actor on the other |
| nspawn system (`nspawn` 595-864) | the processes: one `systemd-nspawn` and one readiness probe per machine, one `systemd-run` per running task | spawn_machine, run_task, cancel_task | sends one event per process or probe |
| daemon start-up (`run`) | socket file, listener, the process | create_daemon_listener, build_backend, execute | other daemons, through the path only |
| RPC service (`crates/shargon-daemon/src/rpc`) | none | one backend call per RPC, conversions | clients, backend |
| client connection (`client`) | none that lasts | connect_to_running, connect_or_start, wait_for_daemon_ready | the socket; may launch a daemon |
| client commands (`crates/shargon-client/src/cli_command`) | the last status polled by `run` | run (submit and poll), cancel, tasks, task, machines, ping | the RPC service |
| settings (`crates/shargon-settings`) | none | load, validate | read by client and daemon, each on its own |
| qemu backend | none | every operation is unimplemented | settings may choose it |
| protocol, version, argument parsing | none | generated, formatting | |

### Behaviours that are hard

* **Order of events.** A machine's exit, the outcome of its probe, the result
  of its task and the cancellation of that task come from four tokio tasks and
  reach the actor in any order. `finish_task` writes the state of a task
  whatever state it has.
* **Await inside the actor.** Cancelling a running task awaits `systemctl stop`
  in the actor's loop; processes go on meanwhile. The request is recorded
  before the await and stays if the command fails.
* **Stale machine state.** A machine is Idle in the map until its exit event
  is handled, so tasks are started on machines that are dead.
* **Partial failure.** `spawn_machine` inserts its record before the process
  exists; `reconcile_pool_logged` drops the error. A boot timeout drops the
  record and leaves the process. A `systemd-run` that is killed or cut off from
  its machine ends the task for the actor, but not its unit in the machine.
* **Liveness through single events.** Each record that is not settled is moved
  on by one event only.
* **Check then act on the socket path.** A daemon probes, unlinks and binds in
  separate system calls, while others do the same; nobody unlinks at exit.
* **Client side.** Two clients without a daemon each launch one; deadlines are
  looked at between tries only.
* **A call that outlives its caller.** A client that goes away drops its RPC
  handler; what the handler had sent to the actor is carried out all the same.
  A handler that still waits for room in the full channel is dropped with its
  command.
* **Restarts.** Tasks, ids and queued commands end with the daemon, and ids
  start from 1 again. `shargon run` polls by id through a channel that
  reconnects by itself, and machines of the former daemon still hold the names
  that the new one gives out.
* **Settings read twice.** A client and a daemon each look for, read and
  validate the files on their own, in several accesses, while files change.

`PROJECT.json` lists all of these under `hazards`, each at its line, with the
properties that would catch it going wrong.

### What makes each part correct

* *Backend*: machines and tasks agree on what runs where; the queue is exactly
  what waits, in order; nothing waits next to an idle machine; no machine gets
  a second task while the first is waited for; the pool keeps its size; verdicts are final and agree with exit
  codes and requests; every task gets one; the pool recovers.
* *Start-up*: a daemon that lives keeps its path and is reached there; a start
  is refused only by a live daemon; stale files never block; every start ends.
* *Channel and RPC*: each call is in one place and gets one answer; room is
  granted in order; every call ends.
* *Clients*: a running daemon is reused; a start has a bounded wait; one run
  makes one task and knows it; what is reported about a task, a verdict or an
  accepted cancellation, is what the daemon stands by.
* *Settings*: a process has what its file held while it loaded, never the
  defaults in place of a file that was there; only a
  configured daemon serves; client and daemon agree on the path.

## 2. Modules

| Module | What it is |
|---|---|
| `NspawnBackend` | the backend actor with its processes |
| `NspawnBackendProofs` | its inductive invariant, the invariants that follow from it, and the size of the pool |
| `NspawnBackendStepProofs` | what a step never does to a task, and that each implements `TaskService` |
| `TaskService` | what the clients of a backend are promised; `NspawnBackend` implements it |
| `BackendLoops` | the loops of the backend's code, turn by turn |
| `BackendLoopsProofs` | the loops compute what `NspawnBackend` has as one step |
| `DaemonSocket` | start-up of several daemons on one path |
| `DaemonSocketProofs` | its types, and its guarantees when starts do not overlap |
| `DaemonClients` | `shargon ping` clients that find or spawn daemons, composed with `DaemonSocket` |
| `DaemonClientsProofs` | its types, a running daemon is reused, polls fail only during starts |
| `TaskClients` | `shargon run`, `cancel` and `task-status`, the RPC handlers, the command channel and restarts, composed with `TaskService` |
| `TaskClientsProofs` | its invariant and its safety properties |
| `ShargonSystem` | the clients and the channel of `TaskClients` over the whole of `NspawnBackend`, through restarts |
| `ShargonSystemProofs` | its invariant, that it implements `TaskClients`, and that answers hold of processes |
| `Settings` | client and daemon load their settings while files change |
| `SettingsProofs` | its invariant and its properties |
| `MCNspawnBackend`, `MCDaemonSocket`, `MCDaemonClients`, `MCTaskClients`, `MCShargonSystem`, `MCSettings` | what the configurations instantiate |

How they fit together: `NspawnBackend` implements `TaskService`, and
`TaskClients` uses `TaskService` for what the actor does to tasks, so that the
clients, the channel and restarts are checked without machines and processes.
`ShargonSystem` puts them together, with the real backend in place of the service,
and implements `TaskClients`.
`DaemonClients` is composed with `DaemonSocket`. What `Settings` guarantees of a
daemon that serves is what `NspawnBackend` assumes of its constants.

### NspawnBackend and the code

The variables are the fields of `BackendState` (`target_size` to
`task_queue`), the task whose cancellation the actor awaits (`cancelling`), the
events sent and not received (`events`), and what the processes do (`nspawn`,
`probe`, `unit`). `daemon` says whether `build_backend` has filled the pool.
Ids are numbers; `"Absent"` stands for a missing key. `unit_name` is always set
together with `machine_id`, so one field stands for both. Diagnostics, names and
specs are left out: no handler reads them. Exit codes are told apart as
`finish_task` does: none, zero, other.

`tokio::select!` runs one handler at a time, so a handler is one action with all
the calls it makes: `TaskFinished` is finish_task, schedule_queued_tasks and
reconcile_pool_logged in that order. The exception is the cancellation of a
running task, split at its `await` into `CancelRunning` and `CancelReturns`;
while `cancelling` is set no other command or event is taken. The events are a
set because each waiting tokio task sends its one event at a moment of its own;
the channel is FIFO, but the order in which different tasks send is free.

| Action | Code |
|---|---|
| `ReconcilePool` | handle_reconcile_pool, called by build_backend |
| `StartTask` | handle_start_task with its scheduling |
| `CancelQueued`, `CancelRunning`, `CancelReturns` | handle_cancel_task and the system's cancel_task |
| `MachineReady`, `MachineProvisionFailed`, `MachineExited`, `TaskFinished` | handle_event |
| `NspawnExits`, `ProbeSucceeds`, `ProbeTimesOut`, `RunEnds` | the tokio tasks of spawn_machine and run_task |
| `UnitEnds` | a transient unit whose `systemd-run` ended before it; no code waits for it |

Probes, `systemd-run` and `systemctl` reach a machine by its name, and names are
made of ids that start from 1 with each daemon. Nobody stops the machines of a
daemon that ended, so the variable `held` has the ids whose names such machines
still hold; the constant `Held` is what a daemon finds when it starts. `Answers(m)` says that some machine answers to the name: the one that
this daemon spawned, or the held one. The new `systemd-nspawn` of a held name
exits, yet its probe may succeed before, and a task that is started on it runs in
the old machine.

A task has two processes: `systemd-run --wait` on the host, whose end the actor is
told, and the transient unit in the machine, which runs the program. `unit` is
"running" or "stopped" (by systemctl) while both exist and "done" when neither
does. `RunEnds` is the end of `systemd-run`, with the exit code that it gives, or
none when a signal killed it. When it reports 0 the program has ended. At any other
end the unit may be left behind as "orphaned": it runs on in the machine while
finish_task settles the task and frees the machine. An orphaned unit ends by itself
(`UnitEnds`), by a `systemctl stop` that was on its way, or with its machine
(`NspawnExits`), and no event tells the actor.

`MachinesExclusive` says what is left of the exclusive use of machines: a unit that
runs has its machine for itself, but for an orphaned one, and then its task was
Failed or Cancelled without a zero exit code. Of the units that a former daemon left
in a held machine it says nothing. They are not in `unit`, but they count where the
actor meets them. Unit names are made of task ids, which start from 1 again, so a
`systemctl stop` in a held machine may succeed by stopping a former task's unit of
the same name; `CancelReturns` then leaves the task's own unit as it was. (A
`systemd-run` that finds its unit name taken fails, which is a `RunEnds` with
another code.)

### BackendLoops and the code

`Picks`, `Missing` and `Without` say by their result what the code does with
loops. `BackendLoops` has those loops as they are written: `AssignTask` is one
turn of `while let Some(task_id) = front`, `SpawnMachine` one turn of
`while active < target`, and `RetainTurn` one turn of `retain`, which looks at one
entry and keeps it or drops it. It starts from every pool and queue of a small
size, and its property says that a loop that ends has done exactly what
`NspawnBackend` has as one step.

### TaskService and the refinement

`TaskService` knows tasks only: their `status`, whether a cancellation was
`requested`, and whether a task is `lost`: its machine failed before its result
came. The scheduler appears as `StartSome`: after a step any number of the
longest waiting tasks start, as long as no more than `Slots` run. A result turns
a Running or lost task into Cancelled if a cancellation was requested, else into
Succeeded or Failed. `Service == INSTANCE TaskService` in `NspawnBackend` maps
`status` to the states in the tasks map, `requested` to `cancellation_requested`,
`Slots` to the pool size, and `lost` to the Failed tasks whose `systemd-run` or
result is still to come (`MayReport`). Events, machines, probes and processes
are hidden: every step on them alone is a stutter of the service.

### DaemonSocket and the code

`path` is the socket file (none, stale, or some daemon's), `listening` the
daemons whose socket accepts, `pc` the next system call of each daemon. Each
system call is one step: exists, exists and connect of the probe, remove_file,
bind(2), listen(2), the probes of the wait, and its deadline. `Stop` is any end
of a daemon that owns a listener: a failed build_backend, a signal, a crash.
`overlapped` is history: some daemon was launched while another one was starting.
What create_daemon_listener promises is stated for as long as it is FALSE; the one
promise a test states without that condition is the finding `socket_stolen`.

### DaemonClients and the code

The daemons are `Daemons == INSTANCE DaemonSocket`, with starts that overlap.
Client `c` spawns daemon `c`; the other daemons are started by hand at any time.

| Step of a client | Code |
|---|---|
| `Ping`: "off" to "try" | CliPingCommand calls connect_or_start_vm_service |
| `TryConnect`: "try" to "ping", or to "spawn" or "deadline" | connect_vm_service; is_daemon_unavailable of its error |
| `Spawn`, `SpawnFails` | spawn_daemon_process, once per client |
| `Answer`: "ping" to "connected" to "pong" | the ping that ends the connection, then the ping of the command |
| `Lost` | the daemon of the connection ends before it answers |
| `Retry`, `TimesOut`: "deadline" | the readiness deadline, looked at between tries |

A socket accepts connections from listen(2) on, but a daemon answers only when
it serves: `Reachable` and `Answer` differ in that, and a client may hold a
connection to a daemon that then fails. What the RPC library does with a lost
connection is not this repository's code, so `Lost` allows each outcome: it
connects again by itself, or the call ends Unavailable (which counts as no
daemon) or with another code. The backlog of a listener is taken to be long
enough. The commands other than ping make the first try only.

### TaskClients and the code

A client's `step` goes from "idle" through "calling" (an RPC is in flight) and,
for `shargon run`, "sleeping" (between two polls) to "reported", "failed" or
"gone" (interrupted). A call is its client's name in `waiters` (the handler
awaits room), in `channel`, in `cancelling` (the actor awaits systemctl for it)
or an answer in `reply`. `started` is history: which run made which task of which
daemon.

| Action | Code |
|---|---|
| `ExecuteRun`, `ExecuteCancel`, `ExecuteTaskStatus` | the commands up to their first call |
| `Read`, `Poll` | the answer, and the next turn of the polling loop of `shargon run` |
| `Interrupt`, `DropHandler` | a client goes away; its handler is dropped while it awaits room |
| `Push` | send_command: room in the bounded channel, first come, first served |
| `Handle` (`StartTask`, `Look`, `CancelTask`), `CancelReturns` | one command of the actor, with its reply |
| `Event` | an event of the actor, as the steps of `TaskService` |
| `Crash`, `Restart` | the daemon ends and takes everything with it; another one starts from id 1 |

tokio's channel gives room in the order of the waiting sends, but a handler that
was given room sends when it is scheduled: `Push` takes any of the first
`Capacity - Len(channel)` waiters. States travel as the numbers of the protocol,
through `ToProtoTaskState`, `TaskStateLabel` and `IsTerminalTaskState`. The calls
that only list (`tasks`, `machines`) take the same way as `Look` and change
nothing. The connection itself is `DaemonClients`'.

### ShargonSystem and the code

The variables are those of `NspawnBackend` and, for the clients, those of
`TaskClients`; what `TaskClients` has of tasks is read from the backend's records
(`Clients == INSTANCE TaskClients WITH status <- States(tasks), ...`), its `up` is
`daemon # "exited"`, and its `cancelling` is `caller`, the client for whom the
actor awaits systemctl.

| Action | Code |
|---|---|
| `ClientCalls`, `ClientGoesOn` | the client and handler steps of `TaskClients`, on their variables alone |
| `HandleCommand` | the actor takes a command out of the channel: `HandleStartTask`, `HandleLook`, `HandleCancelTask` are the handlers of `NspawnBackend` with the answer they send |
| `SystemctlReturns` | systemctl returns, and the client that asked is answered: the status, or an internal error |
| `ReconcilePool`, `Event`, `Process` | `NspawnBackend`'s |
| `Crash` | the daemon ends, and with it the records, the queue, the calls and the ids |
| `Restart` | another daemon starts; the names of the machines that still ran are `held` |

A daemon answers nobody before its pool is filled, so no call, not even its ping,
goes through while `daemon = "starting"`. Each client submits one task at most, so
the tasks that a run needs are as many as its clients (`OneTaskPerClient`).

`ToldOfProcesses` is the property that no part can state alone: it relates what a
client has printed to what runs on the machine. Succeeded: the program ended with 0 and was
not to be stopped. Cancelled: nobody waits for it, and its unit runs on only if
orphaned, its `systemd-run` having ended without success. A cancellation accepted:
the unit was stopped or had ended, unless the machine's name is held, where
systemctl may have stopped a former task's unit. It also says what is *not*
promised: nothing about a task that is reported Failed (its program may go on when
its machine's name is held or its `systemd-run` was killed), and nothing after the
daemon that answered is gone.

### Settings and the code

Each process takes its steps one file access at a time: `Resolve` (which variable
decides, and whether there is a default file), `ReadFile` (read and parse),
`Validate` (which also looks at the root directory), and for the daemon `Build`
(build_backend; the qemu backend is refused there). `Edit` changes a file or the
root directory between any two of them. Settings are told apart as validation
does: a socket path is default, other or relative, durations and names are fine
or not. The environments of client and daemon may differ.

`seen` is history: what the file of a process held, from the moment the process
looked for it until it read it. `NeverFallsBack` says that the settings of a process
that runs are among these contents, or that it has the defaults, SHARGON_CONFIG named
no file and there was none when it looked. So whatever happens between `exists` and
the read, a file that was there is not replaced by the defaults in silence: if it is
gone by then, the process fails. The mutant `ReadVanished` takes the defaults in just
that case.

## 3. What TLC checks

| Run | Instance | Shows |
|---|---|---|
| `nspawn_safety` | pool 2, 3 tasks, 3 machines, spawns may fail | type invariant, eight invariants, two action properties of the backend; it implements `TaskService` |
| `nspawn_progress` | pool 1, 2 tasks, 3 machines, the name of the second held by a former daemon's machine | the pool becomes whole after the last failure; lost tasks get a verdict; stopped tasks end Cancelled; every queued task gets a verdict if programs end |
| `nspawn_late_result` | small | **violation**: a late result changes a verdict |
| `nspawn_failed_spawn` | small, spawns may fail | **violation**: a failed spawn leaves a phantom machine |
| `backend_loops` | up to 5 machines, up to 3 queued tasks | the loops do what the model has as one step |
| `socket_starts` | 3 daemons at once, stops | as long as no two starts have overlapped, live sockets are kept and refusals justified |
| `socket_stolen` | 3 daemons at once | **violation**: a start unlinks a live socket |
| `clients_calm` | 2 clients and a daemon by hand, no stops, generous deadlines | polls fail only while some daemon starts; a running daemon is reused and keeps its path; every ping is answered although starts race |
| `clients_end` | 1 client, 2 daemons by hand, stops, failing spawns | every ping ends, and every start of a daemon |
| `task_clients` | 2 clients, room for 1 command, 1 slot, 1 restart | six invariants of the calls, tasks and answers; every call and every run ends |
| `system` | 2 clients, room for 1 command, pool 1, 2 machines, spawns may fail, 1 restart | clients, channel and whole backend implement `TaskClients`; what clients were told holds of the processes |
| `settings` | 7 contents with one mistake each, 4 environments, 3 edits | settings are what the file held while it was loaded, and no silent defaults; only a configured daemon serves; client and daemon agree |

`socket_stolen` and `clients_calm` belong together: a start may steal the path of
a daemon that listens, but the daemon that took it is reachable in turn, so
polling clients get there. What is lost is the daemon whose path was taken: it
runs on with its machines, and no client can reach it.

`ReportsItsTask` says "while the daemon that made the task is up" for a reason:
after a restart the id that `shargon run` polls may be that of another client's
task, and what it then reports is that task's. The module allows it (`Poll` calls
whichever daemon runs), and the property states how far the id can be trusted.
In the same way `ClientFindsDaemon` asks for equal environments and unedited files: a
daemon started with `sudo` may have another environment and listen elsewhere, and
after an edit the two may have read different paths. Both hazards are listed without a
property: the code is exposed to them, and the properties say what remains.

### Bounds

`MaxTasks` bounds submissions, `MaxMachines` machine ids. A machine may fail only
while an id for its replacement is left, so `MaxMachines - PoolSize` is the number
of failures; no reachable handler is blocked by the bound. Two machines and three
tasks are the least with which one machine is idle or dead while the other works
and a task waits behind both; one failure at every point includes exit before,
during and after boot, task and cancellation. `nspawn_safety` follows behaviours
until two units are orphaned at a time (`OneOrphan`): one is enough to share a
machine with a task that comes later, and that one may be orphaned in turn when the
first has ended; the other runs have no such bound. The liveness run allows two
failures, so that a replacement fails too. Three daemons are enough for one that
listens, one between probe and unlink, and one that comes later. Two clients are
enough for a race of their spawns, and the third daemon for an outsider that
takes the path from the winner. `clients_end` has stops as well, and one client:
its claim is about each client alone, and the other two daemons may be up,
starting or gone at each of its steps.

In `nspawn_progress` the held name is that of the first replacement, so that one
failure is met by a machine that answers although its own process exits, and one
more failure follows. With two clients and room for one command in `task_clients`,
one call waits while the other is queued or handled, one client cancels or polls
what the other one started, and one restart gives the new daemon the ids of the
old one. `system` has the same clients with one machine failure, before the
restart or after it, and the restarted daemon may find the name of its first
machine held; after a restart it is followed until a machine is replaced
(`FollowedAfterRestart`). Clients are symmetric in it: no client is named by the
specification or the properties, and both are safety properties. `settings` has three edits: one makes the file that is found, one
changes it between the two loads, one undoes or breaks it between two accesses of
one load; the written settings have at most one mistake, since validation is a
conjunction.

The proofs of section 4 hold for any bounds.

`CHECK_DEADLOCK FALSE` is set where the system really comes to rest: a daemon
whose start failed, a daemon without clients once every bounded task is over,
daemons that have all been started and ended, clients that have executed their
one command, and settings that are loaded or refused.

### Fairness

`FairSpec` of the backend assumes only what tokio and systemd give: the actor
takes an event again and again while there are any (`select!` picks a ready
branch at random, so commands cannot starve events; strong fairness, since a
stream of cancellations disables receipt during each await), an awaited
`systemctl` returns, a readiness loop ends (its deadline is boot_timeout), and a
`systemd-run` ends whose unit was stopped or whose machine is gone. Nothing is
assumed of clients, of failures, of orphaned units (no property waits for one), or of the programs that tasks run; that programs
end is a premise of the one property that needs it (`ProgramsEnd =>` in
`TasksGetVerdicts`).

`FairSpec` of `DaemonClients` assumes that each process, a client or a daemon,
that was started runs, and that deadlines come: a loop looks at its deadline in
each round and, after finitely many, finds it passed, which is strong fairness of
`WaitTimesOut` and `TimesOut`. Nobody has to start a client or a daemon, nobody
has to stop. A ping has no timeout of its own, so `PingsAndStartsEnd` also rests on a
daemon that listens filling its pool, or failing to, in finite time (weak
fairness of `Build`).

`FairSpec` of `TaskClients` assumes that handlers and the actor are scheduled
(weak fairness of each `Push`, of `Handle` and `CancelReturns`) and that a client
that was not interrupted reads its answer and polls on. That the channel is first
come, first served is in `Push`, not in the fairness: with the mutant that gives
room to the last waiter a call may wait for ever. `RunsEnd` starts from a task
that has its verdict, so nothing is assumed of programs. `Settings` has no
liveness: each process takes at most four steps.

### Mutants

For every property there is a mutant of a mapped definition, kept next to it
("Mutant: ..."), that a plausible slip in that code would produce: a dropped
retain, a missing schedule, a reset forgotten, a code looked at before the
request. With it the property fails under the same configuration.

## 4. What is proved

All theorems assume only the named assumptions of the modules (the pool is not
empty, bounds are numbers, `PoolSize <= MaxMachines`; for the start-up, that the
markers of the path are not daemons; for the system, that `NoClient` is no client,
the channel has room for a command, and there is a task id for each of finitely many
clients).

**Backend.** `NspawnBackendProofs` proves `Spec => []IInv` for the inductive
invariant `IInv`, and from it `TypeOK`, `PlacementConsistent`, `QueueExact`,
`WorkConserving`, `MachinesExclusive`, `NothingForgotten`,
`LeakOnlyByBootTimeout` and `VerdictsJustified`. None of these is inductive:

* that a finished task frees the right machine needs that a result comes once
  and only while its task is Running or has lost its machine (`UnitsOf`);
* that MachineReady does not make a Busy machine idle needs that a probe has one
  outcome, and that no machine that ever was ready has a Ready event on its way
  (`ProbesOf`);
* that no exit is forgotten needs that an exit event exists exactly until the
  record is gone (`ProcessesOf`);
* that a cancelled task never starts needs that the queue is the set of Queued
  tasks (`QueueOf`).

`MachinesExclusive` needs one fact next to `IInv`: the `systemd-run` of an orphaned
unit reported no success (`Orphans`, kept by every step, `NextKeepsOrphans`), so that
its task ends Failed or Cancelled when its machine is freed (`OrphansHaveVerdicts`).

Because a handler changes a record, then schedules, then reconciles, `Sound` is
stated of maps given as arguments. One lemma says that scheduling keeps it and
empties the queue or the idle machines (`ScheduleKeepsSound`), one that
reconciling keeps it (`ReconcileKeepsSound`); each handler then shows only what
its own part does.

`NspawnBackendStepProofs` proves the action properties `FinalVerdicts` and
`FifoStart`, and `NspawnBackendProofs` also `PoolSizeKept`: each handler removes at
most one record, so reconciling, even with a spawn that fails, leaves exactly
`target_size` of them.

`NspawnBackendStepProofs` also proves `ImplementsTaskService`, the refinement of
`TaskService`. Each handler has a lemma that its step is one of the service
(`StartTask` is `Submit`, `MachineReady` is `Start`, `MachineExited` is `GiveUp` of
its task or a stutter, `TaskFinished` is `Report`), on one lemma for what the
scheduler does to each task (`ScheduleEffect`). Two facts come from elsewhere: no
more than `Slots` tasks run because each has a machine of its own and there are
`target_size` of these (`RunningBound`, an injection, from `PoolFull`); and a
result reports a task that is Running or `lost`, because a result to come belongs
to such a task only (`UnitsOf` of `IInv`).

**Loops.** `BackendLoopsProofs` proves `LoopsAreOneStep` for pools and queues of any
size. It needs no induction over data, because the turns of a loop are steps of a
behaviour: the invariant (`LoopsInvariance`) says after any number of turns that
the pairs assigned so far are the beginning of every pick that `Picks` allows (so
there is one pick only, and it is the one that the loop ends with), that the
machines spawned are the next ids and as many as `Missing` has left out, and that
the queue is the former one without the entry that `retain` has dropped, or all of
it as far as `retain` has come.

**Start-up.** `DaemonSocketProofs` proves for any set of daemons that a listener
lives as long as its owner (`TypeOK`), and, as long as starts have not overlapped,
`OwnersReachable`, `LoneStartPreservesLive` and `RefusedOnlyIfLive`: the one daemon
that starts knows what is at the path at each of its steps (`StarterKnows`), since
no other one changes it.

**Clients.** `DaemonClientsProofs` proves the type invariant of clients and
daemons together, and `ReusesRunningDaemon` when no daemon stops, for any number
of clients and of daemons started by hand: without stops no connection is lost
(`Held`), and from a moment without starts on, a daemon that serves at the path
is what each started daemon's probe finds alive, so that it exits, and what each
try of a client reaches, so that none spawns (`Kept`). It also proves
`FailsOnlyDuringStarts` when no daemon stops: what is at the path tells how far
the daemons are (`PathTells`: no file, and some daemon is about to bind or none
has come so far; a stale file, and no daemon has yet removed it; a daemon's own
file, and that daemon listens or is about to), and a client that polls has
started its daemon (`SpawnedRun`). A try that fails therefore fails while some
daemon is between launch and service.

**Tasks of clients.** `TaskClientsProofs` proves `TypeOK`, `NoCallLost`,
`OneTaskPerRun`, `OrphansOnlyOfInterrupted`, `ReportsItsTask` and
`CancelHonoured` for any clients, any capacity and any number of restarts, from
one inductive invariant with four parts for each client: where its call is, and
that it belongs to the daemon that runs (`Placed`); that a start_task on its way
has made no task yet (`Fresh`); that what the client was told, or is being told,
is not ahead of the status of its task (`Told`, with `Behind`); and that a client
whose task is in the daemon that runs knows it (`Owns`). That a reported verdict
stands needs `Told` of the reply on its way, not only of the one that was read;
that no accepted cancellation is followed by a success needs that the request is
recorded before the reply exists (`TasksSound`).

**The system.** `ShargonSystemProofs` puts the pieces together without proving any
of them again. `Front == INSTANCE TaskClientsProofs WITH ...` is the proof module of
`TaskClients` under the refinement mapping, so that each of its lemmas and theorems
is one about the system; the backend's come by EXTENDS. The invariant (`SystemIInv`)
is that of the backend, that of the clients read through the mapping, and

* `Linked`: a caller awaits systemctl exactly while the backend does, for the task
  of its request, and a daemon that does not serve has no calls;
* `Obeyed`: a client that was told, or is being told, that its cancelled task runs
  finds its unit stopped or done, or in a machine whose name is held
  (`StoppedOrHeld`), which is so because systemctl returns before the
  answer is made, and stays so because a unit is not started twice and its task
  keeps its machine;
* `Ran`: a task Succeeded only with its unit done;
* `Orphans`: no success is reported, or recorded, of a task whose unit was orphaned.

`SystemImplementsClients`: the lemmas on each handler in `NspawnBackendStepProofs` name
the step of `TaskService` that it takes (`StartTaskRefines`: `Submit` of the next id;
`CancelQueuedRefines`; and so on), which is what `TaskClients` asks of its actor; a
step on machines and processes alone is a stutter, and `Crash` and `Restart` are
those of `TaskClients`; a pool that cannot be filled at the start is a `Crash` too.
`AnswersHoldOfProcesses` then joins both sides: `Behind` and `TasksSound` of the clients' invariant carry an answer over to the record of its
task, `VerdictsJustified`, `UnitsOf`, `Ran` and `Obeyed` from the record to its unit.

**Settings.** `SettingsProofs` proves `TypeOK`, `NeverFallsBack`,
`ServesOnlyConfigured` and `ClientFindsDaemon` for any environments, contents and
number of edits. The invariant (`Loading`) says how far each process is: the
source was decided by its environment alone, what it read is among the contents that
its file held since it looked (`seen`) and still in the file unless a file was edited,
and a process without a source saw no file.

**Only model-checked.** The seven liveness properties (`PoolRecovers`,
`LostTaskEnds`, `CancelTakesEffect`, `TasksGetVerdicts`, `PingsAndStartsEnd`,
`CallsEnd`, `RunsEnd`) and `PingsAnswered`: reasoning under fairness, and ENABLED, are
beyond the prover.

## 5. Findings

* `nspawn_late_result`: `finish_task` rewrites the verdict of a task that
  MachineExited failed, after `shargon run` may have reported it.
* `nspawn_failed_spawn`: a machine whose process could not be spawned stays in
  the pool as Provisioning for ever and counts as active.
* `socket_stolen`: two overlapping starts; one unlinks the live socket of the
  other.

`LeakOnlyByBootTimeout` and `VerdictsJustified` state precisely what the code
does where it is surprising: a boot timeout leaves a machine running without a
record, and a program that ends by itself after a failed cancellation counts as
cancelled. So do `MachinesExclusive` and `ToldOfProcesses`: a killed `systemd-run`
lets two tasks run in one machine, and a cancellation may be accepted because
systemctl stopped the unit of a former daemon's task. No text of the repository
promises otherwise, so these are stated as exceptions and not listed as findings.

## 6. Not modelled, and the plan

Not modelled:

* the argument lists of the commands, but for the names in them, and snapshot
  detection (`nspawn` 747-836, 866-921): formatting, and a warning that changes
  nothing;
* the commands that only list, diagnostics and error codes: copies that no
  client acts upon;
* `TaskSpec::validate`: it refuses before anything changes, and `shargon run`
  never sends what it refuses;
* how the client finds the daemon's executable (`client` 144-177): it reads the
  file system once and changes nothing;
* generated protocol code, version metadata, argument parsing;
* time: the rate of respawns, the lengths of timeouts. The hazards without a
  property in `PROJECT.json` are of this kind, or are assumptions stated in the
  fairness (a `systemctl` or a probe that hangs).

Next: the theorems of `TaskClients` that only speak of answers and tasks
(`CancelHonoured`, `ReportsItsTask`) stated of `ShargonSystem` by name; how far a
held name can be trusted across several restarts; and the start-up of
`DaemonSocket` when starts overlap, where `OwnersReachable` fails and what remains
true of the daemon whose path was taken has no invariant yet.
