---------------------------- MODULE DaemonClients ----------------------------
(***************************************************************************)
(* `shargon ping` next to the daemons: connect_or_start_vm_service of      *)
(* src/crates/shargon-client/src/daemon.rs composed with DaemonSocket.     *)
(* A client that finds no daemon spawns one and polls the socket until     *)
(* that daemon, or any other, answers a ping.  Clients share nothing but   *)
(* the socket path, so several of them may spawn daemons at a time.  The   *)
(* other commands never start a daemon: they make the first try only.      *)
(***************************************************************************)
EXTENDS Naturals, FiniteSets

CONSTANTS
  Daemon, NoFile, StaleFile,   \* as in DaemonSocket
  Client,        \* the `shargon ping` processes; client c spawns daemon c, the
                 \* daemons that are no client's are started by hand
  MayStop,       \* whether a daemon may fail to fill its pool, or stop
  SpawnMayFail,  \* whether Command::spawn of the daemon may return Err
  MayTimeOut     \* whether readiness_timeout may pass while daemons start

ASSUME ClientAssumption == Client \subseteq Daemon
ASSUME PathAssumption == /\ NoFile \notin Daemon
                         /\ StaleFile \notin Daemon
                         /\ NoFile # StaleFile
ASSUME ModeAssumption == MayStop \in BOOLEAN /\ SpawnMayFail \in BOOLEAN /\ MayTimeOut \in BOOLEAN

VARIABLES
  path, listening, pc, overlapped,  \* as in DaemonSocket
  client,               \* the next step of each client
  spawned,              \* the clients that have spawned their daemon
  peer                  \* the daemon each client is connected to, or NoFile

daemonVars == <<path, listening, pc, overlapped>>
vars       == <<daemonVars, client, spawned, peer>>

Daemons == INSTANCE DaemonSocket

Ended      == {"pong", "failed", "timed_out"}
Waiting    == {"ping", "connected"}
ClientStep == {"off", "try", "spawn", "deadline"} \cup Waiting \cup Ended

\* The types, and: a client that waits for an answer has somebody to wait for.
TypeOK ==
  /\ Daemons!TypeOK
  /\ client \in [Client -> ClientStep]
  /\ spawned \subseteq Client
  /\ peer \in [Client -> Daemon \cup {NoFile}]
  /\ \A c \in Client : client[c] \in Waiting => peer[c] \in Daemon

Init ==
  /\ Daemons!Init
  /\ client = [c \in Client |-> "off"]
  /\ spawned = {}
  /\ peer = [c \in Client |-> NoFile]

Goto(c, step) == client' = [client EXCEPT ![c] = step]

-----------------------------------------------------------------------------
\* Mutant: the daemon is spawned before the first try.
SpawnFirst(c) ==
  /\ client[c] = "off"
  /\ Goto(c, "spawn")
  /\ UNCHANGED <<daemonVars, spawned, peer>>

\* CliPingCommand::execute
Ping(c) ==
  /\ client[c] = "off"
  /\ Goto(c, "try")
  /\ UNCHANGED <<daemonVars, spawned, peer>>

\* Where a try that found the daemon unavailable leads: the first one of
\* connect_or_start_vm_service_with_launcher to the launcher, the others of
\* wait_for_daemon_ready to the deadline.
AfterUnavailable(c) == IF c \in spawned THEN "deadline" ELSE "spawn"

\* Mutant: a daemon that still fills its pool refuses connections.
ReachableOnceServing == path \in listening /\ pc[path] = "serving"

\* A socket accepts connections from listen(2) on, whether or not its daemon
\* serves yet.
Reachable == path \in listening

\* Mutant: a try leaves the daemon it reached unrecorded.
TryUnrecorded(c) ==
  /\ client[c] = "try"
  /\ Goto(c, IF Reachable THEN "ping" ELSE AfterUnavailable(c))
  /\ UNCHANGED <<daemonVars, spawned, peer>>

\* connect_vm_service up to the connection.  Without a listener the error is
\* NotFound or ConnectionRefused, which is_daemon_unavailable recognises.
TryConnect(c) ==
  /\ client[c] = "try"
  /\ IF Reachable
     THEN Goto(c, "ping") /\ peer' = [peer EXCEPT ![c] = path]
     ELSE Goto(c, AfterUnavailable(c)) /\ peer' = peer
  /\ UNCHANGED <<daemonVars, spawned>>

\* spawn_daemon_process; the client does not wait for the new process.
Spawn(c) ==
  /\ client[c] = "spawn"
  /\ Daemons!Launch(c)
  /\ Goto(c, "try")
  /\ spawned' = spawned \cup {c}
  /\ UNCHANGED peer

SpawnFails(c) ==
  /\ SpawnMayFail
  /\ client[c] = "spawn"
  /\ Goto(c, "failed")
  /\ UNCHANGED <<daemonVars, spawned, peer>>

\* A ping is answered once its daemon serves: first the one that ends the
\* connection, then the one of the command itself.
Answer(c) ==
  /\ client[c] \in Waiting
  /\ pc[peer[c]] = "serving"
  /\ Goto(c, IF client[c] = "ping" THEN "connected" ELSE "pong")
  /\ UNCHANGED <<daemonVars, spawned, peer>>

\* The connection is lost.  The channel may connect again by itself, or the call
\* ends with a status: Unavailable, which connect_or_start takes as no daemon, or
\* any other code, which ends the command.
Lost(c) ==
  /\ client[c] \in Waiting
  /\ peer[c] \notin listening
  /\ \/ Reachable /\ peer' = [peer EXCEPT ![c] = path] /\ client' = client
     \/ Goto(c, "failed") /\ peer' = peer
     \/ client[c] = "ping" /\ Goto(c, AfterUnavailable(c)) /\ peer' = peer
  /\ UNCHANGED <<daemonVars, spawned>>

\* Before its deadline the client sleeps and tries again.
Retry(c) ==
  /\ client[c] = "deadline"
  /\ Goto(c, "try")
  /\ UNCHANGED <<daemonVars, spawned, peer>>

TimesOut(c) ==
  /\ MayTimeOut
  /\ client[c] = "deadline"
  /\ Goto(c, "timed_out")
  /\ UNCHANGED <<daemonVars, spawned, peer>>

-----------------------------------------------------------------------------
\* The daemons: those that nobody spawns are started by hand.
StartByHand(d) ==
  /\ d \notin Client
  /\ Daemons!Launch(d)
  /\ UNCHANGED <<client, spawned, peer>>

DaemonProgress(d) ==
  /\ Daemons!Progress(d) \/ Daemons!WaitAgain(d)
  /\ UNCHANGED <<client, spawned, peer>>

DaemonGivesUp(d) ==
  /\ Daemons!WaitTimesOut(d)
  /\ UNCHANGED <<client, spawned, peer>>

DaemonStops(d) ==
  /\ Daemons!Stop(d)
  /\ UNCHANGED <<client, spawned, peer>>

ClientProgress(c) ==
  TryConnect(c) \/ Spawn(c) \/ SpawnFails(c) \/ Answer(c) \/ Lost(c) \/ Retry(c)

Next == \/ \E c \in Client : Ping(c) \/ ClientProgress(c) \/ TimesOut(c)
        \/ \E d \in Daemon : StartByHand(d) \/ DaemonProgress(d) \/ DaemonStops(d)

Spec == Init /\ [][Next]_vars

\* Every process is scheduled, and deadlines come: a loop sees its deadline passed
\* after finitely many rounds, so TimesOut and WaitTimesOut need SF.  Nobody has
\* to start a client or a daemon, and no daemon has to stop.
Fairness ==
  /\ \A c \in Client : WF_vars(ClientProgress(c)) /\ SF_vars(TimesOut(c))
  /\ \A d \in Daemon : WF_vars(DaemonProgress(d)) /\ SF_vars(DaemonGivesUp(d))

FairSpec == Spec /\ Fairness

-----------------------------------------------------------------------------
\* A running daemon is used, never replaced: once a daemon serves at the path and
\* no start is under way, no ping spawns another and the path stays with it, even
\* if somebody tries to start one by hand and as long as it does not stop
\* (connect_or_start_reuses_running_daemon).
Undisturbed(d) ==
  /\ path = d
  /\ pc[d] = "serving"
  /\ \A e \in Daemon : pc[e] \notin Daemons!Starting
  /\ \A c \in Client : client[c] # "spawn"

KeepsPlace(d) == path = d /\ \A c \in Client : client[c] # "spawn"

ReusesRunningDaemon ==
  \A d \in Daemon : [](Undisturbed(d) => []KeepsPlace(d))

\* A poll of wait_for_daemon_ready fails only while some daemon is starting: the
\* race of several clients never ends with daemons but nobody to connect to, so
\* no client times out for that reason (without stops).
FailsOnlyDuringStarts ==
  [][\A c \in Client :
       c \in spawned /\ client[c] = "try" /\ client'[c] = "deadline" =>
         \E d \in Daemon : pc[d] \in Daemons!Starting]_vars

\* Whatever daemons are started at the same time, and whoever loses the socket,
\* each ping gets its answer: if readiness_timeout is long enough, spawning works
\* and no daemon stops (connect_or_start_spawns_once_and_waits_for_readiness).
PingsAnswered ==
  \A c \in Client : client[c] = "try" ~> client[c] = "pong"

\* Nothing hangs.  With daemons that fail or stop at any moment, with or without
\* an answer, each ping ends (connect_or_start_times_out_with_actionable_error);
\* and each start of a daemon, by a client or by hand, ends with a daemon that
\* serves or with an exit, however the starts and stops of others interleave: the
\* wait for a live socket is bounded even if the file comes and goes
\* (wait_for_live_socket).
PingsAndStartsEnd ==
  /\ \A c \in Client : client[c] = "try" ~> client[c] \in Ended
  /\ \A d \in Daemon : pc[d] = "exists" ~> pc[d] \in {"serving", "exited"}

=============================================================================
