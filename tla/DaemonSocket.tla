---------------------------- MODULE DaemonSocket ----------------------------
(***************************************************************************)
(* How a shargon daemon takes over its Unix socket when it starts:         *)
(* create_daemon_listener and build_backend of                             *)
(* src/crates/shargon-daemon/src/cli_command/run.rs.  Several daemons may  *)
(* be started on one socket path, by hand, by systemd or by clients; each  *)
(* system call on the path is one step, since the daemons share nothing    *)
(* else.  No daemon ever unlinks its socket when it ends.                  *)
(***************************************************************************)
EXTENDS Naturals, FiniteSets

CONSTANTS
  Daemon,             \* the daemon processes ever started
  NoFile,             \* the socket path does not exist
  StaleFile,          \* the socket of a process that ended before
  MayStop             \* whether a daemon may fail to fill its pool, or stop

ASSUME PathAssumption == /\ NoFile \notin Daemon
                         /\ StaleFile \notin Daemon
                         /\ NoFile # StaleFile
ASSUME ModeAssumption == MayStop \in BOOLEAN

VARIABLES
  path,       \* whose socket is at socket_path: a daemon's, StaleFile or NoFile
  listening,  \* the daemons whose socket accepts connections
  pc,         \* the next step of each daemon
  overlapped  \* history: some daemon was started while another one was starting

vars == <<path, listening, pc, overlapped>>

\* The steps up to the listener, in the order of the code.
Starting == {"exists", "probe_exists", "connect", "remove", "bind",
             "wait_exists", "wait_connect", "wait_deadline", "listen"}
\* Owners of a listener, and the end of the process.
Owning   == {"build", "serving"}
Step     == {"off", "exited"} \cup Starting \cup Owning

\* The types, and: a listener lives exactly from listen(2) to the end of its
\* process (it is created first and dropped last in execute).
TypeOK ==
  /\ path \in Daemon \cup {NoFile, StaleFile}
  /\ pc \in [Daemon -> Step]
  /\ listening = {d \in Daemon : pc[d] \in Owning}
  /\ overlapped \in BOOLEAN

Init ==
  /\ path \in {NoFile, StaleFile}
  /\ listening = {}
  /\ pc = [d \in Daemon |-> "off"]
  /\ overlapped = FALSE

Goto(d, step) == pc' = [pc EXCEPT ![d] = step]

\* execute: a daemon process is started.
Launch(d) ==
  /\ pc[d] = "off"
  /\ overlapped' = (overlapped \/ \E e \in Daemon : pc[e] \in Starting)
  /\ Goto(d, "exists")
  /\ UNCHANGED <<path, listening>>

-----------------------------------------------------------------------------
(***************************************************************************)
(* prepare_socket_path and probe_socket_path                               *)
(***************************************************************************)

\* socket_path.exists() of prepare_socket_path
PathExists(d) ==
  /\ pc[d] = "exists"
  /\ Goto(d, IF path = NoFile THEN "bind" ELSE "probe_exists")
  /\ UNCHANGED <<path, listening, overlapped>>

\* socket_path.exists() of probe_socket_path; without a file it is Missing.
ProbeExists(d) ==
  /\ pc[d] = "probe_exists"
  /\ Goto(d, IF path = NoFile THEN "bind" ELSE "connect")
  /\ UNCHANGED <<path, listening, overlapped>>

\* Mutants: a daemon that has not filled its pool yet looks dead; a socket file
\* always looks live.
LiveOnceServing == \E d \in Daemon : path = d /\ pc[d] = "serving"
LiveIfFile == path # NoFile

\* A connection is refused unless the socket at the path is listening; a file
\* that has gone meanwhile counts as Stale too.
Live == path \in listening

\* Mutants: the path is unlinked whatever the probe found; a daemon that is
\* refused cleans the path up before it exits.
UnlinkAnyway(d) ==
  /\ pc[d] = "connect"
  /\ Goto(d, "remove")
  /\ UNCHANGED <<path, listening, overlapped>>
CleanUpWhenRefused(d) ==
  /\ pc[d] = "connect"
  /\ Goto(d, IF Live THEN "exited" ELSE "remove")
  /\ path' = IF Live THEN NoFile ELSE path
  /\ UNCHANGED <<listening, overlapped>>

\* UnixStream::connect: Live ends the start ("daemon already running"), as does
\* any other error, which only a live socket gives; Stale goes on.
Connect(d) ==
  /\ pc[d] = "connect"
  /\ Goto(d, IF Live THEN "exited" ELSE "remove")
  /\ UNCHANGED <<path, listening, overlapped>>

\* std::fs::remove_file, of whatever socket is at the path by now; without one
\* the start fails.
Remove(d) ==
  /\ pc[d] = "remove"
  /\ path' = NoFile
  /\ Goto(d, IF path = NoFile THEN "exited" ELSE "bind")
  /\ UNCHANGED <<listening, overlapped>>

-----------------------------------------------------------------------------
(***************************************************************************)
(* bind_socket_path and wait_for_live_socket                               *)
(***************************************************************************)

\* UnixListener::bind, its bind(2): AddrInUse if there is a file.
Bind(d) ==
  /\ pc[d] = "bind"
  /\ IF path = NoFile THEN path' = d /\ Goto(d, "listen")
                      ELSE path' = path /\ Goto(d, "wait_exists")
  /\ UNCHANGED <<listening, overlapped>>

\* UnixListener::bind, its listen(2).
Listen(d) ==
  /\ pc[d] = "listen"
  /\ listening' = listening \cup {d}
  /\ Goto(d, "build")
  /\ UNCHANGED <<path, overlapped>>

\* The wait for a live socket: probe, then either the deadline has passed, and
\* the start fails with AddrInUse, or the loop sleeps and probes again.
WaitExists(d) ==
  /\ pc[d] = "wait_exists"
  /\ Goto(d, IF path = NoFile THEN "wait_deadline" ELSE "wait_connect")
  /\ UNCHANGED <<path, listening, overlapped>>

WaitConnect(d) ==
  /\ pc[d] = "wait_connect"
  /\ Goto(d, IF Live THEN "exited" ELSE "wait_deadline")
  /\ UNCHANGED <<path, listening, overlapped>>

WaitAgain(d) ==
  /\ pc[d] = "wait_deadline"
  /\ Goto(d, "wait_exists")
  /\ UNCHANGED <<path, listening, overlapped>>

\* Mutant: every round gets a new deadline.
WaitNeverTimesOut(d) == FALSE /\ UNCHANGED vars /\ pc[d] = "wait_deadline"

WaitTimesOut(d) ==
  /\ pc[d] = "wait_deadline"
  /\ Goto(d, "exited")
  /\ UNCHANGED <<path, listening, overlapped>>

-----------------------------------------------------------------------------
\* build_backend fills the pool, with the listener open already.
Build(d) ==
  /\ pc[d] = "build"
  /\ Goto(d, "serving")
  /\ UNCHANGED <<path, listening, overlapped>>

\* Mutant: something keeps the listener of an ended daemon open.
StopKeepsListening(d) ==
  /\ MayStop
  /\ pc[d] \in Owning
  /\ Goto(d, "exited")
  /\ UNCHANGED <<path, listening, overlapped>>

\* build_backend fails, or the daemon is stopped or crashes: the kernel closes
\* the socket, the file stays.
Stop(d) ==
  /\ MayStop
  /\ pc[d] \in Owning
  /\ listening' = listening \ {d}
  /\ Goto(d, "exited")
  /\ UNCHANGED <<path, overlapped>>

Progress(d) ==
  \/ PathExists(d) \/ ProbeExists(d) \/ Connect(d) \/ Remove(d)
  \/ Bind(d) \/ Listen(d) \/ WaitExists(d) \/ WaitConnect(d) \/ WaitTimesOut(d)
  \/ Build(d)

Next == \E d \in Daemon : Launch(d) \/ Progress(d) \/ WaitAgain(d) \/ Stop(d)

Spec == Init /\ [][Next]_vars

-----------------------------------------------------------------------------
\* As long as no two starts overlap, a daemon that listens, and fills its pool or
\* serves, is the one that clients reach at the socket path; so no two daemons serve
\* at a time.
OwnersReachable ==
  ~overlapped => \A d \in Daemon : pc[d] \in Owning => path = d /\ d \in listening

\* A daemon that starts never takes the path from one that accepts connections
\* (create_daemon_listener_preserves_live_socket).
PreservesLive == \A d \in Daemon : path = d /\ d \in listening /\ d \in listening' => path' = d
LiveSocketPreserved == [][PreservesLive]_vars

\* As long as no two starts overlap, and whatever stops in between, it does not.
LoneStartPreservesLive == [][~overlapped' => PreservesLive]_vars

\* As long as no two starts overlap, one fails only because some other daemon is
\* alive: neither a stale file nor a missing one stops it
\* (create_daemon_listener_removes_stale_socket).
RefusedOnlyIfLive ==
  [][\A d \in Daemon : ~overlapped' /\ pc[d] \in Starting /\ pc'[d] = "exited" =>
       \E e \in Daemon \ {d} : e \in listening]_vars

=============================================================================
