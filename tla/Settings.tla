------------------------------- MODULE Settings -------------------------------
(***************************************************************************)
(* The configuration (src/crates/shargon-settings/src/lib.rs): how a       *)
(* client and a daemon each find, read and validate it, and what a daemon  *)
(* whose settings were accepted makes of them (build_backend).             *)
(*                                                                         *)
(* The two processes load their settings on their own, in several accesses *)
(* to the file system, while somebody edits the files or moves the root    *)
(* directory of the machines.  They share the environment when the client  *)
(* spawned the daemon, and may not when it was started by hand.            *)
(***************************************************************************)
EXTENDS Naturals

CONSTANTS
  Written,       \* the settings that people write into a configuration file
  Environments,  \* the environments that a process may be started in
  MaxEdits       \* bound: changes of files and of the root directory

Process  == {"client", "daemon"}
Variable == {"SHARGON_CONFIG", "XDG_CONFIG_HOME", "HOME"}

\* timings: both durations are above zero.
DaemonSettings == [socket_path : {"default", "other", "relative"}, timings : BOOLEAN]

\* machine: machine_prefix is not empty and boot_timeout is above zero.
NspawnSettings == [root_directory : {"None", "relative", "absolute"}, machine : BOOLEAN]

BackendSettings == [default : {"Nspawn", "Qemu"}, default_parallel_vms : Nat,
                    nspawn : NspawnSettings]

ShargonSettings == [daemon : DaemonSettings, backend : BackendSettings]

\* What holds without a file, and for an empty one.
DefaultDaemon  == [socket_path |-> "default", timings |-> TRUE]
DefaultNspawn  == [root_directory |-> "None", machine |-> TRUE]
DefaultBackend == [default |-> "Nspawn", default_parallel_vms |-> 1, nspawn |-> DefaultNspawn]
Default        == [daemon |-> DefaultDaemon, backend |-> DefaultBackend]

ASSUME WrittenAssumption == Written \subseteq ShargonSettings
ASSUME EnvironmentAssumption ==
  Environments \subseteq [Variable -> {"unset", "empty", "set"}]
ASSUME MaxEditsAssumption == MaxEdits \in Nat

\* A file is missing, holds no valid TOML of known fields, or holds settings.
Missing   == [kind |-> "missing",   settings |-> Default]
Malformed == [kind |-> "malformed", settings |-> Default]
Contents  == {Missing, Malformed} \cup [kind : {"settings"}, settings : Written \cup {Default}]

VARIABLES
  env,       \* the environment of each process
  files,     \* what the file named by, or found through, each variable holds
  root,      \* what is at the path of the root directory
  pc,        \* how far each process is
  source,    \* the variable its settings come from, "none" for the defaults
  settings,  \* the settings it read
  edits,     \* how many changes were made
  edited,    \* history: whether one was made since a process began to load
  seen       \* history: what the file of each process held from the moment at
             \* which it looked for the file until it read it

vars == <<env, files, root, pc, source, settings, edits, edited, seen>>

\* Settings that every part of the program can work with, whatever the file system.
Sensible(s) ==
  /\ s.daemon.socket_path # "relative" /\ s.daemon.timings
  /\ s.backend.default_parallel_vms > 0
  /\ s.backend.default = "Nspawn" =>
       s.backend.nspawn.machine /\ s.backend.nspawn.root_directory # "relative"

\* v is the variable that decides where process p looks: the first of the three that
\* names a path.
Decides(p, v) ==
  /\ env[p][v] = "set"
  /\ v # "SHARGON_CONFIG" => env[p]["SHARGON_CONFIG"] # "set"
  /\ v = "HOME" => env[p]["XDG_CONFIG_HOME"] # "set"

\* What the file of process p holds now, as a set: empty when it looks for none.
Holds(p) == {files[v] : v \in {w \in Variable : Decides(p, w)}}

\* Every variable has its type, and settings that were accepted make sense.
TypeOK ==
  /\ env \in [Process -> Environments]
  /\ files \in [Variable -> Contents]
  /\ root \in {"directory", "file", "missing"}
  /\ pc \in [Process -> {"start", "reading", "validating", "loaded", "serving", "failed"}]
  /\ pc["client"] # "serving"
  /\ source \in [Process -> Variable \cup {"none"}]
  /\ settings \in [Process -> Written \cup {Default}]
  /\ edits \in 0..MaxEdits
  /\ edited \in BOOLEAN
  /\ seen \in [Process -> SUBSET Contents]
  /\ \A p \in Process : pc[p] \in {"loaded", "serving"} => Sensible(settings[p])

Init ==
  /\ env \in [Process -> Environments]
  /\ files = [v \in Variable |-> Missing]
  /\ root = "directory"
  /\ pc = [p \in Process |-> "start"]
  /\ source = [p \in Process |-> "none"]
  /\ settings = [p \in Process |-> Default]
  /\ edits = 0
  /\ edited = FALSE
  /\ seen = [p \in Process |-> {}]

-----------------------------------------------------------------------------
(***************************************************************************)
(* ShargonSettings::load.                                                  *)
(***************************************************************************)

\* path_from_os_str
Given(p, v) == env[p][v] = "set"

\* resolve_default_path
DefaultSource(p) ==
  IF Given(p, "XDG_CONFIG_HOME") THEN "XDG_CONFIG_HOME"
  ELSE IF Given(p, "HOME") THEN "HOME" ELSE "none"

\* Mutant: the daemon looks at the default places only.
SourceDefault(p) ==
  IF p = "client" /\ Given(p, "SHARGON_CONFIG") THEN "SHARGON_CONFIG" ELSE DefaultSource(p)

\* The order of load_with_sources.  (No caller passes an explicit path.)
Source(p) == IF Given(p, "SHARGON_CONFIG") THEN "SHARGON_CONFIG" ELSE DefaultSource(p)

\* load_with_sources, up to the file: the defaults hold when there is no default
\* path, or no file at it now; a file that SHARGON_CONFIG names is not looked for.
Resolve(p) ==
  /\ pc[p] = "start"
  /\ \/ /\ \/ Source(p) = "none"
           \/ Source(p) \in {"XDG_CONFIG_HOME", "HOME"} /\ files[Source(p)].kind = "missing"
        /\ pc' = [pc EXCEPT ![p] = "loaded"]
        /\ UNCHANGED source
     \/ /\ \/ Source(p) = "SHARGON_CONFIG"
           \/ Source(p) \in {"XDG_CONFIG_HOME", "HOME"} /\ files[Source(p)].kind # "missing"
        /\ pc' = [pc EXCEPT ![p] = "reading"]
        /\ source' = [source EXCEPT ![p] = Source(p)]
  /\ seen' = [seen EXCEPT ![p] = Holds(p)]
  /\ UNCHANGED <<env, files, root, settings, edits, edited>>

\* Mutant: the defaults hold as well when the default file, which was there a moment
\* ago, is no longer there to be read.
ReadVanished(p) ==
  /\ pc[p] = "reading"
  /\ \/ /\ \/ files[source[p]].kind = "malformed"
           \/ files[source[p]].kind = "missing" /\ source[p] = "SHARGON_CONFIG"
        /\ pc' = [pc EXCEPT ![p] = "failed"]
        /\ UNCHANGED settings
     \/ /\ files[source[p]].kind = "missing" /\ source[p] # "SHARGON_CONFIG"
        /\ pc' = [pc EXCEPT ![p] = "loaded"]
        /\ UNCHANGED settings
     \/ /\ files[source[p]].kind = "settings"
        /\ pc' = [pc EXCEPT ![p] = "validating"]
        /\ settings' = [settings EXCEPT ![p] = files[source[p]].settings]
  /\ UNCHANGED <<env, files, root, source, edits, edited, seen>>

\* load_from_path: read_to_string and toml::from_str.
ReadFile(p) ==
  /\ pc[p] = "reading"
  /\ \/ /\ files[source[p]].kind # "settings"
        /\ pc' = [pc EXCEPT ![p] = "failed"]
        /\ UNCHANGED settings
     \/ /\ files[source[p]].kind = "settings"
        /\ pc' = [pc EXCEPT ![p] = "validating"]
        /\ settings' = [settings EXCEPT ![p] = files[source[p]].settings]
  /\ UNCHANGED <<env, files, root, source, edits, edited, seen>>

\* DaemonSettings::validate
ValidDaemon(d) == d.socket_path # "relative" /\ d.timings

\* NspawnSettings::validate, which looks at the root directory as it is now.
ValidNspawn(n) ==
  /\ n.machine
  /\ n.root_directory # "None" => n.root_directory = "absolute" /\ root = "directory"

\* Mutant: the number of machines is left to reconcile_pool.
ValidAnyPool(b) == b.default = "Nspawn" => ValidNspawn(b.nspawn)

\* BackendSettings::validate: the nspawn settings are not looked at when the default
\* backend is another one.
ValidBackend(b) ==
  /\ b.default_parallel_vms > 0
  /\ b.default = "Nspawn" => ValidNspawn(b.nspawn)

\* ShargonSettings::validate
Valid(s) == ValidDaemon(s.daemon) /\ ValidBackend(s.backend)

Validate(p) ==
  /\ pc[p] = "validating"
  /\ \/ Valid(settings[p]) /\ pc' = [pc EXCEPT ![p] = "loaded"]
     \/ ~Valid(settings[p]) /\ pc' = [pc EXCEPT ![p] = "failed"]
  /\ UNCHANGED <<env, files, root, source, settings, edits, edited, seen>>

-----------------------------------------------------------------------------
(***************************************************************************)
(* The daemon that was given these settings, and the world around it.      *)
(***************************************************************************)

\* Every operation of QemuBackend is unimplemented, reconcile_pool too.
Implemented(kind) == kind = "Nspawn"

\* Mutant: without a root directory, some directory is taken.
NewAnyway(n) == TRUE

\* NspawnBackend::new wants a root directory; the snapshot warning refuses nothing.
New(n) == n.root_directory # "None"

\* build_backend.  Machines that cannot be spawned end the daemon as well
\* (NspawnBackend), and so may the socket (DaemonSocket).
Build ==
  /\ pc["daemon"] = "loaded"
  /\ LET b == settings["daemon"].backend
     IN  \/ /\ Implemented(b.default) /\ New(b.nspawn)
            /\ pc' = [pc EXCEPT !["daemon"] = "serving"]
         \/ pc' = [pc EXCEPT !["daemon"] = "failed"]
  /\ UNCHANGED <<env, files, root, source, settings, edits, edited, seen>>

\* Somebody writes or removes a file, or changes what is at the root directory.
Edit ==
  /\ edits < MaxEdits
  /\ UNCHANGED <<env, pc, source, settings>>
  /\ \/ \E v \in Variable, c \in Contents : files' = [files EXCEPT ![v] = c] /\ UNCHANGED root
     \/ root' \in {"directory", "file", "missing"} /\ UNCHANGED files
  /\ edits' = edits + 1
  /\ edited' = \E p \in Process : pc[p] # "start"
  /\ seen' = [p \in Process |-> IF pc[p] = "reading" THEN seen[p] \cup Holds(p)' ELSE seen[p]]

Next ==
  \/ \E p \in Process : Resolve(p) \/ ReadFile(p) \/ Validate(p)
  \/ Build \/ Edit

Spec == Init /\ [][Next]_vars

-----------------------------------------------------------------------------
(***************************************************************************)
(* Properties.                                                             *)
(***************************************************************************)

\* Settings that somebody asked for are never replaced by the defaults in silence,
\* whatever is edited meanwhile.  A process that runs has settings that its file did
\* hold while the process loaded; it has the defaults only if SHARGON_CONFIG named no
\* file and there was none when it looked.  In particular a file that was there when
\* load_with_sources asked, and is gone when load_from_path reads it, ends the process.
NeverFallsBack ==
  \A p \in Process :
    pc[p] \in {"loaded", "serving"} =>
      \/ [kind |-> "settings", settings |-> settings[p]] \in seen[p]
      \/ /\ ~Decides(p, "SHARGON_CONFIG") /\ seen[p] \subseteq {Missing}
         /\ settings[p] = Default

\* A daemon that serves has what NspawnBackend takes for granted, a pool of at
\* least one machine and an absolute root directory, although the defaults, which
\* nobody validates, have none (PoolSizeAssumption of NspawnBackend).
ServesOnlyConfigured ==
  pc["daemon"] = "serving" =>
    /\ source["daemon"] # "none"
    /\ settings["daemon"].backend.default_parallel_vms > 0
    /\ settings["daemon"].backend.default = "Nspawn"
    /\ settings["daemon"].backend.nspawn.root_directory = "absolute"

\* A client finds the daemon that shares its environment, on the socket that both
\* read, or both did not, unless a file changed since the first of them looked.
ClientFindsDaemon ==
  pc["client"] = "loaded" /\ pc["daemon"] = "serving"
    /\ env["client"] = env["daemon"] /\ ~edited =>
      settings["client"].daemon.socket_path = settings["daemon"].daemon.socket_path

=============================================================================
