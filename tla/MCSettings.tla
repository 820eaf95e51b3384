------------------------------ MODULE MCSettings ------------------------------
\* Settings for TLC: what is written into the files, one mistake at a time, and
\* the environments that differ in which variable decides.
EXTENDS Settings

MCGood == [daemon  |-> [socket_path |-> "other", timings |-> TRUE],
           backend |-> [default |-> "Nspawn", default_parallel_vms |-> 2,
                        nspawn |-> [root_directory |-> "absolute", machine |-> TRUE]]]

MCWritten ==
  {MCGood,
   [MCGood EXCEPT !.daemon.socket_path = "relative"],
   [MCGood EXCEPT !.daemon.timings = FALSE],
   [MCGood EXCEPT !.backend.default_parallel_vms = 0],
   [MCGood EXCEPT !.backend.nspawn.root_directory = "relative"],
   [MCGood EXCEPT !.backend.nspawn.machine = FALSE],
   [MCGood EXCEPT !.backend.default = "Qemu", !.backend.nspawn.machine = FALSE]}

MCEnvironments ==
  {[SHARGON_CONFIG |-> "set",   XDG_CONFIG_HOME |-> "set",   HOME |-> "set"],
   [SHARGON_CONFIG |-> "empty", XDG_CONFIG_HOME |-> "set",   HOME |-> "set"],
   [SHARGON_CONFIG |-> "unset", XDG_CONFIG_HOME |-> "empty", HOME |-> "set"],
   [SHARGON_CONFIG |-> "unset", XDG_CONFIG_HOME |-> "unset", HOME |-> "empty"]}
=============================================================================
