---------------------------- MODULE MCTaskClients ----------------------------
(* TaskClients for TLC: the configuration gives the constants their values. *)
EXTENDS TaskClients

=============================================================================
