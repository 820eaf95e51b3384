--------------------------- MODULE MCDaemonClients ---------------------------
\* Instances of DaemonClients for TLC; the processes are in the configurations.
EXTENDS DaemonClients
=============================================================================
