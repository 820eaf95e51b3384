--------------------------- MODULE MCDaemonSocket ---------------------------
\* Instances of DaemonSocket for TLC; the daemons are in the configurations.
EXTENDS DaemonSocket
=============================================================================
