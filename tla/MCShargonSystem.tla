--------------------------- MODULE MCShargonSystem ---------------------------
\* Instances of ShargonSystem for TLC; the bounds are in the configuration.
EXTENDS ShargonSystem, TLC

\* Nothing tells clients apart.
ClientSymmetry == Permutations(Client)

\* Bound: after a restart, behaviours are followed until a machine is replaced.
FollowedAfterRestart == generation > 1 => next_machine_id <= PoolSize

=============================================================================
