--------------------------- MODULE MCNspawnBackend ---------------------------
\* Instances of NspawnBackend for TLC; the bounds are in the configurations.
EXTENDS NspawnBackend

\* Bound: behaviours are followed until two units are orphaned at a time.
OneOrphan == Cardinality({t \in TaskId : unit[t] = "orphaned"}) <= 1

=============================================================================
