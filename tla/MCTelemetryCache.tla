-------------------------- MODULE MCTelemetryCache --------------------------
(* Small instance of TelemetryCache for TLC.                               *)
EXTENDS TelemetryCache, TLC

\* Values are interchangeable.
Symmetry == Permutations(Values)

=============================================================================
