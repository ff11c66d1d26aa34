-------------------------- MODULE MCMQTTLifecycle --------------------------
(* Small instance of MQTTLifecycle for TLC.                                *)
EXTENDS MQTTLifecycle, TLC

\* The threads and calls are interchangeable in the safety run.
Symmetry == Permutations(Transports) \cup Permutations(Calls)

=============================================================================
