---------------------- MODULE MCTransportDiagnostics ------------------------
(* Small instance of TransportDiagnostics for TLC.                         *)
EXTENDS TransportDiagnostics

=============================================================================
