---------------------------- MODULE MCSSHClient -----------------------------
(* Small instance of SSHClient for TLC.                                    *)
EXTENDS SSHClient

=============================================================================
