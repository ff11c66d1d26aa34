----------------------------- MODULE MCReadFeed -----------------------------
(* Small instance of ReadFeed for TLC.                                     *)
EXTENDS ReadFeed

=============================================================================
