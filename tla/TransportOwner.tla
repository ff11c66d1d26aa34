--------------------------- MODULE TransportOwner ---------------------------
(***************************************************************************)
(* What MQTTClient promises about its broker connection, without saying    *)
(* how: it owns at most one transport at a time; the two threads of a      *)
(* transport exist only while it is owned; a session is reported only      *)
(* after both threads were started, and the decoder does not end while it  *)
(* is; a transport is given up only when both threads are gone.            *)
(* MQTTLifecycle implements this specification.                            *)
(***************************************************************************)
CONSTANTS Transports, NoTransport

Threads == {"network", "decoder"}

VARIABLES
  owner,    \* the owned transport, or NoTransport
  threads,  \* threads[t]: which threads of t are alive
  session   \* the client reports an accepted session

vars == <<owner, threads, session>>

Init ==
  /\ owner = NoTransport
  /\ threads = [t \in Transports |-> {}]
  /\ session = FALSE

Adopt(t) ==
  /\ owner = NoTransport
  /\ owner' = t
  /\ UNCHANGED <<threads, session>>

\* The decoder is started first, so that no message finds nobody to take it.
Spawn(k) ==
  /\ owner # NoTransport
  /\ k = "network" => "decoder" \in threads[owner]
  /\ threads' = [threads EXCEPT ![owner] = @ \cup {k}]
  /\ UNCHANGED <<owner, session>>

\* The network thread may die under a session; the decoder may not.
End(k) ==
  /\ owner # NoTransport
  /\ k = "decoder" => ~session
  /\ threads' = [threads EXCEPT ![owner] = @ \ {k}]
  /\ UNCHANGED <<owner, session>>

Up ==
  /\ owner # NoTransport
  /\ threads[owner] = Threads
  /\ session' = TRUE
  /\ UNCHANGED <<owner, threads>>

Down ==
  /\ session' = FALSE
  /\ UNCHANGED <<owner, threads>>

Retire ==
  /\ ~session
  /\ threads = [t \in Transports |-> {}]
  /\ owner' = NoTransport
  /\ UNCHANGED <<threads, session>>

Next ==
  \/ \E t \in Transports : Adopt(t)
  \/ \E k \in Threads : Spawn(k) \/ End(k)
  \/ Up \/ Down \/ Retire

Spec == Init /\ [][Next]_vars

=============================================================================
