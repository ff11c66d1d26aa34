------------------------ MODULE TransportDiagnostics ------------------------
(***************************************************************************)
(* The transport diagnostics of MQTTClient (mqtt_client.py): a ring of     *)
(* events about one socket, fed by paho's socket and log callbacks and     *)
(* reported when a session ends.                                           *)
(*                                                                         *)
(* All callbacks run on paho's network thread, one after the other in the  *)
(* order paho gives them (net, external); other threads queue packets,     *)
(* begin a shutdown and retire the transport at any point in between.      *)
(* Only one transport exists at a time (MQTTLifecycle).                    *)
(***************************************************************************)
EXTENDS Naturals, Sequences

CONSTANTS
  RingSize,    \* TRANSPORT_EVENT_LIMIT
  MaxSockets,  \* bound on sockets
  MaxPings     \* bound on pings in a session

ASSUME DiagnosticsAssumption ==
  RingSize \in Nat \ {0} /\ MaxSockets \in Nat /\ MaxPings \in Nat

VARIABLES
  owned,      \* self.client is not None
  stopping,   \* self._stopping
  connected,  \* self._connected
  net,        \* paho: what its thread does next
  sock,       \* paho: client.socket(), or 0
  closing,    \* paho: the socket it is closing, or 0
  made,       \* paho: how many sockets it made
  up,         \* paho: CONNACK received on this socket
  out,        \* paho: what is in the output queue
  unanswered, \* paho: a PINGREQ waits for its answer
  written,    \* paho: and has left the queue
  gen,        \* self._socket_generation
  diag,       \* self._diagnostic_socket, or 0
  pending,    \* self._pending_pingreq_generation, or 0
  ring,       \* self._transport_events
  unreported, \* _transport_event_revision is not the reported one
  attempts,   \* self._pingreq_attempts
  pongs,      \* self._pingresp_received
  report      \* the events of the last warning

ownVars  == <<owned, stopping, connected>>
pahoVars == <<net, sock, closing, made, up, out, unanswered, written>>
diagVars == <<gen, diag, pending, ring, unreported, attempts, pongs, report>>
vars     == <<ownVars, pahoVars, diagVars>>

-----------------------------------------------------------------------------

Kinds  == {"open", "pingreq", "pingresp", "drained", "close"}
Events == [event : Kinds, gen : 0 .. MaxSockets, sampled : BOOLEAN]
Net    == {"idle", "opened", "pinging", "drained", "unregister", "close", "disconnect", "dead"}

Init ==
  /\ owned = FALSE /\ stopping = FALSE /\ connected = FALSE
  /\ net = "dead" /\ sock = 0 /\ closing = 0 /\ made = 0
  /\ up = FALSE /\ out = {} /\ unanswered = FALSE /\ written = FALSE
  /\ gen = 0 /\ diag = 0 /\ pending = 0 /\ ring = <<>> /\ unreported = TRUE
  /\ attempts = 0 /\ pongs = 0 /\ report = <<>>

-----------------------------------------------------------------------------
(* Recording.                                                              *)

\* deque(maxlen = TRANSPORT_EVENT_LIMIT): the oldest event gives way.
KeepLast(s) == IF Len(s) > RingSize THEN Tail(s) ELSE s

\* _record_transport_event for generation g and the socket d that is sampled
Recorded(s, e, g, d) == KeepLast(Append(s, [event |-> e, gen |-> g, sampled |-> d # 0]))

Record(e) ==
  /\ ring' = Recorded(ring, e, gen, diag)
  /\ unreported' = TRUE

-----------------------------------------------------------------------------
(* The shutdown and the next start.                                        *)

Start ==
  /\ ~owned
  /\ owned' = TRUE /\ stopping' = FALSE /\ connected' = FALSE
  /\ net' = "idle" /\ sock' = 0 /\ closing' = 0
  /\ up' = FALSE /\ out' = {} /\ unanswered' = FALSE /\ written' = FALSE
  /\ UNCHANGED <<made, diagVars>>

StopBegins ==
  /\ owned /\ ~stopping
  /\ stopping' = TRUE /\ connected' = FALSE
  /\ UNCHANGED <<owned, pahoVars, diagVars>>

\* The thread ends, as told to or by an exception.
ThreadEnds ==
  /\ net # "dead"
  /\ net' = "dead"
  /\ UNCHANGED <<ownVars, sock, closing, made, up, out, unanswered, written, diagVars>>

Retire ==
  /\ owned /\ stopping /\ net = "dead"
  /\ owned' = FALSE /\ stopping' = FALSE
  /\ diag' = 0 /\ pending' = 0
  /\ UNCHANGED <<connected, pahoVars, gen, ring, unreported, attempts, pongs, report>>

-----------------------------------------------------------------------------
(* A socket opens and gets its session.                                    *)

OpensSocket ==
  /\ net = "idle" /\ sock = 0 /\ made < MaxSockets
  /\ made' = made + 1 /\ sock' = made + 1
  /\ up' = FALSE /\ out' = {} /\ unanswered' = FALSE /\ written' = FALSE
  /\ net' = "opened"
  /\ UNCHANGED <<ownVars, closing, diagVars>>

\* Mutant: the events of the last socket stay.
RingKept == ring

\* self._transport_events.clear()
RingCleared == <<>>

OnSocketOpen ==
  /\ net = "opened" /\ net' = "idle"
  /\ IF stopping
       THEN UNCHANGED diagVars
       ELSE /\ gen' = gen + 1
            /\ diag' = sock
            /\ pending' = 0
            /\ ring' = Recorded(RingCleared, "open", gen + 1, sock)
            /\ unreported' = TRUE
            /\ UNCHANGED <<attempts, pongs, report>>
  /\ UNCHANGED <<ownVars, sock, closing, made, up, out, unanswered, written>>

\* CONNACK, accepted or not
OnConnectResets(accepted) ==
  /\ net = "idle" /\ sock # 0 /\ ~up
  /\ up' = accepted
  /\ IF stopping
       THEN UNCHANGED <<connected, diagVars>>
       ELSE /\ connected' = accepted
            /\ IF accepted
                 THEN attempts' = 0 /\ pongs' = 0 /\ pending' = 0
                 ELSE UNCHANGED <<attempts, pongs, pending>>
            /\ UNCHANGED <<gen, diag, ring, unreported, report>>
  /\ UNCHANGED <<owned, stopping, net, sock, closing, made, out, unanswered, written>>

-----------------------------------------------------------------------------
(* Pings and the output queue.                                             *)

\* The test of _on_log.
Logs == ~stopping /\ connected

\* "Sending PINGREQ" is logged before the packet is queued.
LogsPingreq ==
  /\ net = "idle" /\ up /\ sock # 0 /\ ~unanswered /\ attempts < MaxPings
  /\ net' = "pinging" /\ unanswered' = TRUE /\ written' = FALSE
  /\ IF Logs
       THEN Record("pingreq") /\ attempts' = attempts + 1 /\ pending' = gen
       ELSE UNCHANGED <<ring, unreported, attempts, pending>>
  /\ UNCHANGED <<ownVars, sock, closing, made, up, out, gen, diag, pongs, report>>

QueuesPingreq ==
  /\ net = "pinging" /\ net' = "idle"
  /\ out' = out \cup {"ping"}
  /\ UNCHANGED <<ownVars, sock, closing, made, up, unanswered, written, diagVars>>

\* Another thread publishes.
QueuesOther ==
  /\ sock # 0 /\ "data" \notin out
  /\ out' = out \cup {"data"}
  /\ UNCHANGED <<ownVars, net, sock, closing, made, up, unanswered, written, diagVars>>

\* The thread writes all there is and goes on to call on_socket_unregister_write.
Drains ==
  /\ net = "idle" /\ sock # 0 /\ out # {}
  /\ net' = "drained"
  /\ out' = {}
  /\ written' = (written \/ "ping" \in out)
  /\ UNCHANGED <<ownVars, sock, closing, made, up, unanswered, diagVars>>

LogsPingresp ==
  /\ net = "idle" /\ up /\ sock # 0 /\ unanswered /\ written
  /\ unanswered' = FALSE
  /\ IF Logs
       THEN Record("pingresp") /\ pongs' = pongs + 1
       ELSE UNCHANGED <<ring, unreported, pongs>>
  /\ UNCHANGED <<ownVars, net, sock, closing, made, up, out, written,
                 gen, diag, pending, attempts, report>>

\* Mutant: the socket of the callback is not compared with the client's.
DrainOfAny(s) ==
  ~stopping /\ connected /\ s = diag /\ out = {} /\ pending = gen

\* The test of _on_socket_unregister_write for socket s.
IsDrain(s) ==
  ~stopping /\ connected /\ s = diag /\ sock = s /\ out = {} /\ pending = gen

\* Mutant: one ping accounts for any number of drains.
PendingKept == pending

PendingAfterDrain == 0

OnUnregisterWrite(s) ==
  IF IsDrain(s)
    THEN Record("drained") /\ pending' = PendingAfterDrain
    ELSE UNCHANGED <<ring, unreported, pending>>

UnregistersWrite ==
  /\ net = "drained" /\ net' = "idle"
  /\ OnUnregisterWrite(sock)
  /\ UNCHANGED <<ownVars, sock, closing, made, up, out, unanswered, written,
                 gen, diag, attempts, pongs, report>>

-----------------------------------------------------------------------------
(* A socket closes: client.socket() is cleared, then the callbacks follow. *)

\* What of its queue paho still has then is left open.
Loses ==
  /\ net = "idle" /\ sock # 0
  /\ out' \in {out, {}}
  /\ closing' = sock /\ sock' = 0 /\ up' = FALSE
  /\ net' = "unregister"
  /\ UNCHANGED <<ownVars, made, unanswered, written, diagVars>>

UnregistersOnClose ==
  /\ net = "unregister" /\ net' = "close"
  /\ OnUnregisterWrite(closing)
  /\ UNCHANGED <<ownVars, sock, closing, made, up, out, unanswered, written,
                 gen, diag, attempts, pongs, report>>

\* Mutant: only a session's end is worth an event.
IsCloseOfSession(s) == ~stopping /\ connected /\ s = diag

\* The test of _on_socket_close.
IsClose(s) == ~stopping /\ s = diag

OnSocketClose ==
  /\ net = "close" /\ net' = "disconnect"
  /\ closing' = 0
  /\ IF IsClose(closing)
       THEN Record("close") /\ diag' = 0 /\ pending' = 0
       ELSE UNCHANGED <<ring, unreported, diag, pending>>
  /\ UNCHANGED <<ownVars, sock, made, up, out, unanswered, written, gen, attempts, pongs, report>>

\* on_disconnect, which paho may call twice for one loss
OnDisconnectReports ==
  /\ net = "disconnect"
  /\ net' \in {"disconnect", "idle"}
  /\ IF stopping
       THEN UNCHANGED <<connected, unreported, report>>
       ELSE /\ connected' = FALSE
            /\ report' = IF unreported THEN ring ELSE <<>>
            /\ unreported' = FALSE
  /\ UNCHANGED <<owned, stopping, sock, closing, made, up, out, unanswered, written,
                 gen, diag, pending, ring, attempts, pongs>>

-----------------------------------------------------------------------------

Next ==
  \/ Start \/ StopBegins \/ ThreadEnds \/ Retire
  \/ OpensSocket \/ OnSocketOpen \/ \E a \in BOOLEAN : OnConnectResets(a)
  \/ LogsPingreq \/ QueuesPingreq \/ QueuesOther \/ Drains \/ UnregistersWrite \/ LogsPingresp
  \/ Loses \/ UnregistersOnClose \/ OnSocketClose \/ OnDisconnectReports

Spec == Init /\ [][Next]_vars

-----------------------------------------------------------------------------
(* Properties.                                                             *)

TypeOK ==
  /\ owned \in BOOLEAN /\ stopping \in BOOLEAN /\ connected \in BOOLEAN
  /\ net \in Net /\ sock \in 0 .. MaxSockets /\ closing \in 0 .. MaxSockets /\ made \in 0 .. MaxSockets
  /\ up \in BOOLEAN /\ out \subseteq {"ping", "data"}
  /\ unanswered \in BOOLEAN /\ written \in BOOLEAN
  /\ gen \in 0 .. MaxSockets /\ diag \in 0 .. MaxSockets /\ pending \in 0 .. MaxSockets
  /\ ring \in Seq(Events) /\ Len(ring) <= RingSize /\ unreported \in BOOLEAN
  /\ attempts \in 0 .. MaxPings /\ pongs \in 0 .. MaxPings
  /\ report \in Seq(Events)

\* The ring tells of one socket only, the latest, and every event was measured on a
\* socket that was still there, whatever became of transports in between.
RingTellsOneSocket ==
  \A i \in DOMAIN ring : ring[i].gen = gen /\ ring[i].sampled

\* Between two drained queues lies a PINGREQ, and before the first one too unless
\* the ring has lost it (README: "subsequently drained on the same live socket").
DrainedWasPinged ==
  LET At(e) == {i \in DOMAIN ring : ring[i].event = e} IN
  \A j \in At("drained") :
    /\ \A i \in At("drained") : i < j => \E k \in At("pingreq") : i < k /\ k < j
    /\ Len(ring) < RingSize => \E k \in At("pingreq") : k < j

\* A drained queue is only reported once the PINGREQ has been written, although
\* other threads queue packets and the socket may be closing.
DrainedMeansWritten ==
  [][ring' # ring /\ ring' # <<>> /\ ring'[Len(ring')].event = "drained" => written /\ sock # 0]_vars

\* The warning of a disconnect that carries events ends with the close of the socket
\* it is about, also for a socket that never got its CONNACK.
WarningShowsClose ==
  report # <<>> => report[Len(report)].event = "close"

-----------------------------------------------------------------------------
(* The inductive strengthening of the properties.                          *)

\* While no shutdown has begun the diagnostics follow paho's socket: the one that is
\* open, or the one being closed; and a session is up only on such a socket.
SocketSound ==
  /\ net # "dead" => owned
  /\ connected => owned /\ ~stopping
  /\ connected /\ net \in {"idle", "pinging", "drained"} => sock # 0
  /\ net \in {"opened", "pinging", "drained"} => sock # 0
  /\ net = "opened" => ~connected
  /\ up => sock # 0
  /\ net \in {"unregister", "close", "disconnect"} => sock = 0
  /\ net \in {"unregister", "close"} => closing # 0
  /\ ~stopping /\ net \in {"idle", "pinging", "drained"} /\ sock # 0 => diag = sock
  /\ ~stopping /\ net \in {"unregister", "close"} => diag = closing

\* Sockets and pings are counted: no more generations than sockets, no more answers
\* than pings.
CountSound ==
  /\ gen <= made /\ (net = "opened" => gen < made)
  /\ diag # 0 => gen # 0
  /\ up /\ ~stopping /\ net # "dead" => connected
  /\ unanswered /\ sock # 0 => up
  /\ pongs <= attempts
  /\ unanswered /\ connected => pongs < attempts

\* A ping that has been logged and not accounted for is on its way or written.
PingSound ==
  /\ ~owned => pending = 0
  /\ ~stopping /\ net \in {"idle", "disconnect"} /\ sock = 0 => pending = 0
  /\ ~stopping /\ net = "opened" => pending = 0
  /\ ~stopping /\ net \in {"idle", "drained"} /\ sock # 0 /\ pending # 0 => "ping" \in out \/ written

\* As long as it is not accounted for, its event follows every drained queue.
PendingIsNewest ==
  pending # 0 =>
    /\ \A i \in DOMAIN ring : ring[i].event = "drained" =>
         \E k \in DOMAIN ring : i < k /\ ring[k].event = "pingreq"
    /\ Len(ring) < RingSize => \E k \in DOMAIN ring : ring[k].event = "pingreq"

\* The socket whose end is about to be reported has its event.
CloseIsLast ==
  ~stopping /\ net = "disconnect" => ring # <<>> /\ ring[Len(ring)].event = "close"

DiagInv ==
  /\ TypeOK /\ SocketSound /\ CountSound /\ PingSound
  /\ RingTellsOneSocket /\ PendingIsNewest /\ DrainedWasPinged
  /\ CloseIsLast /\ WarningShowsClose

=============================================================================
