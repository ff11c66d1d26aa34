--------------------------- MODULE Subscriptions ---------------------------
(***************************************************************************)
(* The explicit subscriptions of MQTTClient.  Callers on the event loop    *)
(* and callbacks on the decoder thread register and remove callbacks under *)
(* the callback lock, and then, outside of it, look at the session and     *)
(* tell the broker.  paho's network thread takes a snapshot of the         *)
(* registrations on each connection.  A session is clean: the broker       *)
(* starts it without subscriptions, and takes packets in the order sent.   *)
(***************************************************************************)
EXTENDS FiniteSets, Naturals

CONSTANTS
  Callers,      \* threads with a callback of their own
  Patterns,     \* topic patterns
  BasePatterns, \* those that the base subscriptions cover
  MaxSessions

ASSUME SubscriptionAssumption == Patterns # {} /\ BasePatterns \subseteq Patterns /\ MaxSessions \in Nat

VARIABLES
  callbacks,  \* self._callbacks: the callers registered for each pattern
  session,    \* self._connected
  link,       \* the broker's side of the connection
  broker,     \* the broker's subscriptions of this session
  network,    \* the network thread in _on_connect: [pc, todo]
  caller,     \* the callers: [pc, pattern]
  sessions,
  crossed     \* history: patterns registered again before the removal was sent

subVars == <<callbacks, session, link, broker, network, caller, sessions, crossed>>

Resting == [pc |-> "idle", pattern |-> CHOOSE p \in Patterns : TRUE]
Quiet == [pc |-> "idle", todo |-> {}]

SubInit ==
  /\ callbacks = [p \in Patterns |-> {}]
  /\ session = FALSE /\ link = FALSE /\ broker = {}
  /\ network = Quiet
  /\ caller = [c \in Callers |-> Resting]
  /\ sessions = 0 /\ crossed = {}

\* Removals that took the last callback and still have to tell the broker.
Removing == {caller[c].pattern : c \in {d \in Callers : caller[d].pc = "unsubscribe"}}

\* subscribe(), the part under the lock.
Register(c, p) ==
  /\ caller[c].pc = "idle" /\ c \notin callbacks[p]
  /\ callbacks' = [callbacks EXCEPT ![p] = @ \cup {c}]
  /\ caller' = [caller EXCEPT ![c] = [pc |-> "subscribe", pattern |-> p]]
  /\ crossed' = crossed \cup ({p} \cap Removing)
  /\ UNCHANGED <<session, link, broker, network, sessions>>

\* Mutant: a pattern that the base covers is sent like any other.
NoneCovered(p) == FALSE

\* _covered_by_base().
CoveredByBase(p) == p \in BasePatterns

\* The test of the session and the SUBSCRIBE; without a link paho drops it.
SendSubscribe(c) ==
  LET p == caller[c].pattern IN
  /\ caller[c].pc = "subscribe"
  /\ broker' = IF session /\ link /\ ~CoveredByBase(p) THEN broker \cup {p} ELSE broker
  /\ caller' = [caller EXCEPT ![c] = Resting]
  /\ UNCHANGED <<callbacks, session, link, network, sessions, crossed>>

\* unsubscribe(), the part under the lock.
Unregister(c, p) ==
  /\ caller[c].pc = "idle" /\ c \in callbacks[p]
  /\ callbacks' = [callbacks EXCEPT ![p] = @ \ {c}]
  /\ caller' = [caller EXCEPT ![c] = IF callbacks[p] = {c}
                                     THEN [pc |-> "unsubscribe", pattern |-> p] ELSE @]
  /\ UNCHANGED <<session, link, broker, network, sessions, crossed>>

SendUnsubscribe(c) ==
  LET p == caller[c].pattern IN
  /\ caller[c].pc = "unsubscribe"
  /\ broker' = IF session /\ link /\ ~CoveredByBase(p) THEN broker \ {p} ELSE broker
  /\ caller' = [caller EXCEPT ![c] = Resting]
  /\ UNCHANGED <<callbacks, session, link, network, sessions, crossed>>
-----------------------------------------------------------------------------
\* The broker accepts a connection.
Accepted ==
  /\ ~link /\ ~session /\ network = Quiet /\ sessions < MaxSessions
  /\ sessions' = sessions + 1
  /\ link' = TRUE /\ broker' = {}
  /\ crossed' = Removing
  /\ network' = [pc |-> "connect", todo |-> {}]
  /\ UNCHANGED <<callbacks, session, caller>>

Registered == {p \in Patterns : callbacks[p] # {}}

\* _on_connect: first the flag, ...
OnConnect ==
  /\ network.pc = "connect"
  /\ session' = TRUE
  /\ network' = [pc |-> "snapshot", todo |-> {}]
  /\ UNCHANGED <<callbacks, link, broker, caller, sessions, crossed>>

\* ... then the snapshot of the registrations, ...
Snapshot ==
  /\ network.pc = "snapshot"
  /\ network' = [pc |-> "subscribe", todo |-> BasePatterns \cup Registered]
  /\ UNCHANGED <<callbacks, session, link, broker, caller, sessions, crossed>>

\* ... then one SUBSCRIBE after the other.
Resubscribe(p) ==
  /\ network.pc = "subscribe" /\ p \in network.todo
  /\ broker' = IF link THEN broker \cup {p} ELSE broker
  /\ network' = [network EXCEPT !.todo = @ \ {p}]
  /\ UNCHANGED <<callbacks, session, link, caller, sessions, crossed>>

Resubscribed ==
  /\ network.pc = "subscribe" /\ network.todo = {}
  /\ network' = Quiet
  /\ UNCHANGED <<callbacks, session, link, broker, caller, sessions, crossed>>

\* The connection breaks; the network thread notices when it is done.
Broken ==
  /\ link
  /\ link' = FALSE /\ broker' = {}
  /\ UNCHANGED <<callbacks, session, network, caller, sessions, crossed>>

OnDisconnect ==
  /\ ~link /\ session /\ network = Quiet
  /\ session' = FALSE
  /\ UNCHANGED <<callbacks, link, broker, network, caller, sessions, crossed>>

SubNext ==
  \/ \E c \in Callers : \/ SendSubscribe(c) \/ SendUnsubscribe(c)
                        \/ \E p \in Patterns : Register(c, p) \/ Unregister(c, p)
  \/ Accepted \/ OnConnect \/ Snapshot \/ Resubscribed \/ Broken \/ OnDisconnect
  \/ \E p \in Patterns : Resubscribe(p)

SubSpec == SubInit /\ [][SubNext]_subVars
-----------------------------------------------------------------------------
(***************************************************************************)
(* The shape of the state (MQTTClient.__init__, and what the broker and    *)
(* the network thread keep for the session).                               *)
(***************************************************************************)
SubTypeOK ==
  /\ callbacks \in [Patterns -> SUBSET Callers]
  /\ session \in BOOLEAN /\ link \in BOOLEAN
  /\ broker \subseteq Patterns /\ crossed \subseteq Patterns
  /\ network \in [pc : {"idle", "connect", "snapshot", "subscribe"}, todo : SUBSET Patterns]
  /\ caller \in [Callers -> [pc : {"idle", "subscribe", "unsubscribe"}, pattern : Patterns]]
  /\ sessions \in Nat

(***************************************************************************)
(* No subscription is lost to a race with a reconnect: once the network    *)
(* thread and the callers are done, the broker has every base pattern and  *)
(* every pattern with a callback, but for one that was registered again    *)
(* while its removal was still on its way, which stays unknown to the      *)
(* broker until the next session (subscribe, unsubscribe, _on_connect).    *)
(***************************************************************************)
NoSubscriptionLost ==
  link /\ session /\ network = Quiet =>
    /\ BasePatterns \subseteq broker
    /\ \A p \in Registered \ crossed :
         (\A c \in Callers : caller[c].pc = "subscribe" => caller[c].pattern # p) => p \in broker

\* A removal on its way concerns a pattern that nobody wants, or one that crossed.
RemovalsAreKnown == Removing \cap Registered \subseteq crossed

\* From the snapshot on, what the broker lacks is still to be sent: by the network
\* thread, or by the caller that registered it.
NothingForgotten ==
  link /\ session /\ network.pc \in {"idle", "subscribe"} =>
    /\ BasePatterns \subseteq broker \cup network.todo
    /\ \A p \in Registered \ crossed :
         (\A c \in Callers : caller[c].pc = "subscribe" => caller[c].pattern # p)
           => p \in broker \cup network.todo

\* The inductive strengthening of NoSubscriptionLost.
SubInv == SubTypeOK /\ RemovalsAreKnown /\ NothingForgotten
=============================================================================
