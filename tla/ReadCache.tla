----------------------------- MODULE ReadCache -----------------------------
(***************************************************************************)
(* The read cache of MQTTClient (mqtt_client.py): paho's network thread    *)
(* stamps a notification and queues it (_on_message), the worker decodes   *)
(* it into the cache (_handle_message).  The queue is bounded, sessions    *)
(* come and go, and disconnect() throws the queue away but keeps the       *)
(* cache.  What arrives is left open here: the modules that extend this    *)
(* one say where notifications come from.                                  *)
(*                                                                         *)
(* A receipt time is kept as the age it has now, as read_path() reports    *)
(* it.  Time advances with every reading of the clock (two readings are    *)
(* never at the same instant) and by itself (Tick).  Ages saturate at      *)
(* AgeCap, which lies above every limit they are compared to.              *)
(***************************************************************************)
EXTENDS Naturals, Sequences

CONSTANTS
  Topics,        \* item topics N/<portalId>/<type>/<instance>/<path>
  SerialTopic,   \* N/<portalId>/system/0/Serial, the one FlashMQ retains
  Values,        \* decoded item values
  Gone,          \* an empty payload: the D-Bus item disappeared
  Garbage,       \* a payload that is not JSON
  NoEntry,       \* nothing cached for a topic
  InboxMaxSize,  \* INBOX_MAXSIZE
  AgeCap         \* bound on ages

ASSUME CacheAssumption ==
  /\ SerialTopic \in Topics
  /\ Gone \notin Values /\ Garbage \notin Values /\ Gone # Garbage
  /\ NoEntry \notin [value : Values, age : 0 .. AgeCap]
  /\ InboxMaxSize \in Nat \ {0}
  /\ AgeCap \in Nat \ {0}

VARIABLES
  connected,   \* self._connected
  inbox,       \* self._inbox
  cache,       \* self._cache
  serialSeen,  \* self._retained_serial_seen
  heard        \* history: heard[t][v], age of the last live receipt of v on t

cacheVars == <<connected, inbox, cache, serialSeen, heard>>

-----------------------------------------------------------------------------

Age     == 0 .. AgeCap
Payload == Values \cup {Gone, Garbage}

\* A notification, live or replayed by the broker: only the Serial is retained,
\* and a retained message is never empty.
Notice ==
  [topic : Topics, payload : Payload, retain : {FALSE}]
    \cup [topic : {SerialTopic}, payload : Values, retain : {TRUE}]

Received == [topic : Topics, payload : Payload, retain : BOOLEAN, age : Age]
Entry    == [value : Values, age : Age]

Older(a) == IF a < AgeCap THEN a + 1 ELSE a

AgedEntry(e) == IF e = NoEntry THEN e ELSE [e EXCEPT !.age = Older(@)]
AgedCache    == [t \in Topics |-> AgedEntry(cache[t])]
AgedInbox    == [i \in DOMAIN inbox |-> [inbox[i] EXCEPT !.age = Older(@)]]
AgedHeard    == [t \in Topics |-> [v \in Values |-> Older(heard[t][v])]]

CacheInit ==
  /\ connected = FALSE
  /\ inbox = <<>>
  /\ cache = [t \in Topics |-> NoEntry]
  /\ serialSeen = FALSE
  /\ heard = [t \in Topics |-> [v \in Values |-> AgeCap]]

-----------------------------------------------------------------------------

Fits == Len(inbox) < InboxMaxSize

\* The message with the time of its receipt.
Stamped(m) == [topic |-> m.topic, payload |-> m.payload, retain |-> m.retain, age |-> 0]

\* _on_message: stamp the message and queue it; a full queue drops it.  The
\* reading of the clock makes everything else older.
OnMessage(m) ==
  /\ connected
  /\ cache' = AgedCache
  /\ inbox' = IF Fits THEN Append(AgedInbox, Stamped(m)) ELSE AgedInbox
  /\ heard' = [t \in Topics |-> [v \in Values |->
                 IF Fits /\ t = m.topic /\ v = m.payload /\ ~m.retain
                   THEN 0 ELSE Older(heard[t][v])]]
  /\ UNCHANGED <<connected, serialSeen>>

\* Mutant: a removed item stays cached.
CacheKeeping(t) == cache

\* self._cache.pop(topic, None)
CacheWithout(t) == [cache EXCEPT ![t] = NoEntry]

\* Mutant: a replayed Serial counts as live.
NeverReplay(m) == FALSE

Replay(m) == m.topic = SerialTopic /\ m.retain

\* _handle_message: an empty payload removes the entry, the retained Serial only
\* proves that its topic exists, anything else that is JSON is cached with the
\* time at which it was received.
HandleMessage ==
  LET m == Head(inbox) IN
  /\ inbox # <<>>
  /\ inbox' = Tail(inbox)
  /\ \/ /\ m.payload = Gone
        /\ cache' = CacheWithout(m.topic)
        /\ serialSeen' = (serialSeen /\ m.topic # SerialTopic)
     \/ /\ m.payload = Garbage
        /\ UNCHANGED <<cache, serialSeen>>
     \/ /\ m.payload \in Values /\ Replay(m)
        /\ serialSeen' = TRUE
        /\ UNCHANGED cache
     \/ /\ m.payload \in Values /\ ~Replay(m)
        /\ cache' = [cache EXCEPT ![m.topic] = [value |-> m.payload, age |-> m.age]]
        /\ UNCHANGED serialSeen
  /\ UNCHANGED <<connected, heard>>

\* _on_connect accepted; _on_disconnect: the transport stays and reconnects.
SessionUp ==
  /\ ~connected
  /\ connected' = TRUE
  /\ UNCHANGED <<inbox, cache, serialSeen, heard>>

SessionDown ==
  /\ connected
  /\ connected' = FALSE
  /\ UNCHANGED <<inbox, cache, serialSeen, heard>>

\* disconnect() retires the transport: _stop_transport also replaces the queue.
\* The cache stays, with its receipt times.
Retire ==
  /\ connected' = FALSE
  /\ inbox' = <<>>
  /\ UNCHANGED <<cache, serialSeen, heard>>

\* Everything gets older.
Ageing ==
  /\ cache' = AgedCache
  /\ inbox' = AgedInbox
  /\ heard' = AgedHeard
  /\ UNCHANGED <<connected, serialSeen>>

-----------------------------------------------------------------------------
(* Properties.                                                             *)

CacheTypeOK ==
  /\ connected \in BOOLEAN
  /\ inbox \in Seq(Received)
  /\ cache \in [Topics -> Entry \cup {NoEntry}]
  /\ serialSeen \in BOOLEAN
  /\ heard \in [Topics -> [Values -> Age]]

\* read_path() never reports a value younger than the last live notification that
\* carried it: time spent in the queue counts, and a retained replay is no
\* evidence ("decoder delay is part of the age", mqtt_client.py _on_message).
AgeIsHonest ==
  \A t \in Topics : cache[t] # NoEntry => heard[t][cache[t].value] <= cache[t].age

\* The same of what is still queued, and only the Serial is ever replayed.
QueueIsHonest ==
  \A i \in DOMAIN inbox :
    /\ inbox[i].retain => inbox[i].topic = SerialTopic
    /\ ~inbox[i].retain /\ inbox[i].payload \in Values =>
         heard[inbox[i].topic][inbox[i].payload] <= inbox[i].age

CacheInv == CacheTypeOK /\ AgeIsHonest /\ QueueIsHonest

=============================================================================
