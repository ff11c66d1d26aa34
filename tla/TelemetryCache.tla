--------------------------- MODULE TelemetryCache ---------------------------
(***************************************************************************)
(* The read cache between a device that changes and the readers: items     *)
(* change, disappear and come back, their notifications travel in order    *)
(* over a connection that is lost and restored, a new session replays the  *)
(* retained Serial, and the queue of ReadCache overflows.                  *)
(***************************************************************************)
EXTENDS ReadCache

CONSTANT WireMaxSize  \* bound on the notifications in flight

ASSUME WireAssumption == WireMaxSize \in Nat \ {0}

VARIABLES
  item,     \* item[t]: what the device holds (external)
  wire,     \* notifications in flight from the broker (external)
  current   \* history: no notification of t since its last change was lost

vars == <<cacheVars, item, wire, current>>

-----------------------------------------------------------------------------

Init ==
  /\ CacheInit
  /\ item \in [Topics -> Values \cup {Gone}]
  /\ wire = <<>>
  /\ current = [t \in Topics |-> FALSE]

Carry(q, t, p, r) == Append(q, [topic |-> t, payload |-> p, retain |-> r])

\* A live notification of t that the decoder will take in, and a queue with one.
Taken(m, t) == m.topic = t /\ ~m.retain /\ m.payload # Garbage

Carries(q, t) == \E i \in DOMAIN q : Taken(q[i], t)

Room == Len(wire) < WireMaxSize

\* An item gets another value or disappears; a connected client is notified.
ItemChanges(t, v) ==
  /\ v # item[t]
  /\ item' = [item EXCEPT ![t] = v]
  /\ connected => Room
  /\ wire' = IF connected THEN Carry(wire, t, v, FALSE) ELSE wire
  /\ current' = [current EXCEPT ![t] = connected]
  /\ UNCHANGED cacheVars

\* The gateway repeats the value of an item that exists: the full tree, a reply to
\* an R/ request, or a periodic notification.
ItemRepeated(t) ==
  /\ connected /\ Room
  /\ item[t] # Gone
  /\ wire' = Carry(wire, t, item[t], FALSE)
  /\ current' = [current EXCEPT ![t] = TRUE]
  /\ UNCHANGED <<cacheVars, item>>

\* A payload json.loads() rejects.
Noise(t) ==
  /\ connected /\ Room
  /\ wire' = Carry(wire, t, Garbage, FALSE)
  /\ UNCHANGED <<cacheVars, item, current>>

\* A session starts; subscribing replays the retained Serial, however old.
Subscribed(v) ==
  /\ SessionUp
  /\ wire' = Carry(<<>>, SerialTopic, v, TRUE)
  /\ UNCHANGED <<item, current>>

\* A session ends with whatever was in flight, and with the queue when the
\* transport is retired.
Lost ==
  /\ wire' = <<>>
  /\ \/ /\ SessionDown
        /\ current' = [t \in Topics |-> current[t] /\ ~Carries(wire, t)]
     \/ /\ Retire
        /\ current' = [t \in Topics |-> current[t] /\ ~Carries(wire, t) /\ ~Carries(inbox, t)]
  /\ UNCHANGED item

\* The network thread takes the next notification.
Arrives ==
  LET m == Head(wire) IN
  /\ wire # <<>>
  /\ wire' = Tail(wire)
  /\ OnMessage(m)
  /\ current' = [current EXCEPT ![m.topic] = @ /\ (Fits \/ m.retain \/ m.payload = Garbage)]
  /\ UNCHANGED item

Decoded == HandleMessage /\ UNCHANGED <<item, wire, current>>

Tick == Ageing /\ UNCHANGED <<item, wire, current>>

Next ==
  \/ \E t \in Topics, v \in Values \cup {Gone} : ItemChanges(t, v)
  \/ \E t \in Topics : ItemRepeated(t) \/ Noise(t)
  \/ \E v \in Values : Subscribed(v)
  \/ Lost \/ Arrives \/ Decoded \/ Tick

Spec == Init /\ [][Next]_vars

\* The network thread and the decoder run, and the keepalive makes the gateway
\* repeat every item it has.
Fairness ==
  /\ WF_vars(Arrives) /\ WF_vars(Decoded)
  /\ \A t \in Topics : SF_vars(ItemRepeated(t))

FairSpec == Spec /\ Fairness

-----------------------------------------------------------------------------
(* Properties.                                                             *)

TypeOK ==
  /\ CacheTypeOK
  /\ item \in [Topics -> Values \cup {Gone}]
  /\ wire \in Seq(Notice)
  /\ current \in [Topics -> BOOLEAN]

Agrees(t) ==
  IF item[t] = Gone THEN cache[t] = NoEntry
  ELSE cache[t] # NoEntry /\ cache[t].value = item[t]

\* When no notification of an item was lost and none is under way, the cache
\* agrees with the device: in particular a removed item is not cached and no
\* longer authorises anything (_handle_message), whatever was replayed.
CacheTracksDevice ==
  \A t \in Topics :
    current[t] /\ ~Carries(wire, t) /\ ~Carries(inbox, t) => Agrees(t)

\* INBOX_MAXSIZE: "when full, new messages are dropped (the next publish of any
\* topic refreshes the cache anyway)"; so in a session that lasts and has seen
\* everything from its start, an item that stays removed leaves the cache.
DropsAreRepaired ==
  \A t \in Topics :
    /\ [](~connected => cache[t] = NoEntry /\ ~Carries(inbox, t))
    /\ <>[](connected /\ item[t] = Gone)
    => <>[](cache[t] = NoEntry)

-----------------------------------------------------------------------------
(* The inductive strengthening of CacheTracksDevice: what is under way and  *)
(* newest is what the device holds.                                         *)

\* The newest notification of t in q carries v.
NewestIs(q, t, v) ==
  \E i \in DOMAIN q :
    /\ Taken(q[i], t) /\ q[i].payload = v
    /\ \A j \in DOMAIN q : j > i => ~Taken(q[j], t)

Tracks(t) ==
  current[t] =>
    /\ Carries(wire, t) => NewestIs(wire, t, item[t])
    /\ ~Carries(wire, t) /\ Carries(inbox, t) => NewestIs(inbox, t, item[t])
    /\ ~Carries(wire, t) /\ ~Carries(inbox, t) => Agrees(t)

TrackInv ==
  /\ connected \/ wire = <<>>
  /\ \A i \in DOMAIN inbox : inbox[i].retain => inbox[i].payload \in Values
  /\ \A t \in Topics : Tracks(t)

=============================================================================
