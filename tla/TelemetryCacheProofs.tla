------------------------ MODULE TelemetryCacheProofs ------------------------
(***************************************************************************)
(* Machine-checked proofs about TelemetryCache, for every set of topics    *)
(* and values and every size of the queue and of the wire.                 *)
(***************************************************************************)
EXTENDS TelemetryCache, ReadCacheProofs

\* The inductive invariant: honesty of the cache needs honesty of the queue.
HonestInv == TypeOK /\ CacheInv

\* A notification built by the gateway is one the client may receive.
LEMMA CarryKeepsWire ==
  ASSUME NEW q \in Seq(Notice), NEW t \in Topics, NEW p \in Payload, NEW r \in BOOLEAN,
         r => t = SerialTopic /\ p \in Values
  PROVE  Carry(q, t, p, r) \in Seq(Notice)
<1>1. [topic |-> t, payload |-> p, retain |-> r] \in Notice
  BY DEF Notice
<1> QED
  BY <1>1 DEF Carry

\* Every step of the gateway, the network thread, the decoder and the clock.
LEMMA HonestStep == HonestInv /\ [Next]_vars => HonestInv'
<1> SUFFICES ASSUME HonestInv, [Next]_vars PROVE HonestInv'
  OBVIOUS
<1> USE DEF HonestInv, TypeOK
<1>0. CacheInv' => CacheTypeOK'
  BY DEF CacheInv
<1>e. <<>> \in Seq(Notice)
  OBVIOUS
<1>1. ASSUME NEW t \in Topics, NEW v \in Values \cup {Gone}, ItemChanges(t, v) PROVE HonestInv'
  <2>1. Carry(wire, t, v, FALSE) \in Seq(Notice)
    BY CarryKeepsWire DEF Payload
  <2>2. CacheInv'
    BY <1>1, CacheUnchanged DEF ItemChanges
  <2>3. connected \in BOOLEAN
    BY DEF CacheTypeOK
  <2> QED
    BY <1>0, <1>1, <2>1, <2>2, <2>3 DEF ItemChanges
<1>2. ASSUME NEW t \in Topics, ItemRepeated(t) \/ Noise(t) PROVE HonestInv'
  <2>1. Carry(wire, t, item[t], FALSE) \in Seq(Notice) /\ Carry(wire, t, Garbage, FALSE) \in Seq(Notice)
    BY CarryKeepsWire DEF Payload
  <2>2. CacheInv'
    BY <1>2, CacheUnchanged DEF ItemRepeated, Noise
  <2> QED
    BY <1>0, <1>2, <2>1, <2>2 DEF ItemRepeated, Noise
<1>3. ASSUME NEW v \in Values, Subscribed(v) PROVE HonestInv'
  <2>1. Carry(<<>>, SerialTopic, v, TRUE) \in Seq(Notice)
    BY <1>e, CarryKeepsWire, CacheAssumption DEF Payload, CacheAssumption
  <2>2. CacheInv'
    BY <1>3, SessionStep DEF Subscribed
  <2> QED
    BY <1>0, <1>3, <2>1, <2>2 DEF Subscribed
<1>4. CASE Lost
  <2>1. CacheInv'
    BY <1>4, SessionStep DEF Lost
  <2>2. current' \in [Topics -> BOOLEAN]
    BY <1>4 DEF Lost, Carries
  <2> QED
    BY <1>0, <1>e, <1>4, <2>1, <2>2 DEF Lost
<1>5. CASE Arrives
  <2>1. wire # <<>> /\ Head(wire) \in Notice /\ Tail(wire) \in Seq(Notice)
    BY <1>5 DEF Arrives
  <2>2. CacheInv'
    BY <1>5, <2>1, OnMessageStep DEF Arrives
  <2>3. current' \in [Topics -> BOOLEAN]
    BY <1>5 DEF Arrives
  <2> QED
    BY <1>0, <1>5, <2>1, <2>2, <2>3 DEF Arrives
<1>6. CASE Decoded
  BY <1>0, <1>6, HandleMessageStep DEF Decoded
<1>7. CASE Tick
  BY <1>0, <1>7, AgeingStep DEF Tick
<1>8. CASE UNCHANGED vars
  BY <1>0, <1>8, CacheUnchanged DEF vars
<1> QED
  BY <1>1, <1>2, <1>3, <1>4, <1>5, <1>6, <1>7, <1>8 DEF Next

\* The initial state.
LEMMA HonestInit == Init => HonestInv
  BY CacheInitInv DEF Init, HonestInv, TypeOK, CacheInv

\* Every state of the cache, the device and the wire is well typed.
THEOREM TypeCorrect == Spec => []TypeOK
<1>1. HonestInv => TypeOK
  BY DEF HonestInv
<1> QED
  BY <1>1, HonestInit, HonestStep, PTL DEF Spec

\* A cached value is never younger than the last live notification that carried
\* it, whatever is queued, dropped, replayed or lost (_on_message, _handle_message).
THEOREM AgeHonest == Spec => []AgeIsHonest
<1>1. HonestInv => AgeIsHonest
  BY DEF HonestInv, CacheInv
<1> QED
  BY <1>1, HonestInit, HonestStep, PTL DEF Spec

-----------------------------------------------------------------------------
\* The newest notification under way tells what the device holds.

\* A queue with one more notification.
LEMMA QueueGrows ==
  ASSUME NEW S, NEW q \in Seq(S), NEW m \in S, NEW t
  PROVE  /\ Taken(m, t) => NewestIs(Append(q, m), t, m.payload)
         /\ ~Taken(m, t) => /\ Carries(Append(q, m), t) <=> Carries(q, t)
                            /\ \A v : NewestIs(q, t, v) => NewestIs(Append(q, m), t, v)
<1> DEFINE r == Append(q, m)
<1>1. /\ DOMAIN q = 1 .. Len(q) /\ Len(q) \in Nat /\ DOMAIN r = 1 .. Len(q) + 1
      /\ r[Len(q) + 1] = m /\ \A i \in DOMAIN q : r[i] = q[i]
  OBVIOUS
<1> HIDE DEF r
<1>2. Taken(m, t) => NewestIs(r, t, m.payload)
  BY <1>1 DEF NewestIs
<1>3. ASSUME ~Taken(m, t) PROVE Carries(r, t) <=> Carries(q, t)
  <2>1. \A i \in DOMAIN r : i \in DOMAIN q \/ i = Len(q) + 1
    BY <1>1
  <2>2. \A i \in DOMAIN q : i \in DOMAIN r
    BY <1>1
  <2> QED
    BY <1>1, <1>3, <2>1, <2>2 DEF Carries
<1>4. ASSUME ~Taken(m, t), NEW v, NewestIs(q, t, v) PROVE NewestIs(r, t, v)
  <2>1. PICK i \in DOMAIN q : /\ Taken(q[i], t) /\ q[i].payload = v
                              /\ \A j \in DOMAIN q : j > i => ~Taken(q[j], t)
    BY <1>4 DEF NewestIs
  <2>2. i \in DOMAIN r /\ r[i] = q[i]
    BY <1>1
  <2>3. \A j \in DOMAIN r : j > i => ~Taken(r[j], t)
    BY <1>1, <1>4, <2>1
  <2> QED
    BY <2>1, <2>2, <2>3 DEF NewestIs
<1> QED
  BY <1>2, <1>3, <1>4 DEF r

\* A queue whose head is taken out.
LEMMA QueueShrinks ==
  ASSUME NEW S, NEW q \in Seq(S), q # <<>>, NEW t
  PROVE  /\ Carries(Tail(q), t) => Carries(q, t)
         /\ \A v : NewestIs(q, t, v) => IF Carries(Tail(q), t) THEN NewestIs(Tail(q), t, v)
                                        ELSE Taken(Head(q), t) /\ Head(q).payload = v
         /\ Carries(q, t) /\ ~Carries(Tail(q), t) => Taken(Head(q), t)
<1> DEFINE r == Tail(q)
<1>1. /\ DOMAIN q = 1 .. Len(q) /\ Len(q) \in Nat \ {0} /\ DOMAIN r = 1 .. Len(q) - 1
      /\ Head(q) = q[1] /\ \A i \in DOMAIN r : r[i] = q[i + 1]
  OBVIOUS
<1> HIDE DEF r
<1>2. /\ \A i \in DOMAIN r : i + 1 \in DOMAIN q
      /\ \A i \in DOMAIN q : i = 1 \/ (i - 1 \in DOMAIN r /\ r[i - 1] = q[i])
  BY <1>1
<1>3. Carries(r, t) => Carries(q, t)
  BY <1>1, <1>2 DEF Carries
<1>4. Carries(q, t) /\ ~Carries(r, t) => Taken(q[1], t)
  BY <1>2 DEF Carries
<1>5. ASSUME NEW v, NewestIs(q, t, v)
      PROVE  IF Carries(r, t) THEN NewestIs(r, t, v) ELSE Taken(q[1], t) /\ q[1].payload = v
  <2>1. PICK i \in DOMAIN q : /\ Taken(q[i], t) /\ q[i].payload = v
                              /\ \A j \in DOMAIN q : j > i => ~Taken(q[j], t)
    BY <1>5 DEF NewestIs
  <2>2. CASE i = 1
    <3>1. \A j \in DOMAIN r : ~Taken(r[j], t)
      BY <1>1, <1>2, <2>1, <2>2
    <3> QED
      BY <2>1, <2>2, <3>1 DEF Carries
  <2>3. CASE i # 1
    <3>1. i - 1 \in DOMAIN r /\ r[i - 1] = q[i]
      BY <1>2, <2>3
    <3>2. \A j \in DOMAIN r : j > i - 1 => ~Taken(r[j], t)
      BY <1>1, <1>2, <2>1
    <3> QED
      BY <2>1, <3>1, <3>2 DEF Carries, NewestIs
  <2> QED
    BY <2>2, <2>3
<1> QED
  BY <1>1, <1>3, <1>4, <1>5 DEF r

\* Waiting changes no notification.
LEMMA QueueAges ==
  ASSUME CacheTypeOK, NEW t
  PROVE  /\ Carries(AgedInbox, t) <=> Carries(inbox, t)
         /\ \A v : NewestIs(inbox, t, v) => NewestIs(AgedInbox, t, v)
<1>1. /\ DOMAIN AgedInbox = DOMAIN inbox
      /\ \A i \in DOMAIN inbox : /\ Taken(AgedInbox[i], t) <=> Taken(inbox[i], t)
                                 /\ AgedInbox[i].payload = inbox[i].payload
  BY AgedInboxFacts DEF Taken
<1> QED
  BY <1>1 DEF Carries, NewestIs

\* An item whose cache, queue and history stand still.
LEMMA TracksStands ==
  ASSUME NEW t \in Topics, Tracks(t), item'[t] = item[t], current'[t] => current[t],
         Carries(wire', t) <=> Carries(wire, t), Carries(inbox', t) <=> Carries(inbox, t),
         \A v : NewestIs(wire, t, v) => NewestIs(wire', t, v),
         \A v : NewestIs(inbox, t, v) => NewestIs(inbox', t, v),
         Agrees(t) => Agrees(t)'
  PROVE  Tracks(t)'
  BY DEF Tracks

\* What the gateway says of an item is the newest, and leaves the others alone.
LEMMA WireGrows ==
  ASSUME HonestInv, TrackInv, NEW t \in Topics, NEW p \in Payload,
         wire' = Carry(wire, t, p, FALSE), UNCHANGED cacheVars,
         \A u \in Topics : /\ u # t \/ p = Garbage => item'[u] = item[u]
                           /\ u # t \/ p = Garbage => current'[u] = current[u],
         p # Garbage => item'[t] = p
  PROVE  \A u \in Topics : Tracks(u)'
<1> DEFINE m == [topic |-> t, payload |-> p, retain |-> FALSE]
<1>1. m \in Notice /\ wire \in Seq(Notice) /\ wire' = Append(wire, m)
  BY DEF Notice, HonestInv, TypeOK, Carry
<1>2. \A u : Taken(m, u) <=> u = t /\ p # Garbage
  BY DEF Taken
<1>3. inbox' = inbox /\ cache' = cache
  BY DEF cacheVars
<1> HIDE DEF m
<1>4. ASSUME NEW u \in Topics, Taken(m, u) PROVE Tracks(u)'
  <2>1. NewestIs(wire', u, m.payload) /\ m.payload = p /\ item'[u] = p
    BY <1>1, <1>2, <1>4, QueueGrows DEF m
  <2>2. Carries(wire', u)
    BY <2>1 DEF NewestIs, Carries
  <2> QED
    BY <2>1, <2>2 DEF Tracks
<1>5. ASSUME NEW u \in Topics, ~Taken(m, u) PROVE Tracks(u)'
  <2>1. item'[u] = item[u] /\ current'[u] = current[u]
    BY <1>2, <1>5
  <2>2. /\ Carries(wire', u) <=> Carries(wire, u)
        /\ \A v : NewestIs(wire, u, v) => NewestIs(wire', u, v)
    BY <1>1, <1>5, QueueGrows
  <2>3. Agrees(u) => Agrees(u)'
    BY <1>3, <2>1 DEF Agrees
  <2> QED
    BY <1>3, <2>1, <2>2, <2>3, TracksStands DEF TrackInv
<1> QED
  BY <1>4, <1>5

\* A notification the client may receive, and its stamped copy.
LEMMA NoticeFacts ==
  ASSUME NEW m \in Notice
  PROVE  /\ m.topic \in Topics /\ m.payload \in Payload /\ m.retain \in BOOLEAN
         /\ m.retain => m.payload \in Values
         /\ Stamped(m) \in Received /\ Stamped(m).payload = m.payload
         /\ Stamped(m).retain = m.retain /\ Stamped(m).topic = m.topic
<1>1. /\ m.topic \in Topics /\ m.payload \in Payload /\ m.retain \in BOOLEAN
      /\ m.retain => m.payload \in Values
  BY CacheAssumption DEF CacheAssumption, Notice, Payload
<1>2. 0 \in Age
  BY CacheAssumption DEF CacheAssumption, Age
<1> QED
  BY <1>1, <1>2 DEF Stamped, Received

\* The network thread moves the oldest notification from the wire to the queue.
LEMMA ArrivesTracks == ASSUME HonestInv, TrackInv, Arrives PROVE TrackInv'
<1> DEFINE m == Head(wire)
           s == Stamped(m)
<1>1. /\ wire \in Seq(Notice) /\ wire # <<>> /\ m \in Notice /\ wire' = Tail(wire)
      /\ CacheTypeOK /\ connected
  BY DEF HonestInv, TypeOK, Arrives, OnMessage
<1>2. /\ AgedInbox \in Seq(Received) /\ s \in Received
      /\ s.retain => s.payload \in Values
      /\ \A u : Taken(s, u) <=> Taken(m, u)
      /\ s.payload = m.payload /\ m.topic \in Topics
  BY <1>1, NoticeFacts, AgedInboxFacts DEF Taken
<1> DEFINE fits == Fits
<1>3. /\ inbox' = IF fits THEN Append(AgedInbox, s) ELSE AgedInbox
      /\ cache' = AgedCache /\ item' = item /\ connected' = connected
      /\ current' = [current EXCEPT ![m.topic] = @ /\ (fits \/ m.retain \/ m.payload = Garbage)]
  BY DEF Arrives, OnMessage
<1> HIDE DEF m, s, fits
<1>4. ASSUME NEW t \in Topics PROVE Agrees(t) => Agrees(t)'
  BY <1>1, <1>3, AgedCacheFacts DEF Agrees
<1>5. \A i \in DOMAIN inbox' : inbox'[i].retain => inbox'[i].payload \in Values
  <2>1. \A i \in DOMAIN AgedInbox : AgedInbox[i].retain => AgedInbox[i].payload \in Values
    BY <1>1, AgedInboxFacts DEF TrackInv
  <2>2. \A i \in DOMAIN Append(AgedInbox, s) :
           \/ i \in DOMAIN AgedInbox /\ Append(AgedInbox, s)[i] = AgedInbox[i]
           \/ Append(AgedInbox, s)[i] = s
    BY <1>2
  <2> QED
    BY <1>2, <1>3, <2>1, <2>2
<1>6. ASSUME NEW t \in Topics, Taken(m, t) PROVE Tracks(t)'
  <2>1. SUFFICES ASSUME current'[t] PROVE /\ Carries(wire', t) => NewestIs(wire', t, item[t])
                                          /\ ~Carries(wire', t) => NewestIs(inbox', t, item[t])
                                          /\ ~Carries(wire', t) => Carries(inbox', t)
    BY <1>3 DEF Tracks
  <2>2. t = m.topic /\ ~m.retain /\ m.payload # Garbage /\ current \in [Topics -> BOOLEAN]
    BY <1>6 DEF Taken, HonestInv, TypeOK
  <2>3. current[t] /\ fits
    BY <1>3, <2>1, <2>2
  <2>4. Carries(wire, t)
    BY <1>1, <1>6 DEF Carries, m
  <2>5. NewestIs(wire, t, item[t])
    BY <2>3, <2>4 DEF TrackInv, Tracks
  <2>6. IF Carries(wire', t) THEN NewestIs(wire', t, item[t]) ELSE m.payload = item[t]
    BY <1>1, <2>5, QueueShrinks DEF m
  <2>7. NewestIs(inbox', t, m.payload)
    BY <1>2, <1>3, <1>6, <2>3, QueueGrows
  <2>8. Carries(inbox', t)
    BY <2>7 DEF NewestIs, Carries
  <2> QED
    BY <2>6, <2>7, <2>8
<1>7. ASSUME NEW t \in Topics, ~Taken(m, t) PROVE Tracks(t)'
  <2>1. current'[t] => current[t]
    BY <1>2, <1>3 DEF HonestInv, TypeOK
  <2>2. Carries(wire', t) <=> Carries(wire, t)
    BY <1>1, <1>7, QueueShrinks DEF m
  <2>3. ASSUME NEW v, NewestIs(wire, t, v) PROVE NewestIs(wire', t, v)
    BY <1>1, <1>7, <2>3, QueueShrinks DEF m
  <2>4. /\ Carries(inbox', t) <=> Carries(AgedInbox, t)
        /\ \A v : NewestIs(AgedInbox, t, v) => NewestIs(inbox', t, v)
    BY <1>2, <1>3, <1>7, QueueGrows
  <2>5. /\ Carries(inbox', t) <=> Carries(inbox, t)
        /\ \A v : NewestIs(inbox, t, v) => NewestIs(inbox', t, v)
    BY <1>1, <2>4, QueueAges
  <2> QED
    BY <1>3, <1>4, <2>1, <2>2, <2>3, <2>5, TracksStands DEF TrackInv
<1> QED
  BY <1>1, <1>3, <1>5, <1>6, <1>7 DEF TrackInv

\* The decoder takes the oldest notification of the queue into the cache.
LEMMA DecodedTracks == ASSUME HonestInv, TrackInv, Decoded PROVE TrackInv'
<1> DEFINE m == Head(inbox)
<1>1. /\ inbox \in Seq(Received) /\ inbox # <<>> /\ inbox' = Tail(inbox)
      /\ UNCHANGED <<item, wire, current, connected>> /\ m = inbox[1] /\ 1 \in DOMAIN inbox
  BY DEF HonestInv, TypeOK, CacheTypeOK, Decoded, HandleMessage
<1>2. /\ m \in Received /\ m.topic \in Topics /\ cache \in [Topics -> Entry \cup {NoEntry}]
      /\ m.retain => m.payload \in Values /\ m.topic = SerialTopic
  <2>1. m \in Received /\ cache \in [Topics -> Entry \cup {NoEntry}]
    BY <1>1 DEF HonestInv, TypeOK, CacheTypeOK
  <2>2. m.retain => m.payload \in Values /\ m.topic = SerialTopic
    BY <1>1 DEF HonestInv, CacheInv, QueueIsHonest, TrackInv
  <2> QED
    BY <2>1, <2>2 DEF Received
<1>3. \/ m.payload = Gone /\ cache' = CacheWithout(m.topic)
      \/ m.payload = Garbage /\ cache' = cache
      \/ m.payload \in Values /\ Replay(m) /\ cache' = cache
      \/ /\ m.payload \in Values /\ ~Replay(m)
         /\ cache' = [cache EXCEPT ![m.topic] = [value |-> m.payload, age |-> m.age]]
  BY DEF Decoded, HandleMessage
<1> HIDE DEF m
<1>4. \A i \in DOMAIN inbox' : inbox'[i].retain => inbox'[i].payload \in Values
  <2>1. \A i \in DOMAIN Tail(inbox) : i + 1 \in DOMAIN inbox /\ Tail(inbox)[i] = inbox[i + 1]
    BY <1>1
  <2> QED
    BY <1>1, <2>1 DEF TrackInv
<1>5. ASSUME NEW t \in Topics, ~Taken(m, t) PROVE Tracks(t)'
  <2>1. cache'[t] = cache[t]
    BY <1>2, <1>3, <1>5, CacheAssumption DEF CacheAssumption, Taken, Replay, CacheWithout
  <2>2. Agrees(t) => Agrees(t)'
    BY <1>1, <2>1 DEF Agrees
  <2>3. Carries(inbox', t) <=> Carries(inbox, t)
    BY <1>1, <1>5, QueueShrinks DEF m
  <2>4. ASSUME NEW v, NewestIs(inbox, t, v) PROVE NewestIs(inbox', t, v)
    BY <1>1, <1>5, <2>4, QueueShrinks DEF m
  <2> QED
    BY <1>1, <2>2, <2>3, <2>4, TracksStands DEF TrackInv
<1>6. ASSUME NEW t \in Topics, Taken(m, t) PROVE Tracks(t)'
  <2>1. SUFFICES ASSUME current[t], ~Carries(wire, t)
                 PROVE  /\ Carries(inbox', t) => NewestIs(inbox', t, item[t])
                        /\ ~Carries(inbox', t) => Agrees(t)'
    BY <1>1 DEF Tracks, TrackInv
  <2>2. Carries(inbox, t)
    BY <1>1, <1>6 DEF Carries
  <2>3. NewestIs(inbox, t, item[t])
    BY <2>1, <2>2 DEF TrackInv, Tracks
  <2>4. IF Carries(inbox', t) THEN NewestIs(inbox', t, item[t]) ELSE m.payload = item[t]
    BY <1>1, <2>3, QueueShrinks DEF m
  <2>5. m.payload = item[t] => Agrees(t)'
    <3>1. t = m.topic /\ ~Replay(m) /\ m.payload # Garbage
      BY <1>6 DEF Taken, Replay
    <3>2. CASE m.payload = Gone
      BY <1>1, <1>2, <1>3, <3>1, <3>2, CacheAssumption DEF CacheAssumption, Agrees, CacheWithout
    <3>3. CASE m.payload # Gone
      <4>1. cache'[t] = [value |-> m.payload, age |-> m.age]
        BY <1>2, <1>3, <3>1, <3>3
      <4>2. m.payload \in Values /\ m.age \in 0 .. AgeCap
        BY <1>2, <1>3, <3>1, <3>3 DEF Received, Age
      <4>3. cache'[t] # NoEntry /\ cache'[t].value = m.payload
        BY <4>1, <4>2, CacheAssumption DEF CacheAssumption
      <4> QED
        BY <1>1, <3>3, <4>3 DEF Agrees
    <3> QED
      BY <3>2, <3>3
  <2> QED
    BY <2>4, <2>5
<1> QED
  BY <1>1, <1>4, <1>5, <1>6 DEF TrackInv

\* Every other step: the gateway, the session and the clock.
LEMMA TrackStep == ASSUME HonestInv, TrackInv, [Next]_vars PROVE TrackInv'
<1>0. HonestInv /\ CacheTypeOK /\ item \in [Topics -> Values \cup {Gone}]
      /\ current \in [Topics -> BOOLEAN]
  BY DEF HonestInv, TypeOK
<1>1. ASSUME UNCHANGED <<cacheVars, item, wire, current>> PROVE TrackInv'
  <2>1. UNCHANGED <<connected, inbox, cache, item, wire, current>>
    BY <1>1 DEF cacheVars
  <2>2. \A t \in Topics : Tracks(t)'
    BY <2>1 DEF TrackInv, Tracks, Agrees
  <2> QED
    BY <2>1, <2>2 DEF TrackInv
<1>2. ASSUME NEW t \in Topics, NEW v \in Values \cup {Gone}, ItemChanges(t, v) PROVE TrackInv'
  <2>1. item' = [item EXCEPT ![t] = v] /\ current' = [current EXCEPT ![t] = connected]
        /\ UNCHANGED cacheVars
    BY <1>2 DEF ItemChanges
  <2>2. UNCHANGED <<connected, inbox, cache>> /\ v \in Payload /\ v # Garbage
    BY <2>1, CacheAssumption DEF CacheAssumption, cacheVars, Payload
  <2>3. CASE connected
    <3>1. wire' = Carry(wire, t, v, FALSE)
      BY <1>2, <2>3 DEF ItemChanges
    <3>2. \A u \in Topics : Tracks(u)'
      BY <1>0, <2>1, <2>2, <3>1, WireGrows
    <3> QED
      BY <2>2, <2>3, <3>2 DEF TrackInv
  <2>4. CASE ~connected
    <3>1. wire' = wire /\ current'[t] = connected
      BY <1>0, <1>2, <2>1, <2>4 DEF ItemChanges
    <3>2. ASSUME NEW u \in Topics PROVE Tracks(u)'
      <4>1. CASE u = t
        BY <2>4, <3>1, <4>1 DEF Tracks
      <4>2. CASE u # t
        BY <1>0, <2>1, <2>2, <3>1, <4>2 DEF TrackInv, Tracks, Agrees
      <4> QED
        BY <4>1, <4>2
    <3> QED
      BY <2>2, <3>1, <3>2 DEF TrackInv
  <2> QED
    BY <2>3, <2>4
<1>3. ASSUME NEW t \in Topics, ItemRepeated(t) PROVE TrackInv'
  <2>1. /\ connected /\ UNCHANGED <<cacheVars, item>> /\ wire' = Carry(wire, t, item[t], FALSE)
        /\ current' = [current EXCEPT ![t] = TRUE] /\ item[t] \in Payload /\ item[t] # Garbage
    BY <1>0, <1>3, CacheAssumption DEF CacheAssumption, ItemRepeated, Payload
  <2>2. \A u \in Topics : Tracks(u)'
    BY <1>0, <2>1, WireGrows
  <2> QED
    BY <2>1, <2>2 DEF TrackInv, cacheVars
<1>4. ASSUME NEW t \in Topics, Noise(t) PROVE TrackInv'
  <2>1. /\ connected /\ UNCHANGED <<cacheVars, item, current>>
        /\ wire' = Carry(wire, t, Garbage, FALSE) /\ Garbage \in Payload
    BY <1>4 DEF Noise, Payload
  <2>2. \A u \in Topics : Tracks(u)'
    BY <1>0, <2>1, WireGrows
  <2> QED
    BY <2>1, <2>2 DEF TrackInv, cacheVars
<1>5. ASSUME NEW v \in Values, Subscribed(v) PROVE TrackInv'
  <2> DEFINE m == [topic |-> SerialTopic, payload |-> v, retain |-> TRUE]
  <2>1. /\ connected' /\ wire = <<>> /\ wire' = Append(<<>>, m)
        /\ UNCHANGED <<item, current, inbox, cache>>
    BY <1>5 DEF Subscribed, SessionUp, Carry, TrackInv
  <2>2. m \in Notice /\ <<>> \in Seq(Notice) /\ \A t : ~Taken(m, t)
    BY DEF Notice, Taken
  <2> HIDE DEF m
  <2>3. ASSUME NEW t \in Topics PROVE Tracks(t)'
    <3>1. /\ Carries(wire', t) <=> Carries(wire, t)
          /\ \A w : NewestIs(wire, t, w) => NewestIs(wire', t, w)
      BY <2>1, <2>2, QueueGrows
    <3>2. Agrees(t) => Agrees(t)'
      BY <2>1 DEF Agrees
    <3> QED
      BY <2>1, <3>1, <3>2, TracksStands DEF TrackInv
  <2> QED
    BY <2>1, <2>3 DEF TrackInv
<1>6. CASE Lost
  <2>1. /\ wire' = <<>> /\ UNCHANGED <<item, cache>> /\ inbox' \in {inbox, <<>>}
        /\ \A t \in Topics : current'[t] => /\ current[t] /\ ~Carries(wire, t)
                                            /\ inbox' = inbox \/ ~Carries(inbox, t)
    BY <1>6 DEF Lost, SessionDown, Retire
  <2>2. \A t \in Topics : ~Carries(<<>>, t) /\ (Agrees(t) => Agrees(t)')
    BY <2>1 DEF Carries, Agrees
  <2>3. \A t \in Topics : Tracks(t)'
    BY <2>1, <2>2 DEF TrackInv, Tracks
  <2> QED
    BY <2>1, <2>3 DEF TrackInv
<1>7. CASE Tick
  <2>1. cache' = AgedCache /\ inbox' = AgedInbox /\ UNCHANGED <<item, wire, current, connected>>
    BY <1>7 DEF Tick, Ageing
  <2>2. ASSUME NEW t \in Topics PROVE Tracks(t)'
    <3>1. Agrees(t) => Agrees(t)'
      BY <1>0, <2>1, AgedCacheFacts DEF Agrees
    <3>2. /\ Carries(inbox', t) <=> Carries(inbox, t)
          /\ \A v : NewestIs(inbox, t, v) => NewestIs(inbox', t, v)
      BY <1>0, <2>1, QueueAges
    <3> QED
      BY <2>1, <3>1, <3>2, TracksStands DEF TrackInv
  <2>3. \A i \in DOMAIN inbox' : inbox'[i].retain => inbox'[i].payload \in Values
    BY <1>0, <2>1, AgedInboxFacts DEF TrackInv
  <2> QED
    BY <2>1, <2>2, <2>3 DEF TrackInv
<1>8. CASE UNCHANGED vars
  BY <1>1, <1>8 DEF vars
<1> QED
  BY <1>2, <1>3, <1>4, <1>5, <1>6, <1>7, <1>8, ArrivesTracks, DecodedTracks DEF Next

\* The initial state.
LEMMA TrackInit == Init => TrackInv
  BY DEF Init, CacheInit, TrackInv, Tracks

\* A cache that missed no notification of an item agrees with the device as soon as
\* none is under way: a removed item is not cached, whatever was queued, replayed or
\* lost (_on_message, _handle_message).
THEOREM CacheTracksDeviceHolds == Spec => []CacheTracksDevice
<1>1. TrackInv => CacheTracksDevice
  BY DEF TrackInv, Tracks, CacheTracksDevice
<1>2. HonestInv /\ TrackInv /\ [Next]_vars => (HonestInv /\ TrackInv)'
  BY HonestStep, TrackStep
<1> QED
  BY <1>1, <1>2, HonestInit, TrackInit, PTL DEF Spec

=============================================================================
