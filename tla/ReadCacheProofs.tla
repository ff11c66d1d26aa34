-------------------------- MODULE ReadCacheProofs --------------------------
(***************************************************************************)
(* Lemmas about the steps of ReadCache, for every set of topics and values *)
(* and every queue size: each of them keeps the ages of the cache and of   *)
(* the queue honest.  The modules that extend ReadCache cite them.         *)
(***************************************************************************)
EXTENDS ReadCache, TLAPS

USE CacheAssumption DEF CacheAssumption

\* Ageing is monotone, bounded, and adds at most one.
LEMMA OlderFacts ==
  ASSUME NEW a \in Age, NEW b \in Age
  PROVE  /\ Older(a) \in Age
         /\ a <= Older(a) /\ Older(a) <= a + 1
         /\ a <= b => Older(a) <= Older(b)
  BY DEF Age, Older

\* What Older does to the cache.
LEMMA AgedCacheFacts ==
  ASSUME CacheTypeOK, NEW t \in Topics
  PROVE  /\ AgedCache \in [Topics -> Entry \cup {NoEntry}]
         /\ AgedCache[t] = NoEntry <=> cache[t] = NoEntry
         /\ cache[t] # NoEntry => /\ AgedCache[t].value = cache[t].value
                                  /\ AgedCache[t].age = Older(cache[t].age)
<1>1. ASSUME NEW u \in Topics, cache[u] # NoEntry
      PROVE  /\ cache[u] \in Entry
             /\ AgedEntry(cache[u]) \in Entry
             /\ AgedEntry(cache[u]).value = cache[u].value
             /\ AgedEntry(cache[u]).age = Older(cache[u].age)
  BY <1>1, OlderFacts DEF CacheTypeOK, AgedEntry, Entry
<1>2. NoEntry \notin Entry
  BY DEF Entry, Age
<1> QED
  BY <1>1, <1>2 DEF AgedCache, AgedEntry

\* What Older does to the queue.
LEMMA AgedInboxFacts ==
  ASSUME CacheTypeOK
  PROVE  /\ AgedInbox \in Seq(Received)
         /\ DOMAIN AgedInbox = DOMAIN inbox
         /\ \A i \in DOMAIN inbox :
              /\ AgedInbox[i].topic = inbox[i].topic
              /\ AgedInbox[i].payload = inbox[i].payload
              /\ AgedInbox[i].retain = inbox[i].retain
              /\ AgedInbox[i].age = Older(inbox[i].age)
<1>0. \A i \in DOMAIN inbox : inbox[i] \in Received
  BY DEF CacheTypeOK
<1>1. \A i \in DOMAIN inbox : inbox[i] \in Received /\ inbox[i].age \in Age
  BY <1>0 DEF Received
<1>2. \A i \in DOMAIN inbox : [inbox[i] EXCEPT !.age = Older(@)] \in Received
  BY <1>1, OlderFacts DEF Received
<1>3. DOMAIN inbox = 1 .. Len(inbox) /\ Len(inbox) \in Nat
  BY DEF CacheTypeOK
<1> QED
  BY <1>1, <1>2, <1>3 DEF AgedInbox, Received

\* A step in which time passes: everything gets older, except for a live message
\* that is received now.
TimePasses ==
  /\ cache' = AgedCache
  /\ connected' = connected /\ serialSeen' = serialSeen
  /\ heard' \in [Topics -> [Values -> Age]]
  /\ \A t \in Topics, v \in Values : heard'[t][v] <= Older(heard[t][v])

\* The cache stays honest while time passes.
LEMMA AgeingKeepsCacheHonest ==
  ASSUME CacheTypeOK, AgeIsHonest, TimePasses
  PROVE  AgeIsHonest'
<1> SUFFICES ASSUME NEW t \in Topics, cache'[t] # NoEntry
             PROVE  heard'[t][cache'[t].value] <= cache'[t].age
  BY DEF AgeIsHonest
<1>1. /\ cache[t] # NoEntry
      /\ cache'[t].value = cache[t].value
      /\ cache'[t].age = Older(cache[t].age)
  BY AgedCacheFacts DEF TimePasses
<1>2. cache[t].value \in Values /\ cache[t].age \in Age
  BY <1>1 DEF CacheTypeOK, Entry
<1>3. heard[t][cache[t].value] \in Age /\ heard'[t][cache[t].value] \in Age
  BY <1>2 DEF CacheTypeOK, TimePasses
<1>4. heard[t][cache[t].value] <= cache[t].age
  BY <1>1 DEF AgeIsHonest
<1>5. Older(heard[t][cache[t].value]) <= Older(cache[t].age)
  BY <1>2, <1>3, <1>4, OlderFacts
<1>6. heard'[t][cache[t].value] <= Older(heard[t][cache[t].value])
  BY <1>2 DEF TimePasses
<1>7. Older(heard[t][cache[t].value]) \in Age /\ Older(cache[t].age) \in Age
  BY <1>2, <1>3, OlderFacts
<1> QED
  BY <1>1, <1>3, <1>5, <1>6, <1>7 DEF Age

\* The aged queue is honest after time passed.
LEMMA AgeingKeepsQueueHonest ==
  ASSUME CacheTypeOK, QueueIsHonest, TimePasses, NEW i \in DOMAIN inbox
  PROVE  /\ AgedInbox[i].retain => AgedInbox[i].topic = SerialTopic
         /\ ~AgedInbox[i].retain /\ AgedInbox[i].payload \in Values =>
              heard'[AgedInbox[i].topic][AgedInbox[i].payload] <= AgedInbox[i].age
<1> DEFINE m == inbox[i]
<1>1. m \in Received
  BY DEF CacheTypeOK
<1>2. m.topic \in Topics /\ m.age \in Age
  BY <1>1 DEF Received
<1>3. /\ AgedInbox[i].retain = m.retain /\ AgedInbox[i].topic = m.topic
      /\ AgedInbox[i].payload = m.payload /\ AgedInbox[i].age = Older(m.age)
  BY AgedInboxFacts
<1>4. m.retain => m.topic = SerialTopic
  BY DEF QueueIsHonest
<1>5. ASSUME ~m.retain, m.payload \in Values
      PROVE  heard'[m.topic][m.payload] <= Older(m.age)
  <2>1. heard[m.topic][m.payload] \in Age /\ heard'[m.topic][m.payload] \in Age
    BY <1>2, <1>5 DEF CacheTypeOK, TimePasses
  <2>2. heard[m.topic][m.payload] <= m.age
    BY <1>5 DEF QueueIsHonest
  <2>3. heard'[m.topic][m.payload] <= Older(heard[m.topic][m.payload])
    BY <1>2, <1>5 DEF TimePasses
  <2>4. /\ Older(heard[m.topic][m.payload]) <= Older(m.age)
        /\ Older(heard[m.topic][m.payload]) \in Age /\ Older(m.age) \in Age
    BY <1>2, <2>1, <2>2, OlderFacts
  <2> QED
    BY <2>1, <2>3, <2>4 DEF Age
<1> QED
  BY <1>3, <1>4, <1>5

\* The clock alone.
LEMMA AgeingStep ==
  ASSUME CacheInv, Ageing
  PROVE  CacheInv' /\ TimePasses
<1> USE DEF CacheInv
<1>0. \A t \in Topics, v \in Values : Older(heard[t][v]) \in Age
  BY OlderFacts DEF CacheTypeOK
<1>1. /\ heard' \in [Topics -> [Values -> Age]]
      /\ \A t \in Topics, v \in Values : heard'[t][v] <= Older(heard[t][v])
  <2>1. \A t \in Topics, v \in Values : heard'[t][v] = Older(heard[t][v])
    BY DEF Ageing, AgedHeard
  <2>2. \A a \in Age : a <= a
    BY DEF Age
  <2>3. heard' \in [Topics -> [Values -> Age]]
    BY <1>0 DEF Ageing, AgedHeard
  <2> QED
    BY <1>0, <2>1, <2>2, <2>3
<1>2. TimePasses
  BY <1>1 DEF TimePasses, Ageing
<1>3. CacheTypeOK'
  BY <1>1, AgedCacheFacts, AgedInboxFacts DEF Ageing, CacheTypeOK
<1>4. QueueIsHonest'
  BY <1>2, AgeingKeepsQueueHonest, AgedInboxFacts DEF Ageing, QueueIsHonest
<1> QED
  BY <1>2, <1>3, <1>4, AgeingKeepsCacheHonest

\* _on_message: whether the message is queued or dropped.
LEMMA OnMessageStep ==
  ASSUME CacheInv, NEW m \in Notice, OnMessage(m)
  PROVE  CacheInv' /\ TimePasses
<1> USE DEF CacheInv
<1>0. /\ m.topic \in Topics /\ m.payload \in Payload /\ m.retain \in BOOLEAN
      /\ m.retain => m.topic = SerialTopic
  BY DEF Notice, Payload
<1>1. 0 \in Age /\ \A a \in Age : 0 <= a /\ a <= a
  BY DEF Age
<1>2. \A t \in Topics, v \in Values : Older(heard[t][v]) \in Age
  BY OlderFacts DEF CacheTypeOK
<1>3. /\ heard' \in [Topics -> [Values -> Age]]
      /\ \A t \in Topics, v \in Values : heard'[t][v] \in {0, Older(heard[t][v])}
      /\ Fits /\ m.payload \in Values /\ ~m.retain => heard'[m.topic][m.payload] = 0
  BY <1>0, <1>1, <1>2 DEF OnMessage
<1>4. TimePasses
  BY <1>1, <1>2, <1>3 DEF TimePasses, OnMessage
<1>5. Stamped(m) \in Received
  BY <1>0, <1>1 DEF Stamped, Received
<1>6. AgedInbox \in Seq(Received) /\ DOMAIN AgedInbox = DOMAIN inbox
  BY AgedInboxFacts
<1>7. inbox' \in Seq(Received)
  BY <1>5, <1>6 DEF OnMessage
<1>8. CacheTypeOK'
  BY <1>3, <1>7, AgedCacheFacts DEF OnMessage, CacheTypeOK
<1>9. QueueIsHonest'
  <2> SUFFICES ASSUME NEW i \in DOMAIN inbox'
               PROVE  /\ inbox'[i].retain => inbox'[i].topic = SerialTopic
                      /\ ~inbox'[i].retain /\ inbox'[i].payload \in Values =>
                           heard'[inbox'[i].topic][inbox'[i].payload] <= inbox'[i].age
    BY DEF QueueIsHonest
  <2>1. CASE i \in DOMAIN inbox
    <3>1. inbox'[i] = AgedInbox[i]
      BY <1>6, <2>1 DEF OnMessage
    <3> QED
      BY <1>4, <2>1, <3>1, AgeingKeepsQueueHonest
  <2>2. CASE i \notin DOMAIN inbox
    <3>1. Fits /\ inbox'[i] = Stamped(m)
      BY <1>5, <1>6, <2>2 DEF OnMessage
    <3> QED
      BY <1>0, <1>1, <1>3, <3>1 DEF Stamped
  <2> QED
    BY <2>1, <2>2
<1> QED
  BY <1>4, <1>8, <1>9, AgeingKeepsCacheHonest

\* _handle_message: what is cached carries the time of its receipt.
LEMMA HandleMessageStep ==
  ASSUME CacheInv, HandleMessage
  PROVE  CacheInv'
<1> USE DEF CacheInv
<1> DEFINE m == Head(inbox)
<1>1. /\ inbox # <<>> /\ 1 \in DOMAIN inbox /\ m = inbox[1] /\ m \in Received
      /\ inbox' = Tail(inbox) /\ Tail(inbox) \in Seq(Received)
  BY DEF HandleMessage, CacheTypeOK
<1>2. m.topic \in Topics /\ m.age \in Age /\ m.retain \in BOOLEAN
  BY <1>1 DEF Received
<1>3. UNCHANGED <<connected, heard>> /\ serialSeen' \in BOOLEAN
  BY DEF HandleMessage, CacheTypeOK
<1>4. NoEntry \notin Entry
  BY DEF Entry, Age
<1>5. \/ cache' = cache
      \/ cache' = [cache EXCEPT ![m.topic] = NoEntry]
      \/ /\ m.payload \in Values /\ ~(m.topic = SerialTopic /\ m.retain)
         /\ cache' = [cache EXCEPT ![m.topic] = [value |-> m.payload, age |-> m.age]]
  BY DEF HandleMessage, CacheWithout, Replay
<1>6. ASSUME cache' = cache \/ cache' = [cache EXCEPT ![m.topic] = NoEntry]
      PROVE  cache' \in [Topics -> Entry \cup {NoEntry}] /\ AgeIsHonest'
  <2>1. cache' \in [Topics -> Entry \cup {NoEntry}]
    BY <1>2, <1>6 DEF CacheTypeOK
  <2>2. AgeIsHonest'
    BY <1>2, <1>3, <1>6 DEF AgeIsHonest, CacheTypeOK
  <2> QED
    BY <2>1, <2>2
<1>7. ASSUME m.payload \in Values, ~(m.topic = SerialTopic /\ m.retain),
             cache' = [cache EXCEPT ![m.topic] = [value |-> m.payload, age |-> m.age]]
      PROVE  cache' \in [Topics -> Entry \cup {NoEntry}] /\ AgeIsHonest'
  <2>1. [value |-> m.payload, age |-> m.age] \in Entry
    BY <1>2, <1>7 DEF Entry
  <2>2. cache' \in [Topics -> Entry \cup {NoEntry}]
    BY <1>2, <1>7, <2>1 DEF CacheTypeOK
  <2>3. heard[m.topic][m.payload] <= m.age
    BY <1>1, <1>2, <1>7 DEF QueueIsHonest
  <2>4. AgeIsHonest'
    BY <1>2, <1>3, <1>7, <2>3 DEF AgeIsHonest, CacheTypeOK
  <2> QED
    BY <2>2, <2>4
<1>8. cache' \in [Topics -> Entry \cup {NoEntry}] /\ AgeIsHonest'
  BY <1>5, <1>6, <1>7
<1>9. CacheTypeOK'
  BY <1>1, <1>3, <1>8 DEF CacheTypeOK
<1>10. QueueIsHonest'
  <2>1. \A i \in DOMAIN inbox' : i + 1 \in DOMAIN inbox /\ inbox'[i] = inbox[i + 1]
    BY <1>1 DEF CacheTypeOK
  <2> QED
    BY <1>3, <2>1 DEF QueueIsHonest
<1> QED
  BY <1>8, <1>9, <1>10

\* Sessions that come and go touch neither the cache nor what was heard.
LEMMA SessionStep ==
  ASSUME CacheInv, SessionUp \/ SessionDown \/ Retire
  PROVE  CacheInv'
<1>1. <<>> \in Seq(Received) /\ DOMAIN <<>> = {}
  OBVIOUS
<1> QED
  BY <1>1 DEF CacheInv, CacheTypeOK, AgeIsHonest, QueueIsHonest, SessionUp, SessionDown, Retire

\* A step that leaves the cache component alone.
LEMMA CacheUnchanged == CacheInv /\ UNCHANGED cacheVars => CacheInv'
  BY DEF cacheVars, CacheInv, CacheTypeOK, AgeIsHonest, QueueIsHonest

\* The initial state.
LEMMA CacheInitInv == CacheInit => CacheInv
<1>1. <<>> \in Seq(Received) /\ DOMAIN <<>> = {} /\ AgeCap \in Age
  BY DEF Age
<1>2. ASSUME CacheInit PROVE CacheTypeOK
  <2>1. heard \in [Topics -> [Values -> Age]]
    BY <1>1, <1>2 DEF CacheInit
  <2>2. cache \in [Topics -> Entry \cup {NoEntry}] /\ inbox \in Seq(Received)
    BY <1>1, <1>2 DEF CacheInit
  <2> QED
    BY <1>2, <2>1, <2>2 DEF CacheInit, CacheTypeOK
<1>3. CacheInit => AgeIsHonest /\ QueueIsHonest
  BY <1>1 DEF CacheInit, AgeIsHonest, QueueIsHonest
<1> QED
  BY <1>2, <1>3 DEF CacheInv

=============================================================================
